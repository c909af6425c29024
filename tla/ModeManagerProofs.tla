-------------------------- MODULE ModeManagerProofs -------------------------
(***************************************************************************)
(* Proofs about ModeManager for any set of requesting tasks and any limit  *)
(* of the IMU counter.  Everything follows from one inductive invariant:   *)
(* the latch is empty outside FAILSAFE, and what a request in progress has *)
(* read of the data pool is still what the pool holds.                     *)
(***************************************************************************)
EXTENDS ModeManager, TLAPS

IInv == TypeOK /\ FlagsOnlyInFailsafe /\ SnapshotsFresh

(* What can be read off the pool is a set of faults, and is a function of the
   two fields of the pool. *)
LEMMA DynamicFaultsType == DynamicFaults \in SUBSET Faults
BY DEF DynamicFaults, Faults

LEMMA DynamicFaultsStable == UNCHANGED poolVars => DynamicFaults' = DynamicFaults
BY DEF DynamicFaults, poolVars

-----------------------------------------------------------------------------
(* Initially the program is in STANDBY, healthy, and nobody requests anything. *)
LEMMA InitIInv == Init => IInv
<1> SUFFICES ASSUME Init PROVE IInv
  OBVIOUS
<1> USE DEF Init
<1>1. TypeOK
  <2>1. call \in [Clients -> CallStates]
    BY DEF CallStates
  <2>2. s_imu_mismatch_cnt \in 0..FailLimit
    BY FailLimitAssumption
  <2> QED
    BY <2>1, <2>2 DEF TypeOK, SysModes, MotionModes
<1>2. FlagsOnlyInFailsafe
  BY DEF FlagsOnlyInFailsafe
<1>3. SnapshotsFresh
  BY DEF SnapshotsFresh, Idle
<1> QED
  BY <1>1, <1>2, <1>3 DEF IInv

(* Entering FAILSAFE with any faults keeps the types and the latch right. *)
LEMMA EnterFailsafeKeeps ==
  ASSUME TypeOK, NEW F \in SUBSET Faults, EnterFailsafe(F)
  PROVE  /\ s_sys_mode' \in SysModes /\ s_motion_mode' \in MotionModes
         /\ s_fault_flags' \in SUBSET Faults
         /\ FlagsOnlyInFailsafe'
BY DEF TypeOK, EnterFailsafe, SysModes, FlagsOnlyInFailsafe

(* A request that moves along leaves the other clients where they are. *)
LEMMA CallStep ==
  ASSUME TypeOK, NEW c \in Clients, NEW s \in CallStates,
         call' = [call EXCEPT ![c] = s]
  PROVE  /\ call' \in [Clients -> CallStates]
         /\ call'[c] = s
         /\ \A d \in Clients \ {c} : call'[d] = call[d]
BY DEF TypeOK

(* No step of any task breaks the invariant. *)
LEMMA NextIInv == IInv /\ [Next]_vars => IInv'
<1> SUFFICES ASSUME IInv, [Next]_vars PROVE IInv'
  OBVIOUS
<1> USE FailLimitAssumption DEF IInv
<1>1. ASSUME NEW c \in Clients, RequestSysMode(c) PROVE IInv'
  <2>1. PICK m \in Requestable :
          call' = [call EXCEPT ![c] = [pc |-> "sys", req |-> m, dyn |-> DynamicFaults]]
    BY <1>1 DEF RequestSysMode
  <2>2. [pc |-> "sys", req |-> m, dyn |-> DynamicFaults] \in CallStates
    BY DynamicFaultsType DEF CallStates
  <2>3. DynamicFaults' = DynamicFaults
    BY <1>1, DynamicFaultsStable DEF RequestSysMode
  <2>4. /\ call' \in [Clients -> CallStates]
        /\ call'[c] = [pc |-> "sys", req |-> m, dyn |-> DynamicFaults]
        /\ \A d \in Clients \ {c} : call'[d] = call[d]
    BY <2>1, <2>2, CallStep
  <2>5. TypeOK' /\ FlagsOnlyInFailsafe'
    BY <1>1, <2>4
       DEF RequestSysMode, TypeOK, FlagsOnlyInFailsafe, mgrVars, poolVars, imuVars
  <2>6. SnapshotsFresh'
    BY <2>3, <2>4 DEF SnapshotsFresh
  <2> QED
    BY <2>5, <2>6
<1>2. ASSUME NEW c \in Clients, CommitSysMode(c) PROVE IInv'
  <2>1. /\ call[c].pc = "sys" /\ call[c] \in CallStates
        /\ call[c].dyn = DynamicFaults
    BY <1>2 DEF CommitSysMode, TypeOK, SnapshotsFresh
  <2>2. call[c].req \in Requestable
    BY <2>1 DEF CallStates, Idle
  <2>3. DynamicFaults' = DynamicFaults
    BY <1>2, DynamicFaultsStable DEF CommitSysMode
  <2>4. /\ call' \in [Clients -> CallStates]
        /\ call'[c] = Idle
        /\ \A d \in Clients \ {c} : call'[d] = call[d]
    BY <1>2, CallStep DEF CommitSysMode, CallStates
  <2>5. TypeOK'
    BY <1>2, <2>1, <2>2, <2>4, DynamicFaultsType
       DEF CommitSysMode, TypeOK, Requestable, poolVars, imuVars
  <2>6. FlagsOnlyInFailsafe'
    BY <1>2, <2>1 DEF CommitSysMode, FlagsOnlyInFailsafe, Granted
  <2>7. SnapshotsFresh'
    BY <2>3, <2>4 DEF SnapshotsFresh, Idle
  <2> QED
    BY <2>5, <2>6, <2>7
<1>3. ASSUME NEW c \in Clients,
             RequestMotionMode(c) \/ CollectForMotion(c) \/ CommitMotionMode(c)
      PROVE IInv'
  <2>1. DynamicFaults' = DynamicFaults
    BY <1>3, DynamicFaultsStable
       DEF RequestMotionMode, CollectForMotion, CommitMotionMode
  <2>2. /\ call' \in [Clients -> CallStates]
        /\ call'[c].pc # "sys"
        /\ \A d \in Clients \ {c} : call'[d] = call[d]
    <3>1. CASE RequestMotionMode(c)
      <4>1. PICK m \in MotionModes : call' = [call EXCEPT ![c] = [pc |-> "collect", req |-> m]]
        BY <3>1 DEF RequestMotionMode
      <4>2. [pc |-> "collect", req |-> m] \in CallStates
        BY DEF CallStates
      <4> QED
        BY <4>1, <4>2, CallStep
    <3>2. CASE CollectForMotion(c)
      <4> DEFINE s == IF call[c].req \in ClosedLoop /\ "IMU" \in DynamicFaults
                      THEN Idle ELSE [pc |-> "motion", req |-> call[c].req]
      <4>1. call[c].req \in MotionModes
        BY <3>2 DEF CollectForMotion, TypeOK, CallStates, Idle
      <4>2. s \in CallStates /\ s.pc # "sys"
        BY <4>1 DEF CallStates, Idle
      <4>3. call' = [call EXCEPT ![c] = s]
        BY <3>2 DEF CollectForMotion, TypeOK
      <4> HIDE DEF s
      <4> QED
        BY <4>2, <4>3, CallStep
    <3>3. CASE CommitMotionMode(c)
      BY <3>3, CallStep DEF CommitMotionMode, CallStates, Idle
    <3> QED
      BY <1>3, <3>1, <3>2, <3>3
  <2>3. s_motion_mode' \in MotionModes
    BY <1>3 DEF RequestMotionMode, CollectForMotion, CommitMotionMode,
                TypeOK, CallStates, Idle, mgrVars
  <2>4. TypeOK' /\ FlagsOnlyInFailsafe'
    BY <1>3, <2>2, <2>3
       DEF RequestMotionMode, CollectForMotion, CommitMotionMode, TypeOK,
           FlagsOnlyInFailsafe, mgrVars, poolVars, imuVars
  <2>5. SnapshotsFresh'
    BY <2>1, <2>2 DEF SnapshotsFresh
  <2> QED
    BY <2>4, <2>5
<1>4. CASE ShellFailsafe
  <2>1. {"LOS"} \in SUBSET Faults
    BY DEF Faults
  <2>2. TypeOK' /\ FlagsOnlyInFailsafe'
    BY <1>4, <2>1, EnterFailsafeKeeps DEF ShellFailsafe, TypeOK, poolVars, imuVars
  <2>3. SnapshotsFresh'
    BY <1>4, DynamicFaultsStable DEF ShellFailsafe, SnapshotsFresh
  <2> QED
    BY <2>2, <2>3
<1>5. CASE ImuFuse
  <2>1. {"IMU"} \in SUBSET Faults
    BY DEF Faults
  <2>2. s_imu_mismatch_cnt' \in 0..FailLimit
    BY <1>5 DEF ImuFuse, TypeOK
  <2>3. /\ s_sys_mode' \in SysModes /\ s_motion_mode' \in MotionModes
        /\ s_fault_flags' \in SUBSET Faults
        /\ FlagsOnlyInFailsafe'
    BY <1>5, <2>1, EnterFailsafeKeeps DEF ImuFuse, mgrVars, TypeOK, FlagsOnlyInFailsafe
  <2>4. TypeOK'
    BY <1>5, <2>2, <2>3 DEF ImuFuse, TypeOK, poolVars
  <2>5. SnapshotsFresh'
    BY <1>5, DynamicFaultsStable DEF ImuFuse, SnapshotsFresh
  <2> QED
    BY <2>3, <2>4, <2>5
<1>6. CASE PushCabinEnv \/ PushPower
  <2>1. TypeOK' /\ FlagsOnlyInFailsafe'
    BY <1>6 DEF PushCabinEnv, PushPower, TypeOK, FlagsOnlyInFailsafe, mgrVars, imuVars
  <2>2. SnapshotsFresh'
    BY <1>6 DEF PushCabinEnv, PushPower, RequestsQuiet, SnapshotsFresh, Idle
  <2> QED
    BY <2>1, <2>2
<1>7. CASE MonitorCollect
  <2>1. monitor' \in SUBSET Faults
    BY <1>7, DynamicFaultsType DEF MonitorCollect, Faults
  <2>2. TypeOK' /\ FlagsOnlyInFailsafe'
    BY <1>7, <2>1 DEF MonitorCollect, TypeOK, FlagsOnlyInFailsafe, mgrVars, poolVars, imuVars
  <2>3. SnapshotsFresh'
    BY <1>7, DynamicFaultsStable DEF MonitorCollect, SnapshotsFresh
  <2> QED
    BY <2>2, <2>3
<1>8. CASE MonitorReport
  <2>1. monitor \in SUBSET Faults
    BY DEF TypeOK
  <2>2. TypeOK' /\ FlagsOnlyInFailsafe'
    BY <1>8, <2>1, EnterFailsafeKeeps DEF MonitorReport, TypeOK, poolVars, imuVars
  <2>3. SnapshotsFresh'
    BY <1>8, DynamicFaultsStable DEF MonitorReport, SnapshotsFresh
  <2> QED
    BY <2>2, <2>3
<1>9. CASE AttitudesDrift \/ UNCHANGED vars
  <2>1. TypeOK' /\ FlagsOnlyInFailsafe'
    BY <1>9 DEF AttitudesDrift, vars, TypeOK, FlagsOnlyInFailsafe, mgrVars, poolVars, imuVars
  <2>2. SnapshotsFresh'
    BY <1>9, DynamicFaultsStable DEF AttitudesDrift, vars, SnapshotsFresh
  <2> QED
    BY <2>1, <2>2
<1> QED
  BY <1>1, <1>2, <1>3, <1>4, <1>5, <1>6, <1>7, <1>8, <1>9 DEF Next, ClientStep

-----------------------------------------------------------------------------
(* The invariant holds in every reachable state. *)
THEOREM Invariance == Spec => []IInv
<1>1. Init => IInv
  BY InitIInv
<1>2. IInv /\ [Next]_vars => IInv'
  BY NextIInv
<1> QED
  BY <1>1, <1>2, PTL DEF Spec

(* Type correctness: every field keeps its type, the counter of IMU_Fuse its
   bound, whatever its limit is. *)
THEOREM TypeCorrect == Spec => []TypeOK
BY Invariance, PTL DEF IInv

(* Outside FAILSAFE nothing is latched. *)
THEOREM LatchTheorem == Spec => []FlagsOnlyInFailsafe
BY Invariance, PTL DEF IInv

(* A request is judged by what the pool holds when it is committed, however many
   tasks request modes at the same time. *)
THEOREM FreshnessTheorem == Spec => []SnapshotsFresh
BY Invariance, PTL DEF IInv

-----------------------------------------------------------------------------
(* A step that enters FAILSAFE with some fault is the Trip of the automaton. *)
LEMMA EnterFailsafeTrips ==
  ASSUME NEW F \in SUBSET Faults, F # {}, EnterFailsafe(F), UNCHANGED poolVars
  PROVE  Automaton!Trip
BY DynamicFaultsStable DEF EnterFailsafe, Automaton!Trip

(* The second half of a request is what the automaton calls Recover, Rejudge,
   Arm or Relax, or is refused and changes nothing. *)
LEMMA CommitRefines ==
  ASSUME IInv, NEW c \in Clients, CommitSysMode(c)
  PROVE  [Automaton!AutomatonNext]_Automaton!automaton
<1>1. call[c].pc = "sys" /\ call[c] \in CallStates /\ call[c].dyn = DynamicFaults
  BY DEF CommitSysMode, IInv, TypeOK, SnapshotsFresh
<1>2. call[c].req \in {"STANDBY", "DISARMED", "ARMED"}
  BY <1>1 DEF CallStates, Idle, Requestable, SysModes
<1>3. DynamicFaults' = DynamicFaults /\ s_motion_mode' = s_motion_mode
  BY DynamicFaultsStable DEF CommitSysMode
<1>4. CASE s_sys_mode = "FAILSAFE" /\ Granted(s_sys_mode, call[c].req, call[c].dyn)
  <2>1. Automaton!Recover
    BY <1>1, <1>3, <1>4 DEF CommitSysMode, Granted, Automaton!Recover
  <2> QED
    BY <2>1 DEF Automaton!AutomatonNext
<1>5. CASE s_sys_mode = "FAILSAFE" /\ ~Granted(s_sys_mode, call[c].req, call[c].dyn)
  <2>1. Automaton!Rejudge
    BY <1>1, <1>3, <1>5 DEF CommitSysMode, Automaton!Rejudge
  <2> QED
    BY <2>1 DEF Automaton!AutomatonNext
<1>6. CASE s_sys_mode # "FAILSAFE" /\ Granted(s_sys_mode, call[c].req, call[c].dyn)
  <2>1. /\ <<s_sys_mode, call[c].req>> \in NormalTransitions
        /\ call[c].req = "ARMED" => DynamicFaults = {}
        /\ s_sys_mode' = call[c].req /\ s_fault_flags' = s_fault_flags
    BY <1>1, <1>6 DEF CommitSysMode, Granted
  <2>2. CASE call[c].req = "ARMED"
    BY <1>3, <2>1, <2>2 DEF NormalTransitions, Automaton!Arm, Automaton!AutomatonNext
  <2>3. CASE call[c].req # "ARMED"
    BY <1>2, <1>3, <1>6, <2>1, <2>3
       DEF NormalTransitions, Automaton!Relax, Automaton!AutomatonNext
  <2> QED
    BY <2>2, <2>3
<1>7. CASE s_sys_mode # "FAILSAFE" /\ ~Granted(s_sys_mode, call[c].req, call[c].dyn)
  BY <1>3, <1>7 DEF CommitSysMode, Automaton!automaton
<1> QED
  BY <1>4, <1>5, <1>6, <1>7

(* Every step of every task is a step of the automaton or leaves it alone. *)
LEMMA NextRefines == IInv /\ [Next]_vars => [Automaton!AutomatonNext]_Automaton!automaton
<1> SUFFICES ASSUME IInv, [Next]_vars
             PROVE  [Automaton!AutomatonNext]_Automaton!automaton
  OBVIOUS
<1>1. ASSUME NEW c \in Clients, CommitSysMode(c)
      PROVE  [Automaton!AutomatonNext]_Automaton!automaton
  BY <1>1, CommitRefines
<1>2. ASSUME NEW c \in Clients, RequestSysMode(c) \/ RequestMotionMode(c) \/ CollectForMotion(c)
      PROVE  UNCHANGED Automaton!automaton
  BY <1>2, DynamicFaultsStable
     DEF RequestSysMode, RequestMotionMode, CollectForMotion, mgrVars, Automaton!automaton
<1>3. ASSUME NEW c \in Clients, CommitMotionMode(c)
      PROVE  Automaton!SelectMotion
  <2>1. call[c].req \in MotionModes
    BY <1>3 DEF CommitMotionMode, IInv, TypeOK, CallStates, Idle
  <2> QED
    BY <1>3, <2>1, DynamicFaultsStable
       DEF CommitMotionMode, MotionModes, Automaton!SelectMotion, Automaton!MotionModes
<1>4. CASE ShellFailsafe
  BY <1>4, EnterFailsafeTrips DEF ShellFailsafe, Faults, Automaton!AutomatonNext
<1>5. CASE ImuFuse
  BY <1>5, EnterFailsafeTrips, DynamicFaultsStable
     DEF ImuFuse, Faults, mgrVars, Automaton!AutomatonNext, Automaton!automaton
<1>6. CASE PushCabinEnv \/ PushPower
  <2>1. Automaton!Measure
    BY <1>6 DEF PushCabinEnv, PushPower, mgrVars, DynamicFaults, Automaton!Measure
  <2> QED
    BY <2>1 DEF Automaton!AutomatonNext
<1>7. CASE MonitorReport
  <2>1. monitor \in SUBSET Faults /\ monitor # {}
    BY <1>7 DEF MonitorReport, IInv, TypeOK
  <2> QED
    BY <1>7, <2>1, EnterFailsafeTrips DEF MonitorReport, Automaton!AutomatonNext
<1>8. CASE MonitorCollect \/ AttitudesDrift \/ UNCHANGED vars
  BY <1>8, DynamicFaultsStable
     DEF MonitorCollect, AttitudesDrift, vars, mgrVars, Automaton!automaton
<1> QED
  BY <1>1, <1>2, <1>3, <1>4, <1>5, <1>6, <1>7, <1>8
     DEF Next, ClientStep, Automaton!AutomatonNext

(* The manager with all the tasks that use it implements the mode automaton. *)
THEOREM Refinement == Spec => ImplementsAutomaton
<1>1. Init => Automaton!AutomatonInit
  BY DEF Init, DynamicFaults, Automaton!AutomatonInit
<1>2. IInv /\ [Next]_vars => [Automaton!AutomatonNext]_Automaton!automaton
  BY NextRefines
<1> QED
  BY <1>1, <1>2, Invariance, PTL
     DEF Spec, ImplementsAutomaton, Automaton!AutomatonSpec

-----------------------------------------------------------------------------
(* Arming and recovery are judged by the state of the pool at that moment:
   both are read off the steps of the automaton. *)
LEMMA AutomatonArms ==
  ASSUME [Automaton!AutomatonNext]_Automaton!automaton,
         s_sys_mode # "ARMED", s_sys_mode' = "ARMED"
  PROVE  s_sys_mode = "DISARMED" /\ DynamicFaults = {}
BY DEF Automaton!AutomatonNext, Automaton!automaton, Automaton!Trip, Automaton!Rejudge,
       Automaton!Recover, Automaton!Arm, Automaton!Relax, Automaton!SelectMotion,
       Automaton!Measure

LEMMA AutomatonRecovers ==
  ASSUME [Automaton!AutomatonNext]_Automaton!automaton,
         s_sys_mode = "FAILSAFE", s_sys_mode' # "FAILSAFE"
  PROVE  s_sys_mode' = "DISARMED" /\ DynamicFaults = {}
BY DEF Automaton!AutomatonNext, Automaton!automaton, Automaton!Trip, Automaton!Rejudge,
       Automaton!Recover, Automaton!Arm, Automaton!Relax, Automaton!SelectMotion,
       Automaton!Measure

(* The thrusters are only enabled while the pool shows no fault. *)
THEOREM ArmingTheorem == Spec => ArmsOnlyWhenHealthy
<1>1. IInv /\ [Next]_vars => ((s_sys_mode # "ARMED" /\ s_sys_mode' = "ARMED")
                              => (s_sys_mode = "DISARMED" /\ DynamicFaults = {}))
  BY NextRefines, AutomatonArms
<1> QED
  BY <1>1, Invariance, PTL DEF Spec, ArmsOnlyWhenHealthy

(* FAILSAFE is left only for DISARMED and while the pool shows no fault. *)
THEOREM RecoveryTheorem == Spec => RecoversOnlyWhenHealthy
<1>1. IInv /\ [Next]_vars => ((s_sys_mode = "FAILSAFE" /\ s_sys_mode' # "FAILSAFE")
                              => (s_sys_mode' = "DISARMED" /\ DynamicFaults = {}))
  BY NextRefines, AutomatonRecovers
<1> QED
  BY <1>1, Invariance, PTL DEF Spec, RecoversOnlyWhenHealthy
=============================================================================
