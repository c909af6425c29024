---------------------------- MODULE ModeManager ----------------------------
(***************************************************************************)
(* System/sys_mode_manager.c together with every task that calls it: the   *)
(* NRT and Shell tasks that request modes, the IMU and Monitor tasks that  *)
(* report faults, and the DHT11 and Power tasks that write the health data *)
(* a request is judged by.                                                 *)
(*                                                                         *)
(* A request is not atomic: it reads the data pool in one critical section *)
(* and changes the mode in a later one.  What can happen in between is     *)
(* decided by the FreeRTOS priorities:                                     *)
(*     Control 5 > IMU 4 > NRT = Shell 3 > Power = DHT11 2 > Monitor 1.    *)
(* A request never blocks, so tasks below priority 3 wait until no request *)
(* is in progress (RequestsQuiet), the IMU task preempts one anywhere, and *)
(* the two requesting tasks are time-sliced against each other.  That the  *)
(* control task suspends the IMU and the DHT11 task a while after STANDBY  *)
(* was entered is left out: here they may run in every mode.               *)
(***************************************************************************)
EXTENDS Naturals, FiniteSets

CONSTANTS Clients,    \* the tasks that request modes
          Shell,      \* the one of them that runs the debug shell
          FailLimit   \* IMU_FUSE_CONTINUOUS_FAIL_LIMIT

ASSUME ShellAssumption == Shell \in Clients
ASSUME FailLimitAssumption == FailLimit \in Nat \ {0}

SysModes    == {"STANDBY", "DISARMED", "ARMED", "FAILSAFE"}
MotionModes == {"MANUAL", "STABILIZE", "AUTO", "DEBUG"}
Faults      == {"LEAK", "IMU", "LOW_VOLTAGE", "TASK_TIMEOUT", "LOS"}
Requestable == SysModes \ {"FAILSAFE"}
ClosedLoop  == {"STABILIZE", "AUTO"}

VARIABLES
  s_sys_mode, s_motion_mode, s_fault_flags,  \* the manager's own state
  is_leak_detected, bat_voltage,             \* data pool: the health fields that are written
  imu_disagree,          \* the two attitude sources disagree by more than the threshold
  s_imu_mismatch_cnt,    \* saturated at FailLimit: only >= FailLimit is tested
  call,                  \* per client: where its request stands and what it has read
  monitor                \* the faults the Monitor has collected and not yet reported

mgrVars  == <<s_sys_mode, s_motion_mode, s_fault_flags>>
poolVars == <<is_leak_detected, bat_voltage>>
imuVars  == <<imu_disagree, s_imu_mismatch_cnt>>
vars     == <<mgrVars, poolVars, imuVars, call, monitor>>

Idle == [pc |-> "idle"]

(* Where the request of a client may stand. *)
CallStates == {Idle} \cup [pc : {"sys"}, req : Requestable, dyn : SUBSET Faults]
                     \cup [pc : {"collect", "motion"}, req : MotionModes]

TypeOK ==
  /\ s_sys_mode \in SysModes
  /\ s_motion_mode \in MotionModes
  /\ s_fault_flags \in SUBSET Faults
  /\ is_leak_detected \in BOOLEAN
  /\ bat_voltage \in {"invalid", "low", "ok"}
  /\ imu_disagree \in BOOLEAN
  /\ s_imu_mismatch_cnt \in 0..FailLimit
  /\ call \in [Clients -> CallStates]
  /\ monitor \in SUBSET Faults

Init ==
  /\ s_sys_mode = "STANDBY" /\ s_motion_mode = "MANUAL" /\ s_fault_flags = {}
  /\ is_leak_detected = FALSE /\ bat_voltage = "invalid"
  /\ imu_disagree = FALSE /\ s_imu_mismatch_cnt = 0
  /\ call = [c \in Clients |-> Idle]
  /\ monitor = {}

(***************************************************************************)
(* The faults that can be read off the data pool.  is_imu_error belongs to *)
(* the pool too, but nothing in the program ever sets it, so the IMU bit   *)
(* is never among them.  A battery reading of at most 1 V is ignored.      *)
(***************************************************************************)
DynamicFaults == {f \in {"LEAK", "LOW_VOLTAGE"} :
                    \/ f = "LEAK" /\ is_leak_detected
                    \/ f = "LOW_VOLTAGE" /\ bat_voltage = "low"}

RequestsQuiet == \A c \in Clients : call[c] = Idle

-----------------------------------------------------------------------------
(* System_ModeManager_EnterFailsafe: one critical section. *)
EnterFailsafe(faults) ==
  /\ s_fault_flags' = s_fault_flags \cup faults
  /\ s_sys_mode' = "FAILSAFE"
  /\ UNCHANGED s_motion_mode

(* The transitions a request may take outside FAILSAFE. *)
NormalTransitions ==
  {<<"STANDBY", "DISARMED">>, <<"DISARMED", "STANDBY">>, <<"DISARMED", "ARMED">>,
   <<"ARMED", "DISARMED">>, <<"ARMED", "STANDBY">>}

(* Mistakes the properties below must notice: recovery without looking at the
   pool, recovery to STANDBY as well, arming without the final gate. *)
GrantedBlindRecovery(current, requested, dyn) ==
  IF current = "FAILSAFE" THEN requested = "DISARMED"
  ELSE /\ <<current, requested>> \in NormalTransitions
       /\ requested = "ARMED" => dyn = {}

GrantedAnyRecovery(current, requested, dyn) ==
  IF current = "FAILSAFE" THEN requested \in {"DISARMED", "STANDBY"} /\ dyn = {}
  ELSE /\ <<current, requested>> \in NormalTransitions
       /\ requested = "ARMED" => dyn = {}

GrantedWithoutGate(current, requested, dyn) ==
  IF current = "FAILSAFE" THEN requested = "DISARMED" /\ dyn = {}
  ELSE <<current, requested>> \in NormalTransitions

Granted(current, requested, dyn) ==
  IF current = "FAILSAFE"
  THEN requested = "DISARMED" /\ dyn = {}
  ELSE /\ <<current, requested>> \in NormalTransitions
       /\ requested = "ARMED" => dyn = {}

(* The latch is cleared by every request in FAILSAFE, not replaced. *)
CommitClearingLatch(c) ==
  /\ call[c].pc = "sys"
  /\ s_sys_mode' = IF Granted(s_sys_mode, call[c].req, call[c].dyn)
                   THEN call[c].req ELSE s_sys_mode
  /\ s_fault_flags' = {}
  /\ call' = [call EXCEPT ![c] = Idle]
  /\ UNCHANGED <<s_motion_mode, poolVars, imuVars, monitor>>

(* System_ModeManager_RequestSysMode, first half: the pool is read before
   the critical section that uses what was read. *)
RequestSysMode(c) ==
  /\ call[c] = Idle
  /\ \E m \in Requestable :
       call' = [call EXCEPT ![c] = [pc |-> "sys", req |-> m, dyn |-> DynamicFaults]]
  /\ UNCHANGED <<mgrVars, poolVars, imuVars, monitor>>

(* Second half.  In FAILSAFE the latch is overwritten by the faults read
   before, whether the request is then granted or refused. *)
CommitSysMode(c) ==
  /\ call[c].pc = "sys"
  /\ s_sys_mode' = IF Granted(s_sys_mode, call[c].req, call[c].dyn)
                   THEN call[c].req ELSE s_sys_mode
  /\ s_fault_flags' = IF s_sys_mode = "FAILSAFE" THEN call[c].dyn ELSE s_fault_flags
  /\ call' = [call EXCEPT ![c] = Idle]
  /\ UNCHANGED <<s_motion_mode, poolVars, imuVars, monitor>>

(* System_ModeManager_RequestMotionMode: refused in FAILSAFE, but the
   critical section that looks is left before the mode is set. *)
RequestMotionMode(c) ==
  /\ call[c] = Idle
  /\ s_sys_mode # "FAILSAFE"
  /\ \E m \in MotionModes : call' = [call EXCEPT ![c] = [pc |-> "collect", req |-> m]]
  /\ UNCHANGED <<mgrVars, poolVars, imuVars, monitor>>

CollectForMotion(c) ==
  /\ call[c].pc = "collect"
  /\ call' = [call EXCEPT ![c] =
                IF @.req \in ClosedLoop /\ "IMU" \in DynamicFaults
                THEN Idle ELSE [pc |-> "motion", req |-> @.req]]
  /\ UNCHANGED <<mgrVars, poolVars, imuVars, monitor>>

CommitMotionMode(c) ==
  /\ call[c].pc = "motion"
  /\ s_motion_mode' = call[c].req
  /\ call' = [call EXCEPT ![c] = Idle]
  /\ UNCHANGED <<s_sys_mode, s_fault_flags, poolVars, imuVars, monitor>>

(* The shell's "sysmode set failsafe" reports a lost link by hand. *)
ShellFailsafe ==
  /\ call[Shell] = Idle
  /\ EnterFailsafe({"LOS"})
  /\ UNCHANGED <<poolVars, imuVars, call, monitor>>

-----------------------------------------------------------------------------
(* The counter of IMU_Fuse without its saturation. *)
ImuFuseUnbounded ==
  /\ s_imu_mismatch_cnt' = IF imu_disagree THEN s_imu_mismatch_cnt + 1 ELSE 0
  /\ IF s_imu_mismatch_cnt' >= FailLimit THEN EnterFailsafe({"IMU"})
                                         ELSE UNCHANGED mgrVars
  /\ UNCHANGED <<poolVars, imu_disagree, call, monitor>>

(* One round of the IMU task: IMU_Fuse compares the two attitudes. *)
ImuFuse ==
  /\ s_imu_mismatch_cnt' = IF ~imu_disagree THEN 0
                           ELSE IF s_imu_mismatch_cnt < FailLimit
                                THEN s_imu_mismatch_cnt + 1 ELSE FailLimit
  /\ IF s_imu_mismatch_cnt' >= FailLimit THEN EnterFailsafe({"IMU"})
                                         ELSE UNCHANGED mgrVars
  /\ UNCHANGED <<poolVars, imu_disagree, call, monitor>>

(* A DHT11 task that forgets the leak, and one of a priority that lets it run
   in the middle of a request. *)
PushCabinEnvForgetful ==
  /\ RequestsQuiet
  /\ \E humid \in BOOLEAN : is_leak_detected' = humid
  /\ UNCHANGED <<mgrVars, bat_voltage, imuVars, call, monitor>>

PushCabinEnvUrgent ==
  /\ \E humid \in BOOLEAN : is_leak_detected' = (is_leak_detected \/ humid)
  /\ UNCHANGED <<mgrVars, bat_voltage, imuVars, call, monitor>>

(* DHT11 task: a leak, once seen, is pushed again with every reading.  The
   pull and the push are one step because no other task writes the field. *)
PushCabinEnv ==
  /\ RequestsQuiet
  /\ \E humid \in BOOLEAN : is_leak_detected' = (is_leak_detected \/ humid)
  /\ UNCHANGED <<mgrVars, bat_voltage, imuVars, call, monitor>>

PushPower ==
  /\ RequestsQuiet
  /\ bat_voltage' \in {"invalid", "low", "ok"}
  /\ UNCHANGED <<mgrVars, is_leak_detected, imuVars, call, monitor>>

(* One round of the Monitor reads the pool and, in a later critical section,
   reports what it read.  Whether a task has timed out is decided by the
   heartbeats (module HeartbeatMonitor) and is any outcome here. *)
MonitorCollect ==
  /\ RequestsQuiet
  /\ monitor = {}
  /\ \E timeout \in SUBSET {"TASK_TIMEOUT"} : monitor' = DynamicFaults \cup timeout
  /\ UNCHANGED <<mgrVars, poolVars, imuVars, call>>

MonitorReport ==
  /\ RequestsQuiet
  /\ monitor # {}
  /\ EnterFailsafe(monitor)
  /\ monitor' = {}
  /\ UNCHANGED <<poolVars, imuVars, call>>

(* The attitudes drift apart or come together again. *)
AttitudesDrift ==
  /\ imu_disagree' = ~imu_disagree
  /\ UNCHANGED <<mgrVars, poolVars, s_imu_mismatch_cnt, call, monitor>>

-----------------------------------------------------------------------------
ClientStep(c) == \/ RequestSysMode(c)    \/ CommitSysMode(c)
                 \/ RequestMotionMode(c) \/ CollectForMotion(c) \/ CommitMotionMode(c)

Next == \/ \E c \in Clients : ClientStep(c)
        \/ ShellFailsafe
        \/ ImuFuse \/ AttitudesDrift
        \/ PushCabinEnv \/ PushPower
        \/ MonitorCollect \/ MonitorReport

Spec == Init /\ [][Next]_vars

(***************************************************************************)
(* A request in progress always finishes.  Requests arrive as frames and   *)
(* lines from outside, and both tasks that serve them block until the next *)
(* one: again and again none is in progress.  Then the Monitor, the task   *)
(* of the lowest priority, gets the processor again and again, though      *)
(* never for good.                                                         *)
(***************************************************************************)
Fairness ==
  /\ \A c \in Clients : WF_vars(CommitSysMode(c) \/ CollectForMotion(c) \/ CommitMotionMode(c))
  /\ []<>RequestsQuiet
  /\ SF_vars(MonitorCollect) /\ SF_vars(MonitorReport)

FairSpec == Spec /\ Fairness

-----------------------------------------------------------------------------
(* Outside FAILSAFE nothing is latched: whoever leaves FAILSAFE has cleared
   every fault bit, and whoever latches one has entered it. *)
FlagsOnlyInFailsafe == s_fault_flags # {} => s_sys_mode = "FAILSAFE"

(* What a request has read of the pool is still true when it is used, though
   the read and the use are separate critical sections: the writers of the
   pool run below the priority of the requests. *)
SnapshotsFresh == \A c \in Clients : call[c].pc = "sys" => call[c].dyn = DynamicFaults

(* The thrusters are only ever enabled from DISARMED and while the pool, as it
   is at that very moment, shows neither a leak nor a low battery. *)
ArmsOnlyWhenHealthy ==
  [][(s_sys_mode # "ARMED" /\ s_sys_mode' = "ARMED")
       => (s_sys_mode = "DISARMED" /\ DynamicFaults = {})]_vars

(* FAILSAFE is left only for DISARMED, and only while the pool is healthy. *)
RecoversOnlyWhenHealthy ==
  [][(s_sys_mode = "FAILSAFE" /\ s_sys_mode' # "FAILSAFE")
       => (s_sys_mode' = "DISARMED" /\ DynamicFaults = {})]_vars

(* The manager implements the automaton the rest of the firmware relies on. *)
Automaton == INSTANCE ModeAutomaton WITH
  Fault <- Faults, Measurable <- {"LEAK", "LOW_VOLTAGE"},
  mode <- s_sys_mode, motion <- s_motion_mode,
  latched <- s_fault_flags, present <- DynamicFaults

(* Every step of the tasks is one step of that automaton or leaves it alone:
   arming and recovery are judged by the pool as it is at the commit. *)
ImplementsAutomaton == Automaton!AutomatonSpec

(* Once water has been detected the system settles in FAILSAFE for good,
   whatever is requested and in whatever order the tasks run. *)
LeakSettlesInFailsafe == is_leak_detected ~> [](s_sys_mode = "FAILSAFE")
=============================================================================
