-------------------------- MODULE ControlTaskProofs -------------------------
(***************************************************************************)
(* Proofs about ControlTask for any set of faults, against any behaviour   *)
(* of the mode automaton and of the shell.  DebugHandover is not inductive *)
(* by itself: it needs that the entry of ARMED stops the outputs before it *)
(* sleeps and nobody computes a thrust meanwhile (SettlesUndriven), and    *)
(* that in ARMED the motion mode of the last pass is the one remembered    *)
(* for the next (MotionRemembered).                                        *)
(***************************************************************************)
EXTENDS ControlTask, TLAPS

SettlesUndriven == pc # "wait" => out # "CONTROL"

MotionRemembered == current = "ARMED" => lastArmed = ctxMotion

IInv == /\ TypeOK
        /\ PowerFollowsControl /\ PausedExactlyInStandby
        /\ MixerOnlyWhenArmed /\ DebugHandover
        /\ SettlesUndriven /\ MotionRemembered

(* The automaton keeps its types. *)
LEMMA AutomatonKeepsTypes == AutomatonTypeOK /\ AutomatonNext => AutomatonTypeOK'
BY MeasurableAssumption
   DEF AutomatonTypeOK, AutomatonNext, Trip, Rejudge, Recover, Arm, Relax, SelectMotion,
       Measure, SysModes

(* on_run of ARMED leaves a thrust of the mixer only outside DEBUG, unless one
   was there already and the motion mode has not just become DEBUG. *)
LEMMA ArmedRunOutputs ==
  ASSUME NEW now \in MotionModes, NEW before \in MotionModes,
         out \in {"IDLE", "CONTROL", "SHELL"},
         NEW o \in ArmedRun(now, before)
  PROVE  /\ o \in {"IDLE", "CONTROL", "SHELL"}
         /\ now = "DEBUG" /\ o = "CONTROL" => before = "DEBUG" /\ out = "CONTROL"
BY DEF ArmedRun

LEMMA InitIInv == Init => IInv
BY MeasurableAssumption
   DEF Init, IInv, AutomatonInit, TypeOK, AutomatonTypeOK, SysModes, MotionModes,
       PowerFollowsControl, PausedExactlyInStandby, MixerOnlyWhenArmed, DebugHandover,
       SettlesUndriven, MotionRemembered

(* No step of the control task, of the shell or of the mode breaks it. *)
LEMMA NextIInv == IInv /\ [Next]_vars => IInv'
<1> SUFFICES ASSUME IInv, [Next]_vars PROVE IInv'
  OBVIOUS
<1> USE DEF IInv
<1>1. CASE Run
  <2>1. /\ out' \in RunOutputs /\ mode = current /\ pc = "wait" /\ pc' = "wait"
        /\ current' = current /\ ctxMotion' = motion /\ motion \in MotionModes
        /\ lastArmed' = IF current = "ARMED" THEN motion ELSE lastArmed
    BY <1>1 DEF Run, TypeOK, AutomatonTypeOK
  <2>2. /\ out' \in {"IDLE", "CONTROL", "SHELL"}
        /\ out' = "CONTROL" => current = "ARMED"
        /\ out' = "CONTROL" /\ current = "ARMED" /\ motion = "DEBUG" => lastArmed = "DEBUG" /\ out = "CONTROL"
    <3>1. CASE current = "ARMED"
      BY <2>1, <3>1, ArmedRunOutputs DEF RunOutputs, TypeOK
    <3>2. CASE current = "STANDBY"
      BY <2>1, <3>2 DEF RunOutputs, TypeOK, MixerOnlyWhenArmed
    <3>3. CASE current \notin {"ARMED", "STANDBY"}
      BY <2>1, <3>3 DEF RunOutputs
    <3> QED
      BY <3>1, <3>2, <3>3
  <2>3. TypeOK'
    BY <1>1, <2>1, <2>2 DEF Run, TypeOK, AutomatonTypeOK, automaton
  <2>4. PowerFollowsControl' /\ PausedExactlyInStandby'
    BY <1>1 DEF Run, PowerFollowsControl, PausedExactlyInStandby
  <2>5. DebugHandover'
    BY <2>1, <2>2 DEF DebugHandover, MotionRemembered
  <2>6. MixerOnlyWhenArmed' /\ SettlesUndriven' /\ MotionRemembered'
    BY <2>1, <2>2 DEF MixerOnlyWhenArmed, SettlesUndriven, MotionRemembered
  <2> QED
    BY <2>3, <2>4, <2>5, <2>6
<1>2. CASE Transition
  <2>1. pswitch' = "OFF"
    BY <1>2 DEF Transition, AfterExit, PowerFollowsControl, TypeOK
  <2>2. paused' \in BOOLEAN /\ PausedExactlyInStandby'
    BY <1>2 DEF Transition, PausedAfter, PausedExactlyInStandby, TypeOK
  <2>3. TypeOK'
    BY <1>2, <2>1, <2>2 DEF Transition, TypeOK, AutomatonTypeOK, automaton
  <2>4. PowerFollowsControl'
    BY <1>2, <2>1 DEF Transition, PowerFollowsControl
  <2>5. MixerOnlyWhenArmed' /\ DebugHandover' /\ SettlesUndriven' /\ MotionRemembered'
    BY <1>2 DEF Transition, MixerOnlyWhenArmed, DebugHandover, SettlesUndriven, MotionRemembered
  <2> QED
    BY <2>2, <2>3, <2>4, <2>5
<1>3. CASE BeginArming
  <2>1. paused' \in BOOLEAN /\ PausedExactlyInStandby'
    BY <1>3 DEF BeginArming, PausedAfter, PausedExactlyInStandby, TypeOK
  <2>2. TypeOK'
    BY <1>3, <2>1 DEF BeginArming, TypeOK, AutomatonTypeOK, automaton
  <2>3. PowerFollowsControl' /\ MixerOnlyWhenArmed' /\ DebugHandover'
    BY <1>3 DEF BeginArming, PowerFollowsControl, MixerOnlyWhenArmed, DebugHandover
  <2>4. SettlesUndriven' /\ MotionRemembered'
    BY <1>3 DEF BeginArming, SettlesUndriven, MotionRemembered
  <2> QED
    BY <2>1, <2>2, <2>3, <2>4
<1>4. CASE HalfSettled
  <2>1. TypeOK'
    BY <1>4 DEF HalfSettled, TypeOK, AutomatonTypeOK, automaton
  <2>2. PowerFollowsControl' /\ PausedExactlyInStandby' /\ MotionRemembered'
    BY <1>4 DEF HalfSettled, PowerFollowsControl, PausedExactlyInStandby, MotionRemembered
  <2>3. MixerOnlyWhenArmed' /\ DebugHandover' /\ SettlesUndriven'
    BY <1>4 DEF HalfSettled, MixerOnlyWhenArmed, DebugHandover, SettlesUndriven
  <2> QED
    BY <2>1, <2>2, <2>3
<1>5. CASE EndArming
  <2>1. /\ out # "CONTROL" /\ current = "ARMED" /\ current' = "ARMED"
        /\ pc' = "wait" /\ ctxMotion' = ctxMotion /\ lastArmed' = lastArmed
    BY <1>5 DEF EndArming, TypeOK, SettlesUndriven
  <2>2. /\ out' \in {"IDLE", "CONTROL", "SHELL"}
        /\ ctxMotion = "DEBUG" => out' # "CONTROL"
    BY <1>5, <2>1, ArmedRunOutputs DEF EndArming, TypeOK
  <2>3. TypeOK'
    BY <1>5, <2>1, <2>2 DEF EndArming, TypeOK, AutomatonTypeOK, automaton
  <2>4. PowerFollowsControl' /\ PausedExactlyInStandby'
    BY <1>5 DEF EndArming, PowerFollowsControl, PausedExactlyInStandby
  <2>5. MixerOnlyWhenArmed' /\ DebugHandover' /\ SettlesUndriven' /\ MotionRemembered'
    BY <2>1, <2>2 DEF MixerOnlyWhenArmed, DebugHandover, SettlesUndriven, MotionRemembered
  <2> QED
    BY <2>3, <2>4, <2>5
<1>6. CASE ShellStep
  <2>1. /\ out' \in {out, "IDLE", "SHELL"} /\ shell' \in {"idle", "checked", "pulsing"}
        /\ UNCHANGED <<automaton, control, paused, pswitch>>
    BY <1>6 DEF ShellStep, ThrusterCheck, ThrusterSet, PulseBegin, PulseEnd, hw
  <2>2. TypeOK'
    BY <2>1 DEF TypeOK, AutomatonTypeOK, automaton, control
  <2>3. PowerFollowsControl' /\ PausedExactlyInStandby' /\ MotionRemembered'
    BY <2>1 DEF control, PowerFollowsControl, PausedExactlyInStandby, MotionRemembered
  <2>4. MixerOnlyWhenArmed' /\ DebugHandover' /\ SettlesUndriven'
    BY <2>1 DEF control, MixerOnlyWhenArmed, DebugHandover, SettlesUndriven
  <2> QED
    BY <2>2, <2>3, <2>4
<1>7. CASE ModeStep
  <2>1. AutomatonTypeOK'
    BY <1>7, AutomatonKeepsTypes DEF ModeStep, TypeOK
  <2>2. UNCHANGED <<control, paused, pswitch, out, shell>>
    BY <1>7 DEF ModeStep, hw
  <2>3. TypeOK'
    BY <2>1, <2>2 DEF TypeOK, control
  <2> QED
    BY <2>2, <2>3 DEF control, PowerFollowsControl, PausedExactlyInStandby, MixerOnlyWhenArmed,
                      DebugHandover, SettlesUndriven, MotionRemembered
<1>8. CASE UNCHANGED vars
  BY <1>8 DEF vars, TypeOK, AutomatonTypeOK, automaton, control, hw, PowerFollowsControl,
              PausedExactlyInStandby, MixerOnlyWhenArmed, DebugHandover,
              SettlesUndriven, MotionRemembered
<1> QED
  BY <1>1, <1>2, <1>3, <1>4, <1>5, <1>6, <1>7, <1>8 DEF Next, ControlStep

-----------------------------------------------------------------------------
(* The invariant holds in every reachable state. *)
THEOREM Invariance == Spec => []IInv
<1>1. Init => IInv
  BY InitIInv
<1>2. IInv /\ [Next]_vars => IInv'
  BY NextIInv
<1> QED
  BY <1>1, <1>2, PTL DEF Spec

(* Type correctness; in particular the ESCs only settle in ARMED, under power. *)
THEOREM TypeCorrect == Spec => []TypeOK
BY Invariance, PTL DEF IInv

(* The thrusters have power exactly while the control task is in ARMED. *)
THEOREM PowerTheorem == Spec => []PowerFollowsControl
BY Invariance, PTL DEF IInv

(* The sensor tasks are suspended exactly while it is in STANDBY. *)
THEOREM PauseTheorem == Spec => []PausedExactlyInStandby
BY Invariance, PTL DEF IInv

(* No thrust of the mixer outlives ARMED, *)
THEOREM MixerTheorem == Spec => []MixerOnlyWhenArmed
BY Invariance, PTL DEF IInv

(* nor the beginning of DEBUG. *)
THEOREM HandoverTheorem == Spec => []DebugHandover
BY Invariance, PTL DEF IInv
=============================================================================
