----------------------------- MODULE ControlTask ----------------------------
(***************************************************************************)
(* Task/task_control.c: the control task follows the mode automaton, and   *)
(* owns the thruster outputs and their power switch (PSWITCH); and the     *)
(* shell command "thruster" (User/shell/actuator_cmd.c), which writes the  *)
(* same outputs from a task of lower priority.                             *)
(*                                                                         *)
(* The control task has the highest priority of all, so one pass of its    *)
(* loop is one step here.  The exception is the entry of ARMED, which      *)
(* sleeps twice for THRUSTER_INIT_SETTLE_MS in the middle of a pass: the   *)
(* rest of that pass then works with what it had read before.              *)
(***************************************************************************)
EXTENDS ModeAutomaton

VARIABLES
  pc,         \* of the control task: "wait" for its period, or settling the ESCs
  current,    \* ctx->current_mode; "NONE" is the 0xFF it starts with
  ctxMotion,  \* ctx->current_motion_mode, read at the start of a pass
  lastArmed,  \* ctx->last_armed_motion_mode
  paused,     \* ctx->standby_tasks_paused: IMU, MS5837, DHT11 and RT comm suspended
  pswitch,    \* the power switch of the thrusters
  out,        \* "IDLE": every channel at the stop pulse; else who wrote a thrust last
  shell       \* where the shell's thruster command stands

control == <<pc, current, ctxMotion, lastArmed>>
hw      == <<pswitch, out>>
vars    == <<automaton, control, paused, hw, shell>>

TypeOK ==
  /\ AutomatonTypeOK
  /\ pc \in {"wait", "settle1", "settle2"}
  /\ current \in SysModes \cup {"NONE"}
  /\ ctxMotion \in MotionModes /\ lastArmed \in MotionModes
  /\ paused \in BOOLEAN
  /\ pswitch \in {"ON", "OFF"}
  /\ out \in {"IDLE", "CONTROL", "SHELL"}
  /\ shell \in {"idle", "checked", "pulsing"}
  /\ pc # "wait" => current = "ARMED" /\ pswitch = "ON"

(* main.c has initialised PSWITCH (low) and the PWM channels (stop pulse). *)
Init ==
  /\ AutomatonInit
  /\ pc = "wait" /\ current = "NONE"
  /\ ctxMotion = "MANUAL" /\ lastArmed = "MANUAL"
  /\ paused = FALSE
  /\ pswitch = "OFF" /\ out = "IDLE"
  /\ shell = "idle"

-----------------------------------------------------------------------------
(* prv_armed_run without the stop when DEBUG begins. *)
ArmedRunNoHandover(motionNow, motionBefore) ==
  IF motionNow # "DEBUG" THEN {"IDLE", "CONTROL"} ELSE {out}

(* prv_armed_run: what the outputs may be afterwards.  In DEBUG they belong to
   the shell and are only stopped when the motion mode has just become DEBUG;
   in the other motion modes the mixer writes every channel. *)
ArmedRun(motionNow, motionBefore) ==
  IF motionNow # "DEBUG" THEN {"IDLE", "CONTROL"}
  ELSE IF motionNow # motionBefore THEN {"IDLE"} ELSE {out}

(* A FAILSAFE that relies on having stopped the thrusters when it began. *)
RunOutputsOnce ==
  CASE current = "ARMED"                 -> ArmedRun(motion, lastArmed)
    [] current \in {"STANDBY", "FAILSAFE"} -> {out}
    [] OTHER                             -> {"IDLE"}

(* on_run of the mode the task is in.  STANDBY only waits for an interrupt. *)
RunOutputs ==
  CASE current = "ARMED"   -> ArmedRun(motion, lastArmed)
    [] current = "STANDBY" -> {out}
    [] OTHER               -> {"IDLE"}

(* A pass in which the mode has not changed. *)
Run ==
  /\ pc = "wait"
  /\ mode = current
  /\ ctxMotion' = motion
  /\ lastArmed' = IF current = "ARMED" THEN motion ELSE lastArmed
  /\ out' \in RunOutputs
  /\ UNCHANGED <<automaton, pc, current, paused, pswitch, shell>>

(* An exit of ARMED that leaves the switch to the modes entered next. *)
AfterExitLate == IF current = "DISARMED" \/ current = "STANDBY" THEN "OFF" ELSE pswitch

(* PSWITCH after on_exit of the mode that is left: every mode switches it off,
   except FAILSAFE, whose exit does nothing (and the initial 0xFF has none). *)
AfterExit == IF current \in {"FAILSAFE", "NONE"} THEN pswitch ELSE "OFF"

(* Tasks resumed by the entry of DISARMED, not by the exit of STANDBY. *)
PausedAfterInDisarmed ==
  IF mode = "STANDBY" THEN TRUE ELSE IF mode = "DISARMED" THEN FALSE ELSE paused

(* The entry of STANDBY suspends the sensor tasks, its exit resumes them. *)
PausedAfter ==
  IF mode = "STANDBY" THEN TRUE ELSE IF current = "STANDBY" THEN FALSE ELSE paused

(* A transition that does not wait for the ESCs to settle. *)
TransitionAnytime ==
  /\ mode # current /\ mode # "ARMED"
  /\ current' = mode
  /\ ctxMotion' = motion
  /\ out' = "IDLE"
  /\ pswitch' = IF mode = "FAILSAFE" THEN AfterExit ELSE "OFF"
  /\ paused' = PausedAfter
  /\ UNCHANGED <<automaton, pc, lastArmed, shell>>

(* A FAILSAFE whose entry does not stop the thrusters. *)
TransitionUnstopped ==
  /\ pc = "wait"
  /\ mode # current /\ mode # "ARMED"
  /\ current' = mode
  /\ ctxMotion' = motion
  /\ out' = IF mode = "FAILSAFE" THEN out ELSE "IDLE"
  /\ pswitch' = IF mode = "FAILSAFE" THEN AfterExit ELSE "OFF"
  /\ paused' = PausedAfter
  /\ UNCHANGED <<automaton, pc, lastArmed, shell>>

(* prv_fsm_transition to a mode other than ARMED, and its on_run.  Every
   on_enter stops the thrusters; that of FAILSAFE leaves PSWITCH alone. *)
Transition ==
  /\ pc = "wait"
  /\ mode # current /\ mode # "ARMED"
  /\ current' = mode
  /\ ctxMotion' = motion
  /\ out' = "IDLE"
  /\ pswitch' = IF mode = "FAILSAFE" THEN AfterExit ELSE "OFF"
  /\ paused' = PausedAfter
  /\ UNCHANGED <<automaton, pc, lastArmed, shell>>

(* prv_fsm_transition to ARMED, up to its first delay. *)
BeginArming ==
  /\ pc = "wait"
  /\ mode # current /\ mode = "ARMED"
  /\ pc' = "settle1"
  /\ current' = mode
  /\ ctxMotion' = motion /\ lastArmed' = motion
  /\ out' = "IDLE"
  /\ pswitch' = "ON"
  /\ paused' = PausedAfter
  /\ UNCHANGED <<automaton, shell>>

(* Between the two delays only the channels of thrusters 5 and 6 are stopped. *)
HalfSettled ==
  /\ pc = "settle1"
  /\ pc' = "settle2"
  /\ out' \in {out, "IDLE"}
  /\ UNCHANGED <<automaton, current, ctxMotion, lastArmed, paused, pswitch, shell>>

(* The end of the pass that began with BeginArming: armed_run, with the mode,
   the motion mode and the target as they were two seconds ago. *)
EndArming ==
  /\ pc = "settle2"
  /\ pc' = "wait"
  /\ out' \in ArmedRun(ctxMotion, lastArmed)
  /\ UNCHANGED <<automaton, current, ctxMotion, lastArmed, paused, pswitch, shell>>

ControlStep == Run \/ Transition \/ BeginArming \/ HalfSettled \/ EndArming

-----------------------------------------------------------------------------
(* prv_thruster_mode_guard: one look at the mode. *)
ThrusterCheck ==
  /\ shell = "idle"
  /\ mode # "FAILSAFE"
  /\ shell' = "checked"
  /\ UNCHANGED <<automaton, control, paused, hw>>

(* thruster idle / all / set *)
ThrusterSet ==
  /\ shell = "checked"
  /\ out' \in {"IDLE", "SHELL"}
  /\ shell' = "idle"
  /\ UNCHANGED <<automaton, control, paused, pswitch>>

(* thruster pulse: the outputs stay as they are for up to a minute *)
PulseBegin ==
  /\ shell = "checked"
  /\ out' = "SHELL"
  /\ shell' = "pulsing"
  /\ UNCHANGED <<automaton, control, paused, pswitch>>

PulseEnd ==
  /\ shell = "pulsing"
  /\ out' = "IDLE"
  /\ shell' = "idle"
  /\ UNCHANGED <<automaton, control, paused, pswitch>>

ShellStep == ThrusterCheck \/ ThrusterSet \/ PulseBegin \/ PulseEnd

-----------------------------------------------------------------------------
(* The mode changes: any step the mode manager may take. *)
ModeStep == AutomatonNext /\ UNCHANGED <<control, paused, hw, shell>>

Next == ControlStep \/ ShellStep \/ ModeStep

Spec == Init /\ [][Next]_vars

(* The control task is periodic and of the highest priority.  A thruster
   command that has begun is finished, because the shell task is only delayed
   by periodic tasks that block again. *)
Fairness == /\ WF_vars(ControlStep)
            /\ WF_vars(ThrusterSet \/ PulseBegin) /\ WF_vars(PulseEnd)

FairSpec == Spec /\ Fairness

-----------------------------------------------------------------------------
(* The thrusters are powered exactly while the control task is in ARMED, though
   the entry of FAILSAFE does not switch them off itself. *)
PowerFollowsControl == pswitch = "ON" <=> current = "ARMED"

(* The sensor tasks are suspended exactly while the control task is in STANDBY,
   by whatever way it came there and goes away. *)
PausedExactlyInStandby == paused <=> current = "STANDBY"

(* Thrust computed by the mixer is never left on an output after the control
   task has left ARMED, *)
MixerOnlyWhenArmed == out = "CONTROL" => current = "ARMED"

(* nor after it has handed the outputs to the shell in DEBUG. *)
DebugHandover ==
  (pc = "wait" /\ current = "ARMED" /\ ctxMotion = "DEBUG") => out # "CONTROL"

(* If FAILSAFE lasts, power and thrust are off for good from some point on,
   although a shell command may have passed its check before. *)
StopsInFailsafe ==
  <>[](mode = "FAILSAFE") => <>[](pswitch = "OFF" /\ out = "IDLE")
=============================================================================
