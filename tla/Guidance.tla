------------------------------- MODULE Guidance ------------------------------
(***************************************************************************)
(* What the control task flies: the target the host has sent last          *)
(* (Task/task_rt_cmd.c, the target of System/sys_data_pool.c), the motion  *)
(* mode it is read in, and what the controllers of Task/task_control.c     *)
(* remember from one pass to the next.  Every action is an action of       *)
(* ControlTask with its part in this, or one of a communication task.      *)
(*                                                                         *)
(* Thrusts are not computed: a controller is what its integral and its     *)
(* last error were gathered in.  Depths are numbers, of any unit; whatever *)
(* the host sends is a number.                                             *)
(***************************************************************************)
EXTENDS ControlTask, Integers

CONSTANTS
  Commands,          \* the motion commands of the host, each with its mode and depth
  MaxDepth,          \* failsafe_max_depth
  MinDepth           \* DEPTH_CONTROL_MIN_TARGET

TargetModes == MotionModes \ {"DEBUG"}

ASSUME CommandAssumption  == Commands \subseteq [mode : TargetModes, depth : Int]
ASSUME DepthAssumption    == MaxDepth \in Nat /\ MinDepth \in Nat

Targets     == [mode : TargetModes, depth : 0..MaxDepth]
Controllers == {"roll", "yaw", "depth"}    \* pid_roll, pid_yaw.inner, pid_depth
NoTarget    == [mode |-> "none"]

VARIABLES
  target,      \* s_bricsbot_target
  inHand,      \* what the RT task has received and not yet pushed
  ctxTarget,   \* ctx->target, of the present pass or the last
  memory,      \* the motion modes a controller's integral and last error come from
  newest,      \* history: the target the host has sent last, on either channel
  overtaken    \* history: it came while the RT task had an older one in hand

sent     == <<newest, overtaken>>
guidance == <<target, inHand, ctxTarget, memory, sent>>
gvars    == <<vars, guidance>>

(* The depth of the target lies within the limit, by whatever command and in
   whatever mode it was set. *)
GuidanceTypeOK ==
  /\ target \in Targets /\ ctxTarget \in Targets
  /\ inHand \in {NoTarget} \cup Commands
  /\ memory \in [Controllers -> SUBSET TargetModes]
  /\ newest \in Targets /\ overtaken \in BOOLEAN

AtRest == [mode |-> "MANUAL", depth |-> 0]

(* Reset_All_Controllers *)
Cleared == [c \in Controllers |-> {}]

GuidanceInit ==
  /\ Init
  /\ target = AtRest /\ inHand = NoTarget /\ ctxTarget = AtRest
  /\ memory = [c \in Controllers |-> {}]
  /\ newest = AtRest /\ overtaken = FALSE

-----------------------------------------------------------------------------
(* A depth is limited from above only. *)
ClampedAbove(d) == IF d > MaxDepth THEN MaxDepth ELSE d

(* prv_clamp_depth_target *)
Clamped(d) == IF d < 0 THEN 0 ELSE IF d > MaxDepth THEN MaxDepth ELSE d

Held(command) == [command EXCEPT !.depth = Clamped(@)]

(* On_Motion_Ctrl_Received, in the RT task; other target modes are ignored. *)
ReceiveMotion ==
  /\ ~paused /\ inHand = NoTarget
  /\ inHand' \in Commands
  /\ newest' = Held(inHand') /\ overtaken' = FALSE
  /\ UNCHANGED <<vars, target, ctxTarget, memory>>

(* Bot_Target_Push_Manual, Bot_Target_Push_Stabilize.  When STANDBY has come in
   between this is done after it. *)
PushTarget ==
  /\ ~paused /\ inHand # NoTarget
  /\ target' = Held(inHand)
  /\ inHand' = NoTarget
  /\ UNCHANGED <<vars, ctxTarget, memory, sent>>

(* The same command may come on the NRT channel, whose task is never suspended. *)
PushTargetOfNrt ==
  /\ \E command \in Commands : target' = Held(command)
  /\ newest' = target' /\ overtaken' = (inHand # NoTarget)
  /\ UNCHANGED <<vars, inHand, ctxTarget, memory>>

-----------------------------------------------------------------------------
(* The controllers a motion mode calls; that of the depth forgets everything
   when the target lies too high. *)
Updated(remembered, now, tgt) ==
  [c \in Controllers |->
     CASE c = "roll"  -> remembered[c] \cup {now}
       [] c = "yaw"   -> IF now = "AUTO" THEN remembered[c] ELSE remembered[c] \cup {now}
       [] c = "depth" -> IF tgt.depth < MinDepth THEN {} ELSE remembered[c] \cup {now}]

(* A motion mode that takes the controllers over as they are. *)
RememberedAlways(now, before) == memory

(* What a change of the motion mode leaves of the controllers. *)
Remembered(now, before) == IF now # before THEN Cleared ELSE memory

(* prv_armed_run.  The target is flown in the motion mode of the pass, whatever
   mode it was sent for. *)
Fly(now, before, tgt) ==
  memory' = IF now = "DEBUG" THEN Remembered(now, before)
            ELSE Updated(Remembered(now, before), now, tgt)


(* Bot_Target_Pull, at the start of every pass. *)
Pulled == target

GuidedRun ==
  /\ Run
  /\ ctxTarget' = Pulled
  /\ IF current = "ARMED" THEN Fly(motion, lastArmed, Pulled)
     ELSE UNCHANGED memory
  /\ UNCHANGED <<target, inHand, sent>>

(* Every mode resets the controllers when it is entered. *)
GuidedTransition ==
  /\ Transition
  /\ ctxTarget' = Pulled
  /\ memory' = Cleared
  /\ UNCHANGED <<target, inHand, sent>>

GuidedBeginArming ==
  /\ BeginArming
  /\ ctxTarget' = Pulled
  /\ memory' = Cleared
  /\ UNCHANGED <<target, inHand, sent>>

(* The pass goes on with the target it has pulled before it slept. *)
GuidedEndArming ==
  /\ EndArming
  /\ Fly(ctxMotion, lastArmed, ctxTarget)
  /\ UNCHANGED <<target, inHand, ctxTarget, sent>>

GuidedStep == GuidedRun \/ GuidedTransition \/ GuidedBeginArming \/ GuidedEndArming
              \/ (HalfSettled /\ UNCHANGED guidance)

GuidanceNext ==
  \/ GuidedStep
  \/ ReceiveMotion \/ PushTarget \/ PushTargetOfNrt
  \/ (ShellStep \/ ModeStep) /\ UNCHANGED guidance

GuidanceSpec == GuidanceInit /\ [][GuidanceNext]_gvars

(* As in ControlTask; the RT task runs on when it is not suspended.  The host need
   not send anything. *)
GuidanceFairSpec ==
  /\ GuidanceSpec
  /\ WF_gvars(PushTarget)
  /\ WF_gvars(GuidedStep)
  /\ WF_gvars((ThrusterSet \/ PulseBegin) /\ UNCHANGED guidance)
  /\ WF_gvars(PulseEnd /\ UNCHANGED guidance)

-----------------------------------------------------------------------------
(* What a controller remembers comes from the motion mode the control task is
   in, and from this time in ARMED: no integral is carried over from another
   mode, or through FAILSAFE, DISARMED or STANDBY into the next flight. *)
MemoryOfThisFlight ==
  \A c \in Controllers : memory[c] \subseteq (IF current = "ARMED" THEN {lastArmed} ELSE {})

=============================================================================
