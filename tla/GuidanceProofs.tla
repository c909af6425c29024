---------------------------- MODULE GuidanceProofs ---------------------------
(***************************************************************************)
(* Proofs about Guidance for any commands and any limits of the depth.     *)
(* Every step of Guidance is one of ControlTask or leaves that alone, so   *)
(* its theorems hold here as well; MemoryOfThisFlight rests on two of its  *)
(* facts: the ESCs only settle in ARMED, and the motion mode of a pass in  *)
(* ARMED is the one remembered for the next.                               *)
(***************************************************************************)
EXTENDS Guidance, ControlTaskProofs

GInv == IInv /\ GuidanceTypeOK /\ MemoryOfThisFlight

(* A step of Guidance is a step of the control task, the shell or the mode, or
   none of theirs. *)
LEMMA StepRefines == [GuidanceNext]_gvars => [Next]_vars
BY DEF GuidanceNext, GuidedStep, GuidedRun, GuidedTransition, GuidedBeginArming,
       GuidedEndArming, ReceiveMotion, PushTarget, PushTargetOfNrt, gvars, Next, ControlStep

(* Limiting the depth of a command makes it a target. *)
LEMMA HeldIsTarget == \A command \in Commands : Held(command) \in Targets
BY CommandAssumption, DepthAssumption DEF Held, Clamped, Targets

(* What flying a pass leaves, in terms of the motion mode it is flown in. *)
LEMMA FlyKeeps ==
  ASSUME GuidanceTypeOK,
         NEW now \in MotionModes, NEW before \in MotionModes, NEW tgt \in Targets,
         \A c \in Controllers : memory[c] \subseteq {before},
         Fly(now, before, tgt)
  PROVE  /\ memory' \in [Controllers -> SUBSET TargetModes]
         /\ \A c \in Controllers : memory'[c] \subseteq {now}
<1> DEFINE kept == Remembered(now, before)
<1>1. /\ kept \in [Controllers -> SUBSET TargetModes]
      /\ \A c \in Controllers : kept[c] \subseteq {now}
  BY DEF Remembered, Cleared, GuidanceTypeOK
<1>2. CASE now = "DEBUG"
  BY <1>1, <1>2 DEF Fly
<1>3. CASE now # "DEBUG"
  <2>1. memory' = Updated(kept, now, tgt) /\ now \in TargetModes
    BY <1>3 DEF Fly, TargetModes
  <2> HIDE DEF kept
  <2>2. \A c \in Controllers : memory'[c] \subseteq {now} /\ memory'[c] \in SUBSET TargetModes
    BY <1>1, <2>1 DEF Updated, Controllers
  <2>3. memory' \in [Controllers -> SUBSET TargetModes]
    BY <2>1, <2>2 DEF Updated
  <2> QED
    BY <2>2, <2>3
<1> QED
  BY <1>2, <1>3

LEMMA InitGInv == GuidanceInit => GInv
<1> SUFFICES ASSUME GuidanceInit PROVE GInv
  OBVIOUS
<1>1. IInv
  BY InitIInv DEF GuidanceInit
<1>2. AtRest \in Targets
  BY DepthAssumption DEF AtRest, Targets, TargetModes, MotionModes
<1> QED
  BY <1>1, <1>2 DEF GInv, GuidanceInit, GuidanceTypeOK, MemoryOfThisFlight, Controllers

(* No step of the control task, of a communication task or of the mode breaks it. *)
LEMMA NextGInv == GInv /\ [GuidanceNext]_gvars => GInv'
<1> SUFFICES ASSUME GInv, [GuidanceNext]_gvars PROVE GInv'
  OBVIOUS
<1> USE DEF GInv
<1>1. IInv'
  BY StepRefines, NextIInv
<1>2. CASE GuidedRun
  <2>1. /\ mode = current /\ current' = current /\ ctxTarget' = target
        /\ target' = target /\ inHand' = inHand /\ sent' = sent /\ motion \in MotionModes
        /\ lastArmed \in MotionModes
        /\ lastArmed' = IF current = "ARMED" THEN motion ELSE lastArmed
    BY <1>2 DEF GuidedRun, Run, Pulled, IInv, TypeOK, AutomatonTypeOK
  <2>2. CASE current = "ARMED"
    <3>1. Fly(motion, lastArmed, target) /\ target \in Targets
      BY <1>2, <2>2 DEF GuidedRun, Pulled, GuidanceTypeOK
    <3>2. \A c \in Controllers : memory[c] \subseteq {lastArmed}
      BY <2>2 DEF MemoryOfThisFlight
    <3>3. /\ memory' \in [Controllers -> SUBSET TargetModes]
          /\ \A c \in Controllers : memory'[c] \subseteq {motion}
       BY <2>1, <3>1, <3>2, FlyKeeps
    <3> QED
      BY <1>1, <2>1, <2>2, <3>3 DEF GuidanceTypeOK, MemoryOfThisFlight, sent
  <2>3. CASE current # "ARMED"
    BY <1>1, <1>2, <2>1, <2>3 DEF GuidedRun, GuidanceTypeOK, MemoryOfThisFlight, sent
  <2> QED
    BY <2>2, <2>3
<1>3. CASE GuidedTransition \/ GuidedBeginArming
  <2>1. /\ memory' = Cleared /\ ctxTarget' = target
        /\ UNCHANGED <<target, inHand, sent>>
    BY <1>3 DEF GuidedTransition, GuidedBeginArming, Pulled
  <2>2. Cleared \in [Controllers -> SUBSET TargetModes] /\ \A c \in Controllers : Cleared[c] = {}
    BY DEF Cleared
  <2> QED
    BY <1>1, <2>1, <2>2 DEF GuidanceTypeOK, MemoryOfThisFlight, sent
<1>4. CASE GuidedEndArming
  <2>1. /\ current = "ARMED" /\ current' = "ARMED" /\ lastArmed' = lastArmed
        /\ lastArmed = ctxMotion /\ ctxMotion \in MotionModes
    BY <1>4 DEF GuidedEndArming, EndArming, IInv, TypeOK, MotionRemembered
  <2>2. Fly(ctxMotion, lastArmed, ctxTarget) /\ UNCHANGED <<target, inHand, ctxTarget, sent>>
    BY <1>4 DEF GuidedEndArming
  <2>3. ctxTarget \in Targets /\ \A c \in Controllers : memory[c] \subseteq {lastArmed}
    BY <2>1 DEF GuidanceTypeOK, MemoryOfThisFlight, sent
  <2>4. /\ memory' \in [Controllers -> SUBSET TargetModes]
        /\ \A c \in Controllers : memory'[c] \subseteq {ctxMotion}
    BY <2>1, <2>2, <2>3, FlyKeeps
  <2> QED
    BY <1>1, <2>1, <2>2, <2>4 DEF GuidanceTypeOK, MemoryOfThisFlight, sent
<1>5. CASE ReceiveMotion \/ PushTarget \/ PushTargetOfNrt
  <2>1. UNCHANGED <<current, lastArmed, ctxTarget, memory>>
    BY <1>5 DEF ReceiveMotion, PushTarget, PushTargetOfNrt, vars, control
  <2>2. /\ target' \in Targets /\ inHand' \in {NoTarget} \cup Commands
        /\ newest' \in Targets /\ overtaken' \in BOOLEAN
    BY <1>5, HeldIsTarget DEF ReceiveMotion, PushTarget, PushTargetOfNrt, GuidanceTypeOK, sent
  <2> QED
    BY <1>1, <2>1, <2>2 DEF GuidanceTypeOK, MemoryOfThisFlight, sent
<1>6. CASE UNCHANGED guidance /\ UNCHANGED <<current, lastArmed>>
  BY <1>1, <1>6 DEF guidance, sent, GuidanceTypeOK, MemoryOfThisFlight
<1>7. CASE (HalfSettled \/ ShellStep \/ ModeStep) /\ UNCHANGED guidance
  BY <1>6, <1>7 DEF HalfSettled, ShellStep, ThrusterCheck, ThrusterSet, PulseBegin, PulseEnd,
                    ModeStep, control
<1>8. CASE UNCHANGED gvars
  BY <1>6, <1>8 DEF gvars, vars, control
<1> QED
  BY <1>2, <1>3, <1>4, <1>5, <1>7, <1>8 DEF GuidanceNext, GuidedStep

-----------------------------------------------------------------------------
(* What the control task does with a target is a behaviour of the control task:
   every theorem of ControlTaskProofs holds of Guidance. *)
THEOREM Implements == GuidanceSpec => Spec
<1>1. GuidanceInit => Init
  BY DEF GuidanceInit
<1>2. [GuidanceNext]_gvars => [Next]_vars
  BY StepRefines
<1> QED
  BY <1>1, <1>2, PTL DEF GuidanceSpec, Spec

(* The invariant holds in every reachable state. *)
THEOREM GuidanceInvariance == GuidanceSpec => []GInv
<1>1. GuidanceInit => GInv
  BY InitGInv
<1>2. GInv /\ [GuidanceNext]_gvars => GInv'
  BY NextGInv
<1> QED
  BY <1>1, <1>2, PTL DEF GuidanceSpec

(* Whatever the host sends, the depth that is flown to lies within the limit. *)
THEOREM TargetsLimited == GuidanceSpec => []GuidanceTypeOK
BY GuidanceInvariance, PTL DEF GInv

(* No controller remembers another motion mode, or another flight. *)
THEOREM MemoryTheorem == GuidanceSpec => []MemoryOfThisFlight
BY GuidanceInvariance, PTL DEF GInv
=============================================================================
