---------------------------- MODULE ModeAutomaton ---------------------------
(***************************************************************************)
(* What the mode manager promises to the rest of the firmware, without the *)
(* tasks, the critical sections and the snapshots it is implemented with:  *)
(* an automaton over the system mode in which FAILSAFE can be entered from *)
(* anywhere, is left only for DISARMED and only when nothing is wrong, and *)
(* ARMED is entered only from DISARMED and only when nothing is wrong.     *)
(* ModeManager implements it; ControlTask is written against it.           *)
(***************************************************************************)
CONSTANTS Fault,       \* the kinds of fault that can be latched
          Measurable   \* those that can be read off the sensors at any time

ASSUME MeasurableAssumption == Measurable \subseteq Fault /\ Fault # {}

SysModes    == {"STANDBY", "DISARMED", "ARMED", "FAILSAFE"}
MotionModes == {"MANUAL", "STABILIZE", "AUTO", "DEBUG"}

VARIABLES mode, motion, latched,
          present   \* the measurable faults there are right now

automaton == <<mode, motion, latched, present>>

AutomatonTypeOK ==
  /\ mode \in SysModes
  /\ motion \in MotionModes
  /\ latched \in SUBSET Fault
  /\ present \in SUBSET Measurable

AutomatonInit ==
  /\ mode = "STANDBY" /\ motion = "MANUAL"
  /\ latched = {} /\ present = {}

-----------------------------------------------------------------------------
(* System_ModeManager_EnterFailsafe: faults add up. *)
Trip ==
  /\ \E faults \in (SUBSET Fault) \ {{}} : latched' = latched \cup faults
  /\ mode' = "FAILSAFE"
  /\ UNCHANGED <<motion, present>>

(* A mode request in FAILSAFE that is refused replaces what is latched by
   what can be measured. *)
Rejudge ==
  /\ mode = "FAILSAFE"
  /\ latched' = present
  /\ UNCHANGED <<mode, motion, present>>

Recover ==
  /\ mode = "FAILSAFE" /\ present = {}
  /\ mode' = "DISARMED" /\ latched' = {}
  /\ UNCHANGED <<motion, present>>

Arm ==
  /\ mode = "DISARMED" /\ present = {}
  /\ mode' = "ARMED"
  /\ UNCHANGED <<motion, latched, present>>

Relax ==
  /\ mode' \in {"STANDBY", "DISARMED"} \ {mode}
  /\ mode # "FAILSAFE"
  /\ UNCHANGED <<motion, latched, present>>

SelectMotion ==
  /\ motion' \in MotionModes
  /\ UNCHANGED <<mode, latched, present>>

(* A sensor task writes the data pool. *)
Measure ==
  /\ present' \in SUBSET Measurable
  /\ UNCHANGED <<mode, motion, latched>>

AutomatonNext == Trip \/ Rejudge \/ Recover \/ Arm \/ Relax \/ SelectMotion \/ Measure

AutomatonSpec == AutomatonInit /\ [][AutomatonNext]_automaton
=============================================================================
