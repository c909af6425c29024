------------------------------ MODULE MCGuidance -----------------------------
(***************************************************************************)
(* One fault that can be measured and one that cannot; one command for the *)
(* surface and one for a depth below the limit, of two motion modes.       *)
(***************************************************************************)
EXTENDS Guidance

MCCommands == {[mode |-> "MANUAL", depth |-> 2], [mode |-> "AUTO", depth |-> -1]}
=============================================================================
