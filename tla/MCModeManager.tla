---------------------------- MODULE MCModeManager ---------------------------
(* Two requesting tasks, as in the program; the limit of the mismatch counter is
   the smallest, for it only delays the report. *)
EXTENDS ModeManager
=============================================================================
