------------------------------- MODULE MCStorage -------------------------------
(***************************************************************************)
(* Two saves are enough for an interleaving, or a sequence, of both        *)
(* commands and of one command with itself.                                *)
(***************************************************************************)
EXTENDS Storage
===============================================================================
