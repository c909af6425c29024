----------------------------- MODULE MCDepthSensor ----------------------------
(***************************************************************************)
(* The surface and half a metre; targets above and below the least the     *)
(* controller works with, which is 20 m, and one below the limit, 1000 m.  *)
(* TempEvery is 20 in the code.                                            *)
(***************************************************************************)
EXTENDS DepthSensor

MCDepths       == {0, 50}
MCDepthTargets == {1, 25, 1001}
===============================================================================
