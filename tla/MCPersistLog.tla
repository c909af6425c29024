----------------------------- MODULE MCPersistLog -----------------------------
(* The persistent log with banks of a few units, so that they fill up, and one *)
(* record more than both of them hold, so that a switch reclaims an old one.   *)
EXTENDS PersistLog
===============================================================================
