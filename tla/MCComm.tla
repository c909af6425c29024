-------------------------------- MODULE MCComm --------------------------------
(***************************************************************************)
(* The queue depths and buffers are those of the code.                     *)
(***************************************************************************)
EXTENDS Comm

MCDepth     == [RT |-> 2, NRT |-> 4]
MCKinds     == [RT |-> {"motion", "command"}, NRT |-> {"read", "clear"}]
MCMaxFrames == [RT |-> 3, NRT |-> 1]
MCMaxFramesStandby == [RT |-> 1, NRT |-> 2]
=============================================================================
