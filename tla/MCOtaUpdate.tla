---------------------------- MODULE MCOtaUpdate ----------------------------
(* A kernel of one chunk and a root file system of two, as shipped: the    *)
(* chunks are fetched one ahead of the copy.                               *)
EXTENDS OtaUpdate, TLC

ShippedChunks == [kernel |-> 1, rootfs |-> 2]
=============================================================================
