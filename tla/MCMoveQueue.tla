---------------------------- MODULE MCMoveQueue ----------------------------
(* An instant is about a quarter of a second; delays below it are one.       *)
EXTENDS MoveQueue, TLC
=============================================================================
