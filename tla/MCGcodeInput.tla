---------------------------- MODULE MCGcodeInput ----------------------------
(* The pty and two other greenlets on the G-code mutex: enough for a holder, *)
(* a head of the queue and one behind it.  Input stops at three pending      *)
(* commands: two lines more than are run and wait at that moment.            *)
EXTENDS GcodeInput, TLC
CONSTANTS g1, g2
AllGreenlets == {Pty, g1, g2}
=============================================================================
