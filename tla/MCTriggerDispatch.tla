------------------------- MODULE MCTriggerDispatch -------------------------
(* Two boards, the endstop on the first, and two homing moves one after the  *)
(* other; a time-out of two instants, of which three pass.                    *)
EXTENDS TriggerDispatch, TLC
=============================================================================
