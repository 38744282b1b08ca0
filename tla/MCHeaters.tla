----------------------------- MODULE MCHeaters -----------------------------
(* Three extruders and two places; a temperature in range, and one that is not. *)
EXTENDS Heaters, TLC
=============================================================================
