--------------------------- MODULE MCSerialQueue ---------------------------
(* A microcontroller with four sequence numbers: an identify query, and    *)
(* messages behind it to use the numbers up, from any starting number.     *)
EXTENDS SerialQueue, TLC

AskedMessages == {1, 2}
=============================================================================
