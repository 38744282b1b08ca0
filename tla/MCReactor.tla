----------------------------- MODULE MCReactor -----------------------------
(* Pauses two deep, a timer, a one-shot and a call of another thread.        *)
EXTENDS Reactor, TLC
=============================================================================
