------------------------------ MODULE FifoLock ------------------------------
(***************************************************************************)
(* What a reactor mutex promises to the code between "with mutex:" lines:  *)
(* at most one holder, and those who had to wait are served in the order   *)
(* in which they asked; nobody who asks later overtakes them.              *)
(***************************************************************************)
EXTENDS Naturals, Sequences

CONSTANT Clients

VARIABLES
  holders,      \* the clients between enter and exit: none or one
  line          \* those who wait, in the order in which they asked

lockVars == <<holders, line>>

LockInit == holders = {} /\ line = <<>>

\* Enter a free lock.  A lock nobody holds but somebody waits for is not free.
Take(c) ==
  /\ holders = {} /\ line = <<>>
  /\ holders' = {c}
  /\ UNCHANGED line

Join(c) ==
  /\ c \notin holders
  /\ \A i \in 1..Len(line) : line[i] # c
  /\ line' = Append(line, c)
  /\ UNCHANGED holders

Grant ==
  /\ holders = {} /\ line # <<>>
  /\ holders' = {Head(line)}
  /\ line' = Tail(line)

Release(c) ==
  /\ holders = {c}
  /\ holders' = {}
  /\ UNCHANGED line

LockNext ==
  \/ Grant
  \/ \E c \in Clients : Take(c) \/ Join(c) \/ Release(c)

LockSpec == LockInit /\ [][LockNext]_lockVars
=============================================================================
