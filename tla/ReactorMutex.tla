---------------------------- MODULE ReactorMutex ----------------------------
(***************************************************************************)
(* The cooperative mutex of klippy/reactor.py (class ReactorMutex), which  *)
(* serialises G-code scripts (gcode.mutex) and TMC register access.        *)
(*                                                                         *)
(* Greenlets are scheduled by one thread, so the code between two pauses   *)
(* is one atomic step.  A greenlet that finds the mutex taken puts itself  *)
(* in a queue and pauses until NEVER; the releasing greenlet does not      *)
(* clear is_locked but hands the lock over: it sets next_pending and moves *)
(* the timer of the head of the queue to NOW.  The head takes the lock     *)
(* only later, when the reactor runs its timer.                            *)
(***************************************************************************)
EXTENDS Naturals, Sequences

CONSTANT Greenlets      \* the greenlets that use the mutex

VARIABLES
  is_locked,            \* ReactorMutex.is_locked
  next_pending,         \* ReactorMutex.next_pending: a hand-off is under way
  queue,                \* ReactorMutex.queue, the paused greenlets in order
  timer,                \* waketime of each greenlet's timer
  place                 \* where each greenlet is in the code

vars == <<is_locked, next_pending, queue, timer, place>>

\* A greenlet is outside, in the while loop of __enter__, or between
\* __enter__ and __exit__.
Places == {"outside", "paused", "inside"}

Init ==
  /\ is_locked = FALSE
  /\ next_pending = FALSE
  /\ queue = <<>>
  /\ timer = [g \in Greenlets |-> "NEVER"]
  /\ place = [g \in Greenlets |-> "outside"]

-----------------------------------------------------------------------------
\* __enter__ of a free mutex.
Acquire(g) ==
  /\ place[g] = "outside"
  /\ ~is_locked
  /\ is_locked' = TRUE
  /\ place' = [place EXCEPT ![g] = "inside"]
  /\ UNCHANGED <<next_pending, queue, timer>>

\* Mutant: __enter__ inserts the newcomer in front.
BlockInFront(g) ==
  /\ place[g] = "outside"
  /\ is_locked
  /\ queue' = <<g>> \o queue
  /\ timer' = [timer EXCEPT ![g] = "NEVER"]
  /\ place' = [place EXCEPT ![g] = "paused"]
  /\ UNCHANGED <<is_locked, next_pending>>

\* __enter__ of a taken mutex: queue up and pause until NEVER.
Block(g) ==
  /\ place[g] = "outside"
  /\ is_locked
  /\ queue' = Append(queue, g)
  /\ timer' = [timer EXCEPT ![g] = "NEVER"]
  /\ place' = [place EXCEPT ![g] = "paused"]
  /\ UNCHANGED <<is_locked, next_pending>>

\* The test a paused greenlet makes when it is run again.
MayTake(g) == next_pending /\ queue # <<>> /\ Head(queue) = g

\* The reactor runs the timer of a paused greenlet, which takes the lock when
\* the hand-off is meant for it and pauses again otherwise.
Wake(g) ==
  /\ place[g] = "paused"
  /\ timer[g] = "NOW"
  /\ timer' = [timer EXCEPT ![g] = "NEVER"]
  /\ IF MayTake(g)
     THEN /\ next_pending' = FALSE
          /\ queue' = Tail(queue)
          /\ place' = [place EXCEPT ![g] = "inside"]
     ELSE UNCHANGED <<next_pending, queue, place>>
  /\ UNCHANGED is_locked

\* Mutant: __exit__ frees the lock although somebody is to be handed it.
ExitAlsoUnlocks(g) ==
  /\ place[g] = "inside"
  /\ place' = [place EXCEPT ![g] = "outside"]
  /\ is_locked' = FALSE
  /\ IF queue = <<>>
     THEN UNCHANGED <<next_pending, timer>>
     ELSE /\ next_pending' = TRUE
          /\ timer' = [timer EXCEPT ![Head(queue)] = "NOW"]
  /\ UNCHANGED queue

\* __exit__: free the mutex, or hand it to the head of the queue.
Exit(g) ==
  /\ place[g] = "inside"
  /\ place' = [place EXCEPT ![g] = "outside"]
  /\ IF queue = <<>>
     THEN is_locked' = FALSE /\ UNCHANGED <<next_pending, timer>>
     ELSE /\ next_pending' = TRUE
          /\ timer' = [timer EXCEPT ![Head(queue)] = "NOW"]
          /\ UNCHANGED is_locked
  /\ UNCHANGED queue

Next == \E g \in Greenlets : Acquire(g) \/ Block(g) \/ Wake(g) \/ Exit(g)

Spec == Init /\ [][Next]_vars

-----------------------------------------------------------------------------
Inside == {g \in Greenlets : place[g] = "inside"}

TypeOK ==
  /\ is_locked \in BOOLEAN
  /\ next_pending \in BOOLEAN
  /\ queue \in Seq(Greenlets)
  /\ timer \in [Greenlets -> {"NOW", "NEVER"}]
  /\ place \in [Greenlets -> Places]

\* Two scripts never run at once: at most one greenlet is between __enter__
\* and __exit__, also while a hand-off is pending and others keep arriving.
MutualExclusion == \A g, h \in Inside : g = h

\* No lost wake-up: a hand-off always has a head of the queue to go to, that
\* greenlet's timer is due, and nobody else's is, so the lock cannot be left
\* pending for a greenlet that sleeps until NEVER.
HandOffArmed ==
  /\ next_pending => queue # <<>>
  /\ \A g \in Greenlets : timer[g] = "NOW" <=> MayTake(g)

\* The lock that test() reports taken is held or being handed over; a mutex
\* left locked with neither would stop every script for good.  (virtual_sdcard
\* and idle_timeout decide on test() alone.)
LockedHasReason == is_locked <=> (Inside # {} \/ next_pending)

\* Whoever is in the queue is paused, whoever is paused is in it, and once.
QueueIsPaused ==
  /\ \A i, j \in 1..Len(queue) : queue[i] = queue[j] => i = j
  /\ \A g \in Greenlets :
       place[g] = "paused" <=> \E i \in 1..Len(queue) : queue[i] = g

\* The inductive invariant.
MutexInv ==
  /\ TypeOK
  /\ MutualExclusion
  /\ HandOffArmed
  /\ LockedHasReason
  /\ QueueIsPaused
  /\ next_pending => Inside = {}
  /\ queue # <<>> => is_locked

\* The mutex implements the first-come first-served lock.
Abstract == INSTANCE FifoLock WITH
  Clients <- Greenlets, holders <- Inside, line <- queue

ServesInOrder == Abstract!LockSpec

=============================================================================
