-------------------------- MODULE GcodeInputProofs --------------------------
(***************************************************************************)
(* Proofs about the reactor mutex and about the input of G-code, for any   *)
(* greenlets and limits.  First the mutex alone: MutexInv is inductive,    *)
(* and under it every step of the code is a step of FifoLock or leaves the *)
(* abstract lock alone.  With the pty the mutex is used as ReactorMutex    *)
(* says, so its theorems hold here.  The lines that were run, are being    *)
(* run and wait are, one after the other, all the lines read.              *)
(***************************************************************************)
EXTENDS GcodeInput, TLAPS

-----------------------------------------------------------------------------
(* The mutex. *)

\* In the initial state nobody holds or waits for the mutex.
LEMMA InitMutexInv == Init => MutexInv
<1> SUFFICES ASSUME Init PROVE MutexInv
  OBVIOUS
<1>1. Inside = {}
  BY DEF Init, Inside
<1>2. TypeOK
  <2>1. <<>> \in Seq(Greenlets)
    OBVIOUS
  <2>2. /\ timer \in [Greenlets -> {"NOW", "NEVER"}]
        /\ place \in [Greenlets -> Places]
    BY DEF Init, Places
  <2> QED
    BY <2>1, <2>2 DEF Init, TypeOK
<1>3. QueueIsPaused
  BY DEF Init, QueueIsPaused
<1>4. HandOffArmed
  BY DEF Init, HandOffArmed, MayTake
<1> QED
  BY <1>1, <1>2, <1>3, <1>4 DEF Init, MutexInv, MutualExclusion, LockedHasReason

\* Appending a greenlet that is not in a queue keeps the queue free of
\* duplicates and adds exactly that greenlet.
LEMMA AppendToQueue ==
  ASSUME NEW q \in Seq(Greenlets), NEW g \in Greenlets
  PROVE  /\ Append(q, g) \in Seq(Greenlets)
         /\ Len(Append(q, g)) = Len(q) + 1
         /\ \A i \in 1..Len(q) : Append(q, g)[i] = q[i]
         /\ Append(q, g)[Len(q) + 1] = g
         /\ q # <<>> => Head(Append(q, g)) = Head(q)
OBVIOUS

\* What is left of a queue when its head is served.
LEMMA TailOfQueue ==
  ASSUME NEW q \in Seq(Greenlets), q # <<>>
  PROVE  /\ Tail(q) \in Seq(Greenlets)
         /\ Len(Tail(q)) = Len(q) - 1
         /\ \A i \in 1..Len(Tail(q)) : Tail(q)[i] = q[i + 1]
         /\ Head(q) = q[1]
         /\ Len(q) \in Nat \ {0}
OBVIOUS

\* A greenlet that enters a free mutex: nobody is queued or inside.
LEMMA AcquireKeepsInv ==
  ASSUME MutexInv, NEW g \in Greenlets, Acquire(g) PROVE MutexInv'
<1>1. Inside = {} /\ queue = <<>> /\ ~next_pending
  BY DEF MutexInv, LockedHasReason, Acquire
<1>2. Inside' = {g}
  BY <1>1 DEF Inside, Acquire, MutexInv, TypeOK, Places
<1>3. TypeOK'
  BY DEF MutexInv, TypeOK, Acquire, Places
<1>4. HandOffArmed' /\ LockedHasReason' /\ MutualExclusion'
  BY <1>1, <1>2 DEF MutexInv, HandOffArmed, LockedHasReason, MutualExclusion,
                    MayTake, Acquire
<1>5. QueueIsPaused'
  BY <1>1 DEF MutexInv, TypeOK, QueueIsPaused, Acquire
<1> QED
  BY <1>1, <1>2, <1>3, <1>4, <1>5 DEF MutexInv, Acquire

\* A greenlet that queues up leaves holder and hand-off as they are.
LEMMA BlockKeepsInv ==
  ASSUME MutexInv, NEW g \in Greenlets, Block(g) PROVE MutexInv'
<1>1. queue' = Append(queue, g) /\ queue \in Seq(Greenlets)
  BY DEF Block, MutexInv, TypeOK
<1>2. Inside' = Inside
  BY DEF Inside, Block, MutexInv, TypeOK, Places
<1>3. \A i \in 1..Len(queue) : queue[i] # g
  BY DEF Block, MutexInv, QueueIsPaused
<1>4. TypeOK'
  BY <1>1, AppendToQueue DEF MutexInv, TypeOK, Block, Places
<1>5. HandOffArmed'
  <2>1. queue' # <<>>
    BY <1>1
  <2>2. \A h \in Greenlets : MayTake(h)' <=> MayTake(h)
    BY <1>1, AppendToQueue DEF MutexInv, HandOffArmed, MayTake, Block
  <2>3. ~MayTake(g)
    BY <1>1, <1>3, TailOfQueue DEF MayTake
  <2>4. \A h \in Greenlets : timer'[h] = "NOW" <=> MayTake(h)
    BY <2>3 DEF MutexInv, HandOffArmed, TypeOK, Block
  <2> QED
    BY <2>1, <2>2, <2>4 DEF HandOffArmed
<1>6. QueueIsPaused'
  <2>1. \A h \in Greenlets : place'[h] = "paused" <=> (place[h] = "paused" \/ h = g)
    BY DEF Block, MutexInv, TypeOK
  <2>2. Len(queue') = Len(queue) + 1 /\ queue'[Len(queue) + 1] = g
        /\ \A i \in 1..Len(queue) : queue'[i] = queue[i]
    BY <1>1, AppendToQueue
  <2>3. \A h \in Greenlets : place[h] = "paused" <=> \E i \in 1..Len(queue) : queue[i] = h
    BY DEF MutexInv, QueueIsPaused
  <2>4. Len(queue) \in Nat
    BY <1>1
  <2>5. \A h \in Greenlets :
          place'[h] = "paused" <=> \E i \in 1..Len(queue') : queue'[i] = h
    BY <2>1, <2>2, <2>3, <2>4
  <2>6. \A i, j \in 1..Len(queue') : queue'[i] = queue'[j] => i = j
    BY <2>2, <2>4, <1>3 DEF MutexInv, QueueIsPaused
  <2> QED
    BY <2>5, <2>6 DEF QueueIsPaused
<1> QED
  BY <1>2, <1>4, <1>5, <1>6 DEF MutexInv, MutualExclusion, LockedHasReason, Block

\* A greenlet whose timer fires is the head of the queue and takes the lock.
LEMMA WakeKeepsInv ==
  ASSUME MutexInv, NEW g \in Greenlets, Wake(g) PROVE MutexInv'
<1>1. MayTake(g)
  BY DEF MutexInv, HandOffArmed, Wake
<1>2. /\ queue \in Seq(Greenlets) /\ queue # <<>> /\ queue[1] = g
      /\ next_pending /\ Inside = {} /\ is_locked
      /\ next_pending' = FALSE /\ queue' = Tail(queue)
      /\ place' = [place EXCEPT ![g] = "inside"]
      /\ timer' = [timer EXCEPT ![g] = "NEVER"] /\ is_locked' = is_locked
  BY <1>1, TailOfQueue DEF MayTake, Wake, MutexInv, TypeOK
<1>3. Inside' = {g}
  BY <1>2 DEF Inside, MutexInv, TypeOK, Places
<1>4. TypeOK'
  BY <1>2, TailOfQueue DEF MutexInv, TypeOK, Places
<1>5. HandOffArmed'
  <2>1. \A h \in Greenlets : timer'[h] # "NOW"
    BY <1>1, <1>2 DEF MutexInv, HandOffArmed, TypeOK, MayTake
  <2> QED
    BY <2>1, <1>2 DEF HandOffArmed, MayTake
<1>6. QueueIsPaused'
  <2>1. /\ Len(queue') = Len(queue) - 1 /\ Len(queue) \in Nat \ {0}
        /\ \A i \in 1..Len(queue') : queue'[i] = queue[i + 1]
    BY <1>2, TailOfQueue
  <2>2. /\ \A i, j \in 1..Len(queue) : queue[i] = queue[j] => i = j
        /\ \A h \in Greenlets :
             place[h] = "paused" <=> \E i \in 1..Len(queue) : queue[i] = h
    BY DEF MutexInv, QueueIsPaused
  <2>3. ASSUME NEW i \in 1..Len(queue'), NEW j \in 1..Len(queue'), queue'[i] = queue'[j]
        PROVE  i = j
    <3>1. queue[i + 1] = queue[j + 1]
      BY <2>1, <2>3
    <3>2. i + 1 \in 1..Len(queue) /\ j + 1 \in 1..Len(queue)
      BY <2>1
    <3>3. i + 1 = j + 1
      BY <2>2, <3>1, <3>2
    <3> QED
      BY <3>3
  <2>4. \A h \in Greenlets : place'[h] = "paused" <=> (place[h] = "paused" /\ h # g)
    BY <1>2 DEF MutexInv, TypeOK
  <2>5. ASSUME NEW h \in Greenlets
        PROVE (\E i \in 1..Len(queue') : queue'[i] = h)
              <=> (h # g /\ \E i \in 1..Len(queue) : queue[i] = h)
    <3>1. ASSUME NEW i \in 1..Len(queue'), queue'[i] = h
          PROVE  h # g /\ \E k \in 1..Len(queue) : queue[k] = h
      <4>1. i + 1 \in 1..Len(queue) /\ queue[i + 1] = h /\ i + 1 # 1 /\ 1 \in 1..Len(queue)
        BY <2>1, <3>1
      <4> QED
        BY <4>1, <2>2, <1>2
    <3>2. ASSUME h # g, NEW k \in 1..Len(queue), queue[k] = h
          PROVE  \E i \in 1..Len(queue') : queue'[i] = h
      <4>1. k # 1
        BY <3>2, <1>2
      <4>2. k - 1 \in 1..Len(queue') /\ queue'[k - 1] = h
        BY <4>1, <2>1, <3>2
      <4> QED
        BY <4>2
    <3> QED
      BY <3>1, <3>2
  <2> QED
    BY <2>2, <2>3, <2>4, <2>5 DEF QueueIsPaused
<1> QED
  BY <1>2, <1>3, <1>4, <1>5, <1>6 DEF MutexInv, MutualExclusion, LockedHasReason

\* The holder leaves: the mutex is free, or exactly the head of the queue is
\* armed to take it.
LEMMA ExitKeepsInv ==
  ASSUME MutexInv, NEW g \in Greenlets, Exit(g) PROVE MutexInv'
<1>1. Inside = {g} /\ ~next_pending /\ is_locked
  BY DEF Exit, MutexInv, MutualExclusion, LockedHasReason, Inside
<1>2. Inside' = {}
  BY <1>1 DEF Inside, Exit, MutexInv, TypeOK
<1>3. QueueIsPaused'
  BY DEF Exit, MutexInv, QueueIsPaused, TypeOK
<1>4. \A h \in Greenlets : timer[h] = "NEVER"
  BY <1>1 DEF MutexInv, HandOffArmed, MayTake, TypeOK
<1>5. CASE queue = <<>>
  BY <1>1, <1>2, <1>3, <1>4, <1>5
     DEF Exit, MutexInv, TypeOK, Places, MutualExclusion, HandOffArmed, MayTake,
         LockedHasReason
<1>6. CASE queue # <<>>
  <2>1. /\ next_pending' = TRUE /\ timer' = [timer EXCEPT ![Head(queue)] = "NOW"]
        /\ is_locked' = is_locked /\ queue' = queue
        /\ place' = [place EXCEPT ![g] = "outside"]
    BY <1>6 DEF Exit
  <2>2. Head(queue) \in Greenlets
    BY <1>6 DEF MutexInv, TypeOK
  <2>3. TypeOK'
    BY <2>1, <2>2 DEF MutexInv, TypeOK, Places
  <2>4. HandOffArmed'
    BY <1>4, <1>6, <2>1, <2>2 DEF HandOffArmed, MayTake, MutexInv, TypeOK
  <2> QED
    BY <1>1, <1>2, <1>3, <1>6, <2>1, <2>3, <2>4
       DEF MutexInv, MutualExclusion, LockedHasReason
<1> QED
  BY <1>5, <1>6

\* MutexInv holds in every reachable state of the mutex, for any greenlets.
THEOREM MutexInvariant == Spec => []MutexInv
<1>1. Init => MutexInv
  BY InitMutexInv
<1>2. MutexInv /\ [Next]_vars => MutexInv'
  <2> SUFFICES ASSUME MutexInv, [Next]_vars PROVE MutexInv'
    OBVIOUS
  <2>1. CASE UNCHANGED vars
    BY <2>1 DEF vars, MutexInv, TypeOK, MutualExclusion, HandOffArmed, MayTake,
                LockedHasReason, QueueIsPaused, Inside
  <2>2. CASE Next
    BY <2>2, AcquireKeepsInv, BlockKeepsInv, WakeKeepsInv, ExitKeepsInv DEF Next
  <2> QED
    BY <2>1, <2>2
<1> QED
  BY <1>1, <1>2, PTL DEF Spec

\* Two scripts are never inside the mutex together.
THEOREM MutexExcludes == Spec => []MutualExclusion
<1>1. MutexInv => MutualExclusion
  BY DEF MutexInv
<1> QED
  BY <1>1, MutexInvariant, PTL

\* A hand-off is never lost: see HandOffArmed.
THEOREM MutexHandsOver == Spec => []HandOffArmed
<1>1. MutexInv => HandOffArmed
  BY DEF MutexInv
<1> QED
  BY <1>1, MutexInvariant, PTL

\* Every step of the mutex is a step of the first-come first-served lock or
\* does not change it.
LEMMA StepRefines == MutexInv /\ [Next]_vars => [Abstract!LockNext]_(Abstract!lockVars)
<1> SUFFICES ASSUME MutexInv, [Next]_vars
             PROVE  Abstract!LockNext \/ UNCHANGED <<Inside, queue>>
  BY DEF Abstract!lockVars
<1>1. CASE UNCHANGED vars
  BY <1>1 DEF vars, Inside
<1>2. ASSUME NEW g \in Greenlets, Acquire(g) PROVE Abstract!Take(g)
  <2>1. Inside = {} /\ queue = <<>>
    BY <1>2 DEF MutexInv, LockedHasReason, Acquire
  <2>2. Inside' = {g}
    BY <1>2, <2>1 DEF Inside, Acquire, MutexInv, TypeOK
  <2> QED
    BY <1>2, <2>1, <2>2 DEF Abstract!Take, Acquire
<1>3. ASSUME NEW g \in Greenlets, Block(g) PROVE Abstract!Join(g)
  <2>1. Inside' = Inside /\ g \notin Inside
    BY <1>3 DEF Inside, Block, MutexInv, TypeOK, Places
  <2>2. \A i \in 1..Len(queue) : queue[i] # g
    BY <1>3 DEF Block, MutexInv, QueueIsPaused
  <2> QED
    BY <1>3, <2>1, <2>2 DEF Abstract!Join, Block
<1>4. ASSUME NEW g \in Greenlets, Wake(g) PROVE Abstract!Grant
  <2>1. MayTake(g)
    BY <1>4 DEF MutexInv, HandOffArmed, Wake
  <2>2. Inside = {} /\ queue # <<>> /\ Head(queue) = g /\ queue' = Tail(queue)
    BY <1>4, <2>1 DEF MayTake, Wake, MutexInv
  <2>3. Inside' = {g}
    BY <1>4, <2>1, <2>2 DEF Inside, Wake, MutexInv, TypeOK
  <2> QED
    BY <2>2, <2>3 DEF Abstract!Grant
<1>5. ASSUME NEW g \in Greenlets, Exit(g) PROVE Abstract!Release(g)
  <2>1. Inside = {g}
    BY <1>5 DEF Exit, MutexInv, MutualExclusion, Inside
  <2>2. Inside' = {}
    BY <1>5, <2>1 DEF Inside, Exit, MutexInv, TypeOK
  <2> QED
    BY <1>5, <2>1, <2>2 DEF Abstract!Release, Exit
<1> QED
  BY <1>1, <1>2, <1>3, <1>4, <1>5 DEF Next, Abstract!LockNext

\* The reactor mutex implements FifoLock: nobody overtakes a waiting greenlet.
THEOREM MutexServesInOrder == Spec => ServesInOrder
<1>1. Init => Abstract!LockInit
  BY DEF Init, Abstract!LockInit, Inside
<1> QED
  BY <1>1, StepRefines, MutexInvariant, PTL DEF Spec, ServesInOrder, Abstract!LockSpec

-----------------------------------------------------------------------------
(* The input. *)

Positions ==
  /\ read = Len(ran) + Len(batch) + Len(pending)
  /\ read <= Len(sent)
  /\ \A i \in 1..Len(ran) : ran[i] = i
  /\ \A i \in 1..Len(batch) : batch[i] = Len(ran) + i
  /\ \A i \in 1..Len(pending) : pending[i] = Len(ran) + Len(batch) + i

\* Between batches nothing is left of the last one, and nothing waits when
\* _process_data is not at work.
BetweenBatches ==
  /\ loops => batch = <<>>
  /\ ~is_processing_data => batch = <<>> /\ pending = <<>> /\ ~loops

\* The pty's greenlet holds or waits for the mutex only at work.
PtyAtWork ==
  /\ place \in [Greenlets -> Places]
  /\ place[Pty] # "outside" => is_processing_data /\ ~loops

\* The inductive invariant.
InputInv == InputTypeOK /\ Positions /\ BetweenBatches /\ PtyAtWork /\ StopIsHeard

-----------------------------------------------------------------------------
(* Sequences. *)

LEMMA Concatenate ==
  ASSUME NEW p \in Seq(Nat), NEW s \in Seq(Nat)
  PROVE  /\ p \o s \in Seq(Nat)
         /\ Len(p \o s) = Len(p) + Len(s)
         /\ \A i \in 1..Len(p) : (p \o s)[i] = p[i]
         /\ \A i \in 1..Len(s) : (p \o s)[Len(p) + i] = s[i]
OBVIOUS

LEMMA AppendLines ==
  ASSUME NEW p \in Seq(Nat), NEW n \in Nat, read \in Nat
  PROVE  /\ Lines(n) \in Seq(Nat)
         /\ p \o Lines(n) \in Seq(Nat)
         /\ Len(p \o Lines(n)) = Len(p) + n
         /\ \A i \in 1..Len(p) : (p \o Lines(n))[i] = p[i]
         /\ \A i \in 1..n : (p \o Lines(n))[Len(p) + i] = read + i
<1>1. Lines(n) \in Seq(Nat) /\ Len(Lines(n)) = n /\ \A i \in 1..n : Lines(n)[i] = read + i
  <2>1. \A i \in 1..n : read + i \in Nat
    OBVIOUS
  <2>2. Lines(n) = [i \in 1..n |-> read + i]
    BY DEF Lines
  <2>3. [i \in 1..n |-> read + i] \in Seq(Nat)
    BY <2>1
  <2>4. Len([i \in 1..n |-> read + i]) = n
    OBVIOUS
  <2> QED
    BY <2>2, <2>3, <2>4
<1>2. \A q \in Seq(Nat) :
        /\ p \o q \in Seq(Nat)
        /\ Len(p \o q) = Len(p) + Len(q)
        /\ \A i \in 1..Len(p) : (p \o q)[i] = p[i]
        /\ \A i \in 1..Len(q) : (p \o q)[Len(p) + i] = q[i]
  BY Concatenate
<1> QED
  BY <1>1, <1>2, Zenon

LEMMA TakeFirst ==
  ASSUME NEW b \in Seq(Nat), b # <<>>, NEW r \in Seq(Nat)
  PROVE  /\ Tail(b) \in Seq(Nat) /\ Append(r, Head(b)) \in Seq(Nat)
         /\ Len(b) > 0 /\ Len(Tail(b)) = Len(b) - 1
         /\ Len(Append(r, Head(b))) = Len(r) + 1
         /\ \A i \in 1..Len(r) : Append(r, Head(b))[i] = r[i]
         /\ Append(r, Head(b))[Len(r) + 1] = b[1]
         /\ \A i \in 1..Len(Tail(b)) : Tail(b)[i] = b[i + 1]
OBVIOUS

LEMMA AppendSent ==
  ASSUME NEW s \in Seq(Kinds), NEW k \in Kinds
  PROVE  /\ Append(s, k) \in Seq(Kinds)
         /\ Len(Append(s, k)) = Len(s) + 1
         /\ \A i \in 1..Len(s) : Append(s, k)[i] = s[i]
OBVIOUS

\* An empty sequence has no elements.
LEMMA EmptyHas ==
  /\ <<>> \in Seq(Nat) /\ Len(<<>>) = 0
OBVIOUS

-----------------------------------------------------------------------------
(* The composition implements the mutex. *)

\* Every step of the composition is a step of the mutex, or leaves it alone.
LEMMA StepOfMutex ==
  ASSUME [InputNext]_inputVars
  PROVE  [Next]_vars
<1>1. CASE ReadData
  BY <1>1 DEF ReadData, mutex
<1>2. CASE Loop
  BY <1>2, InputAssumption DEF Loop, Next
<1>3. CASE LoopEnds
  BY <1>3 DEF LoopEnds, mutex
<1>4. CASE RunLine
  BY <1>4 DEF RunLine, mutex
<1>5. CASE BatchEnds
  BY <1>5, InputAssumption DEF BatchEnds, Next
<1>6. CASE WriteLine
  BY <1>6 DEF WriteLine, mutex
<1>7. CASE \E g \in Others : ScriptStarts(g) \/ ScriptEnds(g)
  BY <1>7 DEF Others, ScriptStarts, ScriptEnds, Next
<1>8. CASE \E g \in Greenlets : Resumes(g)
  BY <1>8 DEF Resumes, Next
<1>9. CASE UNCHANGED inputVars
  BY <1>9 DEF inputVars, mutex
<1> QED
  BY <1>1, <1>2, <1>3, <1>4, <1>5, <1>6, <1>7, <1>8, <1>9 DEF InputNext

\* With the pty among its users, and however its calls overlap, the mutex is
\* used as ReactorMutex says (the "with gcode_mutex" of GCodeIO._process_data).
THEOREM InputUsesMutex == InputSpec => Spec
<1>1. InputInit => Init
  BY DEF InputInit
<1>2. [InputNext]_inputVars => [Next]_vars
  BY StepOfMutex
<1> QED
  BY <1>1, <1>2, PTL DEF InputSpec, Spec

\* So two scripts never run at once, one of the pty included.
THEOREM InputExcludes == InputSpec => []MutualExclusion
BY InputUsesMutex, MutexExcludes, PTL

\* And nobody overtakes a waiting script: a command of a client that came before
\* a batch of the pty runs before it.
THEOREM InputServesInOrder == InputSpec => ServesInOrder
BY InputUsesMutex, MutexServesInOrder, PTL

-----------------------------------------------------------------------------
(* The inductive invariant. *)

LEMMA InitInput == InputInit => InputInv
<1> SUFFICES ASSUME InputInit PROVE InputInv
  OBVIOUS
<1>1. InputTypeOK
  <2>1. <<>> \in Seq(Kinds)
    OBVIOUS
  <2> QED
    BY <2>1, EmptyHas DEF InputInit, InputTypeOK
<1>2. Positions
  BY EmptyHas DEF InputInit, Positions
<1>3. PtyAtWork
  BY InputAssumption DEF InputInit, Init, PtyAtWork, Places
<1> QED
  BY <1>1, <1>2, <1>3, EmptyHas DEF InputInit, InputInv, BetweenBatches, StopIsHeard

LEMMA ReadKeeps ==
  ASSUME InputInv, ReadData PROVE InputInv'
<1> USE DEF InputInv
<1>1. PICK n \in 1..Len(sent) - read :
        LET all == pending \o Lines(n)
        IN  /\ read' = read + n
            /\ pending' = all
            /\ is_shutdown' = (is_shutdown \/ StopsAtOnce(all, n))
            /\ IF is_processing_data
               THEN fd_open' = KeepsReading(all) /\ UNCHANGED <<is_processing_data, loops>>
               ELSE is_processing_data' = TRUE /\ loops' = TRUE /\ UNCHANGED fd_open
  BY DEF ReadData
<1>2. UNCHANGED <<sent, batch, ran>> /\ ~loops /\ fd_open
  BY DEF ReadData
<1>3. n \in Nat /\ n <= Len(sent) - read /\ read \in Nat /\ pending \in Seq(Nat)
      /\ Len(pending) \in Nat /\ Len(batch) \in Nat /\ Len(ran) \in Nat /\ Len(sent) \in Nat
  BY DEF InputTypeOK
<1>4. /\ pending' \in Seq(Nat)
      /\ Len(pending') = Len(pending) + n
      /\ \A i \in 1..Len(pending) : pending'[i] = pending[i]
      /\ \A i \in 1..n : pending'[Len(pending) + i] = read + i
  BY <1>1, <1>3, AppendLines
<1>5. InputTypeOK'
  <2>1. read' \in Nat
    BY <1>1, <1>3
  <2>2. is_processing_data' \in BOOLEAN /\ loops' \in BOOLEAN /\ fd_open' \in BOOLEAN
    <3>1. CASE is_processing_data
      BY <3>1, <1>1, <1>2 DEF InputTypeOK, KeepsReading
    <3>2. CASE ~is_processing_data
      BY <3>2, <1>1, <1>2 DEF InputTypeOK
    <3> QED
      BY <3>1, <3>2
  <2>3. is_shutdown' \in BOOLEAN
    BY <1>1 DEF InputTypeOK, StopsAtOnce
  <2> QED
    BY <2>1, <2>2, <2>3, <1>2, <1>4 DEF InputTypeOK
<1>6. Positions'
  <2>1. \A i \in 1..Len(pending') : pending'[i] = Len(ran) + Len(batch) + i
    <3> TAKE i \in 1..Len(pending')
    <3>1. CASE i <= Len(pending)
      BY <3>1, <1>3, <1>4 DEF Positions
    <3>2. CASE i > Len(pending)
      <4>1. i - Len(pending) \in 1..n
        BY <3>2, <1>3, <1>4
      <4>2. pending'[Len(pending) + (i - Len(pending))] = read + (i - Len(pending))
        BY <4>1, <1>4
      <4> QED
        BY <4>2, <1>3 DEF Positions
    <3> QED
      BY <3>1, <3>2, <1>3, <1>4
  <2>2. read' = Len(ran) + Len(batch) + Len(pending') /\ read' <= Len(sent)
    BY <1>1, <1>3, <1>4 DEF Positions
  <2> QED
    BY <2>1, <2>2, <1>2 DEF Positions
<1>7. BetweenBatches'
  BY <1>1, <1>2 DEF BetweenBatches
<1>8. StopIsHeard'
  <2> SUFFICES ASSUME ~loops', fd_open', NEW i \in 1..Len(pending'),
                      sent'[pending'[i]] = "M112"
               PROVE  is_shutdown'
    BY DEF StopIsHeard
  <2>1. is_processing_data /\ Len(pending') < MaxPending
    BY <1>1 DEF KeepsReading
  <2>2. CASE i <= Len(pending)
    <3>1. i \in 1..Len(pending) /\ sent[pending[i]] = "M112"
      BY <2>2, <1>2, <1>3, <1>4
    <3> QED
      BY <3>1, <1>1, <1>2 DEF StopIsHeard
  <2>3. CASE i > Len(pending)
    <3>1. i - Len(pending) \in 1..n
      BY <2>3, <1>3, <1>4
    <3>2. pending'[Len(pending) + (i - Len(pending))] = read + (i - Len(pending))
      BY <3>1, <1>4
    <3>3. sent[read + (i - Len(pending))] = "M112"
      BY <3>2, <1>2, <1>3, <1>4
    <3>4. StopsAtOnce(pending \o Lines(n), n)
      BY <3>1, <3>3, <2>1, <1>1 DEF StopsAtOnce
    <3> QED
      BY <3>4, <1>1
  <2> QED
    BY <2>2, <2>3, <1>3, <1>4
<1>9. PtyAtWork'
  BY <1>1, <1>2 DEF ReadData, mutex, vars, PtyAtWork, BetweenBatches
<1> QED
  BY <1>5, <1>6, <1>7, <1>8, <1>9

LEMMA LoopKeeps ==
  ASSUME InputInv, Loop PROVE InputInv'
<1> USE DEF InputInv
<1>1. /\ loops /\ batch' = pending /\ pending' = <<>> /\ loops' = FALSE
      /\ UNCHANGED <<sent, read, ran, is_processing_data, fd_open, is_shutdown>>
  BY DEF Loop
<1>2. batch = <<>> /\ Len(batch) = 0 /\ is_processing_data
  BY <1>1, EmptyHas DEF BetweenBatches
<1>3. Len(pending') = 0 /\ Len(ran) \in Nat /\ Len(pending) \in Nat
  BY <1>1, EmptyHas DEF InputTypeOK
<1>4. InputTypeOK'
  BY <1>1, EmptyHas DEF InputTypeOK
<1>5. Positions'
  BY <1>1, <1>2, <1>3 DEF Positions
<1>6. PtyAtWork'
  BY <1>1, <1>2, InputAssumption DEF Loop, Acquire, Block, PtyAtWork, Places
<1> QED
  BY <1>1, <1>2, <1>3, <1>4, <1>5, <1>6 DEF BetweenBatches, StopIsHeard

LEMMA RunLineKeeps ==
  ASSUME InputInv, RunLine PROVE InputInv'
<1> USE DEF InputInv
<1>1. /\ ~loops /\ batch # <<>> /\ ran' = Append(ran, Head(batch)) /\ batch' = Tail(batch)
      /\ UNCHANGED <<sent, read, pending, is_processing_data, fd_open, loops>>
  BY DEF RunLine, flags
<1>2. is_shutdown' \in BOOLEAN /\ (is_shutdown => is_shutdown')
  BY DEF RunLine, InputTypeOK
<1>3. /\ ran' \in Seq(Nat) /\ batch' \in Seq(Nat) /\ Len(batch) > 0
      /\ Len(batch') = Len(batch) - 1 /\ Len(ran') = Len(ran) + 1
      /\ \A i \in 1..Len(ran) : ran'[i] = ran[i]
      /\ ran'[Len(ran) + 1] = batch[1]
      /\ \A i \in 1..Len(batch') : batch'[i] = batch[i + 1]
  BY <1>1, TakeFirst DEF InputTypeOK
<1>4. Len(ran) \in Nat /\ Len(batch) \in Nat /\ Len(pending) \in Nat
  BY DEF InputTypeOK
<1>5. InputTypeOK'
  BY <1>1, <1>2, <1>3 DEF InputTypeOK
<1>6. Positions'
  <2>1. batch[1] = Len(ran) + 1
    BY <1>3, <1>4 DEF Positions
  <2>2. \A i \in 1..Len(ran') : ran'[i] = i
    <3> TAKE i \in 1..Len(ran')
    <3>1. CASE i <= Len(ran)
      <4>1. i \in 1..Len(ran)
        BY <3>1, <1>3, <1>4
      <4> QED
        BY <4>1, <1>3 DEF Positions
    <3>2. CASE i > Len(ran)
      <4>1. i = Len(ran) + 1
        BY <3>2, <1>3, <1>4
      <4> QED
        BY <4>1, <1>3, <2>1
    <3> QED
      BY <3>1, <3>2, <1>3, <1>4
  <2>3. \A i \in 1..Len(batch') : batch'[i] = Len(ran') + i
    <3> TAKE i \in 1..Len(batch')
    <3>1. i + 1 \in 1..Len(batch)
      BY <1>3, <1>4
    <3> QED
      BY <3>1, <1>3, <1>4 DEF Positions
  <2> QED
    BY <2>2, <2>3, <1>1, <1>3, <1>4 DEF Positions
<1>7. BetweenBatches'
  BY <1>1 DEF BetweenBatches
<1>8. StopIsHeard'
  BY <1>1, <1>2 DEF StopIsHeard
<1>9. PtyAtWork'
  BY <1>1 DEF RunLine, mutex, vars, PtyAtWork
<1> QED
  BY <1>5, <1>6, <1>7, <1>8, <1>9

LEMMA WriteKeeps ==
  ASSUME InputInv, WriteLine PROVE InputInv'
<1> USE DEF InputInv
<1>1. PICK k \in Kinds : sent' = Append(sent, k)
  BY DEF WriteLine
<1>2. UNCHANGED <<read, pending, batch, ran, is_processing_data, fd_open, loops, is_shutdown>>
  BY DEF WriteLine, queues, flags
<1>3. /\ sent' \in Seq(Kinds) /\ Len(sent') = Len(sent) + 1
      /\ \A i \in 1..Len(sent) : sent'[i] = sent[i]
  BY <1>1, AppendSent DEF InputTypeOK
<1>4. Len(sent) \in Nat /\ Len(ran) \in Nat /\ Len(batch) \in Nat /\ Len(pending) \in Nat
  BY DEF InputTypeOK
<1>5. InputTypeOK'
  BY <1>2, <1>3 DEF InputTypeOK
<1>6. Positions'
  BY <1>2, <1>3, <1>4 DEF Positions, InputTypeOK
<1>7. \A i \in 1..Len(pending) : sent'[pending[i]] = sent[pending[i]]
  <2> TAKE i \in 1..Len(pending)
  <2>1. pending[i] \in 1..Len(sent)
    BY <1>4 DEF Positions
  <2> QED
    BY <2>1, <1>3
<1>8. PtyAtWork'
  BY <1>2 DEF WriteLine, mutex, vars, PtyAtWork
<1> QED
  BY <1>2, <1>5, <1>6, <1>7, <1>8 DEF BetweenBatches, StopIsHeard

LEMMA InputStep ==
  ASSUME InputInv, [InputNext]_inputVars PROVE InputInv'
<1> USE DEF InputInv
<1>1. CASE ReadData
  BY <1>1, ReadKeeps
<1>2. CASE Loop
  BY <1>2, LoopKeeps
<1>3. CASE LoopEnds
  <2>1. /\ loops /\ pending = <<>> /\ loops' = FALSE /\ is_processing_data' = FALSE /\ fd_open' = TRUE
        /\ UNCHANGED <<place, sent, read, pending, batch, ran, is_shutdown>>
    BY <1>3 DEF LoopEnds, mutex, vars, queues
  <2>2. batch = <<>> /\ place[Pty] = "outside"
    BY <2>1 DEF BetweenBatches, PtyAtWork
  <2>3. InputTypeOK' /\ Positions'
    BY <2>1 DEF InputTypeOK, Positions
  <2>4. BetweenBatches' /\ PtyAtWork'
    BY <2>1, <2>2 DEF BetweenBatches, PtyAtWork
  <2>5. StopIsHeard'
    BY <2>1, EmptyHas DEF StopIsHeard
  <2> QED
    BY <2>3, <2>4, <2>5
<1>4. CASE RunLine
  BY <1>4, RunLineKeeps
<1>5. CASE BatchEnds
  <2>1. /\ ~loops /\ batch = <<>> /\ loops' = TRUE
        /\ UNCHANGED <<sent, read, pending, batch, ran, is_processing_data, fd_open, is_shutdown>>
    BY <1>5 DEF BatchEnds, queues
  <2>2. is_processing_data
    BY <1>5 DEF BatchEnds, Exit, PtyAtWork
  <2>3. PtyAtWork'
    BY <1>5, InputAssumption DEF BatchEnds, Exit, PtyAtWork, Places
  <2> QED
    BY <2>1, <2>2, <2>3 DEF InputTypeOK, Positions, BetweenBatches, StopIsHeard
<1>6. CASE WriteLine
  BY <1>6, WriteKeeps
<1>7. ASSUME UNCHANGED input, PtyAtWork' PROVE InputInv'
  BY <1>7 DEF input, queues, flags, InputTypeOK, Positions, BetweenBatches, StopIsHeard
<1>8. CASE \E g \in Others : ScriptStarts(g) \/ ScriptEnds(g)
  <2>1. PICK g \in Others : ScriptStarts(g) \/ ScriptEnds(g)
    BY <1>8
  <2>2. PtyAtWork'
    BY <2>1, InputAssumption
       DEF Others, ScriptStarts, ScriptEnds, Acquire, Block, Exit, input, flags, PtyAtWork, Places
  <2> QED
    BY <2>1, <2>2, <1>7 DEF ScriptStarts, ScriptEnds
<1>9. CASE \E g \in Greenlets : Resumes(g)
  <2>1. PICK g \in Greenlets : Resumes(g)
    BY <1>9
  <2>2. PtyAtWork'
    BY <2>1, InputAssumption DEF Resumes, Wake, input, flags, PtyAtWork, Places
  <2> QED
    BY <2>1, <2>2, <1>7 DEF Resumes
<1>10. CASE UNCHANGED inputVars
  <2>1. PtyAtWork'
    BY <1>10 DEF inputVars, mutex, vars, input, flags, PtyAtWork
  <2> QED
    BY <2>1, <1>7, <1>10 DEF inputVars
<1> QED
  BY <1>1, <1>2, <1>3, <1>4, <1>5, <1>6, <1>8, <1>9, <1>10 DEF InputNext

\* The lines read are, in order, those that were run, are in the batch and wait,
\* for any greenlets, any limit and however calls of _process_data overlap.
THEOREM InputInvariant == InputSpec => []InputInv
BY InitInput, InputStep, PTL DEF InputSpec

\* Every line is run once and in order: _process_data replaces its list.
THEOREM LinesRunInOrder == InputSpec => []LinesInOrder
<1>1. InputInv => LinesInOrder
  BY DEF InputInv, Positions, LinesInOrder
<1> QED
  BY <1>1, InputInvariant, PTL

\* As long as _process_data reads, an M112 that waits has stopped the printer.
THEOREM StopsAreHeard == InputSpec => []StopIsHeard
<1>1. InputInv => StopIsHeard
  BY DEF InputInv
<1> QED
  BY <1>1, InputInvariant, PTL
=============================================================================
