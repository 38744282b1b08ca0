--------------------------- MODULE ReactorProofs ---------------------------
(***************************************************************************)
(* For any number of greenlets and handlers, the reactor forgets no timer, *)
(* whoever waits for a result that is there is due, and a timer that was   *)
(* taken off the list is not called.  The first invariant knows what the   *)
(* loop is calling: it is the head of the scan, so taking the head off     *)
(* loses nothing else.  The second knows in which lists a handler can be,  *)
(* and in which order.                                                     *)
(***************************************************************************)
EXTENDS Reactor, TLAPS

\* While the loop calls back, the head of its scan is what it called.
CallingHead ==
  /\ running # g_dispatch => step = "call" /\ scan # <<>> /\ Head(scan) = running
  /\ running = g_dispatch /\ step = "call" /\ job[running] # "fd" =>
       scan # <<>> /\ Head(scan) = job[running]

ReactorInv == TypeOK /\ CallingHead /\ NoTimerForgotten

-----------------------------------------------------------------------------
(* Sequences. *)

\* What is in a list is of the list's type.
LEMMA InIsOf == ASSUME NEW S, NEW s \in Seq(S), NEW x, InSeq(x, s) PROVE x \in S
BY DEF InSeq

\* Append adds one element to what a list has.
LEMMA AppendIn ==
  ASSUME NEW S, NEW s \in Seq(S), NEW x \in S
  PROVE  /\ Append(s, x) \in Seq(S)
         /\ \A y : InSeq(y, Append(s, x)) => y = x \/ InSeq(y, s)
BY DEF InSeq

\* Tail keeps everything but the head.
LEMMA TailIn ==
  ASSUME NEW S, NEW s \in Seq(S), s # <<>>
  PROVE  /\ Tail(s) \in Seq(S) /\ Head(s) \in S
         /\ \A x : InSeq(x, s) => x = Head(s) \/ InSeq(x, Tail(s))
<1>1. Tail(s) \in Seq(S) /\ Head(s) \in S /\ Len(Tail(s)) = Len(s) - 1 /\ Len(s) \in Nat
  OBVIOUS
<1>2. ASSUME NEW x, NEW i \in 1..Len(s), s[i] = x, x # Head(s) PROVE InSeq(x, Tail(s))
  <2>1. i # 1
    BY <1>2
  <2>2. i - 1 \in 1..Len(Tail(s)) /\ Tail(s)[i - 1] = s[i]
    BY <1>1, <2>1
  <2> QED
    BY <1>2, <2>2 DEF InSeq
<1> QED
  BY <1>1, <1>2 DEF InSeq

\* Taking a handler off a list adds nothing to it.
LEMMA WithoutIn ==
  ASSUME NEW S, NEW s \in Seq(S), NEW x
  PROVE  /\ Without(s, x) \in Seq(S)
         /\ \A y : InSeq(y, Without(s, x)) => InSeq(y, s)
<1>1. CASE ~InSeq(x, s)
  BY <1>1 DEF Without, InSeq
<1>2. CASE InSeq(x, s)
  <2> DEFINE k == CHOOSE i \in 1..Len(s) : s[i] = x
             w == [i \in 1..(Len(s) - 1) |-> IF i < k THEN s[i] ELSE s[i + 1]]
  <2>1. Without(s, x) = w
    BY <1>2 DEF Without
  <2>2. Len(s) \in Nat \ {0} /\ k \in 1..Len(s)
    BY <1>2 DEF InSeq
  <2>0. ASSUME NEW j \in 1..Len(s) PROVE s[j] \in S /\ InSeq(s[j], s)
    BY DEF InSeq
  <2>3. ASSUME NEW i \in 1..(Len(s) - 1) PROVE w[i] \in S /\ InSeq(w[i], s)
    <3>1. i \in 1..Len(s) /\ i + 1 \in 1..Len(s)
      BY <2>2
    <3>2. w[i] = s[i] \/ w[i] = s[i + 1]
      BY <2>2
    <3> HIDE DEF w
    <3> QED
      BY <2>0, <3>1, <3>2
  <2>4. w \in Seq(S) /\ Len(w) = Len(s) - 1
    BY <2>2, <2>3
  <2> HIDE DEF w
  <2> QED
    BY <2>1, <2>3, <2>4 DEF InSeq
<1> QED
  BY <1>1, <1>2

-----------------------------------------------------------------------------
(* NoTimerForgotten, step by step. *)

\* The times a caller may ask for are times.
LEMMA LaterIsTime == TypeOK => Later \subseteq 0..NEVER /\ NOW \in 0..NEVER /\ NEVER \in 0..NEVER
BY ReactorAssumption DEF TypeOK, Later, NOW, NEVER

\* The earlier of two times.
LEMMA MinTimeIs ==
  ASSUME NEW a \in 0..NEVER, NEW b \in 0..NEVER
  PROVE  MinTime(a, b) \in 0..NEVER /\ MinTime(a, b) <= a /\ MinTime(a, b) <= b
BY ReactorAssumption DEF MinTime, NEVER

\* NoTimerForgotten, said of the handlers and not of their places in the list.
LEMMA ForgottenIs ==
  NoTimerForgotten <=>
    \A x : InSeq(x, timers) => next_timer <= waketime[x] \/ InSeq(x, scan)
BY DEF NoTimerForgotten, InSeq

\* A step keeps NoTimerForgotten when _next_timer does not grow, and every
\* timer of the new list is not before it, or was listed with its present
\* waketime and has not left the scan.
LEMMA Kept ==
  ASSUME TypeOK, NoTimerForgotten, TypeOK', next_timer' <= next_timer,
         \A x \in Handlers : InSeq(x, timers') =>
           \/ next_timer' <= waketime'[x]
           \/ /\ InSeq(x, timers) /\ waketime'[x] = waketime[x]
              /\ InSeq(x, scan) => InSeq(x, scan')
  PROVE  NoTimerForgotten'
<1>0. next_timer \in Int /\ next_timer' \in Int /\ \A x \in Handlers : waketime[x] \in Int
  BY DEF TypeOK
<1>1. \A x : InSeq(x, timers') => x \in Handlers
  BY InIsOf DEF TypeOK
<1>2. \A x : InSeq(x, timers') => next_timer' <= waketime'[x] \/ InSeq(x, scan')
  BY <1>0, <1>1, ForgottenIs
<1>3. \A i \in 1..Len(timers') : InSeq(timers'[i], timers')
  BY DEF InSeq
<1> QED
  BY <1>2, <1>3 DEF NoTimerForgotten

\* Steps of a callback that only work on the timers.
LEMMA ListStep ==
  ASSUME ReactorInv, Calling,
         \/ \E t \in Handlers, w \in Later : Register(t, w) \/ Update(t, w)
         \/ \E t \in Handlers : Unregister(t)
  PROVE  ReactorInv'
<1> USE DEF ReactorInv
<1>1. ASSUME NEW t \in Handlers, NEW w \in Later, Register(t, w) PROVE ReactorInv'
  <2>1. w \in 0..NEVER
    BY LaterIsTime
  <2>2. TypeOK'
    BY <1>1, <2>1, AppendIn, MinTimeIs DEF TypeOK, Register, RegisterTimer, clock, loop, completion, async
  <2>3. NoTimerForgotten'
    BY <1>1, <2>1, <2>2, AppendIn, MinTimeIs, Kept DEF TypeOK, Register, RegisterTimer, loop
  <2> QED
    BY <1>1, <2>2, <2>3 DEF CallingHead, Register, loop
<1>2. ASSUME NEW t \in Handlers, NEW w \in Later, Update(t, w) PROVE ReactorInv'
  <2>1. w \in 0..NEVER
    BY LaterIsTime
  <2>2. TypeOK'
    BY <1>2, <2>1, MinTimeIs DEF TypeOK, Update, UpdateTimer, clock, loop, completion, async
  <2>3. NoTimerForgotten'
    BY <1>2, <2>1, <2>2, MinTimeIs, Kept DEF TypeOK, Update, UpdateTimer, loop
  <2> QED
    BY <1>2, <2>2, <2>3 DEF CallingHead, Update, loop
<1>3. ASSUME NEW t \in Handlers, Unregister(t) PROVE ReactorInv'
  <2>1. NEVER \in 0..NEVER
    BY LaterIsTime
  <2>2. TypeOK'
    BY <1>3, <2>1, WithoutIn DEF TypeOK, Unregister, UnregisterTimer, clock, loop, completion, async
  <2>3. next_timer' = next_timer /\ next_timer \in 0..NEVER /\ scan' = scan
        /\ \A x \in Handlers : waketime'[x] = IF x = t THEN NEVER ELSE waketime[x]
    BY <1>3 DEF TypeOK, Unregister, UnregisterTimer, loop
  <2>4. \A x : InSeq(x, timers') => InSeq(x, timers)
    BY <1>3, WithoutIn DEF TypeOK, Unregister, UnregisterTimer
  <2>5. NEVER \in Int
    BY <2>1
  <2>6. NoTimerForgotten'
    BY <2>2, <2>3, <2>4, <2>5, Kept
  <2> QED
    BY <1>3, <2>2, <2>6 DEF CallingHead, Unregister, loop
<1> QED
  BY <1>1, <1>2, <1>3

\* complete(), by a callback or out of the queue of other threads.
LEMMA CompleteKeeps ==
  ASSUME TypeOK, NoTimerForgotten, Complete, TypeOK', scan' = scan PROVE NoTimerForgotten'
<1>1. \A x \in Handlers : waketime'[x] = IF x \in waiting THEN NOW ELSE waketime[x]
  BY DEF Complete
<1>2. next_timer' = IF waiting = {} THEN next_timer ELSE MinTime(next_timer, NOW)
  BY DEF Complete
<1>3. next_timer' <= next_timer /\ (waiting # {} => next_timer' <= NOW)
  <2>1. next_timer \in 0..NEVER /\ NOW \in 0..NEVER /\ next_timer <= next_timer
    BY LaterIsTime, ReactorAssumption DEF TypeOK, NEVER
  <2>2. MinTime(next_timer, NOW) <= next_timer /\ MinTime(next_timer, NOW) <= NOW
    BY <2>1, MinTimeIs
  <2> QED
    BY <1>2, <2>1, <2>2
<1>4. timers' = timers
  BY DEF Complete
<1> QED
  BY <1>1, <1>3, <1>4, Kept

\* complete() leaves times that are times.
LEMMA CompleteTypes ==
  ASSUME TypeOK, Complete
  PROVE  /\ waketime' \in [Handlers -> 0..NEVER] /\ next_timer' \in 0..NEVER
         /\ timers' = timers /\ waiting' = waiting /\ complete' \in BOOLEAN
BY LaterIsTime, MinTimeIs DEF TypeOK, Complete

\* Steps of a callback that work on the completion.
LEMMA CompletionStep ==
  ASSUME ReactorInv, CompleteHere \/ NewCompletion PROVE ReactorInv'
<1> USE DEF ReactorInv
<1>1. CASE CompleteHere
  <2>1. TypeOK'
    BY <1>1, CompleteTypes DEF TypeOK, CompleteHere, clock, loop, async
  <2> QED
    BY <1>1, <2>1, CompleteKeeps DEF CallingHead, CompleteHere, loop
<1>2. CASE NewCompletion
  BY <1>2 DEF TypeOK, CallingHead, NoTimerForgotten, InSeq, NewCompletion, clock, lists, loop, async
<1> QED
  BY <1>1, <1>2

\* The greenlet that takes over exists, and what is left of _greenlets.
LEMMA TakeOverTypes ==
  ASSUME TypeOK, Spare, TakeOver(NextGreenlet)
  PROVE  /\ g_dispatch' \in Greenlets /\ running' = g_dispatch' /\ scan' = <<>>
         /\ step' \in {"check", "poll"} /\ eventtime' \in 1..MaxTime
         /\ greenlets' \in Seq(Greenlets) /\ job' \in [Greenlets -> Handlers \cup {"fd", "none"}]
<1>1. NextGreenlet \in Greenlets
  BY DEF Spare, NextGreenlet, Unused, TypeOK
<1>2. greenlets # <<>> => SubSeq(greenlets, 1, Len(greenlets) - 1) \in Seq(Greenlets)
  BY DEF TypeOK
<1> QED
  BY <1>1, <1>2 DEF TakeOver, TypeOK

\* A pause, with or without a completion to wait for.
LEMMA PauseStep ==
  ASSUME ReactorInv, NEW w \in Later, Pause(w) \/ Wait(w) PROVE ReactorInv'
<1> USE DEF ReactorInv
<1>0. /\ Pauses(w) /\ now' = now /\ complete' \in BOOLEAN /\ waiting' \subseteq Greenlets
      /\ UNCHANGED async
  BY DEF Pause, Wait, completion, TypeOK
<1>1. w \in 0..NEVER /\ running \in Handlers
  BY LaterIsTime DEF TypeOK, Handlers
<1>2. CASE PauseDispatch(w)
  <2>1. Spare /\ TakeOver(NextGreenlet)
    BY <1>0, <1>2 DEF Pauses, PauseDispatch
  <2>2. /\ timers' \in Seq(Handlers) /\ waketime' \in [Handlers -> 0..NEVER] /\ next_timer' = NOW
        /\ next_timer' \in 0..NEVER
    BY <1>1, <1>2, AppendIn, LaterIsTime DEF PauseDispatch, TypeOK
  <2>3. TypeOK'
    <3>1. /\ scan' \in Seq(Handlers) /\ running' \in Greenlets /\ g_dispatch' \in Greenlets
          /\ step' \in Steps
      BY <2>1, TakeOverTypes DEF Steps
    <3>2. /\ eventtime' \in 1..MaxTime /\ greenlets' \in Seq(Greenlets)
          /\ job' \in [Greenlets -> Handlers \cup {"fd", "none"}]
      BY <2>1, TakeOverTypes
    <3>3. /\ async_queue' \in Seq(Callbacks \cup {"complete"}) /\ posts' \in 0..MaxPosts
          /\ pipe' \in BOOLEAN /\ posting' \in BOOLEAN /\ now' \in 1..MaxTime
      BY <1>0 DEF TypeOK, async
    <3> QED
      BY <1>0, <2>2, <3>1, <3>2, <3>3 DEF TypeOK
  <2>4. \A x \in Handlers : next_timer' <= waketime'[x]
    BY <2>2 DEF NOW
  <2>5. NoTimerForgotten'
    BY <2>2, <2>4 DEF NoTimerForgotten
  <2> QED
    BY <2>1, <2>3, <2>5, TakeOverTypes DEF CallingHead
<1>3. CASE PauseAgain(w)
  <2>1. scan # <<>> /\ Head(scan) = running
    BY <1>3 DEF CallingHead, PauseAgain
  <2>2. /\ scan' = Tail(scan) /\ running' = g_dispatch /\ g_dispatch' = g_dispatch /\ step' = "scan"
        /\ UNCHANGED <<eventtime, timers, greenlets>>
        /\ job' = [job EXCEPT ![g_dispatch] = "none"]
    BY <1>3 DEF PauseAgain, BackToLoop
  <2>3. /\ waketime' = [waketime EXCEPT ![running] = w] /\ next_timer' \in 0..NEVER
        /\ next_timer' <= next_timer /\ next_timer' <= w
    BY <1>1, <1>3, MinTimeIs DEF PauseAgain, TypeOK
  <2>4. TypeOK'
    BY <1>0, <1>1, <2>1, <2>2, <2>3, TailIn DEF TypeOK, async, Steps
  <2>5. \A x : InSeq(x, scan) => x = running \/ InSeq(x, scan')
    BY <2>1, <2>2, TailIn DEF TypeOK
  <2>6. \A x \in Handlers : waketime'[x] = IF x = running THEN w ELSE waketime[x]
    BY <2>3 DEF TypeOK
  <2>7. NoTimerForgotten'
    BY <2>2, <2>3, <2>4, <2>5, <2>6, Kept
  <2> QED
    BY <2>2, <2>4, <2>7 DEF CallingHead
<1> QED
  BY <1>0, <1>2, <1>3 DEF Pauses
\* What a callback may return is a time.
LEMMA ReturnedIsTime == TypeOK => Returned \subseteq 0..NEVER
BY LaterIsTime DEF Returned

\* The loop calls nothing unless it says so.
LEMMA NotCalling == CallingHead /\ step # "call" => running = g_dispatch
BY DEF CallingHead

\* The callback of a timer returns to the loop that called it.
LEMMA ReturnStep ==
  ASSUME ReactorInv, NEW w \in Returned, Return(w) PROVE ReactorInv'
<1> USE DEF ReactorInv
<1>1. w \in 0..NEVER
  BY ReturnedIsTime
<1>2. scan # <<>> /\ Head(scan) = job[running] /\ running = g_dispatch
  BY DEF Return, Calling, CallingHead
<1>3. job[running] \in Handlers
  BY <1>2, TailIn DEF TypeOK
<1>4. /\ scan' = Tail(scan) /\ running' = g_dispatch' /\ step' = "scan" /\ timers' = timers
      /\ waketime' = [waketime EXCEPT ![job[running]] = w]
      /\ next_timer' \in 0..NEVER /\ next_timer' <= next_timer /\ next_timer' <= w
  BY <1>1, MinTimeIs DEF Return, BackToLoop, TypeOK
<1>5. TypeOK'
  BY <1>1, <1>2, <1>3, <1>4, TailIn DEF TypeOK, Return, BackToLoop, completion, async, Steps
<1>6. \A x : InSeq(x, scan) => x = job[running] \/ InSeq(x, scan')
  BY <1>2, <1>4, TailIn DEF TypeOK
<1>7. \A x \in Handlers : waketime'[x] = IF x = job[running] THEN w ELSE waketime[x]
  BY <1>4 DEF TypeOK
<1>8. NoTimerForgotten'
  BY <1>4, <1>5, <1>6, <1>7, Kept
<1> QED
  BY <1>4, <1>5, <1>8 DEF CallingHead

\* The callback of a timer or of a descriptor returns in a greenlet that has
\* lost the loop.
LEMMA ReturnLateStep ==
  ASSUME ReactorInv, NEW w \in Returned, ReturnLate(w) PROVE ReactorInv'
<1> USE DEF ReactorInv
<1>1. w \in 0..NEVER /\ NEVER \in 0..NEVER
  BY ReturnedIsTime, LaterIsTime
<1>2. scan # <<>> /\ Head(scan) = running /\ running \in Handlers
  BY DEF ReturnLate, CallingHead, TypeOK, Handlers
<1>3. /\ scan' = Tail(scan) /\ running' = g_dispatch' /\ step' = "scan"
      /\ timers' = Without(timers, running)
      /\ next_timer' \in 0..NEVER /\ next_timer' <= next_timer
      /\ job[running] # "fd" => next_timer' <= w
  BY <1>1, MinTimeIs DEF ReturnLate, BackToLoop, TypeOK
<1>4. /\ waketime' \in [Handlers -> 0..NEVER]
      /\ \A x \in Handlers : \/ waketime'[x] = waketime[x]
                             \/ waketime'[x] = NEVER
                             \/ job[running] # "fd" /\ waketime'[x] = w
      /\ waketime'[running] = NEVER
  BY <1>1, <1>2 DEF ReturnLate, TypeOK
<1>5. TypeOK'
  <2>1. /\ timers' \in Seq(Handlers) /\ scan' \in Seq(Handlers) /\ step' \in Steps
        /\ running' \in Greenlets /\ g_dispatch' \in Greenlets /\ eventtime' \in 1..MaxTime
    BY <1>2, <1>3, WithoutIn, TailIn DEF TypeOK, Steps, ReturnLate, BackToLoop
  <2>2. greenlets' \in Seq(Greenlets) /\ job' \in [Greenlets -> Handlers \cup {"fd", "none"}]
    BY AppendIn DEF TypeOK, ReturnLate
  <2> QED
    BY <1>3, <1>4, <2>1, <2>2 DEF TypeOK, ReturnLate, completion, async
<1>6. /\ \A x : InSeq(x, timers') => InSeq(x, timers)
      /\ \A x : InSeq(x, scan) => x = running \/ InSeq(x, scan')
  BY <1>2, <1>3, WithoutIn, TailIn DEF TypeOK
<1>7. NoTimerForgotten'
  <2>1. next_timer' <= NEVER
    BY <1>3
  <2> QED
    BY <1>2, <1>3, <1>4, <1>5, <1>6, <2>1, Kept
<1> QED
  BY <1>3, <1>5, <1>7 DEF CallingHead

\* The callback of a descriptor returns to its loop.
LEMMA ReturnFdStep == ReactorInv /\ ReturnFd => ReactorInv'
BY DEF ReactorInv, TypeOK, CallingHead, NoTimerForgotten, InSeq, ReturnFd, Steps, clock, lists,
       completion, async

\* The loop looks at a timer, or calls its callback.
LEMMA ScanStep ==
  ASSUME ReactorInv, Check \/ NotDue \/ (\E t \in Handlers : Due(t)) PROVE ReactorInv'
<1> USE DEF ReactorInv
<1>1. CASE Check
  <2>1. TypeOK'
    BY <1>1, LaterIsTime DEF TypeOK, Check, Steps, clock, completion, async
  <2>2. CallingHead'
    BY <1>1, NotCalling DEF Check, CallingHead
  <2>3. NoTimerForgotten'
    BY <1>1 DEF NoTimerForgotten, InSeq, Check, TypeOK
  <2> QED
    BY <2>1, <2>2, <2>3
<1>2. CASE NotDue
  <2>1. scan # <<>> /\ scan' = Tail(scan) /\ timers' = timers /\ waketime' = waketime
    BY <1>2 DEF NotDue
  <2>2. Head(scan) \in Handlers /\ waketime[Head(scan)] \in 0..NEVER
    BY <2>1, TailIn DEF TypeOK
  <2>3. next_timer' \in 0..NEVER /\ next_timer' <= next_timer /\ next_timer' <= waketime[Head(scan)]
    BY <1>2, <2>2, MinTimeIs DEF NotDue, TypeOK
  <2>4. TypeOK'
    BY <1>2, <2>1, <2>3, TailIn DEF TypeOK, NotDue, clock, completion, async
  <2>5. \A x : InSeq(x, scan) => x = Head(scan) \/ InSeq(x, scan')
    BY <2>1, TailIn DEF TypeOK
  <2>6. NoTimerForgotten'
    BY <2>1, <2>3, <2>4, <2>5, Kept
  <2>7. CallingHead'
    BY <1>2, NotCalling DEF NotDue, CallingHead
  <2> QED
    BY <2>4, <2>6, <2>7
<1>3. ASSUME NEW t \in Handlers, Due(t) PROVE ReactorInv'
  <2>1. NEVER \in 0..NEVER /\ next_timer <= NEVER /\ next_timer \in 0..NEVER
    BY LaterIsTime DEF TypeOK
  <2>2. timers' \in Seq(Handlers) /\ \A x : InSeq(x, timers') => InSeq(x, timers)
    BY <1>3, WithoutIn DEF Due, TypeOK
  <2>3. waketime' = [waketime EXCEPT ![t] = NEVER] /\ next_timer' = next_timer /\ scan' = scan
    BY <1>3 DEF Due
  <2>4. TypeOK'
    BY <1>3, <2>1, <2>2, <2>3 DEF TypeOK, Due, Steps, clock, async
  <2>5. NoTimerForgotten'
    <3>1. \A x \in Handlers : waketime'[x] = IF x = t THEN NEVER ELSE waketime[x]
      BY <2>3 DEF TypeOK
    <3>2. next_timer' <= next_timer
      BY <2>1, <2>3 DEF NEVER
    <3> QED
      BY <2>1, <2>2, <2>3, <2>4, <3>1, <3>2, Kept
  <2>6. running = g_dispatch /\ g_dispatch \in Greenlets
    BY <1>3, NotCalling DEF Due, TypeOK
  <2>7. CallingHead'
    BY <1>3, <2>6 DEF CallingHead, Due, TypeOK
  <2> QED
    BY <2>4, <2>5, <2>7
<1> QED
  BY <1>1, <1>2, <1>3

\* poll() returns.
LEMMA PollStep ==
  ASSUME ReactorInv, ScanEnds \/ PollEmpty \/ PollFd \/ PollPipe \/ Drained PROVE ReactorInv'
<1> USE DEF ReactorInv
<1>1. step # "call" /\ running = g_dispatch
  BY NotCalling DEF ScanEnds, PollEmpty, PollFd, PollPipe, Drained
<1>2. UNCHANGED <<lists, scan, g_dispatch, running, greenlets, completion>> /\ step' \in Steps
      /\ now' = now /\ (eventtime' = now \/ eventtime' = eventtime)
  BY DEF ScanEnds, PollEmpty, PollFd, PollPipe, Drained, Steps, clock
<1>3. UNCHANGED <<async_queue, posting, posts>> /\ pipe' \in BOOLEAN
      /\ job' \in [Greenlets -> Handlers \cup {"fd", "none"}]
  BY DEF ScanEnds, PollEmpty, PollFd, PollPipe, Drained, async, TypeOK
<1>4. step' # "call" \/ job'[running'] = "fd"
  BY <1>1 DEF ScanEnds, PollEmpty, PollFd, PollPipe, Drained, TypeOK
<1>5. TypeOK'
  BY <1>2, <1>3 DEF TypeOK, lists, completion
<1>6. NoTimerForgotten'
  BY <1>2 DEF NoTimerForgotten, InSeq, lists
<1> QED
  BY <1>1, <1>2, <1>4, <1>5, <1>6 DEF CallingHead

\* What other threads have put into the queue.
LEMMA DrainStep ==
  ASSUME ReactorInv, Drain PROVE ReactorInv'
<1> USE DEF ReactorInv
<1>1. scan' = scan /\ CallingHead'
  BY DEF Drain, CallingHead, loop
<1>2. /\ async_queue' \in Seq(Callbacks \cup {"complete"})
      /\ Head(async_queue) \in Callbacks \cup {"complete"}
  BY DEF Drain, TypeOK
<1>3. CASE Head(async_queue) = "complete"
  <2>1. Complete
    BY <1>3 DEF Drain
  <2>2. TypeOK'
    BY <1>2, <2>1, CompleteTypes DEF TypeOK, Drain, clock, loop
  <2> QED
    BY <1>1, <2>1, <2>2, CompleteKeeps
<1>4. CASE Head(async_queue) # "complete"
  <2>1. Head(async_queue) \in Handlers /\ RegisterTimer(Head(async_queue), NOW)
    BY <1>2, <1>4 DEF Drain, Handlers
  <2>2. /\ timers' \in Seq(Handlers) /\ waketime' \in [Handlers -> 0..NEVER]
        /\ \A x : InSeq(x, timers') => x = Head(async_queue) \/ InSeq(x, timers)
        /\ \A x \in Handlers : x # Head(async_queue) => waketime'[x] = waketime[x]
        /\ waketime'[Head(async_queue)] = NOW
    BY <2>1, AppendIn, LaterIsTime DEF RegisterTimer, TypeOK
  <2>3. next_timer' \in 0..NEVER /\ next_timer' <= next_timer /\ next_timer' <= NOW
    BY <2>1, MinTimeIs, LaterIsTime DEF RegisterTimer, TypeOK
  <2>4. TypeOK'
    BY <1>2, <1>4, <2>2, <2>3 DEF TypeOK, Drain, clock, loop, completion
  <2> QED
    BY <1>1, <2>2, <2>3, <2>4, Kept
<1> QED
  BY <1>3, <1>4

\* The other threads, the clock, and a step of something else.
LEMMA OutsideStep ==
  ASSUME ReactorInv,
         \/ \E item \in Callbacks \cup {"complete"} : PostPut(item)
         \/ PostWrite \/ Tick \/ UNCHANGED vars
  PROVE  ReactorInv'
<1> USE DEF ReactorInv
<1>1. UNCHANGED <<eventtime, lists, loop, completion>>
  BY DEF PostPut, PostWrite, Tick, vars, clock
<1>2. now' \in 1..MaxTime
  <2>1. now' = now \/ (now < MaxTime /\ now' = now + 1)
    BY DEF PostPut, PostWrite, Tick, vars, clock
  <2> QED
    BY <2>1, ReactorAssumption DEF TypeOK
<1>3. /\ async_queue' \in Seq(Callbacks \cup {"complete"}) /\ posts' \in 0..MaxPosts
      /\ pipe' \in BOOLEAN /\ posting' \in BOOLEAN
  <2>1. CASE \E item \in Callbacks \cup {"complete"} : PostPut(item)
    BY <2>1, ReactorAssumption, AppendIn DEF PostPut, TypeOK
  <2>2. CASE PostWrite \/ Tick \/ UNCHANGED vars
    BY <2>2 DEF PostWrite, Tick, vars, async, TypeOK
  <2> QED
    BY <2>1, <2>2
<1>4. TypeOK'
  BY <1>1, <1>2, <1>3 DEF TypeOK, lists, loop, completion
<1> QED
  BY <1>1, <1>4 DEF CallingHead, NoTimerForgotten, InSeq, lists, loop

\* Nothing is listed at the start.
LEMMA ReactorInit == Init => ReactorInv
<1> SUFFICES ASSUME Init PROVE ReactorInv
  OBVIOUS
<1>1. g_dispatch \in Greenlets
  BY ReactorAssumption DEF Init
<1>2. NEVER \in 0..NEVER /\ 1 \in 1..MaxTime /\ 0 \in 0..MaxPosts
  BY ReactorAssumption DEF NEVER
<1>3. waketime \in [Handlers -> 0..NEVER] /\ job \in [Greenlets -> Handlers \cup {"fd", "none"}]
  BY <1>2 DEF Init
<1>4. timers \in Seq(Handlers) /\ scan \in Seq(Handlers) /\ greenlets \in Seq(Greenlets)
      /\ async_queue \in Seq(Callbacks \cup {"complete"})
  BY DEF Init
<1>5. TypeOK
  BY <1>1, <1>2, <1>3, <1>4 DEF Init, TypeOK, Steps
<1> QED
  BY <1>5 DEF ReactorInv, Init, CallingHead, NoTimerForgotten

\* Every step of the reactor keeps the invariant.
LEMMA ReactorNext == ReactorInv /\ [Next]_vars => ReactorInv'
<1> SUFFICES ASSUME ReactorInv, [Next]_vars PROVE ReactorInv'
  OBVIOUS
<1>1. CASE CallbackStep
  <2>1. ASSUME NEW t \in Timers, NEW w \in Later, Register(t, w) \/ Update(t, w) PROVE ReactorInv'
    BY <2>1, ListStep DEF Register, Update, Handlers
  <2>2. ASSUME NEW t \in Callbacks, Register(t, NOW) PROVE ReactorInv'
    <3>1. t \in Handlers /\ NOW \in Later /\ Calling
      BY <2>2 DEF Handlers, Later, Register
    <3> QED
      BY <2>2, <3>1, ListStep
  <2>3. ASSUME NEW t \in Timers, Unregister(t) PROVE ReactorInv'
    BY <2>3, ListStep DEF Unregister, Handlers
  <2>4. ASSUME NEW g \in Greenlets, Update(g, NOW) PROVE ReactorInv'
    <3>1. g \in Handlers /\ NOW \in Later /\ Calling
      BY <2>4 DEF Handlers, Later, Update
    <3> QED
      BY <2>4, <3>1, ListStep
  <2> QED
    BY <1>1, <2>1, <2>2, <2>3, <2>4, CompletionStep, PauseStep DEF CallbackStep
<1>2. CASE CallbackEnds
  BY <1>2, ReturnStep, ReturnLateStep, ReturnFdStep DEF CallbackEnds
<1>3. CASE LoopStep \/ PollFd
  BY <1>3, ScanStep, PollStep, DrainStep DEF LoopStep
<1>4. CASE (\E item \in Callbacks \cup {"complete"} : PostPut(item)) \/ PostWrite \/ Tick
           \/ UNCHANGED vars
  BY <1>4, OutsideStep
<1> QED
  BY <1>1, <1>2, <1>3, <1>4 DEF Next

\* For any number of timers, greenlets and other threads' calls, the reactor's
\* variables keep their types.
THEOREM ReactorTypes == Spec => []TypeOK
<1>1. ReactorInv => TypeOK
  BY DEF ReactorInv
<1> QED
  BY <1>1, ReactorInit, ReactorNext, PTL DEF Spec

\* For any number of them, no timer is forgotten (PollReactor._check_timers
\* together with register_timer, update_timer, pause and complete).
THEOREM ReactorForgetsNoTimer == Spec => []NoTimerForgotten
<1>1. ReactorInv => NoTimerForgotten
  BY DEF ReactorInv
<1> QED
  BY <1>1, ReactorInit, ReactorNext, PTL DEF Spec

-----------------------------------------------------------------------------
(* Order in a list. *)

\* No element is in the list twice.
OnceIn(s) == \A i, j \in 1..Len(s) : s[i] = s[j] => i = j

\* When the list has both, y comes before x.
Ahead(y, x, s) == \A i, j \in 1..Len(s) : s[i] = x /\ s[j] = y => j < i

\* A list that is part of another, in the same order, has each element once
\* and in its order.
LEMMA PartOf ==
  ASSUME NEW S, NEW s \in Seq(S), NEW r \in Seq(S), NEW f \in [1..Len(r) -> 1..Len(s)],
         \A i \in 1..Len(r) : r[i] = s[f[i]],
         \A i, j \in 1..Len(r) : i < j => f[i] < f[j]
  PROVE  /\ OnceIn(s) => OnceIn(r)
         /\ \A x, y : Ahead(y, x, s) => Ahead(y, x, r)
<1>0. Len(s) \in Nat /\ Len(r) \in Nat
  OBVIOUS
<1>1. ASSUME NEW i \in 1..Len(r), NEW j \in 1..Len(r) PROVE i < j \/ j < i \/ i = j
  BY <1>0
<1>2. \A i \in 1..Len(r) : f[i] \in 1..Len(s) /\ f[i] \in Int
  OBVIOUS
<1>3. ASSUME OnceIn(s) PROVE OnceIn(r)
  <2>1. SUFFICES ASSUME NEW i \in 1..Len(r), NEW j \in 1..Len(r), r[i] = r[j] PROVE i = j
    BY DEF OnceIn
  <2>2. f[i] = f[j]
    BY <1>2, <1>3, <2>1 DEF OnceIn
  <2> QED
    BY <1>1, <1>2, <2>2
<1>4. ASSUME NEW x, NEW y, Ahead(y, x, s) PROVE Ahead(y, x, r)
  <2>1. SUFFICES ASSUME NEW i \in 1..Len(r), NEW j \in 1..Len(r), r[i] = x, r[j] = y PROVE j < i
    BY DEF Ahead
  <2>2. f[j] < f[i]
    BY <1>2, <1>4, <2>1 DEF Ahead
  <2> QED
    BY <1>1, <1>2, <2>2
<1> QED
  BY <1>3, <1>4

\* An element that is new to the list goes to its end.
LEMMA AppendOrder ==
  ASSUME NEW S, NEW s \in Seq(S), NEW x \in S, ~InSeq(x, s)
  PROVE  /\ \A y : InSeq(y, Append(s, x)) <=> y = x \/ InSeq(y, s)
         /\ OnceIn(s) => OnceIn(Append(s, x))
         /\ \A y, z : Ahead(y, z, s) /\ x # y => Ahead(y, z, Append(s, x))
<1> DEFINE r == Append(s, x)
<1>1. /\ Len(s) \in Nat /\ r \in Seq(S) /\ Len(r) = Len(s) + 1 /\ r[Len(r)] = x
      /\ \A i \in 1..Len(s) : r[i] = s[i] /\ s[i] # x
  BY DEF InSeq
<1>2. \A i \in 1..Len(r) : i = Len(r) \/ i \in 1..Len(s)
  BY <1>1
<1>3. 1..Len(s) \subseteq 1..Len(r) /\ Len(r) \in 1..Len(r) /\ \A i \in 1..Len(s) : i < Len(r)
  BY <1>1
<1> HIDE DEF r
<1>4. \A y : InSeq(y, r) <=> y = x \/ InSeq(y, s)
  BY <1>1, <1>2, <1>3 DEF InSeq
<1>5. OnceIn(s) => OnceIn(r)
  BY <1>1, <1>2, <1>3 DEF OnceIn
<1>6. ASSUME NEW y, NEW z, Ahead(y, z, s), x # y PROVE Ahead(y, z, r)
  BY <1>1, <1>2, <1>3, <1>6 DEF Ahead
<1> QED
  BY <1>4, <1>5, <1>6 DEF r

\* The head of a list of elements that are there once is not in its tail, and
\* nothing comes before it.
LEMMA TailOrder ==
  ASSUME NEW S, NEW s \in Seq(S), s # <<>>
  PROVE  /\ OnceIn(s) => OnceIn(Tail(s)) /\ ~InSeq(Head(s), Tail(s))
         /\ \A x, y : Ahead(y, x, s) => Ahead(y, x, Tail(s))
         /\ \A y : Ahead(y, Head(s), s) => ~InSeq(y, s)
         /\ \A y : InSeq(y, s) <=> y = Head(s) \/ InSeq(y, Tail(s))
<1> DEFINE r == Tail(s)
           f == [i \in 1..Len(r) |-> i + 1]
<1>1. /\ Len(s) \in Nat \ {0} /\ r \in Seq(S) /\ Len(r) = Len(s) - 1 /\ Head(s) = s[1]
      /\ \A i \in 1..Len(r) : r[i] = s[i + 1]
  OBVIOUS
<1> HIDE DEF r
<1>2. /\ f \in [1..Len(r) -> 1..Len(s)] /\ \A i \in 1..Len(r) : r[i] = s[f[i]]
      /\ \A i, j \in 1..Len(r) : i < j => f[i] < f[j]
  BY <1>1
<1>3. (OnceIn(s) => OnceIn(r)) /\ \A x, y : Ahead(y, x, s) => Ahead(y, x, r)
  BY <1>1, <1>2, PartOf
<1>4. 1 \in 1..Len(s) /\ \A i \in 1..Len(r) : i + 1 \in 1..Len(s) /\ i + 1 # 1
  BY <1>1
<1>5. OnceIn(s) => ~InSeq(Head(s), r)
  BY <1>1, <1>4 DEF OnceIn, InSeq
<1>6. ASSUME NEW y, Ahead(y, Head(s), s) PROVE ~InSeq(y, s)
  <2>1. \A j \in 1..Len(s) : ~ (j < 1)
    BY <1>1
  <2> QED
    BY <1>1, <1>4, <1>6, <2>1 DEF Ahead, InSeq
<1>7. \A y : InSeq(y, r) => InSeq(y, s)
  BY <1>1, <1>4 DEF InSeq
<1>8. InSeq(Head(s), s)
  BY <1>1, <1>4 DEF InSeq
<1>9. \A y : InSeq(y, s) => y = Head(s) \/ InSeq(y, r)
  BY TailIn DEF r
<1> QED
  BY <1>3, <1>5, <1>6, <1>7, <1>8, <1>9 DEF r

\* Taking an element off leaves the others, in their order.
LEMMA WithoutOrder ==
  ASSUME NEW S, NEW s \in Seq(S), NEW x
  PROVE  /\ OnceIn(s) => OnceIn(Without(s, x)) /\ ~InSeq(x, Without(s, x))
         /\ \A y, z : Ahead(y, z, s) => Ahead(y, z, Without(s, x))
         /\ \A y : y # x => (InSeq(y, Without(s, x)) <=> InSeq(y, s))
<1>1. CASE ~InSeq(x, s)
  BY <1>1 DEF Without
<1>2. CASE InSeq(x, s)
  <2>1. PICK k : k = CHOOSE i \in 1..Len(s) : s[i] = x
    OBVIOUS
  <2>2. k \in 1..Len(s) /\ s[k] = x /\ Len(s) \in Nat \ {0}
    BY <1>2, <2>1 DEF InSeq
  <2> DEFINE r == Without(s, x)
             f == [i \in 1..(Len(s) - 1) |-> IF i < k THEN i ELSE i + 1]
  <2>3. r = [i \in 1..(Len(s) - 1) |-> IF i < k THEN s[i] ELSE s[i + 1]]
    BY <1>2, <2>1 DEF Without
  <2>4. r \in Seq(S)
    BY WithoutIn
  <2> HIDE DEF r
  <2>5. Len(r) = Len(s) - 1
    BY <2>2, <2>3, <2>4
  <2>6. \A i \in 1..Len(r) : f[i] \in 1..Len(s) /\ f[i] # k /\ r[i] = s[f[i]]
    BY <2>2, <2>3, <2>5
  <2>7. f \in [1..Len(r) -> 1..Len(s)] /\ \A i, j \in 1..Len(r) : i < j => f[i] < f[j]
    BY <2>2, <2>5
  <2>8. \A j \in 1..Len(s) : j # k => \E i \in 1..Len(r) : f[i] = j
    <3>1. SUFFICES ASSUME NEW j \in 1..Len(s), j # k PROVE \E i \in 1..Len(r) : f[i] = j
      OBVIOUS
    <3>2. CASE j < k
      <4>1. j \in 1..Len(r) /\ f[j] = j
        BY <2>2, <2>5, <3>2
      <4> QED
        BY <4>1
    <3>3. CASE j > k
      <4>1. j - 1 \in 1..Len(r) /\ f[j - 1] = j
        BY <2>2, <2>5, <3>3
      <4> QED
        BY <4>1
    <3>4. j < k \/ j > k
      BY <2>2, <3>1
    <3> QED
      BY <3>2, <3>3, <3>4
  <2> HIDE DEF f
  <2>9. (OnceIn(s) => OnceIn(r)) /\ \A y, z : Ahead(y, z, s) => Ahead(y, z, r)
    BY <2>4, <2>6, <2>7, PartOf
  <2>10. OnceIn(s) => ~InSeq(x, r)
    BY <2>2, <2>6 DEF OnceIn, InSeq
  <2>11. ASSUME NEW y, y # x PROVE InSeq(y, r) <=> InSeq(y, s)
    BY <2>2, <2>6, <2>8, <2>11 DEF InSeq
  <2> QED
    BY <2>9, <2>10, <2>11 DEF r
<1> QED
  BY <1>1, <1>2

-----------------------------------------------------------------------------
(* Who is in which list.  The point is what ReturnLate may write: the      *)
(* waketime of the timer whose callback had paused.  The greenlet that     *)
(* paused went onto the list after that timer, and the loop that switches  *)
(* back to it has by then passed the timer in its copy of the list.        *)

\* Lists hold nothing twice, and a paused greenlet stands after the timer that
\* it is in the middle of.
ListsInv ==
  /\ OnceIn(timers) /\ OnceIn(scan) /\ OnceIn(greenlets)
  /\ \A g \in Greenlets : Ahead(job[g], g, timers) /\ Ahead(job[g], g, scan)

\* What the scan still has and the list has no more, will not be due.
ScanInv == \A x \in Handlers : InSeq(x, scan) /\ waketime[x] # NEVER => InSeq(x, timers)

\* The greenlet of the loop is in no list, a finished one has no timer, the
\* others are paused; only the one that runs is in the middle of a pause.
GreenletsInv ==
  /\ ~InSeq(g_dispatch, timers) /\ ~InSeq(g_dispatch, scan) /\ ~InSeq(g_dispatch, greenlets)
  /\ \A g \in Greenlets : InSeq(g, greenlets) => ~InSeq(g, timers)
  /\ running # g_dispatch => InSeq(running, timers) /\ running \notin waiting
  /\ \A g \in waiting : InSeq(g, timers)
  /\ \A g \in Greenlets : job[g] \in Greenlets => g = g_dispatch /\ running # g_dispatch

\* A callback that another thread has put into the queue is nowhere else.
QueueInv ==
  /\ \A x \in Callbacks : InSeq(x, async_queue) =>
       ~InSeq(x, timers) /\ ~InSeq(x, scan) /\ \A g \in Greenlets : job[g] # x
  /\ \A i, j \in 1..Len(async_queue) :
       async_queue[i] = async_queue[j] /\ async_queue[i] # "complete" => i = j

PlacesInv == ListsInv /\ ScanInv /\ GreenletsInv /\ QueueInv /\ WaiterIsDue

\* The kinds of handler are apart from each other and from the other jobs.
LEMMA KindsApart ==
  /\ \A x \in Timers \cup Callbacks : x \in Handlers /\ x \notin Greenlets
  /\ Greenlets \subseteq Handlers
  /\ \A x \in {"fd", "complete", "none"} : x \notin Handlers
BY ReactorAssumption DEF Handlers

\* A handler that nothing refers to goes to the end of the list.
LEMMA RegisterKeeps ==
  ASSUME ReactorInv, PlacesInv, NEW t \in Timers \cup Callbacks, NEW w,
         RegisterTimer(t, w), UNCHANGED <<loop, completion>>,
         ~InSeq(t, timers), ~InSeq(t, scan), \A g \in Greenlets : job[g] # t
  PROVE  /\ ListsInv' /\ ScanInv' /\ GreenletsInv' /\ WaiterIsDue'
         /\ \A x : InSeq(x, timers') <=> x = t \/ InSeq(x, timers)
<1> USE DEF ReactorInv, PlacesInv
<1>1. /\ timers \in Seq(Handlers) /\ t \in Handlers /\ t \notin Greenlets /\ timers' = Append(timers, t)
      /\ waketime' = [waketime EXCEPT ![t] = w] /\ waketime \in [Handlers -> 0..NEVER]
      /\ waiting \subseteq Greenlets /\ g_dispatch \in Greenlets /\ running \in Greenlets
  BY KindsApart DEF TypeOK, RegisterTimer
<1>2. UNCHANGED <<scan, g_dispatch, running, job, greenlets, waiting, complete>>
  BY DEF loop, completion
<1>3. \A x : InSeq(x, timers') <=> x = t \/ InSeq(x, timers)
  BY <1>1, AppendOrder
<1>4. ListsInv'
  <2>1. OnceIn(timers') /\ \A g \in Greenlets : Ahead(job[g], g, timers')
    BY <1>1, AppendOrder DEF ListsInv
  <2> QED
    BY <1>2, <2>1 DEF ListsInv
<1>5. \A x \in Handlers : x # t => waketime'[x] = waketime[x]
  BY <1>1
<1>6. ScanInv'
  BY <1>2, <1>3, <1>5 DEF ScanInv
<1>7. GreenletsInv'
  BY <1>1, <1>2, <1>3 DEF GreenletsInv
<1>8. WaiterIsDue'
  BY <1>1, <1>2, <1>3, <1>5, KindsApart DEF WaiterIsDue
<1> QED
  BY <1>3, <1>4, <1>6, <1>7, <1>8

\* register_timer and register_callback.
LEMMA RegisterPlaces ==
  ASSUME ReactorInv, PlacesInv, NEW t \in Timers \cup Callbacks, NEW w, Register(t, w)
  PROVE  PlacesInv'
<1> USE DEF ReactorInv
<1>1. /\ RegisterTimer(t, w) /\ UNCHANGED <<loop, completion, async>>
      /\ ~InSeq(t, timers) /\ ~InSeq(t, scan) /\ ~InSeq(t, async_queue)
      /\ \A g \in Greenlets : job[g] # t
  BY DEF Register, Fresh
<1>2. /\ ListsInv' /\ ScanInv' /\ GreenletsInv' /\ WaiterIsDue'
      /\ \A x : InSeq(x, timers') <=> x = t \/ InSeq(x, timers)
  BY <1>1, RegisterKeeps
<1>3. QueueInv'
  BY <1>1, <1>2 DEF PlacesInv, QueueInv, loop, async
<1> QED
  BY <1>2, <1>3 DEF PlacesInv

\* update_timer, of a timer or of a greenlet that is called back at once.
LEMMA UpdatePlaces ==
  ASSUME ReactorInv, PlacesInv, NEW t \in Handlers, NEW w, Update(t, w), t \in Greenlets => w = NOW
  PROVE  PlacesInv'
<1> USE DEF ReactorInv, PlacesInv
<1>1. /\ waketime' = [waketime EXCEPT ![t] = w] /\ waketime \in [Handlers -> 0..NEVER]
      /\ InSeq(t, timers) /\ waiting \subseteq Greenlets
      /\ UNCHANGED <<timers, scan, g_dispatch, running, job, greenlets, waiting, complete, async_queue>>
  BY DEF TypeOK, Update, UpdateTimer, loop, completion, async
<1>2. \A x \in Handlers : waketime'[x] = IF x = t THEN w ELSE waketime[x]
  BY <1>1
<1>3. ScanInv' /\ WaiterIsDue'
  BY <1>1, <1>2, KindsApart DEF ScanInv, WaiterIsDue
<1>4. ListsInv' /\ GreenletsInv' /\ QueueInv'
  BY <1>1 DEF ListsInv, GreenletsInv, QueueInv
<1> QED
  BY <1>3, <1>4

\* unregister_timer.
LEMMA UnregisterPlaces ==
  ASSUME ReactorInv, PlacesInv, NEW t \in Timers, Unregister(t) PROVE PlacesInv'
<1> USE DEF ReactorInv, PlacesInv
<1>1. /\ waketime' = [waketime EXCEPT ![t] = NEVER] /\ waketime \in [Handlers -> 0..NEVER]
      /\ timers' = Without(timers, t) /\ timers \in Seq(Handlers)
      /\ waiting \subseteq Greenlets /\ g_dispatch \in Greenlets /\ running \in Greenlets
      /\ t \in Handlers /\ t \notin Greenlets
      /\ UNCHANGED <<scan, g_dispatch, running, job, greenlets, waiting, complete, async_queue>>
  BY KindsApart DEF TypeOK, Unregister, UnregisterTimer, loop, completion, async
<1>2. \A x \in Handlers : waketime'[x] = IF x = t THEN NEVER ELSE waketime[x]
  BY <1>1
<1>3. /\ \A x : InSeq(x, timers') => InSeq(x, timers)
      /\ \A x : x # t => (InSeq(x, timers') <=> InSeq(x, timers))
  BY <1>1, WithoutIn, WithoutOrder
<1>4. ListsInv'
  <2>1. OnceIn(timers') /\ \A g \in Greenlets : Ahead(job[g], g, timers')
    BY <1>1, WithoutOrder DEF ListsInv
  <2> QED
    BY <1>1, <2>1 DEF ListsInv
<1>5. ScanInv'
  BY <1>1, <1>2, <1>3 DEF ScanInv
<1>6. WaiterIsDue'
  BY <1>1, <1>2, <1>3, KindsApart DEF WaiterIsDue
<1>7. GreenletsInv'
  BY <1>1, <1>3 DEF GreenletsInv
<1>8. QueueInv'
  BY <1>1, <1>3 DEF QueueInv
<1> QED
  BY <1>4, <1>5, <1>6, <1>7, <1>8

\* complete(): whoever waits is on the list, and is now due.
LEMMA CompletePlaces ==
  ASSUME ReactorInv, PlacesInv, Complete, UNCHANGED loop
  PROVE  ListsInv' /\ ScanInv' /\ GreenletsInv' /\ WaiterIsDue' /\ timers' = timers
<1> USE DEF ReactorInv, PlacesInv
<1>1. UNCHANGED <<timers, scan, g_dispatch, running, job, greenlets, waiting>>
  BY DEF Complete, loop
<1>2. \A x \in Handlers : waketime'[x] = IF x \in waiting THEN NOW ELSE waketime[x]
  BY DEF Complete
<1>3. ScanInv' /\ WaiterIsDue'
  BY <1>1, <1>2, KindsApart DEF ScanInv, WaiterIsDue, GreenletsInv, TypeOK
<1>4. ListsInv' /\ GreenletsInv'
  BY <1>1 DEF ListsInv, GreenletsInv
<1> QED
  BY <1>1, <1>3, <1>4

\* A completion gets its result, or a new one takes its place.
LEMMA CompletionPlaces ==
  ASSUME ReactorInv, PlacesInv, CompleteHere \/ NewCompletion PROVE PlacesInv'
<1>1. CASE CompleteHere
  <2>1. Complete /\ UNCHANGED loop /\ UNCHANGED async
    BY <1>1 DEF CompleteHere
  <2>2. ListsInv' /\ ScanInv' /\ GreenletsInv' /\ WaiterIsDue' /\ timers' = timers
    BY <2>1, CompletePlaces
  <2>3. QueueInv'
    BY <2>1, <2>2 DEF PlacesInv, QueueInv, loop, async
  <2> QED
    BY <2>2, <2>3 DEF PlacesInv
<1>2. CASE NewCompletion
  <2>1. UNCHANGED <<timers, waketime, scan, g_dispatch, running, job, greenlets, waiting, async_queue>>
        /\ complete' = FALSE
    BY <1>2 DEF NewCompletion, lists, loop, async
  <2> QED
    BY <2>1 DEF PlacesInv, ListsInv, ScanInv, GreenletsInv, QueueInv, WaiterIsDue
<1> QED
  BY <1>1, <1>2

\* What the end of a callback does to the scan: its head is gone for good, and
\* what was to come before the head is not in the scan at all.
LEMMA ScanTail ==
  ASSUME ReactorInv, PlacesInv, scan # <<>>
  PROVE  /\ OnceIn(Tail(scan)) /\ ~InSeq(Head(scan), Tail(scan)) /\ Head(scan) # g_dispatch
         /\ \A g \in Greenlets : Ahead(job[g], g, Tail(scan))
         /\ \A x : InSeq(x, Tail(scan)) => InSeq(x, scan)
         /\ \A y : Ahead(y, Head(scan), scan) => ~InSeq(y, scan)
<1>1. scan \in Seq(Handlers)
  BY DEF ReactorInv, TypeOK
<1>2. /\ OnceIn(scan) => OnceIn(Tail(scan)) /\ ~InSeq(Head(scan), Tail(scan))
      /\ \A x, y : Ahead(y, x, scan) => Ahead(y, x, Tail(scan))
  BY <1>1, TailOrder
<1>3. /\ \A y : Ahead(y, Head(scan), scan) => ~InSeq(y, scan)
      /\ \A y : InSeq(y, scan) <=> y = Head(scan) \/ InSeq(y, Tail(scan))
  BY <1>1, TailOrder
<1> QED
  BY <1>2, <1>3 DEF PlacesInv, ListsInv, GreenletsInv

\* The last of a list of elements that are there once is not in the rest.
LEMMA FrontOrder ==
  ASSUME NEW S, NEW s \in Seq(S), s # <<>>, OnceIn(s), NEW r, r = SubSeq(s, 1, Len(s) - 1)
  PROVE  OnceIn(r) /\ ~InSeq(s[Len(s)], r) /\ \A x : InSeq(x, r) => InSeq(x, s)
<1>1. Len(s) \in Nat \ {0}
  OBVIOUS
<1>2. Len(r) = Len(s) - 1 /\ \A i \in 1..Len(r) : r[i] = s[i]
  <2> DEFINE w == [i \in 1..(Len(s) - 1) |-> s[i]]
  <2>1. r = w
    BY <1>1
  <2>2. w \in Seq(S) /\ Len(w) = Len(s) - 1
    BY <1>1
  <2>3. \A i \in 1..(Len(s) - 1) : w[i] = s[i]
    OBVIOUS
  <2> HIDE DEF w
  <2> QED
    BY <2>1, <2>2, <2>3
<1>3. Len(s) \in 1..Len(s) /\ \A i \in 1..Len(r) : i \in 1..Len(s) /\ i # Len(s)
  BY <1>1, <1>2
<1> QED
  BY <1>2, <1>3 DEF OnceIn, InSeq

\* A job that is no handler is in no list of handlers, and so before nothing.
LEMMA NoJob ==
  ASSUME NEW s \in Seq(Handlers), NEW j \in {"fd", "none"}, NEW g PROVE Ahead(j, g, s)
<1>1. \A i \in 1..Len(s) : s[i] \in Handlers
  OBVIOUS
<1> QED
  BY <1>1, KindsApart DEF Ahead

\* The greenlet that runs the loop pauses, and another one takes the loop over.
LEMMA PauseDispatchPlaces ==
  ASSUME ReactorInv, PlacesInv, NEW w, Spare, PauseDispatch(w), UNCHANGED <<complete, async>>,
         waiting' = waiting \/ (waiting' = waiting \cup {running} /\ ~complete)
  PROVE  PlacesInv'
<1> USE DEF ReactorInv, PlacesInv
<1>1. /\ timers \in Seq(Handlers) /\ greenlets \in Seq(Greenlets) /\ running \in Handlers
      /\ running = g_dispatch /\ waketime \in [Handlers -> 0..NEVER] /\ waiting \subseteq Greenlets
      /\ job \in [Greenlets -> Handlers \cup {"fd", "none"}] /\ running \in Greenlets
  BY KindsApart DEF TypeOK, PauseDispatch
<1>2. timers' = Append(timers, running) /\ waketime' = [waketime EXCEPT ![running] = w]
      /\ UNCHANGED <<complete, async_queue>>
  BY DEF PauseDispatch, async
<1>3. ~InSeq(running, timers) /\ running \notin waiting
  BY <1>1 DEF GreenletsInv
<1>4. \A x : InSeq(x, timers') <=> x = running \/ InSeq(x, timers)
  BY <1>1, <1>2, <1>3, AppendOrder
<1>5. PICK n : n = NextGreenlet
  OBVIOUS
<1>6. /\ g_dispatch' = n /\ running' = n /\ scan' = <<>> /\ job' = [job EXCEPT ![n] = "none"]
      /\ greenlets' = IF greenlets = <<>> THEN greenlets ELSE SubSeq(greenlets, 1, Len(greenlets) - 1)
  BY <1>5 DEF PauseDispatch, TakeOver
<1>7. /\ OnceIn(greenlets') /\ ~InSeq(n, greenlets') /\ n \in Greenlets /\ n # running
      /\ ~InSeq(n, timers) /\ \A x : InSeq(x, greenlets') => InSeq(x, greenlets)
  <2>1. CASE greenlets = <<>>
    <3>1. n \in Unused
      BY <1>5, <2>1 DEF Spare, NextGreenlet
    <3>2. n \in Greenlets /\ n # g_dispatch /\ ~InSeq(n, timers) /\ ~InSeq(n, greenlets)
      BY <3>1 DEF Unused
    <3> QED
      BY <1>1, <1>6, <2>1, <3>2 DEF ListsInv
  <2>2. CASE greenlets # <<>>
    <3>1. Len(greenlets) \in Nat \ {0} /\ n = greenlets[Len(greenlets)]
      BY <1>1, <1>5, <2>2 DEF NextGreenlet
    <3>2. n \in Greenlets /\ InSeq(n, greenlets)
      BY <1>1, <3>1 DEF InSeq
    <3>3. greenlets' = SubSeq(greenlets, 1, Len(greenlets) - 1)
      BY <1>6, <2>2
    <3>4. OnceIn(greenlets') /\ ~InSeq(n, greenlets') /\ \A x : InSeq(x, greenlets') => InSeq(x, greenlets)
      BY <1>1, <2>2, <3>1, <3>3, FrontOrder DEF ListsInv
    <3> QED
      BY <1>1, <3>2, <3>4 DEF GreenletsInv
  <2> QED
    BY <2>1, <2>2
<1>8. \A g \in Greenlets : job[g] \notin Greenlets
  BY <1>1 DEF GreenletsInv
<1>9. \A g \in Greenlets : job'[g] = (IF g = n THEN "none" ELSE job[g])
  BY <1>1, <1>6
<1>10. ListsInv'
  <2>1. OnceIn(timers')
    BY <1>1, <1>2, <1>3, AppendOrder DEF ListsInv
  <2>2. timers' \in Seq(Handlers)
    BY <1>1, <1>2
  <2>3. ASSUME NEW g \in Greenlets PROVE Ahead(job'[g], g, timers')
    <3>1. CASE g = n
      BY <1>9, <2>2, <3>1, NoJob
    <3>2. CASE g # n
      <4>1. Ahead(job[g], g, timers) /\ running # job[g]
        BY <1>1, <1>8 DEF ListsInv
      <4>2. Ahead(job[g], g, Append(timers, running))
        BY <1>1, <1>3, <4>1, AppendOrder
      <4> QED
        BY <1>2, <1>9, <3>2, <4>2
    <3> QED
      BY <3>1, <3>2
  <2>4. OnceIn(scan') /\ \A g \in Greenlets : Ahead(job'[g], g, scan')
    BY <1>6 DEF OnceIn, Ahead
  <2> QED
    BY <1>7, <2>1, <2>3, <2>4 DEF ListsInv
<1>11. ScanInv'
  BY <1>6 DEF ScanInv, InSeq
<1>12. GreenletsInv'
  <2>1. ~InSeq(n, timers') /\ \A g \in Greenlets : InSeq(g, greenlets') => ~InSeq(g, timers')
    BY <1>1, <1>4, <1>7 DEF GreenletsInv
  <2>2. ~InSeq(n, scan')
    BY <1>6 DEF InSeq
  <2>3. \A g \in waiting' : InSeq(g, timers')
    BY <1>4 DEF GreenletsInv
  <2>4. \A g \in Greenlets : job'[g] \notin Greenlets
    BY <1>8, <1>9, KindsApart
  <2> QED
    BY <1>6, <1>7, <2>1, <2>2, <2>3, <2>4 DEF GreenletsInv
<1>13. QueueInv'
  <2>1. \A x \in Callbacks : x # running /\ x # "none"
    BY <1>1, KindsApart
  <2>2. \A x : ~InSeq(x, scan')
    BY <1>6 DEF InSeq
  <2> QED
    BY <1>2, <1>4, <1>9, <2>1, <2>2 DEF QueueInv
<1>14. WaiterIsDue'
  <2>1. \A x \in Handlers : x # running => waketime'[x] = waketime[x]
    BY <1>1, <1>2
  <2> QED
    BY <1>1, <1>2, <1>3, <1>4, <2>1, KindsApart DEF WaiterIsDue
<1> QED
  BY <1>10, <1>11, <1>12, <1>13, <1>14

\* A greenlet that the loop had switched to pauses again.
LEMMA PauseAgainPlaces ==
  ASSUME ReactorInv, PlacesInv, NEW w, PauseAgain(w), UNCHANGED <<complete, async>>,
         waiting' = waiting \/ (waiting' = waiting \cup {running} /\ ~complete)
  PROVE  PlacesInv'
<1> USE DEF ReactorInv, PlacesInv
<1>1. /\ running # g_dispatch /\ scan # <<>> /\ Head(scan) = running /\ running \in Handlers
      /\ waketime \in [Handlers -> 0..NEVER] /\ waiting \subseteq Greenlets
      /\ job \in [Greenlets -> Handlers \cup {"fd", "none"}] /\ g_dispatch \in Greenlets
      /\ timers \in Seq(Handlers) /\ scan \in Seq(Handlers)
  BY KindsApart DEF TypeOK, PauseAgain, CallingHead
<1>2. /\ waketime' = [waketime EXCEPT ![running] = w] /\ running' = g_dispatch /\ scan' = Tail(scan)
      /\ job' = [job EXCEPT ![g_dispatch] = "none"]
      /\ UNCHANGED <<g_dispatch, timers, greenlets, complete, async_queue>>
  BY DEF PauseAgain, BackToLoop, async
<1>3. \A x \in Handlers : x # running => waketime'[x] = waketime[x]
  BY <1>1, <1>2
<1>4. \A g \in Greenlets : job'[g] = IF g = g_dispatch THEN "none" ELSE job[g]
  BY <1>1, <1>2
<1>5. /\ ~InSeq(running, scan') /\ \A x : InSeq(x, scan') => InSeq(x, scan)
  BY <1>1, <1>2, ScanTail
<1>6. ListsInv'
  <2>1. OnceIn(scan') /\ \A g \in Greenlets : Ahead(job[g], g, scan')
    BY <1>1, <1>2, ScanTail
  <2>2. scan' \in Seq(Handlers)
    BY <1>1, <1>2
  <2>3. \A g \in Greenlets : Ahead(job'[g], g, scan') /\ Ahead(job'[g], g, timers)
    BY <1>1, <1>4, <2>1, <2>2, NoJob DEF ListsInv
  <2> QED
    BY <1>2, <2>1, <2>3 DEF ListsInv
<1>7. ScanInv'
  BY <1>2, <1>3, <1>5 DEF ScanInv
<1>8. GreenletsInv'
  <2>1. \A g \in Greenlets : job'[g] \notin Greenlets
    BY <1>4, KindsApart DEF GreenletsInv
  <2>2. \A g \in waiting' : InSeq(g, timers')
    BY <1>1, <1>2 DEF GreenletsInv
  <2> QED
    BY <1>2, <1>5, <2>1, <2>2 DEF GreenletsInv
<1>9. QueueInv'
  BY <1>2, <1>4, <1>5, KindsApart DEF QueueInv
<1>10. WaiterIsDue'
  <2>1. running \notin waiting
    BY <1>1 DEF GreenletsInv
  <2> QED
    BY <1>1, <1>2, <1>3, <2>1 DEF WaiterIsDue, Handlers
<1> QED
  BY <1>6, <1>7, <1>8, <1>9, <1>10

\* A pause, with or without a completion to wait for.
LEMMA PausePlaces ==
  ASSUME ReactorInv, PlacesInv, NEW w \in Later, Pause(w) \/ Wait(w) PROVE PlacesInv'
<1>1. /\ Pauses(w) /\ UNCHANGED <<complete, async>>
      /\ waiting' = waiting \/ (waiting' = waiting \cup {running} /\ ~complete)
  BY DEF Pause, Wait, completion
<1>2. (PauseDispatch(w) /\ Spare) \/ PauseAgain(w)
  BY <1>1 DEF Pauses, PauseDispatch
<1> QED
  BY <1>1, <1>2, PauseDispatchPlaces, PauseAgainPlaces

\* The callback of a timer returns to the loop that called it.
LEMMA ReturnPlaces ==
  ASSUME ReactorInv, PlacesInv, NEW w, Return(w) PROVE PlacesInv'
<1> USE DEF ReactorInv, PlacesInv
<1>1. /\ running = g_dispatch /\ scan # <<>> /\ Head(scan) = job[running] /\ running \in Greenlets
      /\ waketime \in [Handlers -> 0..NEVER] /\ waiting \subseteq Greenlets
      /\ job \in [Greenlets -> Handlers \cup {"fd", "none"}]
      /\ timers \in Seq(Handlers) /\ scan \in Seq(Handlers)
  BY DEF TypeOK, Return, Calling, CallingHead
<1>2. /\ waketime' = [waketime EXCEPT ![job[running]] = w] /\ running' = g_dispatch
      /\ scan' = Tail(scan) /\ job' = [job EXCEPT ![running] = "none"]
      /\ UNCHANGED <<g_dispatch, timers, greenlets, waiting, complete, async_queue>>
  BY DEF Return, BackToLoop, completion, async
<1>3. \A x \in Handlers : x # job[running] => waketime'[x] = waketime[x]
  BY <1>1, <1>2
<1>4. \A g \in Greenlets : job'[g] = IF g = running THEN "none" ELSE job[g]
  BY <1>1, <1>2
<1>5. ~InSeq(job[running], scan') /\ \A x : InSeq(x, scan') => InSeq(x, scan)
  BY <1>1, <1>2, ScanTail
<1>6. ListsInv'
  <2>1. OnceIn(scan') /\ \A g \in Greenlets : Ahead(job[g], g, scan')
    BY <1>1, <1>2, ScanTail
  <2>2. scan' \in Seq(Handlers)
    BY <1>1, <1>2
  <2>3. \A g \in Greenlets : Ahead(job'[g], g, scan') /\ Ahead(job'[g], g, timers)
    BY <1>1, <1>4, <2>1, <2>2, NoJob DEF ListsInv
  <2> QED
    BY <1>2, <2>1, <2>3 DEF ListsInv
<1>7. ScanInv'
  BY <1>2, <1>3, <1>5 DEF ScanInv
<1>8. job[running] \notin Greenlets
  BY <1>1 DEF GreenletsInv
<1>9. GreenletsInv'
  <2>1. \A g \in Greenlets : job'[g] \notin Greenlets
    BY <1>1, <1>4, KindsApart DEF GreenletsInv
  <2> QED
    BY <1>1, <1>2, <1>5, <2>1 DEF GreenletsInv
<1>10. QueueInv'
  BY <1>2, <1>4, <1>5, KindsApart DEF QueueInv
<1>11. WaiterIsDue'
  BY <1>1, <1>2, <1>3, <1>8, KindsApart DEF WaiterIsDue
<1> QED
  BY <1>6, <1>7, <1>9, <1>10, <1>11

\* The callback returns in a greenlet that has lost the loop: what it writes
\* is the waketime of a timer that this scan has passed.
LEMMA ReturnLatePlaces ==
  ASSUME ReactorInv, PlacesInv, NEW w, ReturnLate(w) PROVE PlacesInv'
<1> USE DEF ReactorInv, PlacesInv
<1>1. /\ running # g_dispatch /\ scan # <<>> /\ Head(scan) = running /\ running \in Greenlets
      /\ waketime \in [Handlers -> 0..NEVER] /\ waiting \subseteq Greenlets
      /\ job \in [Greenlets -> Handlers \cup {"fd", "none"}] /\ g_dispatch \in Greenlets
      /\ timers \in Seq(Handlers) /\ scan \in Seq(Handlers) /\ greenlets \in Seq(Greenlets)
  BY DEF TypeOK, ReturnLate, CallingHead
<1>2. /\ running' = g_dispatch /\ scan' = Tail(scan) /\ timers' = Without(timers, running)
      /\ greenlets' = Append(greenlets, running)
      /\ UNCHANGED <<g_dispatch, waiting, complete, async_queue>>
  BY DEF ReturnLate, BackToLoop, completion, async
<1>3. /\ \A x \in Handlers : x # job[running] /\ x # running => waketime'[x] = waketime[x]
      /\ waketime'[running] = NEVER
  BY <1>1, KindsApart DEF ReturnLate
<1>4. \A g \in Greenlets : job'[g] = job[g] \/ job'[g] \in {"fd", "none"}
  BY <1>1 DEF ReturnLate
<1>5. job'[g_dispatch] = "none" /\ job[running] \notin Greenlets
  <2>1. job'[g_dispatch] = "none"
    BY <1>1 DEF ReturnLate
  <2> QED
    BY <1>1, <2>1 DEF GreenletsInv
<1>6. /\ ~InSeq(running, scan') /\ \A x : InSeq(x, scan') => InSeq(x, scan)
  BY <1>1, <1>2, ScanTail
<1>7. ~InSeq(job[running], scan)
  <2>1. Ahead(job[running], Head(scan), scan)
    BY <1>1 DEF ListsInv
  <2> QED
    BY <1>1, <2>1, ScanTail
<1>8. /\ \A x : InSeq(x, timers') => InSeq(x, timers) /\ x # running
      /\ \A x : x # running => (InSeq(x, timers') <=> InSeq(x, timers))
  BY <1>1, <1>2, WithoutIn, WithoutOrder DEF ListsInv
<1>9. ~InSeq(running, greenlets)
  BY <1>1 DEF GreenletsInv
<1>10. \A x : InSeq(x, greenlets') <=> x = running \/ InSeq(x, greenlets)
  BY <1>1, <1>2, <1>9, AppendOrder
<1>11. ListsInv'
  <2>1. OnceIn(scan') /\ \A g \in Greenlets : Ahead(job[g], g, scan')
    BY <1>1, <1>2, ScanTail
  <2>2. OnceIn(timers') /\ \A g \in Greenlets : Ahead(job[g], g, timers')
    BY <1>1, <1>2, WithoutOrder DEF ListsInv
  <2>3. scan' \in Seq(Handlers) /\ timers' \in Seq(Handlers)
    BY <1>1, <1>2, WithoutIn
  <2>4. \A g \in Greenlets : Ahead(job'[g], g, scan') /\ Ahead(job'[g], g, timers')
    BY <1>4, <2>1, <2>2, <2>3, NoJob
  <2>5. OnceIn(greenlets')
    BY <1>1, <1>2, <1>9, AppendOrder DEF ListsInv
  <2> QED
    BY <2>1, <2>2, <2>4, <2>5 DEF ListsInv
<1>12. ScanInv'
  BY <1>3, <1>6, <1>7, <1>8 DEF ScanInv
<1>13. GreenletsInv'
  <2>1. ~InSeq(g_dispatch, timers') /\ ~InSeq(g_dispatch, scan') /\ ~InSeq(g_dispatch, greenlets')
    BY <1>1, <1>6, <1>8, <1>10 DEF GreenletsInv
  <2>2. \A g \in Greenlets : InSeq(g, greenlets') => ~InSeq(g, timers')
    BY <1>8, <1>10 DEF GreenletsInv
  <2>3. \A g \in waiting : InSeq(g, timers')
    BY <1>1, <1>8 DEF GreenletsInv
  <2>4. \A g \in Greenlets : job'[g] \notin Greenlets
    BY <1>4, <1>5, KindsApart DEF GreenletsInv
  <2> QED
    BY <1>2, <2>1, <2>2, <2>3, <2>4 DEF GreenletsInv
<1>14. QueueInv'
  <2>1. \A x \in Callbacks : x \notin {"fd", "none"}
    BY KindsApart
  <2> QED
    BY <1>2, <1>4, <1>6, <1>8, <2>1 DEF QueueInv
<1>15. WaiterIsDue'
  <2>1. \A g \in waiting : g # running /\ g # job[running] /\ g \in Handlers
    BY <1>1, <1>5, KindsApart DEF GreenletsInv
  <2> QED
    BY <1>2, <1>3, <1>8, <2>1 DEF WaiterIsDue
<1> QED
  BY <1>11, <1>12, <1>13, <1>14, <1>15

\* The loop starts a scan, or passes a timer that is not due.
LEMMA CheckPlaces ==
  ASSUME ReactorInv, PlacesInv, Check \/ NotDue PROVE PlacesInv'
<1> USE DEF ReactorInv, PlacesInv
<1>1. /\ UNCHANGED <<timers, waketime, g_dispatch, running, job, greenlets, waiting, complete,
                     async_queue>>
      /\ scan' = scan \/ scan' = timers \/ (scan # <<>> /\ scan' = Tail(scan))
      /\ running = g_dispatch
  BY NotCalling DEF Check, NotDue, completion, async
<1>2. /\ OnceIn(scan') /\ (\A g \in Greenlets : Ahead(job[g], g, scan'))
      /\ \A x : InSeq(x, scan') => InSeq(x, scan) \/ InSeq(x, timers)
  BY <1>1, ScanTail DEF ListsInv
<1>3. ListsInv' /\ ScanInv' /\ GreenletsInv' /\ QueueInv' /\ WaiterIsDue'
  BY <1>1, <1>2 DEF ListsInv, ScanInv, GreenletsInv, QueueInv, WaiterIsDue
<1> QED
  BY <1>3

\* A timer that is due is on the list: the scan has nothing else that is.
LEMMA DueIsListed ==
  ASSUME ReactorInv, PlacesInv, NEW t \in Handlers, Due(t) PROVE InSeq(t, timers)
<1>1. scan # <<>> /\ t = Head(scan) /\ waketime[t] <= eventtime
  BY DEF Due, IsDue
<1>2. InSeq(t, scan)
  BY <1>1, TailOrder DEF ReactorInv, TypeOK
<1>3. waketime[t] # NEVER
  BY <1>1, ReactorAssumption DEF ReactorInv, TypeOK, NEVER
<1> QED
  BY <1>2, <1>3 DEF PlacesInv, ScanInv

\* The loop calls the callback of a timer, or goes on with a paused greenlet.
LEMMA DuePlaces ==
  ASSUME ReactorInv, PlacesInv, NEW t \in Handlers, Due(t) PROVE PlacesInv'
<1> USE DEF ReactorInv, PlacesInv
<1>1. /\ running = g_dispatch /\ scan # <<>> /\ t = Head(scan) /\ InSeq(t, timers) /\ InSeq(t, scan)
      /\ waketime \in [Handlers -> 0..NEVER] /\ waiting \subseteq Greenlets
      /\ job \in [Greenlets -> Handlers \cup {"fd", "none"}] /\ g_dispatch \in Greenlets
      /\ timers \in Seq(Handlers) /\ scan \in Seq(Handlers)
  BY NotCalling, DueIsListed, TailOrder DEF TypeOK, Due
<1>2. /\ waketime' = [waketime EXCEPT ![t] = NEVER]
      /\ timers' = IF t \in Callbacks THEN Without(timers, t) ELSE timers
      /\ job' = [job EXCEPT ![g_dispatch] = t] /\ waiting' = waiting \ {t}
      /\ running' = IF t \in Greenlets THEN t ELSE running
      /\ UNCHANGED <<scan, g_dispatch, greenlets, complete, async_queue>>
  BY DEF Due, async
<1>3. \A x \in Handlers : waketime'[x] = IF x = t THEN NEVER ELSE waketime[x]
  BY <1>1, <1>2
<1>4. \A g \in Greenlets : job'[g] = IF g = g_dispatch THEN t ELSE job[g]
  BY <1>1, <1>2
<1>5. /\ OnceIn(timers') /\ \A g \in Greenlets : Ahead(job[g], g, timers')
      /\ \A x : InSeq(x, timers') => InSeq(x, timers)
      /\ \A x : x # t \/ t \notin Callbacks => (InSeq(x, timers') <=> InSeq(x, timers))
  BY <1>1, <1>2, WithoutOrder, WithoutIn DEF ListsInv
<1>6. ListsInv'
  <2>1. Ahead(t, g_dispatch, scan) /\ Ahead(t, g_dispatch, timers')
    BY <1>5 DEF GreenletsInv, Ahead, InSeq
  <2> QED
    BY <1>2, <1>4, <1>5, <2>1 DEF ListsInv
<1>7. ScanInv'
  BY <1>2, <1>3, <1>5 DEF ScanInv
<1>8. GreenletsInv'
  <2>1. t # g_dispatch
    BY <1>1 DEF GreenletsInv
  <2>2. t \in Greenlets => t \notin Callbacks /\ InSeq(t, timers')
    BY <1>1, <1>2, KindsApart
  <2>3. \A g \in waiting' : InSeq(g, timers')
    BY <1>2, <1>5 DEF GreenletsInv
  <2> QED
    BY <1>1, <1>2, <1>4, <1>5, <2>1, <2>2, <2>3 DEF GreenletsInv
<1>9. QueueInv'
  BY <1>1, <1>2, <1>4, <1>5 DEF QueueInv
<1>10. WaiterIsDue'
  BY <1>1, <1>2, <1>3, <1>5, KindsApart DEF WaiterIsDue
<1> QED
  BY <1>6, <1>7, <1>8, <1>9, <1>10

\* The steps of the loop around the scan, and the end of a descriptor's
\* callback.
LEMMA PollPlaces ==
  ASSUME ReactorInv, PlacesInv,
         ScanEnds \/ PollEmpty \/ PollFd \/ PollPipe \/ Drained \/ ReturnFd
  PROVE  PlacesInv'
<1> USE DEF ReactorInv, PlacesInv
<1>1. /\ UNCHANGED <<timers, waketime, scan, g_dispatch, running, greenlets, waiting, complete,
                     async_queue>>
      /\ running = g_dispatch
  BY NotCalling DEF ScanEnds, PollEmpty, PollFd, PollPipe, Drained, ReturnFd, lists, completion, async
<1>2. \A g \in Greenlets : job'[g] = job[g] \/ job'[g] \in {"fd", "none"}
  BY <1>1 DEF ScanEnds, PollEmpty, PollFd, PollPipe, Drained, ReturnFd, TypeOK
<1>3. ListsInv'
  <2>1. timers \in Seq(Handlers) /\ scan \in Seq(Handlers)
    BY DEF TypeOK
  <2> QED
    BY <1>1, <1>2, <2>1, NoJob DEF ListsInv
<1>4. GreenletsInv'
  <2>1. \A g \in Greenlets : job'[g] \notin Greenlets
    BY <1>1, <1>2, KindsApart DEF GreenletsInv
  <2> QED
    BY <1>1, <2>1 DEF GreenletsInv
<1>5. QueueInv'
  <2>1. \A x \in Callbacks : x \notin {"fd", "none"}
    BY KindsApart
  <2> QED
    BY <1>1, <1>2, <2>1 DEF QueueInv
<1>6. ScanInv' /\ WaiterIsDue'
  BY <1>1 DEF ScanInv, WaiterIsDue
<1> QED
  BY <1>3, <1>4, <1>5, <1>6

\* What another thread has put into the queue is registered, or completes.
LEMMA DrainPlaces ==
  ASSUME ReactorInv, PlacesInv, Drain PROVE PlacesInv'
<1> USE DEF ReactorInv
<1> DEFINE x == Head(async_queue)
<1>1. /\ async_queue \in Seq(Callbacks \cup {"complete"}) /\ async_queue # <<>>
      /\ x \in Callbacks \cup {"complete"} /\ UNCHANGED loop /\ async_queue' = Tail(async_queue)
  BY DEF Drain, TypeOK
<1>2. Len(async_queue) \in Nat \ {0} /\ x = async_queue[1] /\ Len(async_queue') = Len(async_queue) - 1
      /\ \A i \in 1..Len(async_queue') : async_queue'[i] = async_queue[i + 1]
  BY <1>1
<1>3. /\ 1 \in 1..Len(async_queue)
      /\ \A i \in 1..Len(async_queue') : i + 1 \in 1..Len(async_queue) /\ i + 1 # 1
      /\ \A i, j \in 1..Len(async_queue') : i + 1 = j + 1 => i = j
  BY <1>2
<1> HIDE DEF x
<1>4. \A y : InSeq(y, async_queue') => InSeq(y, async_queue)
  BY <1>2, <1>3 DEF InSeq
<1>5. x # "complete" => InSeq(x, async_queue) /\ ~InSeq(x, async_queue')
  BY <1>2, <1>3 DEF PlacesInv, QueueInv, InSeq
<1>6. \A i, j \in 1..Len(async_queue') :
        async_queue'[i] = async_queue'[j] /\ async_queue'[i] # "complete" => i = j
  BY <1>2, <1>3 DEF PlacesInv, QueueInv
<1>7. CASE x = "complete"
  <2>1. Complete
    BY <1>7 DEF Drain, x
  <2>2. ListsInv' /\ ScanInv' /\ GreenletsInv' /\ WaiterIsDue' /\ timers' = timers
    BY <1>1, <2>1, CompletePlaces
  <2>3. QueueInv'
    BY <1>1, <1>4, <1>6, <2>2 DEF PlacesInv, QueueInv, loop
  <2> QED
    BY <2>2, <2>3 DEF PlacesInv
<1>8. CASE x # "complete"
  <2>1. RegisterTimer(x, NOW) /\ UNCHANGED completion /\ x \in Callbacks
    BY <1>1, <1>8 DEF Drain, x
  <2>2. ~InSeq(x, timers) /\ ~InSeq(x, scan) /\ \A g \in Greenlets : job[g] # x
    BY <1>5, <1>8, <2>1 DEF PlacesInv, QueueInv
  <2>3. /\ ListsInv' /\ ScanInv' /\ GreenletsInv' /\ WaiterIsDue'
        /\ \A y : InSeq(y, timers') <=> y = x \/ InSeq(y, timers)
    BY <1>1, <2>1, <2>2, RegisterKeeps
  <2>4. QueueInv'
    BY <1>1, <1>4, <1>5, <1>6, <1>8, <2>3 DEF PlacesInv, QueueInv, loop
  <2> QED
    BY <2>3, <2>4 DEF PlacesInv
<1> QED
  BY <1>7, <1>8

\* Another thread puts something into the queue that nothing else refers to.
LEMMA PostPlaces ==
  ASSUME ReactorInv, PlacesInv, NEW item \in Callbacks \cup {"complete"}, PostPut(item)
  PROVE  PlacesInv'
<1> USE DEF ReactorInv
<1>1. /\ UNCHANGED <<timers, waketime, scan, g_dispatch, running, job, greenlets, waiting, complete>>
      /\ async_queue \in Seq(Callbacks \cup {"complete"}) /\ async_queue' = Append(async_queue, item)
  BY DEF PostPut, lists, loop, completion, TypeOK
<1>2. item # "complete" =>
        /\ ~InSeq(item, timers) /\ ~InSeq(item, scan) /\ ~InSeq(item, async_queue)
        /\ \A g \in Greenlets : job[g] # item
  BY DEF PostPut, Fresh
<1>3. \A y : InSeq(y, async_queue') => y = item \/ InSeq(y, async_queue)
  BY <1>1, AppendIn
<1>4. "complete" \notin Callbacks
  BY KindsApart
<1>5. /\ Len(async_queue) \in Nat /\ Len(async_queue') = Len(async_queue) + 1
      /\ async_queue'[Len(async_queue')] = item
      /\ \A i \in 1..Len(async_queue) : async_queue'[i] = async_queue[i]
  BY <1>1
<1>6. \A i \in 1..Len(async_queue') : i = Len(async_queue') \/ i \in 1..Len(async_queue)
  BY <1>5
<1>7. \A i, j \in 1..Len(async_queue') :
        async_queue'[i] = async_queue'[j] /\ async_queue'[i] # "complete" => i = j
  BY <1>2, <1>5, <1>6 DEF PlacesInv, QueueInv, InSeq
<1>8. QueueInv'
  BY <1>1, <1>2, <1>3, <1>4, <1>7 DEF PlacesInv, QueueInv
<1> QED
  BY <1>1, <1>8 DEF PlacesInv, ListsInv, ScanInv, GreenletsInv, WaiterIsDue

\* At the start nothing is listed and nobody waits.
LEMMA PlacesInit == Init => PlacesInv
<1> SUFFICES ASSUME Init PROVE PlacesInv
  OBVIOUS
<1>1. \A x : ~InSeq(x, timers) /\ ~InSeq(x, scan) /\ ~InSeq(x, greenlets) /\ ~InSeq(x, async_queue)
  BY DEF Init, InSeq
<1>2. ListsInv
  BY DEF Init, ListsInv, OnceIn, Ahead
<1>3. "none" \notin Greenlets
  BY KindsApart
<1> QED
  BY <1>1, <1>2, <1>3 DEF Init, PlacesInv, ScanInv, GreenletsInv, QueueInv, WaiterIsDue

\* Every step of the reactor keeps everything in its place.
LEMMA PlacesNext == ReactorInv /\ PlacesInv /\ [Next]_vars => PlacesInv'
<1> SUFFICES ASSUME ReactorInv, PlacesInv, [Next]_vars PROVE PlacesInv'
  OBVIOUS
<1>1. CASE CallbackStep
  <2>1. ASSUME NEW t \in Timers, NEW w, Register(t, w) \/ Update(t, w) PROVE PlacesInv'
    BY <2>1, RegisterPlaces, UpdatePlaces, KindsApart
  <2>2. ASSUME NEW t \in Callbacks, Register(t, NOW) PROVE PlacesInv'
    BY <2>2, RegisterPlaces
  <2>3. ASSUME NEW g \in Greenlets, Update(g, NOW) PROVE PlacesInv'
    BY <2>3, UpdatePlaces, KindsApart
  <2> QED
    BY <1>1, <2>1, <2>2, <2>3, UnregisterPlaces, CompletionPlaces, PausePlaces DEF CallbackStep
<1>2. CASE CallbackEnds
  BY <1>2, ReturnPlaces, ReturnLatePlaces, PollPlaces DEF CallbackEnds
<1>3. CASE LoopStep \/ PollFd
  BY <1>3, CheckPlaces, DuePlaces, PollPlaces, DrainPlaces DEF LoopStep
<1>4. CASE \E item \in Callbacks \cup {"complete"} : PostPut(item)
  BY <1>4, PostPlaces
<1>5. CASE PostWrite \/ Tick \/ UNCHANGED vars
  <2>1. UNCHANGED <<lists, loop, completion, async_queue>>
    BY <1>5 DEF PostWrite, Tick, vars, async
  <2> QED
    BY <2>1 DEF lists, loop, completion, PlacesInv, ListsInv, ScanInv, GreenletsInv, QueueInv,
                WaiterIsDue
<1> QED
  BY <1>1, <1>2, <1>3, <1>4, <1>5 DEF Next

\* For any number of greenlets and handlers, whoever waits for a completion
\* that has a result is due and on the list (ReactorCompletion.wait against
\* complete, from a callback or from another thread).
THEOREM ReactorWaitersAreDue == Spec => []WaiterIsDue
<1>1. PlacesInv => WaiterIsDue
  BY DEF PlacesInv
<1> QED
  BY <1>1, ReactorInit, ReactorNext, PlacesInit, PlacesNext, PTL DEF Spec

\* For any number of them, the loop never calls a timer that is not on the
\* list (unregister_timer while _check_timers goes through its copy, and the
\* waketime that a callback writes after its greenlet has lost the loop).
THEOREM ReactorUnregisteredIsQuiet == Spec => UnregisteredIsQuiet
<1>1. ReactorInv /\ PlacesInv => \A t \in Handlers : Due(t) => InSeq(t, timers)
  BY DueIsListed
<1>2. ReactorInv /\ PlacesInv => [\A t \in Handlers : Due(t) => InSeq(t, timers)]_vars
  BY <1>1
<1> QED
  BY <1>2, ReactorInit, ReactorNext, PlacesInit, PlacesNext, PTL DEF Spec, UnregisteredIsQuiet
=============================================================================
