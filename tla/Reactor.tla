------------------------------ MODULE Reactor ------------------------------
(***************************************************************************)
(* The scheduler of klippy/reactor.py (PollReactor).  One thread runs the  *)
(* callbacks of timers and file descriptors from a dispatch loop.  A       *)
(* callback may pause: its greenlet, which was running the loop, gets a    *)
(* timer of its own, and another greenlet takes the loop over from there.  *)
(* When that timer is due, the new loop switches to the paused greenlet as *)
(* it would call a callback.  Other threads hand work over through a queue *)
(* and wake the loop with a byte in a pipe.                                *)
(*                                                                         *)
(* Times are 1..MaxTime with NOW = 0 before and NEVER after all of them.   *)
(* The code between two switches of greenlets is one thread's: it is cut   *)
(* into steps only because the clock and the other threads go on.          *)
(***************************************************************************)
EXTENDS Integers, Sequences

CONSTANTS
  Greenlets,    \* the dispatch greenlets; bounds how deep callbacks pause
  Timers,       \* the handlers of register_timer
  Callbacks,    \* the one-shot handlers of register_callback
  MaxTime,      \* bound: the last instant
  MaxPosts      \* bound: calls from other threads

ASSUME ReactorAssumption ==
  /\ MaxTime \in Nat \ {0} /\ MaxPosts \in Nat /\ Greenlets # {}
  /\ Greenlets \cap Timers = {} /\ Greenlets \cap Callbacks = {}
  /\ Timers \cap Callbacks = {}
  /\ \A x \in {"fd", "complete", "none"} : x \notin Greenlets \cup Timers \cup Callbacks

VARIABLES
  now,          \* monotonic()
  eventtime,    \* the time the loop acts on
  timers,       \* _timers; a paused greenlet stands for its timer
  waketime,     \* ReactorTimer.waketime
  next_timer,   \* _next_timer
  scan,         \* what the loop of _check_timers has not looked at yet
  step,         \* where the dispatch loop is
  g_dispatch,   \* _g_dispatch
  running,      \* the greenlet whose code runs
  job,          \* whose callback each greenlet is in the middle of
  greenlets,    \* _greenlets: finished ones, kept for later use
  waiting,      \* ReactorCompletion.waiting of the one completion modelled
  complete,     \* whether it has a result
  async_queue,  \* _async_queue
  pipe,         \* whether the pipe holds a byte
  posting,      \* another thread is between put_nowait and os.write
  posts         \* how often other threads have called

clock == <<now, eventtime>>
lists == <<timers, waketime, next_timer>>
loop == <<scan, step, g_dispatch, running, job, greenlets>>
completion == <<waiting, complete>>
async == <<async_queue, pipe, posting, posts>>
vars == <<clock, lists, loop, completion, async>>

NOW == 0
NEVER == MaxTime + 1
Handlers == Timers \cup Callbacks \cup Greenlets
Steps == {"check", "scan", "call", "poll", "drain"}
MinTime(a, b) == IF a <= b THEN a ELSE b
InSeq(x, s) == \E i \in 1..Len(s) : s[i] = x

\* When a caller may ask to be woken.
Later == {NOW, NEVER} \cup (now + 1)..MaxTime

\* run(): the first greenlet enters the dispatch loop.
Init ==
  /\ now = 1 /\ eventtime = 1
  /\ timers = <<>> /\ waketime = [t \in Handlers |-> NEVER] /\ next_timer = NEVER
  /\ scan = <<>> /\ step = "check"
  /\ g_dispatch = (CHOOSE g \in Greenlets : TRUE) /\ running = g_dispatch
  /\ job = [g \in Greenlets |-> "none"] /\ greenlets = <<>>
  /\ waiting = {} /\ complete = FALSE
  /\ async_queue = <<>> /\ pipe = FALSE /\ posting = FALSE /\ posts = 0

-----------------------------------------------------------------------------
(* What a callback, or another thread's work, does to the timers. *)

\* The list without x: timers.pop(timers.index(x)).
Without(s, x) ==
  LET k == CHOOSE i \in 1..Len(s) : s[i] = x
  IN  IF InSeq(x, s)
      THEN [i \in 1..(Len(s) - 1) |-> IF i < k THEN s[i] ELSE s[i + 1]]
      ELSE s

\* A handler object that nothing refers to any more.
Fresh(t) ==
  /\ ~InSeq(t, timers) /\ ~InSeq(t, scan) /\ ~InSeq(t, async_queue)
  /\ \A g \in Greenlets : job[g] # t

RegisterTimer(t, w) ==
  /\ timers' = Append(timers, t)
  /\ waketime' = [waketime EXCEPT ![t] = w]
  /\ next_timer' = MinTime(next_timer, w)

UpdateTimer(t, w) ==
  /\ waketime' = [waketime EXCEPT ![t] = w]
  /\ next_timer' = MinTime(next_timer, w)
  /\ UNCHANGED timers

\* Mutant: unregister_timer leaves the waketime, which a loop still reads.
UnregisterListOnly(t) ==
  timers' = Without(timers, t) /\ UNCHANGED <<waketime, next_timer>>

UnregisterTimer(t) ==
  /\ waketime' = [waketime EXCEPT ![t] = NEVER]
  /\ timers' = Without(timers, t)
  /\ UNCHANGED next_timer

\* Mutant: complete() counts on the waiters to look again.
CompleteQuietly == complete' = TRUE /\ UNCHANGED <<lists, waiting>>

\* complete(): the result, and everybody who waits is due at once.
Complete ==
  /\ complete' = TRUE
  /\ waketime' = [t \in Handlers |-> IF t \in waiting THEN NOW ELSE waketime[t]]
  /\ next_timer' = IF waiting = {} THEN next_timer ELSE MinTime(next_timer, NOW)
  /\ UNCHANGED <<timers, waiting>>

-----------------------------------------------------------------------------
(* The code of a callback: any of these, any number of times. *)

Calling == IF running = g_dispatch THEN step = "call" ELSE TRUE

Register(t, w) ==
  /\ Calling /\ Fresh(t)
  /\ RegisterTimer(t, w)
  /\ UNCHANGED <<clock, loop, completion, async>>

Update(t, w) ==
  /\ Calling /\ InSeq(t, timers)
  /\ UpdateTimer(t, w)
  /\ UNCHANGED <<clock, loop, completion, async>>

Unregister(t) ==
  /\ Calling /\ InSeq(t, timers)
  /\ UnregisterTimer(t)
  /\ UNCHANGED <<clock, loop, completion, async>>

CompleteHere ==
  /\ Calling /\ ~complete
  /\ Complete
  /\ UNCHANGED <<clock, loop, async>>

\* A new completion takes the place of one that nobody waits for.
NewCompletion ==
  /\ Calling /\ complete /\ waiting = {}
  /\ complete' = FALSE
  /\ UNCHANGED <<clock, lists, loop, waiting, async>>

\* The greenlet that takes the loop over: the last finished one, or a new one.
Unused == {g \in Greenlets : g # g_dispatch /\ ~InSeq(g, timers) /\ ~InSeq(g, greenlets)}
Spare == greenlets # <<>> \/ Unused # {}
NextGreenlet ==
  IF greenlets = <<>> THEN CHOOSE g \in Unused : TRUE ELSE greenlets[Len(greenlets)]

\* A new greenlet starts with the timers.  A finished one goes on after
\* _end_greenlet: with the timers after a descriptor, else with poll().
TakeOver(g) ==
  /\ g_dispatch' = g /\ running' = g /\ scan' = <<>>
  /\ IF greenlets = <<>>
     THEN step' = "check" /\ eventtime' = now /\ UNCHANGED greenlets
     ELSE /\ greenlets' = SubSeq(greenlets, 1, Len(greenlets) - 1)
          /\ step' = IF job[g] = "fd" THEN "check" ELSE "poll"
          /\ eventtime' = IF job[g] = "fd" THEN now ELSE eventtime
  /\ job' = [job EXCEPT ![g] = "none"]

\* Mutant: the timers that the old loop had not looked at are not looked at.
PauseDispatchLater(w) ==
  /\ running = g_dispatch
  /\ timers' = Append(timers, running)
  /\ waketime' = [waketime EXCEPT ![running] = w]
  /\ next_timer' = MinTime(next_timer, w)
  /\ TakeOver(NextGreenlet)

\* pause() of the greenlet that runs the loop.
PauseDispatch(w) ==
  /\ running = g_dispatch
  /\ timers' = Append(timers, running)
  /\ waketime' = [waketime EXCEPT ![running] = w]
  /\ next_timer' = NOW
  /\ TakeOver(NextGreenlet)

\* The callback that the loop called returns w: back to _check_timers.
BackToLoop(w) ==
  /\ running' = g_dispatch /\ step' = "scan" /\ scan' = Tail(scan)
  /\ UNCHANGED <<g_dispatch, eventtime>>

\* pause() of a greenlet that the loop had switched to.
PauseAgain(w) ==
  /\ running # g_dispatch
  /\ waketime' = [waketime EXCEPT ![running] = w]
  /\ next_timer' = MinTime(next_timer, w)
  /\ BackToLoop(w)
  /\ job' = [job EXCEPT ![g_dispatch] = "none"]
  /\ UNCHANGED <<timers, greenlets>>

Pauses(w) == Calling /\ (running = g_dispatch => Spare) /\ (PauseDispatch(w) \/ PauseAgain(w))

Pause(w) == Pauses(w) /\ UNCHANGED <<now, completion, async>>

\* ReactorCompletion.wait without a result yet.
Wait(w) ==
  /\ ~complete /\ Pauses(w)
  /\ waiting' = waiting \cup {running}
  /\ UNCHANGED <<now, complete, async>>

\* The greenlet that runs the loop returns from the callback of a timer ...
Return(w) ==
  /\ Calling /\ running = g_dispatch /\ job[running] # "fd"
  /\ waketime' = [waketime EXCEPT ![job[running]] = w]
  /\ next_timer' = MinTime(next_timer, w)
  /\ BackToLoop(w)
  /\ job' = [job EXCEPT ![running] = "none"]
  /\ UNCHANGED <<now, timers, greenlets, completion, async>>

\* ... or of a descriptor; one event for each poll().
ReturnFd ==
  /\ Calling /\ running = g_dispatch /\ job[running] = "fd"
  /\ step' = "check"
  /\ job' = [job EXCEPT ![running] = "none"]
  /\ UNCHANGED <<clock, lists, scan, g_dispatch, running, greenlets, completion, async>>

\* A greenlet that had paused returns from its callback: its loop has been
\* taken over, so it ends there (_end_greenlet) and its scan is given up.
ReturnLate(w) ==
  /\ Calling /\ running # g_dispatch
  /\ waketime' = IF job[running] = "fd"
                 THEN [waketime EXCEPT ![running] = NEVER]
                 ELSE [waketime EXCEPT ![job[running]] = w, ![running] = NEVER]
  /\ next_timer' = IF job[running] = "fd" THEN next_timer ELSE MinTime(next_timer, w)
  /\ timers' = Without(timers, running)
  /\ greenlets' = Append(greenlets, running)
  /\ BackToLoop(NEVER)
  /\ job' = [job EXCEPT ![g_dispatch] = "none",
                        ![running] = IF @ = "fd" THEN "fd" ELSE "none"]
  /\ UNCHANGED <<now, completion, async>>

\* What a callback may return: invoke() of a one-shot returns NEVER.
Returned == IF job[running] \in Timers THEN Later ELSE {NEVER}

\* The greenlets whose timers are moved are those a mutex hands itself to, and
\* they pause until NEVER.
CallbackStep ==
  \/ \E t \in Timers : \E w \in Later : Register(t, w) \/ Update(t, w)
  \/ \E t \in Callbacks : Register(t, NOW)
  \/ \E t \in Timers : Unregister(t)
  \/ \E g \in Greenlets \ {running} : waketime[g] = NEVER /\ Update(g, NOW)
  \/ CompleteHere \/ NewCompletion
  \/ \E w \in Later : Pause(w) \/ Wait(w)

CallbackEnds == ReturnFd \/ \E w \in Returned : Return(w) \/ ReturnLate(w)

-----------------------------------------------------------------------------
(* The dispatch loop. *)

\* _check_timers: nothing is due, or look at every timer there is now.
Check ==
  /\ step = "check"
  /\ IF eventtime < next_timer
     THEN step' = "poll" /\ UNCHANGED <<scan, next_timer>>
     ELSE step' = "scan" /\ scan' = timers /\ next_timer' = NEVER
  /\ UNCHANGED <<clock, timers, waketime, g_dispatch, running, job, greenlets, completion, async>>

\* Mutant: a timer is due only after its time.
IsDueLate(t) == waketime[t] < eventtime

IsDue(t) == waketime[t] <= eventtime

NotDue ==
  /\ step = "scan" /\ scan # <<>> /\ ~IsDue(Head(scan))
  /\ next_timer' = MinTime(next_timer, waketime[Head(scan)])
  /\ scan' = Tail(scan)
  /\ UNCHANGED <<clock, timers, waketime, step, g_dispatch, running, job, greenlets, completion, async>>

\* Call the callback of a timer that is due: invoke() of a one-shot takes
\* itself off the list, a paused greenlet goes on after its pause().
Due(t) ==
  /\ step = "scan" /\ scan # <<>> /\ t = Head(scan) /\ IsDue(t)
  /\ waketime' = [waketime EXCEPT ![t] = NEVER]
  /\ timers' = IF t \in Callbacks THEN Without(timers, t) ELSE timers
  /\ step' = "call" /\ job' = [job EXCEPT ![g_dispatch] = t]
  /\ running' = IF t \in Greenlets THEN t ELSE running
  /\ waiting' = waiting \ {t}
  /\ UNCHANGED <<clock, next_timer, scan, g_dispatch, greenlets, complete, async>>

ScanEnds ==
  /\ step = "scan" /\ scan = <<>>
  /\ step' = "poll"
  /\ UNCHANGED <<clock, lists, scan, g_dispatch, running, job, greenlets, completion, async>>

\* poll() returns without an event: its timeout is a second at most.
PollEmpty ==
  /\ step = "poll" /\ ~pipe
  /\ step' = "check" /\ eventtime' = now
  /\ UNCHANGED <<now, lists, scan, g_dispatch, running, job, greenlets, completion, async>>

\* poll() returns a descriptor, whose callback is called.  Only one of them may
\* pause (GCodeIO._process_data), and does so once at a time; the others do
\* nothing that the callback of a timer cannot do.
PollFd ==
  /\ step = "poll"
  /\ \A g \in Greenlets : job[g] = "fd" => InSeq(g, greenlets)
  /\ step' = "call" /\ eventtime' = now
  /\ job' = [job EXCEPT ![g_dispatch] = "fd"]
  /\ UNCHANGED <<now, lists, scan, g_dispatch, running, greenlets, completion, async>>

\* _got_pipe_signal: empty the pipe, then run what is in the queue.
PollPipe ==
  /\ step = "poll" /\ pipe
  /\ step' = "drain" /\ eventtime' = now /\ pipe' = FALSE
  /\ UNCHANGED <<now, lists, scan, g_dispatch, running, job, greenlets, completion,
                 async_queue, posting, posts>>

Drain ==
  /\ step = "drain" /\ async_queue # <<>>
  /\ async_queue' = Tail(async_queue)
  /\ IF Head(async_queue) = "complete"
     THEN Complete
     ELSE RegisterTimer(Head(async_queue), NOW) /\ UNCHANGED completion
  /\ UNCHANGED <<clock, loop, pipe, posting, posts>>

Drained ==
  /\ step = "drain" /\ async_queue = <<>>
  /\ step' = "check"
  /\ UNCHANGED <<clock, lists, scan, g_dispatch, running, job, greenlets, completion, async>>

-----------------------------------------------------------------------------
(* The other threads and the clock. *)

\* Mutant: the byte comes before what it announces.
PostPutAfterByte(item) ==
  /\ item = "complete" \/ Fresh(item)
  /\ \/ /\ ~posting /\ posts < MaxPosts
        /\ pipe' = TRUE /\ posting' = TRUE /\ posts' = posts + 1
        /\ UNCHANGED async_queue
     \/ /\ posting
        /\ async_queue' = Append(async_queue, item) /\ posting' = FALSE
        /\ UNCHANGED <<pipe, posts>>
  /\ UNCHANGED <<clock, lists, loop, completion>>

\* register_async_callback and async_complete: first the queue ...
PostPut(item) ==
  /\ ~posting /\ posts < MaxPosts
  /\ item = "complete" \/ Fresh(item)
  /\ async_queue' = Append(async_queue, item)
  /\ posting' = TRUE /\ posts' = posts + 1
  /\ UNCHANGED <<clock, lists, loop, completion, pipe>>

\* ... then the byte in the pipe.
PostWrite ==
  /\ posting
  /\ posting' = FALSE /\ pipe' = TRUE
  /\ UNCHANGED <<clock, lists, loop, completion, async_queue, posts>>

Tick ==
  /\ now < MaxTime
  /\ now' = now + 1
  /\ UNCHANGED <<eventtime, lists, loop, completion, async>>

LoopStep == \/ Check \/ NotDue \/ ScanEnds \/ PollEmpty \/ PollPipe \/ Drain \/ Drained
            \/ \E t \in Handlers : Due(t)

Next ==
  \/ LoopStep \/ PollFd \/ CallbackStep \/ CallbackEnds
  \/ \E item \in Callbacks \cup {"complete"} : PostPut(item)
  \/ PostWrite \/ Tick

Spec == Init /\ [][Next]_vars

\* The loop goes on, callbacks return or pause, a thread that has put
\* something into the queue writes to the pipe, and time passes.  The pipe has
\* its turn among the descriptors: poll() returns it with the others, and a
\* callback of another one that pauses, and drops it, does not come every time.
FairSpec ==
  /\ Spec
  /\ WF_vars(LoopStep) /\ WF_vars(CallbackEnds) /\ WF_vars(PostWrite) /\ WF_vars(Tick)
  /\ SF_vars(PollPipe)

-----------------------------------------------------------------------------
TypeOK ==
  /\ now \in 1..MaxTime /\ eventtime \in 1..MaxTime
  /\ timers \in Seq(Handlers) /\ waketime \in [Handlers -> 0..NEVER] /\ next_timer \in 0..NEVER
  /\ scan \in Seq(Handlers) /\ step \in Steps
  /\ g_dispatch \in Greenlets /\ running \in Greenlets
  /\ job \in [Greenlets -> Handlers \cup {"fd", "none"}] /\ greenlets \in Seq(Greenlets)
  /\ waiting \subseteq Greenlets /\ complete \in BOOLEAN
  /\ async_queue \in Seq(Callbacks \cup {"complete"})
  /\ pipe \in BOOLEAN /\ posting \in BOOLEAN /\ posts \in 0..MaxPosts

\* No timer is forgotten: whatever callbacks do and whenever they pause, the
\* loop wakes for the earliest timer, or has not come to it yet in this scan.
NoTimerForgotten ==
  \A i \in 1..Len(timers) :
    next_timer <= waketime[timers[i]] \/ InSeq(timers[i], scan)

\* A timer that was taken off the list is not run any more, also when a loop
\* that is under way still has it in its copy of the list.
UnregisteredIsQuiet ==
  [][\A t \in Handlers : Due(t) => InSeq(t, timers)]_vars

\* A timer that is due is run, moved or taken off: a callback that pauses, or
\* moves timers, or is moved itself, cannot keep the loop from the others.
DueIsRun ==
  \A t \in Handlers :
    InSeq(t, timers) /\ waketime[t] <= now ~> ~InSeq(t, timers) \/ waketime[t] > now

\* Whoever waits for a completion that has a result is due (and so goes on, by
\* DueIsRun), also when the result comes while the wait itself is ending.
WaiterIsDue ==
  complete => \A g \in waiting : waketime[g] = NOW /\ InSeq(g, timers)

\* What another thread puts into the queue is taken out, also when it comes
\* while the loop is emptying the queue.
PostIsSeen == async_queue # <<>> ~> async_queue = <<>>
=============================================================================
