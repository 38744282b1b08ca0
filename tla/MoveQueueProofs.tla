-------------------------- MODULE MoveQueueProofs --------------------------
(* Proofs about MoveQueue: every move starts in time, for all delays.        *)
EXTENDS MoveQueue, TLAPS

-----------------------------------------------------------------------------
(* The invariant: what has been sent has been generated; and in the main      *)
(* state the next move starts late enough without looking.                    *)

InTime(s) == s.min_restart + KinDelay <= s.print_time

Kept(s) ==
  /\ s \in Head
  /\ ~s.late
  /\ s.last_flush <= s.min_restart
  /\ s.special = "main" => InTime(s)

HeadInv == Kept(th) /\ until \in Int /\ (at = "before drip" => until \in Nat)

\* The delays are natural numbers.
LEMMA Delays ==
  /\ KinDelay \in Nat /\ StepFlush \in Nat /\ MinKin \in Nat /\ Start \in Nat /\ Low \in Nat
  /\ High \in Nat /\ FlushLow \in Nat /\ FlushBatch \in Nat /\ FlushExtra \in Nat
  /\ DripTime \in Nat /\ Short \in Nat /\ Second \in Nat /\ Past \in Nat
  /\ \A t \in Moves : t \in Nat
  /\ \A t \in Dwells : t \in Int
BY MoveQueueAssumption

\* The two times that are no times.
LEMMA NoTimes == NEVER \in Int /\ BEFORE \in Int
BY DEF NEVER, BEFORE

\* Larger and Smaller choose one of two times.
LEMMA Choose ==
  ASSUME NEW a \in Int, NEW b \in Int
  PROVE  /\ Larger(a, b) \in Int /\ a <= Larger(a, b) /\ b <= Larger(a, b)
         /\ Larger(a, b) \in {a, b}
         /\ Smaller(a, b) \in Int /\ Smaller(a, b) <= a /\ Smaller(a, b) <= b
         /\ Smaller(a, b) \in {a, b}
BY DEF Larger, Smaller

\* _advance_flush_time generates at least what it sends, and, when it sends what
\* lies before the end of the time line, does not come nearer to it than kin_flush_delay.
LEMMA AdvanceFlushKeeps ==
  ASSUME NEW s \in Head, NEW t \in Int, s.last_flush <= s.min_restart
  PROVE  LET r == AdvanceFlush(s, t)
         IN  /\ r \in Head
             /\ r.late = s.late /\ r.special = s.special /\ r.print_time = s.print_time
             /\ r.last_flush <= r.min_restart
             /\ InTime(s) /\ t + KinDelay <= s.print_time => InTime(r)
<1> DEFINE flush == Larger(t, s.last_flush)
           want == Smaller(flush + StepFlush, s.print_time - KinDelay)
           steps == Larger(want, flush)
           most == Larger(s.min_restart, steps)
<1>1. /\ s.last_flush \in Int /\ s.min_restart \in Int /\ s.print_time \in Int
      /\ KinDelay \in Int /\ StepFlush \in Int
  BY Delays DEF Head
<1>2. /\ flush \in Int /\ flush \in {t, s.last_flush}
      /\ flush + StepFlush \in Int /\ s.print_time - KinDelay \in Int
  <2>1. flush \in Int /\ flush \in {t, s.last_flush}
    BY <1>1, Choose
  <2> QED
    BY <1>1, <2>1
<1>3. want \in Int /\ want <= s.print_time - KinDelay
  BY <1>2, Choose
<1>4. steps \in Int /\ flush <= steps /\ steps \in {want, flush}
  BY <1>2, <1>3, Choose
<1>5. most \in Int /\ steps <= most /\ most \in {s.min_restart, steps}
  BY <1>1, <1>4, Choose
<1>6. flush <= most
  BY <1>2, <1>4, <1>5
<1>7. InTime(s) /\ t + KinDelay <= s.print_time => most + KinDelay <= s.print_time
  BY <1>1, <1>2, <1>3, <1>4, <1>5 DEF InTime
<1> HIDE DEF flush, want, steps, most
<1>8. AdvanceFlush(s, t) = [s EXCEPT !.last_flush = flush, !.min_restart = most]
  BY DEF AdvanceFlush, flush, want, steps, most
<1>9. /\ AdvanceFlush(s, t) \in Head
      /\ AdvanceFlush(s, t).last_flush = flush /\ AdvanceFlush(s, t).min_restart = most
      /\ AdvanceFlush(s, t).late = s.late /\ AdvanceFlush(s, t).special = s.special
      /\ AdvanceFlush(s, t).print_time = s.print_time
  BY <1>2, <1>5, <1>8 DEF Head
<1> QED
  BY <1>6, <1>7, <1>9 DEF InTime

\* _advance_move_time in a queue whose time line is ahead of the steps.
LEMMA AdvanceMoveKeeps ==
  ASSUME NEW s \in Head, NEW t \in Int, s.last_flush <= s.min_restart
  PROVE  LET r == AdvanceMove(s, t)
         IN  /\ r \in Head
             /\ r.late = s.late /\ r.special = s.special
             /\ r.last_flush <= r.min_restart
             /\ InTime(s) => InTime(r)
<1> DEFINE delay == KinDelay + StepFlush
           end == Larger(s.print_time, t)
           longer == [s EXCEPT !.print_time = end]
           from == Larger(s.last_flush, s.print_time - delay)
           upto == Larger(from, end - delay)
<1>1. /\ s.last_flush \in Int /\ s.min_restart \in Int /\ s.print_time \in Int
      /\ KinDelay \in Nat /\ StepFlush \in Nat /\ delay \in Nat
      /\ s.print_time - delay \in Int
  BY Delays DEF Head
<1>2. end \in Int /\ s.print_time <= end
  BY <1>1, Choose
<1>3. from \in Int /\ from \in {s.last_flush, s.print_time - delay}
  BY <1>1, Choose
<1>4. upto \in Int /\ upto \in {from, end - delay}
  <2>1. end - delay \in Int
    BY <1>1, <1>2
  <2> QED
    BY <1>3, <2>1, Choose
<1>5. InTime(s) => upto + KinDelay <= end
  BY <1>1, <1>2, <1>3, <1>4 DEF InTime
<1> HIDE DEF end, from, upto
<1>6. /\ longer \in Head /\ longer.print_time = end
      /\ longer.late = s.late /\ longer.special = s.special
      /\ longer.last_flush = s.last_flush /\ longer.min_restart = s.min_restart
  BY <1>2 DEF Head
<1>7. InTime(s) => InTime(longer)
  BY <1>1, <1>2, <1>6 DEF InTime
<1>8. AdvanceMove(s, t) = AdvanceFlush(longer, upto)
  BY DEF AdvanceMove, end, from, upto
<1> HIDE DEF longer
<1> QED
  BY <1>4, <1>5, <1>6, <1>7, <1>8, AdvanceFlushKeeps

\* _calc_print_time moves the time line behind what has been generated.
LEMMA CalcKeeps ==
  ASSUME NEW s \in Head, s.last_flush <= s.min_restart
  PROVE  LET r == Calc(s)
         IN  /\ r \in Head
             /\ r.late = s.late /\ r.special = s.special
             /\ r.last_flush <= r.min_restart
             /\ InTime(r)
<1> DEFINE base == Larger(MinKin, s.min_restart)
           least == Larger(Start, base + KinDelay)
           sync == IF s.sync = NEVER THEN least ELSE s.sync
<1>1. /\ s.min_restart \in Int /\ s.print_time \in Int /\ s.sync \in Int
      /\ KinDelay \in Nat /\ Start \in Int /\ MinKin \in Int
  BY Delays DEF Head
<1>2. base \in Int /\ s.min_restart <= base
  BY <1>1, Choose
<1>3. least \in Int /\ s.min_restart + KinDelay <= least
  <2>1. base + KinDelay \in Int
    BY <1>1, <1>2
  <2>2. least \in Int /\ base + KinDelay <= least
    BY <1>1, <2>1, Choose
  <2> QED
    BY <1>1, <1>2, <2>1, <2>2
<1>4. sync \in Int
  BY <1>1, <1>3
<1> HIDE DEF least, sync
<1>5. Calc(s) = IF least > s.print_time
                THEN [s EXCEPT !.print_time = least, !.sync = sync] ELSE s
  BY DEF Calc, least, sync
<1>6. CASE least > s.print_time
  <2>1. Calc(s) = [s EXCEPT !.print_time = least, !.sync = sync]
    BY <1>5, <1>6
  <2> QED
    BY <1>3, <1>4, <2>1 DEF Head, InTime
<1>7. CASE ~(least > s.print_time)
  BY <1>1, <1>3, <1>5, <1>7 DEF InTime
<1> QED
  BY <1>6, <1>7

\* note_mcu_movequeue_activity changes other times only.
LEMMA NoteKeeps ==
  ASSUME NEW s \in Head, NEW t \in Int
  PROVE  LET r == Note(s, t)
         IN  /\ r \in Head
             /\ r.late = s.late /\ r.special = s.special /\ r.print_time = s.print_time
             /\ r.last_flush = s.last_flush /\ r.min_restart = s.min_restart
<1> DEFINE need == Larger(s.need_flush, t)
           gen == Larger(s.step_gen, t)
           timer == IF s.kick THEN At(0) ELSE s.flush_timer
<1>1. need \in Int /\ gen \in Int /\ timer \in SUBSET Int
  <2>1. s.need_flush \in Int /\ s.step_gen \in Int /\ timer \in SUBSET Int
    BY DEF Head, At
  <2>2. need \in Int
    BY <2>1, Choose
  <2>3. gen \in Int
    BY <2>1, Choose
  <2> QED
    BY <2>1, <2>2, <2>3
<1> HIDE DEF need, gen, timer
<1>2. Note(s, t) = [s EXCEPT !.need_flush = need, !.step_gen = gen, !.kick = FALSE,
                             !.flush_timer = timer]
  BY DEF Note, need, gen, timer
<1> QED
  BY <1>1, <1>2 DEF Head

\* Whatever the state, a move that is put on the time line comes after the steps.
LEMMA ProcessKeeps ==
  ASSUME NEW s, Kept(s), NEW t \in Int
  PROVE  Kept(Process(s, t)) /\ InTime(Process(s, t))
<1> DEFINE main == [s EXCEPT !.special = "main", !.need_check_pause = BEFORE]
           r == Resync(s)
           b == Begins(r)
           end == b.print_time + t
           n == Note(b, end + KinDelay)
<1>1. s \in Head /\ ~s.late /\ s.last_flush <= s.min_restart
  BY DEF Kept
<1>2. /\ main \in Head /\ main.late = s.late /\ main.last_flush = s.last_flush
      /\ main.min_restart = s.min_restart
  BY <1>1, NoTimes DEF Head
<1> HIDE DEF main
<1>3. r \in Head /\ ~r.late /\ r.last_flush <= r.min_restart /\ InTime(r)
  <2>1. r = CASE s.special = "main" -> s
              [] s.special = "Drip" -> Calc(s)
              [] OTHER -> Calc(main)
    BY DEF Resync, main
  <2>2. CASE s.special = "main"
    BY <1>1, <2>1, <2>2 DEF Kept
  <2>3. CASE s.special = "Drip"
    BY <1>1, <2>1, <2>3, CalcKeeps
  <2>4. CASE s.special \notin {"main", "Drip"}
    <3>1. r = Calc(main)
      BY <2>1, <2>4
    <3> QED
      BY <1>1, <1>2, <3>1, CalcKeeps
  <2> QED
    BY <2>2, <2>3, <2>4
<1> HIDE DEF r
<1>4. b = [r EXCEPT !.late = r.late \/ r.print_time < r.min_restart + KinDelay]
  BY DEF Begins
<1>5. ~(r.print_time < r.min_restart + KinDelay)
  <2>1. r.print_time \in Int /\ r.min_restart \in Int /\ KinDelay \in Int
    BY <1>3, Delays DEF Head
  <2> QED
    BY <1>3, <2>1 DEF InTime
<1>6. /\ b \in Head /\ ~b.late /\ b.print_time = r.print_time
      /\ b.last_flush = r.last_flush /\ b.min_restart = r.min_restart
  BY <1>3, <1>4, <1>5 DEF Head
<1> HIDE DEF b
<1>7. end \in Int /\ end + KinDelay \in Int
  <2>1. b.print_time \in Int
    BY <1>6 DEF Head
  <2> QED
    BY <2>1, Delays
<1> HIDE DEF end
<1>8. /\ n \in Head /\ ~n.late /\ n.last_flush <= n.min_restart /\ InTime(n)
  BY <1>3, <1>6, <1>7, NoteKeeps DEF InTime
<1> HIDE DEF n
<1>9. /\ AdvanceMove(n, end) \in Head /\ ~AdvanceMove(n, end).late
      /\ AdvanceMove(n, end).last_flush <= AdvanceMove(n, end).min_restart
      /\ InTime(AdvanceMove(n, end))
  BY <1>7, <1>8, AdvanceMoveKeeps
<1>10. Process(s, t) = AdvanceMove(n, end)
  BY DEF Process, n, end, b, r
<1> QED
  BY <1>9, <1>10 DEF Kept

\* LookAheadQueue.flush and _flush_lookahead.
LEMMA FlushKeeps ==
  ASSUME NEW s, Kept(s)
  PROVE  /\ Kept(FlushQueue(s))
         /\ Kept(FlushLookahead(s)) /\ FlushLookahead(s).special = "NeedPrime"
<1> DEFINE empty == [s EXCEPT !.queue = 0]
           f == FlushQueue(s)
<1>1. Kept(f)
  <2>1. Kept(empty) /\ s.queue \in Int
    BY DEF Kept, Head, InTime
  <2>2. f = IF s.queue = 0 THEN s ELSE Process(empty, s.queue)
    BY DEF FlushQueue
  <2> HIDE DEF empty, f
  <2> QED
    BY <2>1, <2>2, ProcessKeeps
<1> HIDE DEF f
<1>2. FlushLookahead(s) = [f EXCEPT !.special = "NeedPrime", !.need_check_pause = BEFORE]
  BY DEF FlushLookahead, f
<1>3. /\ FlushLookahead(s) \in Head /\ FlushLookahead(s).special = "NeedPrime"
      /\ ~FlushLookahead(s).late
      /\ FlushLookahead(s).last_flush <= FlushLookahead(s).min_restart
  BY <1>1, <1>2, NoTimes DEF Kept, Head
<1> QED
  BY <1>1, <1>3 DEF Kept, f

\* flush_step_generation.
LEMMA FlushStepsKeeps ==
  ASSUME NEW s, Kept(s)
  PROVE  Kept(FlushSteps(s))
<1> DEFINE r == FlushLookahead(s)
           f == AdvanceFlush(r, r.step_gen)
           most == Larger(f.min_restart, f.print_time)
<1>1. Kept(r) /\ r.special = "NeedPrime" /\ r \in Head /\ r.step_gen \in Int
  <2>1. Kept(r) /\ r.special = "NeedPrime"
    BY FlushKeeps
  <2> QED
    BY <2>1 DEF Kept, Head
<1> HIDE DEF r
<1>2. f \in Head /\ ~f.late /\ f.special = "NeedPrime" /\ f.last_flush <= f.min_restart
  <2>1. r.last_flush <= r.min_restart /\ ~r.late
    BY <1>1 DEF Kept
  <2> QED
    BY <1>1, <2>1, AdvanceFlushKeeps
<1> HIDE DEF f
<1>3. most \in Int /\ f.min_restart <= most /\ f.min_restart \in Int /\ f.last_flush \in Int
  <2>1. f.min_restart \in Int /\ f.last_flush \in Int /\ f.print_time \in Int
    BY <1>2 DEF Head
  <2> QED
    BY <2>1, Choose
<1> HIDE DEF most
<1>4. FlushSteps(s) = [f EXCEPT !.min_restart = most]
  BY DEF FlushSteps, most, f, r
<1> QED
  BY <1>2, <1>3, <1>4 DEF Kept, Head

\* get_last_move_time.
LEMMA LastMoveKeeps ==
  ASSUME NEW s, Kept(s)
  PROVE  Kept(LastMove(s))
<1>1. CASE s.special = "main"
  BY <1>1, FlushKeeps DEF LastMove
<1>2. CASE s.special # "main"
  <2>1. Kept(FlushLookahead(s))
    BY FlushKeeps
  <2>2. Kept(Calc(FlushLookahead(s)))
    <3> DEFINE r == FlushLookahead(s)
    <3>1. r \in Head /\ ~r.late /\ r.last_flush <= r.min_restart
      BY <2>1 DEF Kept
    <3> HIDE DEF r
    <3>2. Kept(Calc(r))
      BY <3>1, CalcKeeps DEF Kept
    <3> QED
      BY <3>2 DEF r
  <2> QED
    BY <1>2, <2>2 DEF LastMove
<1> QED
  BY <1>1, <1>2

\* _check_pause, its two parts.
LEMMA CheckPauseKeeps ==
  ASSUME NEW s, Kept(s)
  PROVE  Kept(CheckPauseStarts(s)) /\ Kept(CheckPauseEnds(s))
<1>1. Kept(CheckPauseStarts(s))
  <2> DEFINE timer == Larger(Short, s.print_time - Low)
  <2>1. At(timer) \in SUBSET Int
    <3>1. s.print_time \in Int /\ Short \in Int /\ Low \in Int
      BY Delays DEF Kept, Head
    <3>2. s.print_time - Low \in Int
      BY <3>1
    <3>3. timer \in Int
      BY <3>1, <3>2, Choose
    <3> QED
      BY <3>3 DEF At
  <2> HIDE DEF timer
  <2>2. CheckPauseStarts(s) =
          IF s.special = "main" THEN s
          ELSE [s EXCEPT !.special = "Priming", !.need_check_pause = BEFORE,
                         !.priming_timer = At(timer)]
    BY DEF CheckPauseStarts, timer
  <2> QED
    BY <2>1, <2>2, NoTimes DEF Kept, Head
<1>2. Kept(CheckPauseEnds(s))
  <2>1. High + Short \in Int /\ NEVER \in Int
    BY Delays, NoTimes
  <2> QED
    BY <2>1 DEF CheckPauseEnds, Kept, Head, InTime
<1> QED
  BY <1>1, <1>2

\* dwell.
LEMMA DwellingKeeps ==
  ASSUME NEW s, Kept(s), NEW t \in Int
  PROVE  Kept(Dwelling(s, t))
<1> DEFINE r == LastMove(s)
           a == AdvanceMove(r, r.print_time + t)
<1>1. Kept(r)
  BY LastMoveKeeps
<1>2. r \in Head /\ r.print_time + t \in Int
  <2>1. r \in Head
    BY <1>1 DEF Kept
  <2>2. r.print_time \in Int
    BY <2>1 DEF Head
  <2> QED
    BY <2>1, <2>2
<1> HIDE DEF r
<1>3. Kept(a)
  BY <1>1, <1>2, AdvanceMoveKeeps DEF Kept
<1> HIDE DEF a
<1>4. Dwelling(s, t) = CheckPauseStarts(a)
  BY DEF Dwelling, a, r
<1> QED
  BY <1>3, <1>4, CheckPauseKeeps

\* Where a step leaves the tool head.
LEMMA LeavesKeeps ==
  ASSUME NEW s, Kept(s), Leaves(s)
  PROVE  Kept(th')
BY NoTimes DEF Leaves, Kept, Head, InTime

\* The parts of drip_move.
LEMMA DripBeginsKeeps ==
  ASSUME NEW s, Kept(s)
  PROVE  Kept(DripBegins(s))
<1> DEFINE f == FlushQueue(s)
<1>1. Kept(f)
  BY FlushKeeps
<1> HIDE DEF f
<1>2. DripBegins(s) = [f EXCEPT !.special = "Drip", !.need_check_pause = NEVER,
                                !.flush_timer = Off, !.kick = FALSE]
  BY DEF DripBegins, f
<1> QED
  BY <1>1, <1>2, NoTimes DEF Kept, Head, Off

LEMMA DripEndsKeeps ==
  ASSUME NEW s, Kept(s)
  PROVE  Kept(DripEnds(s))
<1> DEFINE now == At(0)
           r == [s EXCEPT !.flush_timer = now, !.queue = 0]
<1>1. now \in SUBSET Int
  BY DEF At
<1>2. DripEnds(s) = FlushSteps(r)
  BY DEF DripEnds
<1> HIDE DEF now
<1>3. s \in Head
  BY DEF Kept
<1>4. /\ r \in Head /\ r.late = s.late /\ r.special = s.special
      /\ r.print_time = s.print_time
      /\ r.last_flush = s.last_flush /\ r.min_restart = s.min_restart
  BY <1>1, <1>3 DEF Head
<1> HIDE DEF r
<1>5. Kept(r)
  BY <1>4 DEF Kept, InTime
<1> QED
  BY <1>2, <1>5, FlushStepsKeeps

LEMMA DripLoopKeeps ==
  ASSUME NEW s, Kept(s), NEW end \in Int
  PROVE  Kept(DripLoop(s, end))
<1> DEFINE next == IF s.can_pause THEN Smaller(end, DripAhead + 1) ELSE end
           n == Note(s, next + KinDelay)
<1>1. next \in Int /\ next + KinDelay \in Int
  <2>1. DripAhead + 1 \in Int
    BY Delays DEF DripAhead
  <2>2. next \in Int
    BY <2>1, Choose
  <2> QED
    BY <2>2, Delays
<1> HIDE DEF next
<1>2. s \in Head /\ ~s.late /\ s.last_flush <= s.min_restart
  BY DEF Kept
<1>3. /\ n \in Head /\ ~n.late /\ n.special = s.special /\ n.last_flush <= n.min_restart
      /\ InTime(s) => InTime(n)
  BY <1>1, <1>2, NoteKeeps DEF InTime
<1> HIDE DEF n
<1>4. Kept(AdvanceMove(n, next))
  BY <1>1, <1>3, AdvanceMoveKeeps DEF Kept
<1>5. DripLoop(s, end) = IF DripWaits(s) THEN s ELSE AdvanceMove(n, next)
  BY DEF DripLoop, n, next
<1> QED
  BY <1>4, <1>5

LEMMA DripGoesOnKeeps ==
  ASSUME NEW s, Kept(s), NEW end \in Int, DripGoesOn(s, end)
  PROVE  HeadInv'
<1> DEFINE d == DripLoop(s, end)
<1>1. Kept(d) /\ Kept(DripEnds(d))
  BY DripLoopKeeps, DripEndsKeeps
<1>2. \/ Leaves(d) /\ at' = "dripping" /\ until' = end
      \/ Leaves(DripEnds(d)) /\ at' = "idle" /\ until' = NEVER
  BY DEF DripGoesOn
<1> HIDE DEF d
<1> QED
  BY <1>1, <1>2, LeavesKeeps, NoTimes DEF HeadInv

LEMMA DripFromKeeps ==
  ASSUME NEW s, Kept(s), NEW t \in Nat, DripFrom(s, t)
  PROVE  HeadInv'
<1> DEFINE d == DripBegins(s)
           q == [d EXCEPT !.queue = t]
           c == Calc(q)
           r == Begins(Resync(q))
<1>1. Kept(d) /\ d.special = "Drip"
  BY DripBeginsKeeps DEF DripBegins, FlushQueue, Kept, Head
<1>2. Kept(DripEnds(d))
  BY <1>1, DripEndsKeeps
<1> HIDE DEF d
<1>3. /\ q \in Head /\ ~q.late /\ q.special = "Drip" /\ q.last_flush <= q.min_restart
  BY <1>1 DEF Kept, Head
<1> HIDE DEF q
<1>4. /\ c \in Head /\ ~c.late /\ c.special = "Drip" /\ c.last_flush <= c.min_restart
      /\ InTime(c)
  BY <1>3, CalcKeeps
<1>5. Resync(q) = c
  BY <1>3 DEF Resync
<1> HIDE DEF c
<1>6. r = [c EXCEPT !.late = c.late \/ c.print_time < c.min_restart + KinDelay]
  BY <1>5 DEF Begins
<1>7. ~(c.print_time < c.min_restart + KinDelay)
  <2>1. c.print_time \in Int /\ c.min_restart \in Int /\ KinDelay \in Int
    BY <1>4, Delays DEF Head
  <2> QED
    BY <1>4, <2>1 DEF InTime
<1>8. Kept(r) /\ r.print_time \in Int
  BY <1>4, <1>6, <1>7 DEF Kept, Head, InTime
<1> HIDE DEF r
<1>9. \/ Leaves(DripEnds(d)) /\ at' = "idle" /\ until' = NEVER
      \/ DripGoesOn(r, r.print_time + t)
  BY DEF DripFrom, r, q, d
<1>10. r.print_time + t \in Int
  BY <1>8
<1> QED
  BY <1>2, <1>8, <1>9, <1>10, LeavesKeeps, DripGoesOnKeeps, NoTimes DEF HeadInv

\* The steps of commands.
LEMMA LooksAtKeeps ==
  ASSUME NEW s, Kept(s), LooksAt(s)
  PROVE  HeadInv'
<1>1. Kept(LastMove(s)) /\ Second \in Int
  BY LastMoveKeeps, Delays
<1>2. Kept(th')
  BY <1>1, LeavesKeeps DEF LooksAt
<1> QED
  BY <1>1, <1>2 DEF LooksAt, HeadInv

LEMMA HoldingKeeps ==
  ASSUME NEW s, Kept(s), Leaves(s), at' = "holding", until' = Short
  PROVE  HeadInv'
<1>1. Kept(th') /\ Short \in Int
  BY LeavesKeeps, Delays
<1> QED
  BY <1>1 DEF HeadInv

LEMMA LeavesInCheckPauseKeeps ==
  ASSUME NEW s, Kept(s), NEW place, LeavesInCheckPause(s, place)
  PROVE  Kept(th')
BY CheckPauseKeeps, LeavesKeeps DEF LeavesInCheckPause

LEMMA MoveKeeps ==
  ASSUME HeadInv, NEW t \in Moves, Move(t)
  PROVE  HeadInv'
<1>1. PICK part \in 0..th.queue :
        LET kept == th.queue + t - part
            s == IF part = 0 THEN [th EXCEPT !.queue = kept]
                 ELSE Process([th EXCEPT !.queue = kept], part)
        IN  IF s.print_time > s.need_check_pause
            THEN LeavesInCheckPause(CheckPauseStarts(s), "pausing")
            ELSE Leaves(s) /\ at' = "idle"
  BY DEF Move
<1> DEFINE kept == th.queue + t - part
           queued == [th EXCEPT !.queue = kept]
           s == IF part = 0 THEN queued ELSE Process(queued, part)
<1>2. kept \in Nat /\ part \in Int
  <2>1. th.queue \in Nat /\ t \in Nat
    BY MoveQueueAssumption DEF HeadInv, Kept, Head
  <2> QED
    BY <2>1
<1> HIDE DEF kept
<1>3. Kept(queued)
  BY <1>2 DEF HeadInv, Kept, Head, InTime
<1> HIDE DEF queued
<1>4. Kept(s)
  BY <1>2, <1>3, ProcessKeeps
<1> HIDE DEF s
<1>5. IF s.print_time > s.need_check_pause
      THEN LeavesInCheckPause(CheckPauseStarts(s), "pausing")
      ELSE Leaves(s) /\ at' = "idle"
  BY <1>1 DEF s, queued, kept
<1>6. Kept(th')
  BY <1>4, <1>5, CheckPauseKeeps, LeavesKeeps, LeavesInCheckPauseKeeps
<1>7. until' = until /\ at' # "before drip"
  BY <1>5 DEF Move, LeavesInCheckPause
<1> QED
  BY <1>6, <1>7 DEF HeadInv

LEMMA DripMoveKeeps ==
  ASSUME HeadInv, NEW t \in Moves, DripMove(t)
  PROVE  HeadInv'
<1> DEFINE s == Dwelling(th, KinDelay)
<1>1. KinDelay \in Int /\ t \in Nat
  BY Delays
<1>2. Kept(th)
  BY DEF HeadInv
<1>3. Kept(s)
  BY <1>1, <1>2, DwellingKeeps
<1>4. \/ Leaves(s) /\ until' = t
      \/ DripFrom(CheckPauseEnds(s), t)
  BY DEF DripMove
<1> HIDE DEF s
<1>5. CASE Leaves(s) /\ until' = t
  <2>1. Kept(th')
    BY <1>3, <1>5, LeavesKeeps
  <2>2. until' \in Nat
    BY <1>1, <1>5
  <2>3. until' \in Int
    BY <2>2
  <2> QED
    BY <2>1, <2>2, <2>3 DEF HeadInv
<1>6. CASE DripFrom(CheckPauseEnds(s), t)
  BY <1>1, <1>3, <1>6, CheckPauseKeeps, DripFromKeeps
<1> QED
  BY <1>4, <1>5, <1>6

LEMMA CommandsKeep ==
  ASSUME HeadInv, Commands
  PROVE  HeadInv'
<1> USE DEF HeadInv
<1>1. ASSUME NEW t \in Moves, Move(t) PROVE HeadInv'
  BY <1>1, MoveKeeps
<1>2. ASSUME NEW t \in Moves, DripMove(t) PROVE HeadInv'
  BY <1>2, DripMoveKeeps
<1>3. ASSUME NEW t \in Dwells, Dwell(t) PROVE HeadInv'
  <2>1. Kept(Dwelling(th, t))
    <3>1. t \in Int
      BY Delays
    <3> QED
      BY <3>1, DwellingKeeps
  <2>2. Kept(th')
    BY <1>3, <2>1, LeavesInCheckPauseKeeps DEF Dwell
  <2> QED
    BY <1>3, <2>2 DEF Dwell, LeavesInCheckPause
<1>4. ASSUME WaitMoves PROVE HeadInv'
  BY <1>4, FlushKeeps, LeavesKeeps DEF WaitMoves
<1>5. ASSUME SetPosition PROVE HeadInv'
  BY <1>5, FlushStepsKeeps, LeavesKeeps DEF SetPosition
<1>6. ASSUME SetIdleTimeout PROVE HeadInv'
  BY <1>6 DEF SetIdleTimeout
<1>7. ASSUME NEW wait \in BOOLEAN, Heat(wait) PROVE HeadInv'
  <2> DEFINE s == IF th.queue = 0 THEN LastMove(th) ELSE th
  <2>1. Kept(s) /\ Kept(LastMove(s))
    BY LastMoveKeeps
  <2>2. \/ Leaves(s) /\ at' = at /\ until' = until
        \/ LooksAt(s)
        \/ Leaves(s) /\ at' = "holding" /\ until' = Short
    BY <1>7 DEF Heat
  <2> HIDE DEF s
  <2>3. CASE LooksAt(s)
    BY <2>1, <2>3, LooksAtKeeps
  <2>4. CASE Leaves(s) /\ at' = at /\ until' = until
    BY <2>1, <2>4, LeavesKeeps
  <2>5. CASE Leaves(s) /\ at' = "holding" /\ until' = Short
    BY <2>1, <2>5, HoldingKeeps
  <2> QED
    BY <2>2, <2>3, <2>4, <2>5
<1> QED
  BY <1>1, <1>2, <1>3, <1>4, <1>5, <1>6, <1>7 DEF Commands

\* The flush timer, the idle script, and the rest.
LEMMA FlushAheadKeeps ==
  ASSUME NEW s, Kept(s), s.special # "main"
  PROVE  Kept(FlushAhead(s))
<1> DEFINE upto == Smaller(s.need_flush + FlushExtra, FlushLow + FlushBatch)
           f == AdvanceFlush(s, upto)
<1>1. ASSUME NEW r, Kept(r) PROVE Kept(NextFlush(r))
  <2>1. r \in Head /\ At(r.last_flush - FlushLow) \in SUBSET Int
    <3>1. r \in Head
      BY <1>1 DEF Kept
    <3>2. r.last_flush \in Int /\ FlushLow \in Int
      BY <3>1, Delays DEF Head
    <3> QED
      BY <3>1, <3>2 DEF At
  <2> DEFINE later == At(r.last_flush - FlushLow)
  <2>2. \/ NextFlush(r) = [r EXCEPT !.kick = TRUE, !.flush_timer = Off]
        \/ NextFlush(r) = [r EXCEPT !.flush_timer = later]
    BY DEF NextFlush
  <2> HIDE DEF later
  <2> QED
    BY <1>1, <2>1, <2>2 DEF Kept, Head, InTime, Off, later
<1>2. Kept(f)
  <2>1. upto \in Int
    <3>1. s.need_flush + FlushExtra \in Int /\ FlushLow + FlushBatch \in Int
      BY Delays DEF Kept, Head
    <3> QED
      BY <3>1, Choose
  <2> HIDE DEF upto
  <2> QED
    BY <2>1, AdvanceFlushKeeps DEF Kept
<1>3. FlushAhead(s) = IF FlushedUp(s) \/ s.last_flush > FlushLow THEN NextFlush(s)
                      ELSE NextFlush(f)
  BY DEF FlushAhead, f, upto
<1> HIDE DEF f
<1> QED
  BY <1>1, <1>2, <1>3

LEMMA TimersKeep ==
  ASSUME HeadInv, Timers
  PROVE  HeadInv'
<1>1. Kept(th) /\ until \in Int /\ (at = "before drip" => until \in Nat)
  BY DEF HeadInv
<1>2. ASSUME PrimingTimer PROVE HeadInv'
  <2> DEFINE s == [th EXCEPT !.priming_timer = Off]
  <2>1. Kept(s)
    BY <1>1 DEF Kept, Head, InTime, Off
  <2>2. Leaves(IF s.special = "Priming" THEN FlushLookahead(s) ELSE s)
    BY <1>2 DEF PrimingTimer
  <2> HIDE DEF s
  <2>3. Kept(th')
    BY <2>1, <2>2, FlushKeeps, LeavesKeeps
  <2> QED
    BY <1>1, <1>2, <2>3 DEF PrimingTimer, HeadInv
<1>3. ASSUME FlushTimer PROVE HeadInv'
  <2> DEFINE s == [th EXCEPT !.flush_timer = Off]
             when == At(s.print_time - Low)
             later == [s EXCEPT !.flush_timer = when]
  <2>1. Kept(s) /\ Kept(later)
    <3>1. Kept(s)
      BY <1>1 DEF Kept, Head, InTime, Off
    <3> HIDE DEF s
    <3>2. when \in SUBSET Int
      BY <3>1, Delays DEF Kept, Head, At
    <3> HIDE DEF when
    <3> QED
      BY <3>1, <3>2 DEF Kept, Head, InTime
  <2>2. Leaves(IF s.special # "main" THEN FlushAhead(s)
               ELSE IF s.print_time > Low THEN later
               ELSE FlushAhead(FlushLookahead(s)))
    BY <1>3 DEF FlushTimer
  <2> HIDE DEF s, later
  <2>3. Kept(FlushAhead(FlushLookahead(s)))
    BY <2>1, FlushKeeps, FlushAheadKeeps
  <2>4. Kept(IF s.special # "main" THEN FlushAhead(s)
             ELSE IF s.print_time > Low THEN later
             ELSE FlushAhead(FlushLookahead(s)))
    BY <2>1, <2>3, FlushAheadKeeps
  <2>5. Kept(th')
    BY <2>2, <2>4, LeavesKeeps
  <2> QED
    BY <1>1, <1>3, <2>5 DEF FlushTimer, HeadInv
<1>4. ASSUME IdleTimer PROVE HeadInv'
  <2>1. Kept(IdleScript(th))
    <3>1. Short \in Int
      BY Delays
    <3>2. Kept(LastMove(Dwelling(th, Short)))
      BY <1>1, <3>1, DwellingKeeps, LastMoveKeeps
    <3> QED
      BY <3>1, <3>2, DwellingKeeps, LastMoveKeeps DEF IdleScript
  <2>2. th' = th \/ th' = [IdleScript(th) EXCEPT !.sync = NEVER]
    BY <1>4 DEF IdleTimer, CheckIdle, CheckReady, Transition
  <2> DEFINE i == IdleScript(th)
  <2>3. Kept([i EXCEPT !.sync = NEVER])
    <3>1. Kept(i)
      BY <2>1
    <3> HIDE DEF i
    <3> QED
      BY <3>1, NoTimes DEF Kept, Head, InTime
  <2>4. Kept(th')
    BY <1>1, <2>2, <2>3
  <2> QED
    BY <1>1, <1>4, <2>4 DEF IdleTimer, HeadInv
<1> QED
  BY <1>2, <1>3, <1>4 DEF Timers

LEMMA CommandKeeps ==
  ASSUME HeadInv, Command
  PROVE  HeadInv'
<1>1. Kept(th) /\ until \in Int /\ (at = "before drip" => until \in Nat)
  BY DEF HeadInv
<1>2. ASSUME Unpause PROVE HeadInv'
  BY <1>1, <1>2, CheckPauseKeeps DEF Unpause, HeadInv
<1>3. ASSUME DripStarts PROVE HeadInv'
  <2>1. until \in Nat /\ DripFrom(CheckPauseEnds(th), until)
    BY <1>1, <1>3 DEF DripStarts
  <2> QED
    BY <1>1, <2>1, CheckPauseKeeps, DripFromKeeps
<1>4. ASSUME Drip PROVE HeadInv'
  <2>1. DripGoesOn(th, until)
    BY <1>4 DEF Drip
  <2> QED
    BY <1>1, <2>1, DripGoesOnKeeps
<1>5. ASSUME MovesDone \/ Held PROVE HeadInv'
  BY <1>1, <1>5, NoTimes DEF MovesDone, Held, HeadInv
<1>6. ASSUME HoldsOn PROVE HeadInv'
  <2>1. CASE LooksAt(th)
    BY <1>1, <2>1, LooksAtKeeps
  <2>2. CASE until' = Short /\ UNCHANGED <<th, idle, at>>
    <3>1. Short \in Int
      BY Delays
    <3> QED
      BY <1>1, <1>6, <2>2, <3>1 DEF HoldsOn, HeadInv
  <2> QED
    BY <1>6, <2>1, <2>2 DEF HoldsOn
<1> QED
  BY <1>2, <1>3, <1>4, <1>5, <1>6 DEF Command

\* As time passes, the floors leave the order of the times as it is.
LEMMA TickKeeps ==
  ASSUME HeadInv, Tick
  PROVE  HeadInv'
<1>1. Kept(th) /\ th \in Head /\ until \in Int /\ (at = "before drip" => until \in Nat)
  BY DEF HeadInv, Kept
<1>2. ASSUME NEW timer \in SUBSET Int PROVE Passes(timer) \in SUBSET Int
  <2>1. ASSUME NEW t \in Int PROVE Larger(t - 1, -Past) \in Int
    <3>1. t - 1 \in Int /\ -Past \in Int
      BY Delays
    <3> QED
      BY <3>1, Choose
  <2> QED
    BY <2>1 DEF Passes
<1>3. ASSUME NEW t \in Int, NEW d \in Nat PROVE Sinks(t, d) \in Int
  <2>1. t - 1 \in Int /\ -Past - d \in Int
    BY Delays
  <2> QED
    BY <2>1, Choose DEF Sinks
<1> DEFINE p == Sinks(th.print_time, 0)
           g == Sinks(th.step_gen, 0)
           f == Sinks(th.last_flush, KinDelay)
           m == Sinks(th.min_restart, KinDelay)
           n == Sinks(th.need_flush, KinDelay + FlushExtra)
           c == IF th.need_check_pause \in {NEVER, BEFORE} THEN th.need_check_pause
                ELSE Sinks(th.need_check_pause, 0)
           x == Passes(th.flush_timer)
           y == Passes(th.priming_timer)
<1>4. /\ th.print_time \in Int /\ th.step_gen \in Int /\ th.last_flush \in Int
      /\ th.min_restart \in Int /\ th.need_flush \in Int /\ th.need_check_pause \in Int
      /\ th.flush_timer \in SUBSET Int /\ th.priming_timer \in SUBSET Int
      /\ KinDelay \in Nat /\ KinDelay + FlushExtra \in Nat /\ Past \in Nat /\ 0 \in Nat
  <2>1. KinDelay \in Nat /\ KinDelay + FlushExtra \in Nat /\ Past \in Nat /\ 0 \in Nat
    BY Delays
  <2> QED
    BY <1>1, <2>1 DEF Head
<1>5. p \in Int /\ g \in Int /\ f \in Int /\ m \in Int /\ n \in Int
  BY <1>3, <1>4
<1>6. c \in Int /\ x \in SUBSET Int /\ y \in SUBSET Int
  BY <1>2, <1>3, <1>4
<1>7. th.last_flush <= th.min_restart => f <= m
  BY <1>4 DEF Sinks, Larger
<1>8. InTime(th) => m + KinDelay <= p
  BY <1>4 DEF Sinks, Larger, InTime
<1>9. th' = [th EXCEPT !.print_time = p, !.step_gen = g, !.last_flush = f, !.min_restart = m,
                       !.need_flush = n, !.need_check_pause = c, !.flush_timer = x,
                       !.priming_timer = y]
  BY DEF Tick
<1> HIDE DEF p, g, f, m, n, c, x, y
<1>10. Kept(th')
  <2>1. /\ th' \in Head /\ th'.late = th.late /\ th'.special = th.special
        /\ th'.last_flush = f /\ th'.min_restart = m /\ th'.print_time = p
    BY <1>1, <1>5, <1>6, <1>9 DEF Head
  <2> QED
    BY <1>1, <1>7, <1>8, <2>1 DEF Kept, InTime
<1>11. until' \in Int /\ (at' = "before drip" => until' \in Nat)
  BY <1>1, <1>3, <1>4 DEF Tick
<1> QED
  BY <1>10, <1>11 DEF HeadInv

\* The invariant of the tool head.
THEOREM HeadInvariant == Spec => []HeadInv
<1>1. Init => HeadInv
  <2> SUFFICES ASSUME Init PROVE HeadInv
    OBVIOUS
  <2>1. -Past \in Int /\ -Past - KinDelay \in Int
    BY Delays
  <2>2. th \in Head
    BY <2>1, NoTimes DEF Init, Head, Off
  <2> QED
    BY <2>1, <2>2, NoTimes DEF Init, HeadInv, Kept
<1>2. HeadInv /\ [Next]_vars => HeadInv'
  <2> SUFFICES ASSUME HeadInv, [Next]_vars PROVE HeadInv'
    OBVIOUS
  <2>1. CASE Commands
    BY <2>1, CommandsKeep
  <2>2. CASE Command
    BY <2>2, CommandKeeps
  <2>3. CASE DripHit
    BY <2>3, DripEndsKeeps, LeavesKeeps, NoTimes DEF DripHit, HeadInv
  <2>4. CASE Timers
    BY <2>4, TimersKeep
  <2>5. CASE Tick
    BY <2>5, TickKeeps
  <2>6. CASE Shutdown
    <3>1. Kept(th')
      BY <2>6 DEF Shutdown, HeadInv, Kept, Head, InTime
    <3> QED
      BY <2>6, <3>1 DEF Shutdown, HeadInv
  <2>7. CASE Leave
    BY <2>7 DEF Leave, HeadInv
  <2>8. CASE UNCHANGED vars
    BY <2>8 DEF vars, HeadInv
  <2> QED
    BY <2>1, <2>2, <2>3, <2>4, <2>5, <2>6, <2>7, <2>8 DEF Next
<1> QED
  BY <1>1, <1>2, PTL DEF Spec

\* No move is put on the time line before steps that are generated already: dwells,
\* waits, homing moves, changes of the position and the timers, in any order.
THEOREM MovesAreInTime == Spec => []MovesStartInTime
<1>1. HeadInv => MovesStartInTime
  BY DEF HeadInv, Kept, MovesStartInTime
<1> QED
  BY <1>1, HeadInvariant, PTL

-----------------------------------------------------------------------------
(* The boards do not run out of steps.  Outside a homing move somebody will   *)
(* come in time: the flush timer is set, early enough for what has been sent  *)
(* by then, or there is nothing to send; and the next who flushes finds a     *)
(* reserve.  During a homing move, whose timer is off, the wait ends in time. *)

Reserve == Smaller(FlushLow, Start - KinDelay - StepFlush)

Sent(s) == s.need_flush <= s.last_flush

\* Steps are sent up to a short time before the end of the time line ...
Near(s) == s.print_time - KinDelay - StepFlush <= s.last_flush

\* ... and generated to no more than that, or than what is sent.
Settled(s) == s.min_restart <= Larger(s.last_flush, s.print_time - KinDelay)

Level(s) == Near(s) /\ Settled(s)

Awake(s) == s.kick \/ \E t \in s.flush_timer : t <= 0 \/ t + FlushLow <= s.last_flush

Fed(s) ==
  /\ s.special # "Drip"
  /\ s.need_flush <= s.step_gen
  /\ Sent(s) \/ (~s.kick /\ Reserve <= s.last_flush)
  /\ s.special = "main" => ~s.kick /\ Near(s) /\ Reserve <= s.last_flush

Unwatched(s) ==
  /\ s.special = "Drip" /\ ~s.kick /\ s.flush_timer = Off
  /\ s.need_flush <= s.step_gen
  /\ Sent(s) \/ s.print_time - DripAhead < s.last_flush

FlowInv ==
  /\ IF at = "dripping" THEN Unwatched(th) /\ DripAhead <= th.print_time
                        ELSE Fed(th) /\ Awake(th)
  /\ at = "before drip" => Level(th)

\* The order of the delays, as the proofs use it.
LEMMA Order ==
  /\ MinKin + KinDelay <= Start /\ KinDelay + StepFlush < Start
  /\ FlushLow > 0 /\ KinDelay + StepFlush + FlushLow <= Low
  /\ DripTime > 0 /\ Start < FlushLow + DripAhead
  /\ DripAhead = DripTime + StepFlush + KinDelay /\ DripAhead \in Int
  /\ Reserve \in Int /\ 0 < Reserve
  /\ Reserve <= FlushLow /\ Reserve <= Start - KinDelay - StepFlush
  /\ Start - DripAhead < Reserve
<1>1. /\ MinKin + KinDelay <= Start /\ KinDelay + StepFlush < Start
      /\ FlushLow > 0 /\ KinDelay + StepFlush + FlushLow <= Low
      /\ DripTime > 0 /\ Start < FlushLow + DripTime + StepFlush + KinDelay
  BY DelaysInOrder
<1>2. /\ KinDelay \in Nat /\ StepFlush \in Nat /\ Start \in Nat /\ FlushLow \in Nat
      /\ DripTime \in Nat
  BY Delays
<1> QED
  BY <1>1, <1>2 DEF DripAhead, Reserve, Smaller

\* The times of a tool head are integers.
LEMMA Times ==
  ASSUME NEW s \in Head
  PROVE  /\ s.print_time \in Int /\ s.last_flush \in Int /\ s.min_restart \in Int
         /\ s.need_flush \in Int /\ s.step_gen \in Int
         /\ s.kick \in BOOLEAN /\ s.flush_timer \in SUBSET Int
BY DEF Head

\* What matters to FlowInv is the same in both, or further ahead.
Alike(s, r) ==
  /\ r.kick = s.kick /\ r.flush_timer = s.flush_timer
  /\ r.need_flush = s.need_flush /\ r.step_gen = s.step_gen

LEMMA AdvanceFlushFlows ==
  ASSUME NEW s \in Head, NEW t \in Int
  PROVE  LET r == AdvanceFlush(s, t)
         IN  /\ Alike(s, r) /\ r.special = s.special /\ r.print_time = s.print_time
             /\ s.last_flush <= r.last_flush /\ t <= r.last_flush
             /\ Settled(s) => Settled(r)
             /\ r.last_flush \in Int
<1> DEFINE flush == Larger(t, s.last_flush)
           want == Smaller(flush + StepFlush, s.print_time - KinDelay)
           steps == Larger(want, flush)
           most == Larger(s.min_restart, steps)
<1>1. /\ s.last_flush \in Int /\ s.min_restart \in Int /\ s.print_time \in Int
      /\ KinDelay \in Nat /\ StepFlush \in Nat
  BY Times, Delays
<1>2. flush \in Int /\ t <= flush /\ s.last_flush <= flush
  BY <1>1, Choose
<1>3. want \in Int /\ want <= s.print_time - KinDelay
  <2>1. flush + StepFlush \in Int /\ s.print_time - KinDelay \in Int
    BY <1>1, <1>2
  <2> QED
    BY <2>1, Choose
<1>4. steps \in Int /\ steps \in {want, flush}
  BY <1>2, <1>3, Choose
<1>5. most \in Int /\ most \in {s.min_restart, steps}
  BY <1>1, <1>4, Choose
<1> HIDE DEF flush, want, steps, most
<1>6. AdvanceFlush(s, t) = [s EXCEPT !.last_flush = flush, !.min_restart = most]
  BY DEF AdvanceFlush, flush, want, steps, most
<1>7. Settled(s) => most <= Larger(flush, s.print_time - KinDelay)
  BY <1>1, <1>2, <1>3, <1>4, <1>5 DEF Settled, Larger
<1>8. /\ AdvanceFlush(s, t).last_flush = flush /\ AdvanceFlush(s, t).min_restart = most
      /\ AdvanceFlush(s, t).special = s.special
      /\ AdvanceFlush(s, t).print_time = s.print_time
      /\ Alike(s, AdvanceFlush(s, t))
  BY <1>6 DEF Head, Alike
<1> QED
  BY <1>2, <1>7, <1>8 DEF Settled

LEMMA AdvanceMoveFlows ==
  ASSUME NEW s \in Head, NEW t \in Int
  PROVE  LET r == AdvanceMove(s, t)
         IN  /\ Alike(s, r) /\ r.special = s.special
             /\ s.last_flush <= r.last_flush /\ s.print_time <= r.print_time
             /\ t <= r.print_time
             /\ Near(r)
             /\ Settled(s) => Settled(r)
<1> DEFINE delay == KinDelay + StepFlush
           end == Larger(s.print_time, t)
           longer == [s EXCEPT !.print_time = end]
           from == Larger(s.last_flush, s.print_time - delay)
           upto == Larger(from, end - delay)
<1>1. /\ s.last_flush \in Int /\ s.min_restart \in Int /\ s.print_time \in Int
      /\ KinDelay \in Nat /\ StepFlush \in Nat /\ delay \in Nat
  BY Times, Delays
<1>2. end \in Int /\ s.print_time <= end /\ t <= end
  BY <1>1, Choose
<1>3. from \in Int
  <2>1. s.print_time - delay \in Int
    BY <1>1
  <2> QED
    BY <1>1, <2>1, Choose
<1>4. upto \in Int /\ end - delay <= upto
  <2>1. end - delay \in Int
    BY <1>1, <1>2
  <2> QED
    BY <1>3, <2>1, Choose
<1> HIDE DEF end, from, upto
<1>5. /\ longer \in Head /\ longer.print_time = end /\ longer.special = s.special
      /\ longer.last_flush = s.last_flush /\ longer.min_restart = s.min_restart
      /\ Alike(s, longer)
  BY <1>2 DEF Head, Alike
<1>6. Settled(s) => Settled(longer)
  BY <1>1, <1>2, <1>5 DEF Settled, Larger
<1>7. AdvanceMove(s, t) = AdvanceFlush(longer, upto)
  BY DEF AdvanceMove, end, from, upto
<1> HIDE DEF longer
<1> DEFINE r == AdvanceFlush(longer, upto)
<1>8. /\ Alike(longer, r) /\ r.special = longer.special /\ r.print_time = longer.print_time
      /\ longer.last_flush <= r.last_flush /\ upto <= r.last_flush
      /\ Settled(longer) => Settled(r)
      /\ r.last_flush \in Int
  BY <1>4, <1>5, AdvanceFlushFlows
<1> HIDE DEF r
<1>9. Near(r)
  BY <1>1, <1>2, <1>4, <1>5, <1>8 DEF Near
<1> QED
  BY <1>2, <1>5, <1>6, <1>7, <1>8, <1>9 DEF Alike, r

\* After _calc_print_time the time line is ahead of the clock; it was moved for
\* that, or for the steps that are generated.
LEMMA CalcFlows ==
  ASSUME NEW s \in Head
  PROVE  LET r == Calc(s)
         IN  /\ Alike(s, r) /\ r.special = s.special
             /\ r.last_flush = s.last_flush /\ r.min_restart = s.min_restart
             /\ Start <= r.print_time
             /\ \/ r.print_time = s.print_time
                \/ r.print_time = Start
                \/ r.print_time = s.min_restart + KinDelay /\ s.print_time < r.print_time
<1> DEFINE base == Larger(MinKin, s.min_restart)
           least == Larger(Start, base + KinDelay)
           sync == IF s.sync = NEVER THEN least ELSE s.sync
<1>1. /\ s.min_restart \in Int /\ s.print_time \in Int
      /\ KinDelay \in Nat /\ Start \in Nat /\ MinKin \in Nat
  BY Times, Delays
<1>2. /\ least \in Int /\ Start <= least
      /\ least = Start \/ least = s.min_restart + KinDelay
  BY <1>1, Order DEF Larger
<1> HIDE DEF least, sync
<1>3. Calc(s) = IF least > s.print_time
                THEN [s EXCEPT !.print_time = least, !.sync = sync] ELSE s
  BY DEF Calc, least, sync
<1>4. CASE least > s.print_time
  <2>1. Calc(s) = [s EXCEPT !.print_time = least, !.sync = sync]
    BY <1>3, <1>4
  <2>2. /\ Alike(s, Calc(s)) /\ Calc(s).special = s.special
        /\ Calc(s).last_flush = s.last_flush /\ Calc(s).min_restart = s.min_restart
        /\ Calc(s).print_time = least
    BY <2>1 DEF Head, Alike
  <2> QED
    BY <1>1, <1>2, <1>4, <2>2
<1>5. CASE ~(least > s.print_time)
  BY <1>1, <1>2, <1>3, <1>5 DEF Alike
<1> QED
  BY <1>4, <1>5

\* note_mcu_movequeue_activity kicks the flush timer.
LEMMA NoteFlows ==
  ASSUME NEW s \in Head, NEW t \in Int
  PROVE  LET r == Note(s, t)
         IN  /\ ~r.kick /\ r.flush_timer = (IF s.kick THEN At(0) ELSE s.flush_timer)
             /\ s.need_flush <= s.step_gen => r.need_flush <= r.step_gen
             /\ r.special = s.special /\ r.print_time = s.print_time
             /\ r.last_flush = s.last_flush /\ r.min_restart = s.min_restart
<1> DEFINE need == Larger(s.need_flush, t)
           gen == Larger(s.step_gen, t)
           timer == IF s.kick THEN At(0) ELSE s.flush_timer
<1>1. s.need_flush \in Int /\ s.step_gen \in Int
  BY Times
<1>2. s.need_flush <= s.step_gen => need <= gen
  BY <1>1 DEF Larger
<1> HIDE DEF need, gen, timer
<1>3. Note(s, t) = [s EXCEPT !.need_flush = need, !.step_gen = gen, !.kick = FALSE,
                             !.flush_timer = timer]
  BY DEF Note, need, gen, timer
<1> QED
  BY <1>2, <1>3 DEF Head, timer

\* A tool head that is further ahead.
LEMMA FurtherAhead ==
  ASSUME NEW s \in Head, NEW r \in Head, Alike(s, r), r.special = s.special,
         s.last_flush <= r.last_flush
  PROVE  /\ Awake(s) => Awake(r)
         /\ Sent(s) => Sent(r)
         /\ Fed(s) /\ (s.special = "main" => Near(r)) => Fed(r)
<1>1. /\ s.last_flush \in Int /\ r.last_flush \in Int /\ s.need_flush \in Int
      /\ FlushLow \in Int /\ Reserve \in Int /\ s.flush_timer \in SUBSET Int
  BY Times, Delays, Order
<1>2. Awake(s) => Awake(r)
  BY <1>1 DEF Awake, Alike
<1>3. Sent(s) => Sent(r)
  BY <1>1 DEF Sent, Alike
<1>4. Reserve <= s.last_flush => Reserve <= r.last_flush
  BY <1>1
<1> QED
  BY <1>2, <1>3, <1>4 DEF Fed, Alike

\* A tool head whose other attributes have changed.
LEMMA StaysFed ==
  ASSUME NEW s \in Head, NEW r \in Head, Alike(s, r), r.print_time = s.print_time,
         r.last_flush = s.last_flush, r.min_restart = s.min_restart,
         r.special = s.special \/ r.special \notin {"main", "Drip"}
  PROVE  /\ Awake(s) => Awake(r)
         /\ Fed(s) => Fed(r)
         /\ Level(s) => Level(r)
BY DEF Awake, Fed, Level, Near, Settled, Sent, Alike

\* Whoever puts moves on the time line wakes the flush timer and sends steps.
LEMMA ProcessFlows ==
  ASSUME NEW s, Kept(s), Fed(s), NEW t \in Int
  PROVE  LET r == Process(s, t)
         IN  Fed(r) /\ Level(r) /\ (Awake(s) => Awake(r))
<1> DEFINE main == [s EXCEPT !.special = "main", !.need_check_pause = BEFORE]
           r == Resync(s)
           b == Begins(r)
           end == b.print_time + t
           n == Note(b, end + KinDelay)
           a == AdvanceMove(n, end)
<1>1. s \in Head
  BY DEF Kept
<1>2. /\ main \in Head /\ main.special = "main" /\ Alike(s, main)
      /\ main.last_flush = s.last_flush
  BY <1>1, NoTimes DEF Head, Alike
<1> HIDE DEF main
<1>3. /\ r \in Head /\ r.special = "main" /\ Alike(s, r) /\ r.last_flush = s.last_flush
      /\ Reserve <= s.last_flush \/ Start <= r.print_time
  <2>1. CASE s.special = "main"
    BY <1>1, <2>1 DEF Resync, Fed, Alike
  <2>2. CASE s.special # "main"
    <3>1. r = Calc(main)
      BY <2>2 DEF Resync, Fed, main
    <3>2. Calc(main) \in Head
      <4>1. main.last_flush <= main.min_restart
        BY <1>1, NoTimes DEF Kept, Head, main
      <4> QED
        BY <1>2, <4>1, CalcKeeps
    <3> QED
      BY <1>2, <3>1, <3>2, CalcFlows DEF Alike
  <2> QED
    BY <2>1, <2>2
<1> HIDE DEF r
<1>4. /\ b \in Head /\ b.special = "main" /\ Alike(s, b) /\ b.last_flush = s.last_flush
      /\ b.print_time = r.print_time
  BY <1>3, Times DEF Begins, Head, Alike
<1> HIDE DEF b
<1>5. end \in Int /\ end + KinDelay \in Int /\ b.print_time \in Int
  BY <1>4, Times, Delays
<1> HIDE DEF end
<1>6. /\ n \in Head /\ n.special = "main" /\ ~n.kick /\ n.need_flush <= n.step_gen
      /\ n.flush_timer = (IF b.kick THEN At(0) ELSE b.flush_timer)
      /\ n.last_flush = s.last_flush /\ n.print_time = b.print_time
  <2>1. b.need_flush <= b.step_gen
    BY <1>4 DEF Fed, Alike
  <2> QED
    BY <1>4, <1>5, <2>1, NoteFlows, NoteKeeps
<1>7. Awake(s) => Awake(n)
  BY <1>4, <1>6 DEF Awake, Alike, At
<1> HIDE DEF n
<1>8. /\ Alike(n, a) /\ a.special = "main" /\ n.last_flush <= a.last_flush
      /\ n.print_time <= a.print_time /\ Near(a)
  BY <1>5, <1>6, AdvanceMoveFlows
<1>9. Process(s, t) = a
  BY DEF Process, a, n, end, b, r
<1>10. a \in Head /\ InTime(a)
  BY <1>9, ProcessKeeps DEF Kept
<1> HIDE DEF a
<1>11. Reserve <= a.last_flush
  <2>1. /\ s.last_flush \in Int /\ a.last_flush \in Int /\ a.print_time \in Int
        /\ n.print_time \in Int
    BY <1>1, <1>6, <1>10, Times
  <2>2. /\ Start \in Int /\ KinDelay \in Int /\ StepFlush \in Int /\ Reserve \in Int
        /\ Reserve <= Start - KinDelay - StepFlush
    BY Delays, Order
  <2>3. CASE Reserve <= s.last_flush
    BY <1>6, <1>8, <2>1, <2>2, <2>3
  <2>4. CASE Start <= a.print_time
    BY <1>8, <2>1, <2>2, <2>4 DEF Near
  <2> QED
    BY <1>3, <1>4, <1>6, <1>8, <2>1, <2>2, <2>3, <2>4
<1>12. Settled(a)
  BY <1>10, Times, Delays DEF Settled, InTime, Larger
<1>13. Fed(a)
  BY <1>6, <1>8, <1>11 DEF Fed, Alike
<1>14. Awake(s) => Awake(a)
  BY <1>6, <1>7, <1>8, <1>10, FurtherAhead
<1> QED
  BY <1>8, <1>9, <1>12, <1>13, <1>14 DEF Level

LEMMA FlushQueueFlows ==
  ASSUME NEW s, Kept(s), Fed(s)
  PROVE  LET r == FlushQueue(s)
         IN  Fed(r) /\ (Level(s) => Level(r)) /\ (Awake(s) => Awake(r))
<1> DEFINE empty == [s EXCEPT !.queue = 0]
<1>1. s \in Head
  BY DEF Kept
<1>2. /\ empty \in Head /\ empty.special = s.special /\ Alike(s, empty)
      /\ empty.print_time = s.print_time /\ empty.last_flush = s.last_flush
      /\ empty.min_restart = s.min_restart /\ empty.late = s.late
  BY <1>1 DEF Head, Alike
<1>3. s.queue \in Int
  BY <1>1 DEF Head
<1>4. FlushQueue(s) = IF s.queue = 0 THEN s ELSE Process(empty, s.queue)
  BY DEF FlushQueue
<1> HIDE DEF empty
<1>5. Kept(empty)
  BY <1>2 DEF Kept, InTime
<1>6. /\ Fed(empty) /\ (Level(s) => Level(empty)) /\ (Awake(s) => Awake(empty))
  BY <1>1, <1>2, StaysFed
<1> QED
  BY <1>3, <1>4, <1>5, <1>6, ProcessFlows

LEMMA FlushLookaheadFlows ==
  ASSUME NEW s, Kept(s), Fed(s)
  PROVE  LET r == FlushLookahead(s)
         IN  Fed(r) /\ (Level(s) => Level(r)) /\ (Awake(s) => Awake(r))
<1> DEFINE f == FlushQueue(s)
           r == FlushLookahead(s)
<1>1. f \in Head /\ Fed(f) /\ (Level(s) => Level(f)) /\ (Awake(s) => Awake(f))
  BY FlushQueueFlows, FlushKeeps DEF Kept
<1> HIDE DEF f
<1>2. r = [f EXCEPT !.special = "NeedPrime", !.need_check_pause = BEFORE]
  BY DEF FlushLookahead, f
<1>3. /\ r \in Head /\ r.special = "NeedPrime" /\ Alike(f, r)
      /\ r.print_time = f.print_time /\ r.last_flush = f.last_flush
      /\ r.min_restart = f.min_restart
  BY <1>1, <1>2, NoTimes DEF Head, Alike
<1> HIDE DEF r
<1>4. Fed(r) /\ (Level(f) => Level(r)) /\ (Awake(f) => Awake(r))
  BY <1>1, <1>3, StaysFed
<1> QED
  BY <1>1, <1>4 DEF r

\* flush_step_generation sends everything, whatever the state before.
LEMMA AllIsSent ==
  ASSUME NEW r \in Head, r.special = "NeedPrime", r.need_flush <= r.step_gen, Awake(r)
  PROVE  LET f == AdvanceFlush(r, r.step_gen)
             e == [f EXCEPT !.min_restart = Larger(@, f.print_time)]
         IN  Fed(e) /\ Awake(e)
<1> DEFINE f == AdvanceFlush(r, r.step_gen)
           most == Larger(f.min_restart, f.print_time)
           e == [f EXCEPT !.min_restart = most]
<1>1. r.step_gen \in Int /\ r.need_flush \in Int /\ r.last_flush \in Int
  BY Times
<1>2. /\ Alike(r, f) /\ f.special = "NeedPrime"
      /\ r.last_flush <= f.last_flush /\ r.step_gen <= f.last_flush /\ f.last_flush \in Int
  BY <1>1, AdvanceFlushFlows
<1>3. /\ e.kick = f.kick /\ e.flush_timer = f.flush_timer /\ e.need_flush = f.need_flush
      /\ e.step_gen = f.step_gen /\ e.special = f.special /\ e.last_flush = f.last_flush
  BY DEF AdvanceFlush
<1> HIDE DEF f, most, e
<1>4. Fed(e)
  BY <1>1, <1>2, <1>3 DEF Fed, Sent, Alike
<1>5. Awake(e)
  <2>1. FlushLow \in Int /\ r.flush_timer \in SUBSET Int
    BY Delays, Times
  <2> QED
    BY <1>1, <1>2, <1>3, <2>1 DEF Awake, Alike
<1> QED
  BY <1>4, <1>5 DEF e, most, f

LEMMA FlushStepsFlows ==
  ASSUME NEW s, Kept(s), Fed(s), Awake(s)
  PROVE  Fed(FlushSteps(s)) /\ Awake(FlushSteps(s))
<1> DEFINE r == FlushLookahead(s)
<1>1. r \in Head /\ r.special = "NeedPrime" /\ r.need_flush <= r.step_gen /\ Awake(r)
  BY FlushKeeps, FlushLookaheadFlows DEF Kept, Fed
<1>2. FlushSteps(s) = LET f == AdvanceFlush(r, r.step_gen)
                      IN  [f EXCEPT !.min_restart = Larger(@, f.print_time)]
  BY DEF FlushSteps
<1> HIDE DEF r
<1> QED
  BY <1>1, <1>2, AllIsSent

LEMMA LastMoveFlows ==
  ASSUME NEW s, Kept(s), Fed(s), Awake(s)
  PROVE  LET r == LastMove(s)
         IN  r \in Head /\ Fed(r) /\ Awake(r) /\ InTime(r)
<1>1. CASE s.special = "main"
  <2>1. LastMove(s) = FlushQueue(s)
    BY <1>1 DEF LastMove
  <2>2. FlushQueue(s) \in Head /\ Fed(FlushQueue(s)) /\ Awake(FlushQueue(s))
    BY FlushQueueFlows, FlushKeeps DEF Kept
  <2>3. InTime(FlushQueue(s))
    <3> DEFINE empty == [s EXCEPT !.queue = 0]
    <3>1. Kept(empty) /\ InTime(s) /\ s.queue \in Int
      BY <1>1 DEF Kept, Head, InTime
    <3>2. FlushQueue(s) = IF s.queue = 0 THEN s ELSE Process(empty, s.queue)
      BY DEF FlushQueue
    <3> HIDE DEF empty
    <3> QED
      BY <3>1, <3>2, ProcessKeeps
  <2> QED
    BY <2>1, <2>2, <2>3
<1>2. CASE s.special # "main"
  <2> DEFINE f == FlushLookahead(s)
  <2>1. /\ f \in Head /\ f.special = "NeedPrime" /\ f.last_flush <= f.min_restart
        /\ Fed(f) /\ Awake(f)
    BY FlushKeeps, FlushLookaheadFlows DEF Kept
  <2>2. LastMove(s) = Calc(f)
    BY <1>2 DEF LastMove
  <2> HIDE DEF f
  <2>3. /\ Calc(f) \in Head /\ InTime(Calc(f)) /\ Alike(f, Calc(f))
        /\ Calc(f).special = "NeedPrime" /\ Calc(f).last_flush = f.last_flush
    BY <2>1, CalcKeeps, CalcFlows
  <2>4. f.last_flush <= Calc(f).last_flush
    BY <2>1, <2>3, Times
  <2>5. Fed(Calc(f)) /\ Awake(Calc(f))
    BY <2>1, <2>3, <2>4, FurtherAhead
  <2> QED
    BY <2>2, <2>3, <2>5
<1> QED
  BY <1>1, <1>2

LEMMA CheckPauseFlows ==
  ASSUME NEW s, Kept(s), Fed(s), Awake(s)
  PROVE  /\ Fed(CheckPauseStarts(s)) /\ Awake(CheckPauseStarts(s))
         /\ Fed(CheckPauseEnds(s)) /\ Awake(CheckPauseEnds(s))
         /\ Level(s) => Level(CheckPauseStarts(s)) /\ Level(CheckPauseEnds(s))
<1>1. s \in Head /\ CheckPauseStarts(s) \in Head /\ CheckPauseEnds(s) \in Head
  BY CheckPauseKeeps DEF Kept
<1>2. LET r == CheckPauseStarts(s)
      IN  /\ Alike(s, r) /\ r.print_time = s.print_time
          /\ r.last_flush = s.last_flush /\ r.min_restart = s.min_restart
          /\ r.special = s.special \/ r.special \notin {"main", "Drip"}
  BY <1>1 DEF CheckPauseStarts, Alike, Head
<1>3. LET r == CheckPauseEnds(s)
      IN  /\ Alike(s, r) /\ r.print_time = s.print_time
          /\ r.last_flush = s.last_flush /\ r.min_restart = s.min_restart
          /\ r.special = s.special
  BY <1>1 DEF CheckPauseEnds, Alike, Head
<1> QED
  BY <1>1, <1>2, <1>3, StaysFed

\* After a dwell the steps go up to near the end of the time line.
LEMMA DwellingFlows ==
  ASSUME NEW s, Kept(s), Fed(s), Awake(s), NEW t \in Int
  PROVE  LET r == Dwelling(s, t)
         IN  Fed(r) /\ Awake(r) /\ Level(r)
<1> DEFINE l == LastMove(s)
           a == AdvanceMove(l, l.print_time + t)
<1>1. l \in Head /\ Fed(l) /\ Awake(l) /\ InTime(l) /\ Kept(l)
  BY LastMoveFlows, LastMoveKeeps
<1> HIDE DEF l
<1>2. l.print_time + t \in Int
  BY <1>1, Times
<1>3. Settled(l)
  BY <1>1, Times, Delays DEF Settled, InTime, Larger
<1>4. Kept(a) /\ a \in Head
  BY <1>1, <1>2, AdvanceMoveKeeps DEF Kept
<1>5. /\ Alike(l, a) /\ a.special = l.special /\ l.last_flush <= a.last_flush
      /\ Level(a)
  BY <1>1, <1>2, <1>3, AdvanceMoveFlows DEF Level
<1> HIDE DEF a
<1>6. Fed(a) /\ Awake(a)
  BY <1>1, <1>4, <1>5, FurtherAhead DEF Level
<1>7. Dwelling(s, t) = CheckPauseStarts(a)
  BY DEF Dwelling, a, l
<1> QED
  BY <1>4, <1>5, <1>6, <1>7, CheckPauseFlows

\* Where a step leaves the tool head.
LEMMA LeavesFlows ==
  ASSUME NEW s, Kept(s), Leaves(s)
  PROVE  /\ Fed(s) => Fed(th')
         /\ Awake(s) => Awake(th')
         /\ Level(s) => Level(th')
         /\ Unwatched(s) => Unwatched(th')
         /\ th'.print_time = s.print_time
<1>1. th' = [s EXCEPT !.sync = NEVER] /\ s \in Head
  BY DEF Leaves, Kept
<1>2. /\ th' \in Head /\ Alike(s, th') /\ th'.special = s.special
      /\ th'.print_time = s.print_time
      /\ th'.last_flush = s.last_flush /\ th'.min_restart = s.min_restart
  BY <1>1, NoTimes DEF Head, Alike
<1> QED
  BY <1>1, <1>2, StaysFed DEF Unwatched, Sent, Alike

\* The end of a homing move: the flush timer is set again and everything is sent.
LEMMA DripEndsFlows ==
  ASSUME NEW s, Kept(s), s.need_flush <= s.step_gen
  PROVE  Fed(DripEnds(s)) /\ Awake(DripEnds(s))
<1> DEFINE now == At(0)
           q == [s EXCEPT !.flush_timer = now, !.queue = 0]
           r == FlushLookahead(q)
<1>1. now \in SUBSET Int /\ \E t \in now : t <= 0
  BY DEF At
<1> HIDE DEF now
<1>2. s \in Head
  BY DEF Kept
<1>3. /\ q \in Head /\ q.queue = 0 /\ q.flush_timer = now
      /\ q.need_flush = s.need_flush /\ q.step_gen = s.step_gen
  BY <1>1, <1>2 DEF Head
<1>4. DripEnds(s) = FlushSteps(q)
  BY DEF DripEnds, now
<1> HIDE DEF q
<1>5. r = [q EXCEPT !.special = "NeedPrime", !.need_check_pause = BEFORE]
  BY <1>3 DEF FlushLookahead, FlushQueue
<1>6. /\ r \in Head /\ r.special = "NeedPrime" /\ r.flush_timer = now
      /\ r.need_flush = s.need_flush /\ r.step_gen = s.step_gen
  BY <1>3, <1>5, NoTimes DEF Head
<1>7. FlushSteps(q) = LET f == AdvanceFlush(r, r.step_gen)
                      IN  [f EXCEPT !.min_restart = Larger(@, f.print_time)]
  BY DEF FlushSteps
<1> HIDE DEF r
<1>8. Awake(r)
  BY <1>1, <1>6 DEF Awake
<1> QED
  BY <1>4, <1>6, <1>7, <1>8, AllIsSent

\* A homing move goes on: the tool head waits only while enough is sent.
LEMMA DripGoesOnFlows ==
  ASSUME NEW s, Kept(s), Unwatched(s), NEW end \in Int, DripGoesOn(s, end)
  PROVE  FlowInv'
<1> DEFINE next == IF s.can_pause THEN Smaller(end, DripAhead + 1) ELSE end
           n == Note(s, next + KinDelay)
           a == AdvanceMove(n, next)
           d == DripLoop(s, end)
<1>1. s \in Head /\ ~s.kick /\ s.flush_timer = Off /\ s.special = "Drip"
      /\ s.need_flush <= s.step_gen
  BY DEF Kept, Unwatched
<1>2. next \in Int /\ next + KinDelay \in Int /\ next \in {end, DripAhead + 1}
  BY Order, Delays, Choose DEF Smaller
<1> HIDE DEF next
<1>3. /\ n \in Head /\ n.special = "Drip" /\ ~n.kick /\ n.flush_timer = Off
      /\ n.need_flush <= n.step_gen
  BY <1>1, <1>2, NoteFlows, NoteKeeps
<1> HIDE DEF n
<1>4. /\ Alike(n, a) /\ a.special = "Drip" /\ next <= a.print_time /\ Near(a)
  BY <1>2, <1>3, AdvanceMoveFlows
<1> HIDE DEF a
<1>5. d = IF DripWaits(s) THEN s ELSE a
  BY DEF DripLoop, a, n, next
<1>6. Kept(d) /\ Kept(DripEnds(d))
  BY DripLoopKeeps, DripEndsKeeps
<1>7. \/ d.print_time < end /\ Leaves(d) /\ at' = "dripping"
      \/ Leaves(DripEnds(d)) /\ at' = "idle"
  BY DEF DripGoesOn
<1> HIDE DEF d
<1>8. d \in Head /\ d.need_flush <= d.step_gen /\ d.print_time \in Int
  BY <1>1, <1>3, <1>4, <1>5, <1>6, Times DEF Kept, Alike
<1>9. CASE d.print_time < end /\ Leaves(d) /\ at' = "dripping"
  <2>1. DripAhead <= d.print_time /\ Unwatched(d)
    <3>1. CASE DripWaits(s)
      BY <1>5, <1>8, <3>1, Order DEF DripWaits
    <3>2. CASE ~DripWaits(s)
      <4>1. d = a /\ DripAhead + 1 <= d.print_time
        BY <1>2, <1>4, <1>5, <1>8, <1>9, <3>2, Order
      <4>2. d.print_time - DripAhead < d.last_flush
        <5>1. d.print_time \in Int /\ d.last_flush \in Int
          BY <1>8, Times
        <5>2. KinDelay \in Int /\ StepFlush \in Int /\ DripTime \in Int
          BY Delays
        <5> QED
          BY <1>4, <4>1, <5>1, <5>2, Order DEF Near
      <4> QED
        BY <1>3, <1>4, <1>8, <4>1, <4>2, Order DEF Unwatched, Alike
    <3> QED
      BY <3>1, <3>2
  <2> QED
    BY <1>6, <1>9, <2>1, LeavesFlows DEF FlowInv
<1>10. CASE Leaves(DripEnds(d)) /\ at' = "idle"
  <2>1. Fed(DripEnds(d)) /\ Awake(DripEnds(d))
    BY <1>6, <1>8, DripEndsFlows
  <2> QED
    BY <1>6, <1>10, <2>1, LeavesFlows DEF FlowInv
<1> QED
  BY <1>7, <1>9, <1>10

\* A homing move begins with what its dwell has sent, and waits for less than that,
\* even when the time line had to be moved ahead.
LEMMA DripFromFlows ==
  ASSUME NEW s, Kept(s), Fed(s), Level(s), NEW t \in Nat, DripFrom(s, t)
  PROVE  FlowInv'
<1> DEFINE f == FlushQueue(s)
           d == DripBegins(s)
           q == [d EXCEPT !.queue = t]
           c == Calc(q)
           r == Begins(Resync(q))
<1>1. f \in Head /\ Fed(f) /\ Level(f)
  BY FlushQueueFlows, FlushKeeps DEF Kept
<1> HIDE DEF f
<1>2. Kept(d) /\ Kept(DripEnds(d))
  BY DripBeginsKeeps, DripEndsKeeps
<1>3. d = [f EXCEPT !.special = "Drip", !.need_check_pause = NEVER,
                    !.flush_timer = Off, !.kick = FALSE]
  BY DEF DripBegins, f
<1>4. /\ d.special = "Drip" /\ ~d.kick /\ d.flush_timer = Off
      /\ d.need_flush = f.need_flush /\ d.step_gen = f.step_gen
      /\ d.last_flush = f.last_flush /\ d.print_time = f.print_time
      /\ d.min_restart = f.min_restart
  BY <1>1, <1>3 DEF Head
<1> HIDE DEF d
<1>5. d.need_flush <= d.step_gen
  BY <1>1, <1>4 DEF Fed
<1>6. \/ Leaves(DripEnds(d)) /\ at' = "idle"
      \/ DripGoesOn(r, r.print_time + t)
  BY DEF DripFrom, r, q, d
<1>7. CASE Leaves(DripEnds(d)) /\ at' = "idle"
  <2>1. Fed(DripEnds(d)) /\ Awake(DripEnds(d))
    BY <1>2, <1>5, DripEndsFlows
  <2> QED
    BY <1>2, <1>7, <2>1, LeavesFlows DEF FlowInv
<1>8. CASE DripGoesOn(r, r.print_time + t)
  <2>1. /\ q \in Head /\ ~q.late /\ q.last_flush <= q.min_restart
        /\ q.special = "Drip" /\ ~q.kick /\ q.flush_timer = Off
        /\ q.need_flush = f.need_flush /\ q.step_gen = f.step_gen
        /\ q.last_flush = f.last_flush /\ q.print_time = f.print_time
        /\ q.min_restart = f.min_restart
    BY <1>2, <1>4 DEF Kept, Head
  <2> HIDE DEF q
  <2>2. /\ c \in Head /\ ~c.late /\ c.last_flush <= c.min_restart /\ InTime(c)
        /\ Alike(q, c) /\ c.special = "Drip"
        /\ c.last_flush = q.last_flush
        /\ \/ c.print_time = q.print_time
           \/ c.print_time = Start
           \/ c.print_time = q.min_restart + KinDelay /\ q.print_time < c.print_time
    BY <2>1, CalcKeeps, CalcFlows
  <2>3. Sent(c) \/ c.print_time - DripAhead < c.last_flush
    <3>1. /\ f.last_flush \in Int /\ f.print_time \in Int /\ f.min_restart \in Int
          /\ c.print_time \in Int /\ c.last_flush \in Int
      BY <1>1, <2>2, Times
    <3>2. /\ KinDelay \in Nat /\ StepFlush \in Nat /\ DripTime \in Nat /\ Start \in Nat
      BY Delays
    <3>3. CASE c.print_time = q.print_time
      BY <1>1, <2>1, <2>2, <3>1, <3>2, <3>3, Order DEF Level, Near
    <3>4. CASE c.print_time = Start
      <4>1. Sent(f) => Sent(c)
        BY <2>1, <2>2 DEF Sent, Alike
      <4>2. Reserve <= f.last_flush => c.print_time - DripAhead < c.last_flush
        BY <2>1, <2>2, <3>1, <3>2, <3>4, Order
      <4> QED
        BY <1>1, <4>1, <4>2 DEF Fed
    <3>5. CASE c.print_time = q.min_restart + KinDelay /\ q.print_time < c.print_time
      <4>1. f.min_restart <= f.last_flush
        BY <1>1, <2>1, <3>1, <3>2, <3>5 DEF Level, Settled, Larger
      <4> QED
        BY <2>1, <2>2, <3>1, <3>2, <3>5, <4>1, Order
    <3> QED
      BY <2>2, <3>3, <3>4, <3>5
  <2>4. Resync(q) = c
    BY <2>1 DEF Resync
  <2> HIDE DEF c
  <2>5. r = [c EXCEPT !.late = c.late \/ c.print_time < c.min_restart + KinDelay]
    BY <2>4 DEF Begins
  <2>6. ~(c.print_time < c.min_restart + KinDelay)
    BY <2>2, Times, Delays DEF InTime
  <2>7. /\ Kept(r) /\ r.print_time \in Int
        /\ Unwatched(r)
    <3>1. /\ r \in Head /\ ~r.late /\ Alike(c, r) /\ r.special = "Drip"
          /\ r.last_flush = c.last_flush /\ r.print_time = c.print_time
          /\ r.min_restart = c.min_restart
      BY <2>2, <2>5, <2>6 DEF Head, Alike
    <3>2. Kept(r)
      BY <2>2, <3>1 DEF Kept, InTime
    <3>3. Unwatched(r)
      BY <1>4, <1>5, <2>1, <2>2, <2>3, <3>1 DEF Unwatched, Sent, Alike
    <3> QED
      BY <3>1, <3>2, <3>3, Times
  <2> HIDE DEF r
  <2>8. r.print_time + t \in Int
    BY <2>7
  <2> QED
    BY <1>8, <2>7, <2>8, DripGoesOnFlows
<1> QED
  BY <1>6, <1>7, <1>8

-----------------------------------------------------------------------------
(* ... and every step keeps it. *)

LEMMA LooksAtFlows ==
  ASSUME NEW s, Kept(s), Fed(s), Awake(s), LooksAt(s)
  PROVE  FlowInv'
<1>1. Kept(LastMove(s)) /\ Fed(LastMove(s)) /\ Awake(LastMove(s))
  BY LastMoveKeeps, LastMoveFlows
<1>2. Leaves(LastMove(s)) /\ at' = "holding"
  BY DEF LooksAt
<1> QED
  BY <1>1, <1>2, LeavesFlows DEF FlowInv

LEMMA LeavesInCheckPauseFlows ==
  ASSUME NEW s, Kept(s), Fed(s), Awake(s), NEW place, LeavesInCheckPause(s, place)
  PROVE  /\ Fed(th') /\ Awake(th') /\ (Level(s) => Level(th'))
         /\ at' \in {place, "idle"}
BY CheckPauseKeeps, CheckPauseFlows, LeavesFlows DEF LeavesInCheckPause

LEMMA CommandsFlow ==
  ASSUME HeadInv, FlowInv, Commands
  PROVE  FlowInv'
<1>1. Kept(th) /\ (at = "idle" => Fed(th) /\ Awake(th))
  BY DEF HeadInv, FlowInv
<1>2. ASSUME NEW t \in Moves, Move(t) PROVE FlowInv'
  <2>1. Fed(th) /\ Awake(th) /\ th \in Head /\ t \in Nat
    BY <1>1, <1>2, Delays DEF Move, Begin, Kept
  <2>2. PICK part \in 0..th.queue :
          LET kept == th.queue + t - part
              s == IF part = 0 THEN [th EXCEPT !.queue = kept]
                   ELSE Process([th EXCEPT !.queue = kept], part)
          IN  IF s.print_time > s.need_check_pause
              THEN LeavesInCheckPause(CheckPauseStarts(s), "pausing")
              ELSE Leaves(s) /\ at' = "idle"
    BY <1>2 DEF Move
  <2> DEFINE kept == th.queue + t - part
             queued == [th EXCEPT !.queue = kept]
             s == IF part = 0 THEN queued ELSE Process(queued, part)
  <2>3. kept \in Nat /\ part \in Int
    BY <2>1 DEF Head
  <2> HIDE DEF kept
  <2>4. /\ queued \in Head /\ Alike(th, queued) /\ queued.special = th.special
        /\ queued.print_time = th.print_time /\ queued.last_flush = th.last_flush
        /\ queued.min_restart = th.min_restart /\ queued.late = th.late
    BY <2>1, <2>3 DEF Head, Alike
  <2> HIDE DEF queued
  <2>5. Kept(queued)
    BY <1>1, <2>4 DEF Kept, InTime
  <2>6. Fed(queued) /\ Awake(queued)
    BY <2>1, <2>4, StaysFed
  <2>7. Kept(s) /\ Fed(s) /\ Awake(s)
    BY <2>3, <2>5, <2>6, ProcessKeeps, ProcessFlows
  <2> HIDE DEF s
  <2>8. IF s.print_time > s.need_check_pause
        THEN LeavesInCheckPause(CheckPauseStarts(s), "pausing")
        ELSE Leaves(s) /\ at' = "idle"
    BY <2>2 DEF s, queued, kept
  <2>9. CASE LeavesInCheckPause(CheckPauseStarts(s), "pausing")
    <3> DEFINE c == CheckPauseStarts(s)
    <3>1. Kept(c) /\ Fed(c) /\ Awake(c) /\ LeavesInCheckPause(c, "pausing")
      BY <2>7, <2>9, CheckPauseKeeps, CheckPauseFlows
    <3> HIDE DEF c
    <3>2. Fed(th') /\ Awake(th') /\ at' \in {"pausing", "idle"}
      BY <3>1, LeavesInCheckPauseFlows
    <3> QED
      BY <3>2 DEF FlowInv
  <2>10. CASE Leaves(s) /\ at' = "idle"
    BY <2>7, <2>10, LeavesFlows DEF FlowInv
  <2> QED
    BY <2>8, <2>9, <2>10
<1>3. ASSUME NEW t \in Moves, DripMove(t) PROVE FlowInv'
  <2> DEFINE s == Dwelling(th, KinDelay)
  <2>1. Fed(th) /\ Awake(th) /\ KinDelay \in Int /\ t \in Nat
    <3>1. at = "idle"
      BY <1>3 DEF DripMove, Begin
    <3>2. KinDelay \in Int /\ t \in Nat
      BY Delays
    <3> QED
      BY <1>1, <3>1, <3>2
  <2>2. Kept(s) /\ Fed(s) /\ Awake(s) /\ Level(s)
    BY <1>1, <2>1, DwellingKeeps, DwellingFlows
  <2>3. \/ Leaves(s) /\ at' = "before drip"
        \/ DripFrom(CheckPauseEnds(s), t)
    BY <1>3 DEF DripMove
  <2> HIDE DEF s
  <2>4. CASE Leaves(s) /\ at' = "before drip"
    BY <2>2, <2>4, LeavesFlows DEF FlowInv
  <2>5. CASE DripFrom(CheckPauseEnds(s), t)
    BY <2>1, <2>2, <2>5, CheckPauseKeeps, CheckPauseFlows, DripFromFlows
  <2> QED
    BY <2>3, <2>4, <2>5
<1>4. ASSUME NEW t \in Dwells, Dwell(t) PROVE FlowInv'
  <2>1. Fed(th) /\ Awake(th) /\ t \in Int
    BY <1>1, <1>4, Delays DEF Dwell, Begin
  <2> DEFINE s == Dwelling(th, t)
  <2>2. Kept(s) /\ Fed(s) /\ Awake(s)
    BY <1>1, <2>1, DwellingKeeps, DwellingFlows
  <2>3. LeavesInCheckPause(s, "pausing")
    BY <1>4 DEF Dwell
  <2> HIDE DEF s
  <2>4. Fed(th') /\ Awake(th') /\ at' \in {"pausing", "idle"}
    BY <2>2, <2>3, LeavesInCheckPauseFlows
  <2> QED
    BY <2>4 DEF FlowInv
<1>5. ASSUME WaitMoves PROVE FlowInv'
  BY <1>1, <1>5, FlushKeeps, FlushLookaheadFlows, LeavesFlows DEF WaitMoves, Begin, FlowInv
<1>6. ASSUME SetPosition PROVE FlowInv'
  BY <1>1, <1>6, FlushStepsKeeps, FlushStepsFlows, LeavesFlows
     DEF SetPosition, Begin, FlowInv
<1>7. ASSUME SetIdleTimeout PROVE FlowInv'
  BY <1>7 DEF SetIdleTimeout, FlowInv
<1>8. ASSUME NEW wait \in BOOLEAN, Heat(wait) PROVE FlowInv'
  <2> DEFINE s == IF th.queue = 0 THEN LastMove(th) ELSE th
  <2>1. Kept(s) /\ Fed(s) /\ Awake(s)
    BY <1>1, <1>8, LastMoveKeeps, LastMoveFlows DEF Heat, Begin
  <2>2. (Leaves(s) /\ at' \in {"holding", "idle"}) \/ LooksAt(s)
    BY <1>8 DEF Heat, Begin
  <2> HIDE DEF s
  <2>3. CASE LooksAt(s)
    BY <2>1, <2>3, LooksAtFlows
  <2>4. CASE Leaves(s) /\ at' \in {"holding", "idle"}
    BY <2>1, <2>4, LeavesFlows DEF FlowInv
  <2> QED
    BY <2>2, <2>3, <2>4
<1> QED
  BY <1>2, <1>3, <1>4, <1>5, <1>6, <1>7, <1>8 DEF Commands

LEMMA CommandFlows ==
  ASSUME HeadInv, FlowInv, Command
  PROVE  FlowInv'
<1>1. Kept(th) /\ until \in Int /\ (at = "before drip" => until \in Nat)
  BY DEF HeadInv
<1>2. ASSUME Unpause PROVE FlowInv'
  BY <1>1, <1>2, CheckPauseFlows DEF Unpause, FlowInv
<1>3. ASSUME DripStarts PROVE FlowInv'
  <2>1. Fed(th) /\ Awake(th) /\ Level(th) /\ until \in Nat
        /\ DripFrom(CheckPauseEnds(th), until)
    BY <1>1, <1>3 DEF DripStarts, FlowInv
  <2> QED
    BY <1>1, <2>1, CheckPauseKeeps, CheckPauseFlows, DripFromFlows
<1>4. ASSUME Drip PROVE FlowInv'
  BY <1>1, <1>4, DripGoesOnFlows DEF Drip, FlowInv
<1>5. ASSUME MovesDone \/ Held PROVE FlowInv'
  BY <1>5 DEF MovesDone, Held, FlowInv
<1>6. ASSUME HoldsOn PROVE FlowInv'
  <2>1. CASE LooksAt(th)
    <3>1. Fed(th) /\ Awake(th)
      BY <1>6 DEF HoldsOn, FlowInv
    <3> QED
      BY <1>1, <2>1, <3>1, LooksAtFlows
  <2>2. CASE UNCHANGED <<th, idle, at>>
    BY <1>6, <2>2 DEF HoldsOn, FlowInv
  <2> QED
    BY <1>6, <2>1, <2>2 DEF HoldsOn
<1> QED
  BY <1>2, <1>3, <1>4, <1>5, <1>6 DEF Command

\* The flush timer, which has just gone off, is set again or is not needed.
LEMMA FlushAheadFlows ==
  ASSUME NEW s, Kept(s), Fed(s), s.special # "main"
  PROVE  LET r == FlushAhead(s)
         IN  Fed(r) /\ Awake(r) /\ (Level(s) => Level(r))
<1> DEFINE Enough(r) == FlushedUp(r) \/ FlushLow <= r.last_flush
<1>1. ASSUME NEW r \in Head, Fed(r), r.special # "main", Enough(r)
      PROVE  LET x == NextFlush(r)
             IN  Fed(x) /\ Awake(x) /\ (Level(r) => Level(x))
  <2> DEFINE later == At(r.last_flush - FlushLow)
             x == NextFlush(r)
  <2>1. /\ r.last_flush \in Int /\ r.need_flush \in Int /\ FlushLow \in Int
        /\ FlushExtra \in Nat /\ Reserve \in Int /\ Reserve <= FlushLow
    BY <1>1, Times, Delays, Order
  <2>2. later \in SUBSET Int /\ \E t \in later : t + FlushLow <= r.last_flush
    BY <2>1 DEF At
  <2>3. x = IF FlushedUp(r) THEN [r EXCEPT !.kick = TRUE, !.flush_timer = Off]
            ELSE [r EXCEPT !.flush_timer = later]
    BY DEF NextFlush
  <2> HIDE DEF later, x
  <2>4. /\ x.special = r.special /\ x.need_flush = r.need_flush /\ x.step_gen = r.step_gen
        /\ x.last_flush = r.last_flush /\ x.print_time = r.print_time
        /\ x.min_restart = r.min_restart
        /\ IF FlushedUp(r) THEN x.kick ELSE x.kick = r.kick /\ x.flush_timer = later
    BY <1>1, <2>3 DEF Head
  <2>5. FlushedUp(r) => Sent(r)
    BY <2>1 DEF FlushedUp, Sent
  <2>6. ~FlushedUp(r) => Reserve <= r.last_flush
    BY <1>1, <2>1
  <2>7. Fed(x)
    BY <1>1, <2>4, <2>5, <2>6 DEF Fed, Sent
  <2>8. Awake(x)
    BY <2>2, <2>4 DEF Awake
  <2> QED
    BY <2>4, <2>7, <2>8 DEF Level, Near, Settled, x
<1> DEFINE upto == Smaller(s.need_flush + FlushExtra, FlushLow + FlushBatch)
           f == AdvanceFlush(s, upto)
<1>2. s \in Head /\ s.last_flush <= s.min_restart
  BY DEF Kept
<1>3. /\ s.need_flush \in Int /\ FlushExtra \in Nat /\ FlushLow \in Nat /\ FlushBatch \in Nat
      /\ s.last_flush \in Int /\ s.print_time \in Int /\ KinDelay \in Nat /\ StepFlush \in Nat
  BY <1>2, Times, Delays
<1>4. upto \in Int /\ upto \in {s.need_flush + FlushExtra, FlushLow + FlushBatch}
  BY <1>3 DEF Smaller
<1> HIDE DEF upto
<1>5. f \in Head
  BY <1>2, <1>4, AdvanceFlushKeeps
<1>6. /\ Alike(s, f) /\ f.special = s.special /\ f.print_time = s.print_time
      /\ s.last_flush <= f.last_flush /\ upto <= f.last_flush /\ f.last_flush \in Int
      /\ Settled(s) => Settled(f)
  BY <1>2, <1>4, AdvanceFlushFlows
<1>7. FlushAhead(s) = IF FlushedUp(s) \/ s.last_flush > FlushLow THEN NextFlush(s)
                      ELSE NextFlush(f)
  BY DEF FlushAhead, f, upto
<1> HIDE DEF f
<1>8. Fed(f) /\ (Level(s) => Level(f))
  <2>1. Fed(f)
    BY <1>2, <1>5, <1>6, FurtherAhead
  <2>2. Near(s) => Near(f)
    BY <1>3, <1>6 DEF Near
  <2> QED
    BY <1>6, <2>1, <2>2 DEF Level
<1>9. Enough(f)
  BY <1>3, <1>4, <1>6 DEF FlushedUp, Alike
<1>10. FlushedUp(s) \/ s.last_flush > FlushLow => Enough(s)
  BY <1>3
<1> HIDE DEF Enough
<1>11. CASE FlushedUp(s) \/ s.last_flush > FlushLow
  BY <1>1, <1>2, <1>7, <1>10, <1>11
<1>12. CASE ~(FlushedUp(s) \/ s.last_flush > FlushLow)
  BY <1>1, <1>5, <1>6, <1>7, <1>8, <1>9, <1>12
<1> QED
  BY <1>11, <1>12

LEMMA TimersFlow ==
  ASSUME HeadInv, FlowInv, Timers
  PROVE  FlowInv'
<1>1. /\ Kept(th) /\ th \in Head
      /\ IF at = "dripping" THEN Unwatched(th) /\ DripAhead <= th.print_time
                            ELSE Fed(th) /\ Awake(th)
      /\ at = "before drip" => Level(th)
  BY DEF HeadInv, FlowInv, Kept
<1>2. ASSUME PrimingTimer PROVE FlowInv'
  <2> DEFINE s == [th EXCEPT !.priming_timer = Off]
             r == IF s.special = "Priming" THEN FlushLookahead(s) ELSE s
  <2>1. /\ s \in Head /\ Alike(th, s) /\ s.special = th.special
        /\ s.print_time = th.print_time /\ s.last_flush = th.last_flush
        /\ s.min_restart = th.min_restart /\ s.late = th.late
    BY <1>1 DEF Head, Alike, Off
  <2>2. Leaves(r) /\ at' = at
    BY <1>2 DEF PrimingTimer
  <2> HIDE DEF s
  <2>3. Kept(s)
    BY <1>1, <2>1 DEF Kept, InTime
  <2>4. CASE at = "dripping"
    <3>1. r = s
      BY <1>1, <2>1, <2>4 DEF Unwatched
    <3>2. Unwatched(s) /\ DripAhead <= s.print_time
      BY <1>1, <2>1, <2>4 DEF Unwatched, Sent, Alike
    <3> QED
      BY <2>2, <2>3, <2>4, <3>1, <3>2, LeavesFlows DEF FlowInv
  <2>5. CASE at # "dripping"
    <3>1. Fed(s) /\ Awake(s) /\ (Level(th) => Level(s))
      BY <1>1, <2>1, <2>5, StaysFed
    <3>2. Kept(r) /\ Fed(r) /\ Awake(r) /\ (Level(th) => Level(r))
      BY <2>3, <3>1, FlushKeeps, FlushLookaheadFlows
    <3> HIDE DEF r
    <3> QED
      BY <1>1, <2>2, <2>5, <3>2, LeavesFlows DEF FlowInv
  <2> QED
    BY <2>4, <2>5
<1>3. ASSUME FlushTimer PROVE FlowInv'
  <2> DEFINE s == [th EXCEPT !.flush_timer = Off]
             when == At(s.print_time - Low)
             later == [s EXCEPT !.flush_timer = when]
             r == IF s.special # "main" THEN FlushAhead(s)
                  ELSE IF s.print_time > Low THEN later
                  ELSE FlushAhead(FlushLookahead(s))
  <2>1. at # "dripping"
    BY <1>1, <1>3 DEF FlushTimer, Due, Unwatched, Off
  <2>2. /\ s \in Head /\ s.special = th.special /\ s.kick = th.kick
        /\ s.need_flush = th.need_flush /\ s.step_gen = th.step_gen
        /\ s.print_time = th.print_time /\ s.last_flush = th.last_flush
        /\ s.min_restart = th.min_restart /\ s.late = th.late
    BY <1>1 DEF Head, Off
  <2>3. Leaves(r) /\ at' = at
    BY <1>3 DEF FlushTimer
  <2> HIDE DEF s
  <2>4. Kept(s) /\ Fed(s) /\ (Level(th) => Level(s))
    BY <1>1, <2>1, <2>2 DEF Kept, InTime, Fed, Sent, Level, Near, Settled
  <2>5. CASE s.special # "main"
    <3>1. Kept(FlushAhead(s)) /\ Fed(FlushAhead(s)) /\ Awake(FlushAhead(s))
          /\ (Level(s) => Level(FlushAhead(s)))
      BY <2>4, <2>5, FlushAheadKeeps, FlushAheadFlows
    <3>2. r = FlushAhead(s)
      BY <2>5
    <3> HIDE DEF r
    <3> QED
      BY <1>1, <2>1, <2>3, <2>4, <3>1, <3>2, LeavesFlows DEF FlowInv
  <2>6. CASE s.special = "main" /\ s.print_time > Low
    <3>1. /\ s.print_time \in Int /\ s.last_flush \in Int /\ Low \in Nat /\ FlushLow \in Nat
          /\ KinDelay \in Nat /\ StepFlush \in Nat
      BY <2>2, Times, Delays
    <3>2. s.print_time - Low + FlushLow <= s.last_flush
      BY <2>4, <2>6, <3>1, Order DEF Fed, Near
    <3>3. when \in SUBSET Int /\ \E t \in when : t + FlushLow <= s.last_flush
      BY <3>1, <3>2 DEF At
    <3> HIDE DEF when
    <3>4. /\ later \in Head /\ later.special = s.special /\ later.kick = s.kick
          /\ later.need_flush = s.need_flush /\ later.step_gen = s.step_gen
          /\ later.print_time = s.print_time /\ later.last_flush = s.last_flush
          /\ later.min_restart = s.min_restart /\ later.late = s.late
          /\ later.flush_timer = when
      BY <2>2, <3>3 DEF Head
    <3>5. r = later
      BY <2>6
    <3> HIDE DEF later, r
    <3>6. Kept(later) /\ Fed(later) /\ Awake(later) /\ (Level(s) => Level(later))
      BY <2>4, <3>3, <3>4 DEF Kept, InTime, Fed, Sent, Awake, Level, Near, Settled
    <3> QED
      BY <1>1, <2>1, <2>3, <2>4, <3>5, <3>6, LeavesFlows DEF FlowInv
  <2>7. CASE s.special = "main" /\ ~(s.print_time > Low)
    <3> DEFINE f == FlushLookahead(s)
    <3>1. Kept(f) /\ f.special = "NeedPrime" /\ Fed(f) /\ (Level(s) => Level(f))
      BY <2>4, FlushKeeps, FlushLookaheadFlows
    <3>2. r = FlushAhead(f)
      BY <2>7
    <3> HIDE DEF f, r
    <3>3. Kept(FlushAhead(f)) /\ Fed(FlushAhead(f)) /\ Awake(FlushAhead(f))
          /\ (Level(f) => Level(FlushAhead(f)))
      BY <3>1, FlushAheadKeeps, FlushAheadFlows
    <3> QED
      BY <1>1, <2>1, <2>3, <2>4, <3>1, <3>2, <3>3, LeavesFlows DEF FlowInv
  <2> QED
    BY <2>5, <2>6, <2>7
<1>4. ASSUME IdleTimer PROVE FlowInv'
  <2>1. at' = at
    BY <1>4 DEF IdleTimer
  <2>2. CASE th' = th
    BY <1>1, <2>1, <2>2 DEF FlowInv
  <2>3. CASE th' = [IdleScript(th) EXCEPT !.sync = NEVER] /\ at = "idle"
    <3> DEFINE i == IdleScript(th)
    <3>1. Short \in Int
      BY Delays
    <3> DEFINE a == LastMove(Dwelling(th, Short))
    <3>2. Kept(Dwelling(th, Short)) /\ Fed(Dwelling(th, Short)) /\ Awake(Dwelling(th, Short))
      BY <1>1, <2>3, <3>1, DwellingKeeps, DwellingFlows
    <3>3. Kept(a) /\ Fed(a) /\ Awake(a)
      BY <3>2, LastMoveKeeps, LastMoveFlows
    <3> HIDE DEF a
    <3>4. Kept(Dwelling(a, Short)) /\ Fed(Dwelling(a, Short)) /\ Awake(Dwelling(a, Short))
      BY <3>1, <3>3, DwellingKeeps, DwellingFlows
    <3>5. Kept(i) /\ Fed(i) /\ Awake(i)
      BY <3>4, LastMoveKeeps, LastMoveFlows DEF IdleScript, a
    <3> HIDE DEF i
    <3>6. /\ th' \in Head /\ Alike(i, th') /\ th'.special = i.special
          /\ th'.print_time = i.print_time /\ th'.last_flush = i.last_flush
          /\ th'.min_restart = i.min_restart
      BY <2>3, <3>5, NoTimes DEF Kept, Head, Alike, i
    <3>7. Fed(th') /\ Awake(th')
      BY <3>5, <3>6, StaysFed DEF Kept
    <3> QED
      BY <2>1, <2>3, <3>7 DEF FlowInv
  <2> QED
    BY <1>4, <2>2, <2>3 DEF IdleTimer, CheckIdle, CheckReady, Transition
<1> QED
  BY <1>2, <1>3, <1>4 DEF Timers

\* As time passes a timer comes nearer, and so does what it was set for; a homing move
\* waits only while the time line is further ahead than DripAhead.
LEMMA TickFlows ==
  ASSUME HeadInv, FlowInv, Tick
  PROVE  FlowInv'
<1> DEFINE p == Sinks(th.print_time, 0)
           g == Sinks(th.step_gen, 0)
           f == Sinks(th.last_flush, KinDelay)
           m == Sinks(th.min_restart, KinDelay)
           n == Sinks(th.need_flush, KinDelay + FlushExtra)
           x == Passes(th.flush_timer)
<1>1. /\ th \in Head /\ th.print_time \in Int /\ th.last_flush \in Int
      /\ th.min_restart \in Int /\ th.need_flush \in Int /\ th.step_gen \in Int
      /\ th.flush_timer \in SUBSET Int
  <2>1. th \in Head
    BY DEF HeadInv, Kept
  <2> QED
    BY <2>1, Times
<1>2. /\ KinDelay \in Nat /\ StepFlush \in Nat /\ FlushExtra \in Nat /\ Past \in Nat
      /\ FlushLow \in Nat /\ DripTime \in Nat
  BY Delays
<1>3. /\ th'.print_time = p /\ th'.step_gen = g /\ th'.last_flush = f
      /\ th'.min_restart = m /\ th'.need_flush = n /\ th'.flush_timer = x
      /\ th'.special = th.special /\ th'.kick = th.kick
      /\ at' = at /\ ~Due(th.flush_timer) /\ (at = "dripping" => DripWaits(th))
  BY <1>1 DEF Tick, Head
<1>4. /\ p \in Int /\ f \in Int /\ m \in Int /\ n \in Int /\ g \in Int
      /\ th.last_flush - 1 <= f
  BY <1>1, <1>2 DEF Sinks, Larger
<1>5. Sent(th) => n <= f
  BY <1>1, <1>2 DEF Sent, Sinks, Larger
<1>6. th.need_flush <= th.step_gen => n <= g
  BY <1>1, <1>2 DEF Sinks, Larger
<1>7. Near(th) => p - KinDelay - StepFlush <= f
  BY <1>1, <1>2 DEF Near, Sinks, Larger
<1>8. Settled(th) => m <= Larger(f, p - KinDelay)
  BY <1>1, <1>2 DEF Settled, Sinks, Larger
<1>9. Level(th) => Level(th')
  BY <1>3, <1>7, <1>8 DEF Level, Near, Settled
<1> HIDE DEF p, g, f, m, n, x
<1>10. CASE at = "dripping"
  <2>1. /\ th.print_time > DripAhead
        /\ Sent(th) \/ th.print_time - DripAhead < th.last_flush
    BY <1>3, <1>10 DEF FlowInv, Unwatched, DripWaits
  <2>2. p = th.print_time - 1
    BY <1>1, <1>2, <2>1, Order DEF p, Sinks, Larger
  <2>3. DripAhead <= p /\ (Sent(th) \/ p - DripAhead < f)
    BY <1>1, <1>4, <2>1, <2>2, Order
  <2>4. x = Off
    BY <1>10 DEF FlowInv, Unwatched, x, Passes, Off
  <2> QED
    BY <1>3, <1>5, <1>6, <1>10, <2>3, <2>4 DEF FlowInv, Unwatched, Sent
<1>11. CASE at # "dripping"
  <2>1. Fed(th) /\ Awake(th)
    BY <1>11 DEF FlowInv
  <2>2. ~th.kick => /\ \E t \in x : t + FlushLow <= f
                    /\ Reserve <= f
    <3> SUFFICES ASSUME ~th.kick
                 PROVE  (\E t \in x : t + FlushLow <= f) /\ Reserve <= f
      OBVIOUS
    <3>1. PICK t \in th.flush_timer : t <= 0 \/ t + FlushLow <= th.last_flush
      BY <2>1 DEF Awake
    <3>2. t \in Int /\ t > 0 /\ t + FlushLow <= th.last_flush
      BY <1>1, <1>3, <3>1 DEF Due
    <3>3. Larger(t - 1, -Past) = t - 1
      BY <1>2, <3>2 DEF Larger
    <3>4. t - 1 \in x
      BY <3>1, <3>3 DEF x, Passes
    <3>5. t - 1 + FlushLow <= f /\ Reserve <= f
      BY <1>1, <1>2, <1>4, <3>2, Order
    <3> QED
      BY <3>4, <3>5
  <2>3. Fed(th')
    <3>1. th.special # "Drip" /\ th.need_flush <= th.step_gen
          /\ (Sent(th) \/ ~th.kick)
          /\ (th.special = "main" => ~th.kick /\ Near(th))
      BY <2>1 DEF Fed
    <3> QED
      BY <1>3, <1>5, <1>6, <1>7, <2>2, <3>1 DEF Fed, Sent, Near
  <2>4. Awake(th')
    BY <1>3, <2>2 DEF Awake
  <2> QED
    BY <1>3, <1>9, <1>11, <2>3, <2>4 DEF FlowInv
<1> QED
  BY <1>10, <1>11

\* The tool head's timers and the command inside the mutex keep pace with the boards,
\* for all delays in the order of the code's.
THEOREM FlowInvariant == Spec => []FlowInv
<1>1. Init => FlowInv
  <2> SUFFICES ASSUME Init PROVE FlowInv
    OBVIOUS
  <2>1. /\ at = "idle" /\ th.special = "NeedPrime" /\ th.kick
        /\ th.need_flush = -Past - KinDelay /\ th.last_flush = -Past - KinDelay
        /\ th.step_gen = -Past
    BY DEF Init
  <2> QED
    BY <2>1, Delays DEF FlowInv, Fed, Awake, Sent
<1>2. HeadInv /\ FlowInv /\ [Next]_vars => FlowInv'
  <2> SUFFICES ASSUME HeadInv, FlowInv, [Next]_vars PROVE FlowInv'
    OBVIOUS
  <2>1. CASE Commands
    BY <2>1, CommandsFlow
  <2>2. CASE Command
    BY <2>2, CommandFlows
  <2>3. CASE DripHit
    <3>1. Kept(th) /\ th.need_flush <= th.step_gen
      BY <2>3 DEF DripHit, HeadInv, FlowInv, Unwatched
    <3>2. Kept(DripEnds(th)) /\ Fed(DripEnds(th)) /\ Awake(DripEnds(th))
      BY <3>1, DripEndsKeeps, DripEndsFlows
    <3> QED
      BY <2>3, <3>2, LeavesFlows DEF DripHit, FlowInv
  <2>4. CASE Timers
    BY <2>4, TimersFlow
  <2>5. CASE Tick
    BY <2>5, TickFlows
  <2>6. CASE Shutdown
    <3>1. /\ th'.special = th.special /\ Alike(th, th') /\ th'.print_time = th.print_time
          /\ th'.last_flush = th.last_flush /\ th'.min_restart = th.min_restart
          /\ at' = at
      BY <2>6 DEF Shutdown, HeadInv, Kept, Head, Alike
    <3> QED
      BY <3>1 DEF FlowInv, Unwatched, Fed, Awake, Level, Near, Settled, Sent, Alike
  <2>7. CASE Leave
    BY <2>7 DEF Leave, FlowInv
  <2>8. CASE UNCHANGED vars
    BY <2>8 DEF vars, FlowInv
  <2> QED
    BY <2>1, <2>2, <2>3, <2>4, <2>5, <2>6, <2>7, <2>8 DEF Next
<1> QED
  BY <1>1, <1>2, HeadInvariant, PTL DEF Spec

\* The boards have the steps of every moment that has come, or there are none.
THEOREM BoardsHaveSteps == Spec => []StepsAreAhead
<1>1. HeadInv /\ FlowInv => StepsAreAhead
  <2> SUFFICES ASSUME HeadInv, FlowInv PROVE StepsAreAhead
    OBVIOUS
  <2>1. th.print_time \in Int /\ th.last_flush \in Int /\ th.need_flush \in Int
    BY Times DEF HeadInv, Kept
  <2>2. Sent(th) \/ 0 < th.last_flush
    <3>1. CASE at = "dripping"
      <4>1. DripAhead <= th.print_time
            /\ (Sent(th) \/ th.print_time - DripAhead < th.last_flush)
        BY <3>1 DEF FlowInv, Unwatched
      <4> QED
        BY <2>1, <4>1, Order
    <3>2. CASE at # "dripping"
      <4>1. Sent(th) \/ Reserve <= th.last_flush
        BY <3>2 DEF FlowInv, Fed
      <4> QED
        BY <2>1, <4>1, Order
    <3> QED
      BY <3>1, <3>2
  <2> QED
    BY <2>1, <2>2 DEF StepsAreAhead, Sent
<1> QED
  BY <1>1, HeadInvariant, FlowInvariant, PTL
=============================================================================
