----------------------------- MODULE MoveQueue -----------------------------
(***************************************************************************)
(* The time line of the tool head (klippy/toolhead.py) and the idle        *)
(* time-out (extras/idle_timeout.py).  Commands append moves to a          *)
(* look-ahead queue; the moves are put on a time line that must stay ahead *)
(* of the boards, and steps are generated and sent a little ahead of them  *)
(* by whoever comes by: the command, the flush timer, the priming timer.   *)
(*                                                                         *)
(* Every time is relative to the boards' clock (estimated print time), in  *)
(* instants of a quarter second or so: a time that was reached Past or     *)
(* more instants ago is -Past.  One command at a time is inside the G-code *)
(* mutex.  The host keeps up: a timer that is due is run in its instant.   *)
(***************************************************************************)
EXTENDS Integers

CONSTANTS
  KinDelay,     \* kin_flush_delay
  StepFlush,    \* STEPCOMPRESS_FLUSH_TIME
  MinKin,       \* MIN_KIN_TIME
  Start,        \* BUFFER_TIME_START
  Low,          \* BUFFER_TIME_LOW
  High,         \* BUFFER_TIME_HIGH
  FlushLow,     \* BGFLUSH_LOW_TIME
  FlushBatch,   \* BGFLUSH_BATCH_TIME
  FlushExtra,   \* BGFLUSH_EXTRA_TIME
  DripTime,     \* DRIP_TIME
  Short,        \* the 0.1 s of _check_pause and of DISABLE_STALL_TIME
  Second,       \* 1 s
  ReadyTimeout, \* READY_TIMEOUT
  IdleTimeout,  \* idle_timeout
  Moves,        \* the times that moves take
  Dwells,       \* the times that G4 asks for
  MaxQueue,     \* bound: the time that the moves of the queue take together
  MaxAhead,     \* bound: a command is sent when the time line is not further ahead
  Past          \* bound: how long ago is told apart

ASSUME MoveQueueAssumption ==
  /\ \A c \in {KinDelay, StepFlush, MinKin, Start, Low, High, FlushLow, FlushBatch,
               FlushExtra, DripTime, Short, Second, ReadyTimeout, IdleTimeout, Past} : c \in Nat
  /\ Moves \subseteq Nat \ {0} /\ Dwells \subseteq Nat /\ MaxQueue \in Nat /\ MaxAhead \in Nat

\* The order of the code's delays (0.2, 0.5, 0.5, 1 and 0.1 s against the few hundredths
\* of kin_flush_delay and STEPCOMPRESS_FLUSH_TIME).
ASSUME DelaysInOrder ==
  /\ MinKin + KinDelay <= Start /\ KinDelay + StepFlush < Start
  /\ FlushLow > 0 /\ KinDelay + StepFlush + FlushLow <= Low
  /\ DripTime > 0 /\ Start < FlushLow + DripTime + StepFlush + KinDelay

NEVER == 1000   \* a time that is not reached
BEFORE == -1000 \* a need_check_pause that is always passed (-1 in the code)

\* A timer is the set of the time it is set for; reactor.NEVER, and None, are Off.
Off == {}
At(t) == {t}
Due(timer) == \E t \in timer : t <= 0

VARIABLES
  th,           \* the attributes of ToolHead, see Head
  at,           \* where the command inside the mutex is
  until,        \* dripping: when the move ends; holding: the next look
  state,        \* IdleTimeout.state
  idle_timer,   \* IdleTimeout.timeout_timer
  hot,          \* a heater has a target
  quiet,        \* nobody sends another command
  is_shutdown   \* Printer.in_shutdown_state

idle == <<state, idle_timer>>
vars == <<th, at, until, idle, hot, quiet, is_shutdown>>

Head == [
  print_time : Int,        \* the end of what has been put on the time line
  special : {"NeedPrime", "Priming", "main", "Drip"},  \* special_queuing_state
  need_check_pause : Int,
  last_flush : Int,        \* last_flush_time: steps up to there have been sent
  min_restart : Int,       \* min_restart_time: steps up to there are generated
  need_flush : Int,        \* need_flush_time: steps up to there are to be sent
  step_gen : Int,          \* step_gen_time
  kick : BOOLEAN,          \* do_kick_flush_timer
  flush_timer : SUBSET Int,
  priming_timer : SUBSET Int,
  can_pause : BOOLEAN,
  queue : Nat,             \* the time that the moves of the look-ahead queue take
  sync : Int,              \* the print time of a sync_print_time event, or NEVER
  late : BOOLEAN]          \* history: a move began before steps already generated

Places == {"idle", "pausing", "before drip", "dripping", "waiting", "holding"}

TypeOK ==
  /\ th \in Head /\ at \in Places /\ until \in Int
  /\ state \in {"Idle", "Printing", "Ready"} /\ idle_timer \in SUBSET Int
  /\ hot \in BOOLEAN /\ quiet \in BOOLEAN /\ is_shutdown \in BOOLEAN

Larger(a, b) == IF a < b THEN b ELSE a
Smaller(a, b) == IF a < b THEN a ELSE b

\* Just ready: the boards' clocks have run for a while.
Init ==
  /\ th = [print_time |-> -Past, special |-> "NeedPrime", need_check_pause |-> BEFORE,
           last_flush |-> -Past - KinDelay, min_restart |-> -Past - KinDelay,
           need_flush |-> -Past - KinDelay, step_gen |-> -Past, kick |-> TRUE, flush_timer |-> Off,
           priming_timer |-> Off, can_pause |-> TRUE, queue |-> 0,
           sync |-> NEVER, late |-> FALSE]
  /\ at = "idle" /\ until = NEVER
  /\ state = "Idle" /\ idle_timer = Off
  /\ hot = FALSE /\ quiet = FALSE /\ is_shutdown = FALSE

-----------------------------------------------------------------------------
(* The methods of ToolHead that do not yield, as functions of its state.     *)

\* _advance_flush_time: generate steps a little beyond t, and send those up to t.
AdvanceFlush(s, t) ==
  LET flush == Larger(t, s.last_flush)
      steps == Larger(Smaller(flush + StepFlush, s.print_time - KinDelay), flush)
  IN  [s EXCEPT !.last_flush = flush, !.min_restart = Larger(@, steps)]

\* _advance_move_time; its batches come to the same.
AdvanceMove(s, t) ==
  LET delay == KinDelay + StepFlush
      end == Larger(s.print_time, t)
  IN  AdvanceFlush([s EXCEPT !.print_time = end],
                   Larger(Larger(s.last_flush, s.print_time - delay), end - delay))

\* Mutant: steps that have been generated already are not looked at.
CalcNow(s) ==
  LET least == Larger(Start, MinKin + KinDelay)
  IN  IF least > s.print_time
      THEN [s EXCEPT !.print_time = least, !.sync = IF @ = NEVER THEN least ELSE @]
      ELSE s

\* _calc_print_time: move the time line ahead of the clock and of the steps.
Calc(s) ==
  LET least == Larger(Start, Larger(MinKin, s.min_restart) + KinDelay)
  IN  IF least > s.print_time
      THEN [s EXCEPT !.print_time = least, !.sync = IF @ = NEVER THEN least ELSE @]
      ELSE s

\* note_mcu_movequeue_activity.
Note(s, t) ==
  [s EXCEPT !.need_flush = Larger(@, t), !.step_gen = Larger(@, t), !.kick = FALSE,
            !.flush_timer = IF s.kick THEN At(0) ELSE @]

\* The start of _process_moves: resynchronise, unless in the main state.
Resync(s) ==
  CASE s.special = "main" -> s
    [] s.special = "Drip" -> Calc(s)
    [] OTHER -> Calc([s EXCEPT !.special = "main", !.need_check_pause = BEFORE])

\* A move that begins before steps already generated cannot be made.
Begins(s) == [s EXCEPT !.late = @ \/ s.print_time < s.min_restart + KinDelay]

\* _process_moves for moves that take t together, but not in the Drip state.
Process(s, t) ==
  LET r == Begins(Resync(s))
      end == r.print_time + t
  IN  AdvanceMove(Note(r, end + KinDelay), end)

\* LookAheadQueue.flush.
FlushQueue(s) == IF s.queue = 0 THEN s ELSE Process([s EXCEPT !.queue = 0], s.queue)

\* _flush_lookahead.
FlushLookahead(s) ==
  [FlushQueue(s) EXCEPT !.special = "NeedPrime", !.need_check_pause = BEFORE]

\* flush_step_generation.
FlushSteps(s) ==
  LET r == FlushLookahead(s)
      f == AdvanceFlush(r, r.step_gen)
  IN  [f EXCEPT !.min_restart = Larger(@, f.print_time)]

\* get_last_move_time.
LastMove(s) == IF s.special = "main" THEN FlushQueue(s) ELSE Calc(FlushLookahead(s))

\* Mutant: the priming timer is left as it is.
CheckPauseUnprimed(s) ==
  IF s.special = "main" THEN s
  ELSE [s EXCEPT !.special = "Priming", !.need_check_pause = BEFORE]

\* _check_pause, up to its loop.
CheckPauseStarts(s) ==
  IF s.special = "main" THEN s
  ELSE [s EXCEPT !.special = "Priming", !.need_check_pause = BEFORE,
                 !.priming_timer = At(Larger(Short, s.print_time - Low))]

\* The loop, when it is left, and what comes after it.
MustPause(s) == s.print_time > High /\ s.can_pause
CheckPauseEnds(s) ==
  IF s.print_time > High THEN [s EXCEPT !.need_check_pause = NEVER]
  ELSE IF s.special = "main" THEN [s EXCEPT !.need_check_pause = High + Short]
  ELSE s

\* dwell, up to the loop of _check_pause.
Dwelling(s, t) == LET r == LastMove(s) IN CheckPauseStarts(AdvanceMove(r, r.print_time + t))

-----------------------------------------------------------------------------
(* A step leaves the tool head in the state s; a sync_print_time event on its *)
(* way is handled by the idle time-out (its times are swapped on the way, so  *)
(* that the timer comes early).                                               *)

Leaves(s) ==
  /\ th' = [s EXCEPT !.sync = NEVER]
  /\ IF s.sync # NEVER /\ state # "Printing"
     THEN state' = "Printing" /\ idle_timer' = At(ReadyTimeout - s.sync)
     ELSE UNCHANGED idle

\* ... and, at the end of a command or of a part of it, in _check_pause.
LeavesInCheckPause(s, place) ==
  IF MustPause(s) THEN Leaves(s) /\ at' = place ELSE Leaves(CheckPauseEnds(s)) /\ at' = "idle"

\* A command starts when nobody is inside the mutex.
Begin == at = "idle" /\ ~quiet /\ ~is_shutdown /\ th.print_time <= MaxAhead

\* move: append to the queue; when there is enough in it, flush a part of it, but
\* not the last moves (lazy); and pause when there is plenty.
Move(t) ==
  /\ Begin /\ th.queue + t <= MaxQueue
  /\ \E part \in 0..th.queue :
       LET kept == th.queue + t - part
           s == IF part = 0 THEN [th EXCEPT !.queue = kept]
                ELSE Process([th EXCEPT !.queue = kept], part)
       IN  IF s.print_time > s.need_check_pause
           THEN LeavesInCheckPause(CheckPauseStarts(s), "pausing")
           ELSE Leaves(s) /\ at' = "idle"
  /\ UNCHANGED <<until, hot, quiet, is_shutdown>>

\* G4.
Dwell(t) ==
  /\ Begin
  /\ LeavesInCheckPause(Dwelling(th, t), "pausing")
  /\ UNCHANGED <<until, hot, quiet, is_shutdown>>

\* M400: wait_moves.
WaitMoves ==
  /\ Begin
  /\ Leaves(FlushLookahead(th))
  /\ at' = "waiting"
  /\ UNCHANGED <<until, hot, quiet, is_shutdown>>

\* G92 of a kinematic position and the like: set_position.
SetPosition ==
  /\ Begin
  /\ Leaves(FlushSteps(th))
  /\ UNCHANGED <<at, until, hot, quiet, is_shutdown>>

\* A look of M109 at a heater that is busy: it asks for the last move's time, and
\* comes again in a second.
LooksAt(s) == Leaves(LastMove(s)) /\ at' = "holding" /\ until' = Second

\* M104: register_lookahead_callback, then the target.  M109 goes on to hold the
\* mutex, if the heater is busy or has to wait for its turn.
Heat(wait) ==
  /\ Begin
  /\ LET s == IF th.queue = 0 THEN LastMove(th) ELSE th
     IN  \/ Leaves(s) /\ UNCHANGED <<at, until>>
         \/ wait /\ LooksAt(s)
         \/ wait /\ Leaves(s) /\ at' = "holding" /\ until' = Short
  /\ hot' = TRUE
  /\ UNCHANGED <<quiet, is_shutdown>>

\* SET_IDLE_TIMEOUT.
SetIdleTimeout ==
  /\ Begin /\ state = "Ready"
  /\ idle_timer' = At(IdleTimeout)
  /\ UNCHANGED <<th, at, until, state, hot, quiet, is_shutdown>>

\* drip_move after its dwell, and its end, however it ends.
DripBegins(s) ==
  [FlushQueue(s) EXCEPT !.special = "Drip", !.need_check_pause = NEVER,
                        !.flush_timer = Off, !.kick = FALSE]
DripEnds(s) == FlushSteps([s EXCEPT !.flush_timer = At(0), !.queue = 0])

\* _update_drip_move_time up to its next wait, for a move that ends at the time
\* end: segments of one instant.
DripAhead == DripTime + StepFlush + KinDelay
DripWaits(s) == s.print_time > DripAhead /\ s.can_pause
DripLoop(s, end) ==
  IF DripWaits(s) THEN s
  ELSE LET next == IF s.can_pause THEN Smaller(end, DripAhead + 1) ELSE end
       IN  AdvanceMove(Note(s, next + KinDelay), next)

\* Send the move in pieces; when all is sent the command ends.
DripGoesOn(s, end) ==
  LET d == DripLoop(s, end)
  IN  IF d.print_time < end
      THEN Leaves(d) /\ at' = "dripping" /\ until' = end
      ELSE Leaves(DripEnds(d)) /\ at' = "idle" /\ until' = NEVER

\* The kinematics may refuse the move.
DripFrom(s, t) ==
  LET d == DripBegins(s)
      r == Begins(Resync([d EXCEPT !.queue = t]))
  IN  \/ Leaves(DripEnds(d)) /\ at' = "idle" /\ until' = NEVER
      \/ DripGoesOn(r, r.print_time + t)

\* A homing or probing move: drip_move.
DripMove(t) ==
  /\ Begin
  /\ LET s == Dwelling(th, KinDelay)
     IN  IF MustPause(s) THEN Leaves(s) /\ at' = "before drip" /\ until' = t
         ELSE DripFrom(CheckPauseEnds(s), t)
  /\ UNCHANGED <<hot, quiet, is_shutdown>>

-----------------------------------------------------------------------------
(* Commands that have paused. *)

\* The end of a pause in _check_pause.
Unpause ==
  /\ at = "pausing" /\ ~MustPause(th)
  /\ th' = CheckPauseEnds(th)
  /\ at' = "idle"
  /\ UNCHANGED <<until, idle, hot, quiet, is_shutdown>>

\* The dwell of drip_move is over.
DripStarts ==
  /\ at = "before drip" /\ ~MustPause(th)
  /\ DripFrom(CheckPauseEnds(th), until)
  /\ UNCHANGED <<hot, quiet, is_shutdown>>

\* The wait in _update_drip_move_time is over.
Drip ==
  /\ at = "dripping" /\ ~DripWaits(th)
  /\ DripGoesOn(th, until)
  /\ UNCHANGED <<hot, quiet, is_shutdown>>

\* The endstop was hit: what is left of the move is dropped.
DripHit ==
  /\ at = "dripping"
  /\ Leaves(DripEnds(th))
  /\ at' = "idle" /\ until' = NEVER
  /\ UNCHANGED <<hot, quiet, is_shutdown>>

MovesDone ==
  /\ at = "waiting"
  /\ (th.special # "main" /\ th.print_time < 0) \/ ~th.can_pause
  /\ at' = "idle"
  /\ UNCHANGED <<th, until, idle, hot, quiet, is_shutdown>>

\* M109 looks again: at a busy heater, or only for its turn (heaters.py:445-450).
HoldsOn ==
  /\ at = "holding" /\ until <= 0
  /\ \/ ~is_shutdown /\ LooksAt(th)
     \/ until' = Short /\ UNCHANGED <<th, idle, at>>
  /\ UNCHANGED <<hot, quiet, is_shutdown>>

\* It finds the heater settled: the command ends.
Held ==
  /\ at = "holding" /\ until <= 0
  /\ at' = "idle" /\ until' = NEVER
  /\ UNCHANGED <<th, idle, hot, quiet, is_shutdown>>

-----------------------------------------------------------------------------
(* The timers. *)

PrimingTimer ==
  /\ Due(th.priming_timer)
  /\ LET s == [th EXCEPT !.priming_timer = Off]
     IN  Leaves(IF s.special = "Priming" THEN FlushLookahead(s) ELSE s)
  /\ UNCHANGED <<at, until, hot, quiet, is_shutdown>>

\* Mutant: the background flush looks no further than the moment.
FlushAheadNone(s) ==
  IF s.last_flush >= s.need_flush + FlushExtra
  THEN [s EXCEPT !.kick = TRUE, !.flush_timer = Off]
  ELSE IF s.last_flush > 0 THEN [s EXCEPT !.flush_timer = At(s.last_flush)]
  ELSE LET f == AdvanceFlush(s, Smaller(s.need_flush + FlushExtra, FlushBatch))
       IN  IF f.last_flush >= f.need_flush + FlushExtra
           THEN [f EXCEPT !.kick = TRUE, !.flush_timer = Off]
           ELSE [f EXCEPT !.flush_timer = At(f.last_flush)]

\* The loop of _flush_handler: send what is due soon, one batch at most, and come
\* back for more.
FlushedUp(s) == s.last_flush >= s.need_flush + FlushExtra
NextFlush(s) ==
  IF FlushedUp(s) THEN [s EXCEPT !.kick = TRUE, !.flush_timer = Off]
  ELSE [s EXCEPT !.flush_timer = At(s.last_flush - FlushLow)]

FlushAhead(s) ==
  IF FlushedUp(s) \/ s.last_flush > FlushLow THEN NextFlush(s)
  ELSE NextFlush(AdvanceFlush(s, Smaller(s.need_flush + FlushExtra, FlushLow + FlushBatch)))

\* _flush_handler: in the main state the look-ahead queue is flushed only when
\* the time line runs low.
FlushTimer ==
  /\ Due(th.flush_timer)
  /\ LET s == [th EXCEPT !.flush_timer = Off]
     IN  Leaves(IF s.special # "main" THEN FlushAhead(s)
                ELSE IF s.print_time > Low
                THEN [s EXCEPT !.flush_timer = At(s.print_time - Low)]
                ELSE FlushAhead(FlushLookahead(s)))
  /\ UNCHANGED <<at, until, hot, quiet, is_shutdown>>

\* The idle script turns the heaters and the motors off; it is run inside the
\* mutex and does not pause.
IdleScript(s) == LastMove(Dwelling(LastMove(Dwelling(s, Short)), Short))

\* Mutant: a failed script is not tried again.
TransitionOnce ==
  \/ /\ hot' = FALSE /\ state' = "Idle" /\ idle_timer' = Off
     /\ th' = [IdleScript(th) EXCEPT !.sync = NEVER]
  \/ /\ hot' \in {hot, FALSE} /\ state' = "Ready" /\ idle_timer' = Off /\ UNCHANGED th

\* transition_idle_state: the script may fail, before or after the heaters are off.
Transition ==
  \/ /\ hot' = FALSE /\ state' = "Idle" /\ idle_timer' = Off
     /\ th' = [IdleScript(th) EXCEPT !.sync = NEVER]
  \/ /\ hot' \in {hot, FALSE} /\ state' = "Ready" /\ idle_timer' = At(Second) /\ UNCHANGED th

\* check_idle_timeout.
CheckIdle ==
  /\ state = "Ready"
  /\ LET idle_time == -th.print_time
         later == CASE th.queue > 0 \/ idle_time < Second -> IdleTimeout
                    [] idle_time < IdleTimeout -> IdleTimeout - idle_time
                    [] OTHER -> Second
         busy == th.queue > 0 \/ idle_time < Larger(Second, IdleTimeout) \/ at # "idle"
     IN  \/ busy /\ idle_timer' = At(later) /\ UNCHANGED <<th, state, hot>>
         \/ ~busy /\ Transition

\* The rest of timeout_handler: from printing to ready.
CheckReady ==
  /\ state # "Ready"
  /\ LET buffer == Smaller(2 * Second, th.print_time)
     IN  IF th.queue > 0
         THEN idle_timer' = At(ReadyTimeout + Larger(0, buffer)) /\ UNCHANGED state
         ELSE IF buffer > -ReadyTimeout
         THEN idle_timer' = At(ReadyTimeout + buffer) /\ UNCHANGED state
         ELSE IF at # "idle"
         THEN idle_timer' = At(ReadyTimeout) /\ UNCHANGED state
         ELSE idle_timer' = At(IdleTimeout) /\ state' = "Ready"
  /\ UNCHANGED <<th, hot>>

IdleTimer ==
  /\ Due(idle_timer)
  /\ IF is_shutdown THEN idle_timer' = Off /\ UNCHANGED <<th, state, hot>>
     ELSE CheckIdle \/ CheckReady
  /\ UNCHANGED <<at, until, quiet, is_shutdown>>

-----------------------------------------------------------------------------
(* Time, and the world outside. *)

\* The floors keep the times of the tool head in their order.
Passes(timer) == {Larger(t - 1, -Past) : t \in timer}
Sinks(t, depth) == Larger(t - 1, -Past - depth)

\* An instant passes, if no timer is due.
Tick ==
  /\ ~Due(th.flush_timer) /\ ~Due(th.priming_timer) /\ ~Due(idle_timer)
  /\ at = "dripping" => DripWaits(th)
  /\ at = "holding" => until > 0
  /\ th' = [th EXCEPT
       !.print_time = Sinks(@, 0), !.step_gen = Sinks(@, 0),
       !.last_flush = Sinks(@, KinDelay), !.min_restart = Sinks(@, KinDelay),
       !.need_flush = Sinks(@, KinDelay + FlushExtra),
       !.need_check_pause = IF @ \in {NEVER, BEFORE} THEN @ ELSE Sinks(@, 0),
       !.flush_timer = Passes(@), !.priming_timer = Passes(@)]
  /\ idle_timer' = Passes(idle_timer)
  /\ until' = IF at \in {"dripping", "holding"} THEN Sinks(until, 0) ELSE until
  /\ UNCHANGED <<at, state, hot, quiet, is_shutdown>>

\* _handle_shutdown.
Shutdown ==
  /\ ~is_shutdown /\ is_shutdown' = TRUE
  /\ th' = [th EXCEPT !.can_pause = FALSE, !.queue = 0]
  /\ UNCHANGED <<at, until, idle, hot, quiet>>

Leave == ~quiet /\ quiet' = TRUE /\ UNCHANGED <<th, at, until, idle, hot, is_shutdown>>

Commands ==
  \/ \E t \in Moves : Move(t) \/ DripMove(t)
  \/ \E t \in Dwells : Dwell(t)
  \/ WaitMoves \/ SetPosition \/ SetIdleTimeout
  \/ \E wait \in BOOLEAN : Heat(wait)

Command == Unpause \/ DripStarts \/ Drip \/ MovesDone \/ HoldsOn \/ Held
Timers == PrimingTimer \/ FlushTimer \/ IdleTimer

Next == Commands \/ Command \/ DripHit \/ Timers \/ Tick \/ Shutdown \/ Leave

Spec == Init /\ [][Next]_vars

\* When each of these is enabled.
TimerDue == Due(th.flush_timer) \/ Due(th.priming_timer) \/ Due(idle_timer)
LookDue == at = "holding" /\ until <= 0
CommandReady ==
  \/ at \in {"pausing", "before drip"} /\ ~MustPause(th)
  \/ at = "dripping" /\ ~DripWaits(th)
  \/ at = "waiting" /\ ((th.special # "main" /\ th.print_time < 0) \/ ~th.can_pause)
  \/ LookDue
ScriptReady ==
  /\ Due(idle_timer) /\ state = "Ready" /\ ~is_shutdown
  /\ th.queue = 0 /\ -th.print_time >= Larger(IdleTimeout, Second) /\ at = "idle"
ScriptRuns == IdleTimer /\ state' = "Idle"

\* The reactor runs what is due, time passes, the heater that M109 looks at again and
\* again is once settled, and the idle script, when it is tried again and again, once
\* succeeds: weak fairness of Timers and Command and strong fairness of Held and
\* ScriptRuns, spelt out.
FairSpec ==
  /\ Spec
  /\ WF_vars(Tick)
  /\ []<>~TimerDue \/ []<><<Timers>>_vars
  /\ []<>~CommandReady \/ []<><<Command>>_vars
  /\ <>[]~LookDue \/ []<><<Held>>_vars
  /\ <>[]~ScriptReady \/ []<><<ScriptRuns>>_vars

-----------------------------------------------------------------------------
(* Properties. *)

\* No move is put on the time line before steps that are generated already,
\* whatever has moved the time line, or flushed, before it.
MovesStartInTime == ~th.late

\* The boards have the steps of every moment that has come, or there are none.
StepsAreAhead == th.last_flush > 0 \/ th.last_flush >= th.need_flush

\* When nobody sends another command, the last one ends, every move of the queue is
\* made and all its steps are sent, although no command comes to push them.
MovesAreMade == quiet ~> (at = "idle" /\ th.queue = 0 /\ th.last_flush >= th.need_flush)

\* A printer that is left alone turns its heaters off, unless it is shut down, or
\* the idle time-out has not noticed that it is in use.
HeatersGoOff == (quiet /\ hot /\ state # "Idle") ~> (~hot \/ is_shutdown)
=============================================================================
