-------------------------- MODULE TriggerDispatch --------------------------
(***************************************************************************)
(* Homing moves whose motors sit on several boards: TriggerDispatch and    *)
(* MCU_trsync of klippy/mcu.py with chelper/trdispatch.c.  Each board has  *)
(* a trsync that stops its motors when triggered, and by itself when its   *)
(* time-out runs out.  The host moves each board's time-out along with the *)
(* reports of the OTHER boards, and passes on a trigger that any of them   *)
(* reports, so that all stop together whatever link falls silent.          *)
(*                                                                         *)
(* A link delivers in order and late without bound; one that has broken    *)
(* delivers nothing more.  The boards' clocks are taken as estimated       *)
(* exactly.  Three threads of the host meet here: the one that reads the   *)
(* serial port (fast readers), the one that handles responses, and the     *)
(* greenlet that homes.                                                    *)
(***************************************************************************)
EXTENDS Integers, Sequences, FiniteSets

CONSTANTS
  Boards,       \* the boards with a trsync
  First,        \* the one with the endstop: _trsyncs[0]
  Nobody,       \* not a board
  Expire,       \* expire_ticks
  Report,       \* report_ticks
  Extend,       \* min_extend_ticks
  MaxTime,      \* bound: the last instant
  MaxRounds     \* bound: homing moves

ASSUME TriggerAssumption ==
  /\ IsFiniteSet(Boards) /\ First \in Boards /\ Nobody \notin Boards
  /\ Expire \in Nat \ {0} /\ Report \in Nat \ {0} /\ Extend \in Nat
  /\ MaxTime \in Nat /\ MaxRounds \in Nat

VARIABLES
  now,          \* the time
  can_trigger,  \* board: the trsync has not been triggered
  reason,       \* board: trigger_reason
  expire,       \* board: when it stops by itself
  next_report,  \* board: when it reports next
  homing,       \* board: the endstop is watched
  stopped_at,   \* history: when the board was triggered last
  board_round,  \* history: the homing move the board was last started for
  commands,     \* link: commands on the way to each board
  reports,      \* link: reports on the way from each board
  responses,    \* host: reports not yet handled by the second thread
  is_active,    \* trdispatch: the fast readers are registered
  td_can_trigger, \* trdispatch.can_trigger
  last_status,  \* trdispatch_mcu.last_status_clock
  expire_clock, \* trdispatch_mcu.expire_clock
  at,           \* where the greenlet that homes is
  round,        \* how many homing moves have been started
  listening,    \* MCU_trsync._trigger_completion is set
  completed,    \* the trigger completion has a result
  home_end,     \* _home_end_clock of the first trsync, or NEVER
  left,         \* the trsyncs that stop() has still to ask
  asked,        \* the one it waits for
  results,      \* the reasons that stop() has been answered
  outcome       \* what the last homing move ended with

board == <<can_trigger, reason, expire, next_report, homing, stopped_at, board_round>>
link == <<commands, reports>>
td == <<is_active, td_can_trigger, last_status, expire_clock>>
host == <<at, round, listening, completed, home_end, left, asked, results, outcome>>
vars == <<now, board, link, responses, td, host>>

NEVER == MaxTime + 1
Places == {"idle", "starting", "moving", "waiting", "stopping"}
Reasons == {"none", "hit", "host", "past end", "timeout"}

Command == [do : {"start", "timeout"}, clock : Nat]
           \cup [do : {"home"}, on : BOOLEAN] \cup [do : {"trigger", "query"}, reason : Reasons]
State == [can_trigger : BOOLEAN, reason : Reasons, clock : Nat, answer : BOOLEAN]

Init ==
  /\ now = 0
  /\ can_trigger = [b \in Boards |-> FALSE] /\ reason = [b \in Boards |-> "none"]
  /\ expire = [b \in Boards |-> 0] /\ next_report = [b \in Boards |-> 0]
  /\ homing = FALSE
  /\ stopped_at = [b \in Boards |-> 0] /\ board_round = [b \in Boards |-> 0]
  /\ commands = [b \in Boards |-> <<>>] /\ reports = [b \in Boards |-> <<>>]
  /\ responses = [b \in Boards |-> <<>>]
  /\ is_active = FALSE /\ td_can_trigger = FALSE
  /\ last_status = [b \in Boards |-> 0] /\ expire_clock = [b \in Boards |-> 0]
  /\ at = "idle" /\ round = 0
  /\ listening = [b \in Boards |-> FALSE] /\ completed = FALSE
  /\ home_end = NEVER /\ left = {} /\ asked = Nobody
  /\ results = [b \in Boards |-> "none"] /\ outcome = "none"

Send(b, command) == commands' = [commands EXCEPT ![b] = Append(@, command)]
Trigger(why) == [do |-> "trigger", reason |-> why]

-----------------------------------------------------------------------------
(* The boards (external: as the host's use of the commands implies). *)

\* The trsync is triggered, if it can be, and says so in any case.
Stops(b, why, answer) ==
  LET fresh == can_trigger[b]
      because == IF fresh THEN why ELSE reason[b]
  IN  /\ can_trigger' = [can_trigger EXCEPT ![b] = FALSE]
      /\ reason' = [reason EXCEPT ![b] = because]
      /\ stopped_at' = IF fresh THEN [stopped_at EXCEPT ![b] = now] ELSE stopped_at
      /\ reports' = [reports EXCEPT ![b] = Append(@,
           [can_trigger |-> FALSE, reason |-> because, clock |-> now, answer |-> answer])]
      /\ UNCHANGED <<expire, next_report, board_round>>

\* trsync_start with stepper_stop_on_trigger and the first time-out: the steps
\* of the move come behind them on the same link.
BoardStarts(b, clock) ==
  /\ can_trigger' = [can_trigger EXCEPT ![b] = TRUE]
  /\ reason' = [reason EXCEPT ![b] = "none"]
  /\ expire' = [expire EXCEPT ![b] = clock]
  /\ next_report' = [next_report EXCEPT ![b] = now]
  /\ board_round' = [board_round EXCEPT ![b] = @ + 1]
  /\ UNCHANGED <<stopped_at, homing, reports>>

Obey(b) ==
  /\ commands[b] # <<>>
  /\ commands' = [commands EXCEPT ![b] = Tail(@)]
  /\ LET c == Head(commands[b]) IN
       \/ c.do = "start" /\ BoardStarts(b, c.clock)
       \/ /\ c.do = "timeout"
          /\ expire' = [expire EXCEPT ![b] = c.clock]
          /\ UNCHANGED <<can_trigger, reason, next_report, homing, stopped_at, board_round, reports>>
       \/ /\ c.do = "home"
          /\ homing' = c.on
          /\ UNCHANGED <<can_trigger, reason, expire, next_report, stopped_at, board_round, reports>>
       \/ /\ c.do \in {"trigger", "query"}
          /\ Stops(b, c.reason, c.do = "query") /\ UNCHANGED homing
  /\ UNCHANGED <<now, responses, td, host>>

\* The endstop is hit.
Hit ==
  /\ can_trigger[First] /\ homing
  /\ homing' = FALSE
  /\ Stops(First, "hit", FALSE)
  /\ UNCHANGED <<now, commands, responses, td, host>>

\* The time-out runs out.
Expires(b) ==
  /\ can_trigger[b] /\ expire[b] <= now
  /\ Stops(b, "timeout", FALSE)
  /\ UNCHANGED <<now, homing, commands, responses, td, host>>

Reports(b) ==
  /\ can_trigger[b] /\ next_report[b] <= now /\ now < expire[b]
  /\ reports' = [reports EXCEPT ![b] = Append(@,
       [can_trigger |-> TRUE, reason |-> "none", clock |-> now, answer |-> FALSE])]
  /\ next_report' = [next_report EXCEPT ![b] = now + Report]
  /\ UNCHANGED <<now, can_trigger, reason, expire, homing, stopped_at, board_round,
                 commands, responses, td, host>>

\* Time passes; the boards do in time what they have to do.
Tick ==
  /\ now < MaxTime
  /\ \A b \in Boards : can_trigger[b] => now < expire[b] /\ now < next_report[b]
  /\ now' = now + 1
  /\ UNCHANGED <<board, link, responses, td, host>>

-----------------------------------------------------------------------------
(* The thread that reads the serial port: handle_trsync_state. *)

\* Mutant: the latest report counts, not the earliest of the others.
AcknowledgedLatest(b, status) ==
  status[CHOOSE m \in Boards : \A n \in Boards : status[m] >= status[n]]

\* min_time, or next_min_time for the board that min_time is of: the earliest
\* report of the other boards.
Acknowledged(b, status) ==
  LET others == IF Boards = {b} THEN Boards ELSE Boards \ {b}
  IN  status[CHOOSE m \in others : \A n \in others : status[m] <= status[n]]

\* The boards whose time-out moves far enough to be sent.
Extended(status) ==
  {b \in Boards : Acknowledged(b, status) + Expire - expire_clock[b] >= Extend}

\* All boards still work: extend the time-outs.
Alive(b, clock) ==
  LET status == [last_status EXCEPT ![b] = clock]
      new == [m \in Boards |-> IF m \in Extended(status)
                               THEN Acknowledged(m, status) + Expire ELSE expire_clock[m]]
  IN  /\ last_status' = status
      /\ expire_clock' = new
      /\ commands' = [m \in Boards |->
           IF m \in Extended(status)
           THEN Append(commands[m], [do |-> "timeout", clock |-> new[m]]) ELSE commands[m]]
      /\ UNCHANGED td_can_trigger

\* One was triggered or timed out: trigger every board.
PassOn ==
  /\ td_can_trigger' = FALSE
  /\ commands' = [m \in Boards |-> Append(commands[m], Trigger("host"))]
  /\ UNCHANGED <<last_status, expire_clock>>

\* The fast readers are registered and have not seen a trigger.
Reads == is_active /\ td_can_trigger

\* A report arrives and is left for the second thread, which does nothing with
\* one of a board that still works, unless it is the first.
FastRead(b) ==
  /\ reports[b] # <<>>
  /\ LET m == Head(reports[b]) IN
       /\ reports' = [reports EXCEPT ![b] = Tail(@)]
       /\ responses' = IF m.can_trigger /\ b # First
                       THEN responses ELSE [responses EXCEPT ![b] = Append(@, m)]
       /\ IF ~Reads THEN UNCHANGED <<commands, td_can_trigger, last_status, expire_clock>>
          ELSE IF m.can_trigger THEN Alive(b, m.clock) ELSE PassOn
  /\ UNCHANGED <<now, board, is_active, host>>

-----------------------------------------------------------------------------
(* The thread that handles responses. *)

Popped(b) == responses' = [responses EXCEPT ![b] = Tail(@)]

\* _handle_trsync_state: a trigger completes the move, a report from after the
\* end of the move has the first board triggered.
Handle(b) ==
  /\ responses[b] # <<>> /\ ~Head(responses[b]).answer
  /\ Popped(b)
  /\ LET m == Head(responses[b]) IN
       IF ~m.can_trigger
       THEN /\ listening' = [listening EXCEPT ![b] = FALSE]
            /\ completed' = (completed \/ listening[b])
            /\ UNCHANGED <<home_end, commands>>
       ELSE IF b = First /\ m.clock >= home_end
       THEN home_end' = NEVER /\ Send(b, Trigger("past end")) /\ UNCHANGED <<listening, completed>>
       ELSE UNCHANGED <<listening, completed, home_end, commands>>
  /\ UNCHANGED <<now, board, reports, td, at, round, left, asked, results, outcome>>

\* Mutant: only the first trsync's reason counts.
EndsAsFirst(res) == res[First]

\* What TriggerDispatch.stop makes of the reasons.
EndsWith(res) ==
  IF \E b \in Boards : res[b] = "timeout" THEN "timeout" ELSE res[First]

TakeAnswer(b) ==
  /\ Popped(b)
  /\ asked' = Nobody
  /\ results' = [results EXCEPT ![b] = Head(responses[b]).reason]
  /\ IF left = {}
     THEN at' = "idle" /\ outcome' = EndsWith(results')
     ELSE UNCHANGED <<at, outcome>>
  /\ UNCHANGED <<now, board, link, td, round, listening, completed, home_end, left>>

\* Mutant: any report of a stop is taken for the answer.
AnswerOrReport(b) ==
  /\ asked = b /\ responses[b] # <<>> /\ ~Head(responses[b]).can_trigger
  /\ TakeAnswer(b)

\* The answer to the query of stop(); after the last one home_wait returns.
Answer(b) ==
  /\ asked = b /\ responses[b] # <<>> /\ Head(responses[b]).answer
  /\ TakeAnswer(b)

-----------------------------------------------------------------------------
(* The greenlet that homes. *)

\* TriggerDispatch.start, up to trdispatch_start.
Start ==
  /\ at = "idle" /\ round < MaxRounds
  /\ at' = "starting" /\ round' = round + 1
  /\ completed' = FALSE /\ home_end' = NEVER
  /\ listening' = [b \in Boards |-> TRUE]
  /\ last_status' = [b \in Boards |-> now]
  /\ expire_clock' = [b \in Boards |-> now + Expire]
  /\ commands' = [b \in Boards |-> Append(commands[b], [do |-> "start", clock |-> now + Expire])]
  /\ UNCHANGED <<now, board, reports, responses, is_active, td_can_trigger, left, asked, results, outcome>>

\* trdispatch_start, then endstop_home.
Arm ==
  /\ at = "starting"
  /\ at' = "moving" /\ is_active' = TRUE /\ td_can_trigger' = TRUE
  /\ Send(First, [do |-> "home", on |-> TRUE])
  /\ UNCHANGED <<now, board, reports, responses, last_status, expire_clock,
                 round, listening, completed, home_end, left, asked, results, outcome>>

\* The move ends, early if the trigger completion has a result: wait_end.
MoveEnds ==
  /\ at = "moving"
  /\ at' = "waiting" /\ home_end' = now
  /\ UNCHANGED <<now, board, link, responses, td, round, listening, completed, left, asked, results, outcome>>

\* The wait ends: the endstop is let go and trdispatch_stop called.
WaitEnds ==
  /\ at = "waiting" /\ completed
  /\ at' = "stopping" /\ is_active' = FALSE /\ left' = Boards
  /\ results' = [b \in Boards |-> "none"]
  /\ Send(First, [do |-> "home", on |-> FALSE])
  /\ UNCHANGED <<now, board, reports, responses, td_can_trigger, last_status, expire_clock,
                 round, listening, completed, home_end, asked, outcome>>

\* Mutant: the trigger is sent, and no answer waited for.
StopUnasked(b) ==
  /\ at = "stopping" /\ b \in left
  /\ left' = left \ {b}
  /\ listening' = [listening EXCEPT ![b] = FALSE]
  /\ at' = IF left' = {} THEN "idle" ELSE at
  /\ Send(b, Trigger("host"))
  /\ UNCHANGED <<now, board, reports, responses, td, asked, round, home_end, completed, results, outcome>>

\* MCU_trsync.stop of the next trsync: a trigger that has to be answered.
Stop(b) ==
  /\ at = "stopping" /\ asked = Nobody /\ b \in left
  /\ asked' = b /\ left' = left \ {b}
  /\ listening' = [listening EXCEPT ![b] = FALSE]
  /\ home_end' = IF b = First THEN NEVER ELSE home_end
  /\ Send(b, [do |-> "query", reason |-> "host"])
  /\ UNCHANGED <<now, board, reports, responses, td, at, round, completed, results, outcome>>

Next ==
  \/ Start \/ Arm \/ MoveEnds \/ WaitEnds \/ Hit \/ Tick
  \/ \E b \in Boards : \/ Stop(b) \/ FastRead(b) \/ Handle(b) \/ Answer(b)
                        \/ Obey(b) \/ Expires(b) \/ Reports(b)

Spec == Init /\ [][Next]_vars

-----------------------------------------------------------------------------
BoardTypes ==
  /\ can_trigger \in [Boards -> BOOLEAN] /\ reason \in [Boards -> Reasons]
  /\ expire \in [Boards -> Nat] /\ next_report \in [Boards -> Nat] /\ homing \in BOOLEAN
  /\ stopped_at \in [Boards -> Nat] /\ board_round \in [Boards -> Nat]
QueueTypes ==
  /\ commands \in [Boards -> Seq(Command)] /\ reports \in [Boards -> Seq(State)]
  /\ responses \in [Boards -> Seq(State)]
TdTypes ==
  /\ is_active \in BOOLEAN /\ td_can_trigger \in BOOLEAN
  /\ last_status \in [Boards -> Nat] /\ expire_clock \in [Boards -> Nat]
HostTypes ==
  /\ at \in Places /\ round \in Nat
  /\ listening \in [Boards -> BOOLEAN] /\ completed \in BOOLEAN
  /\ home_end \in 0..NEVER /\ left \subseteq Boards /\ asked \in Boards \cup {Nobody}
  /\ results \in [Boards -> Reasons] /\ outcome \in Reasons
TypeOK == now \in 0..MaxTime /\ BoardTypes /\ QueueTypes /\ TdTypes /\ HostTypes

\* Board b runs in the homing move for which board a was started and stopped.
RunsAfter(b, a) == can_trigger[b] /\ ~can_trigger[a] /\ board_round[a] = board_round[b]

\* However late the links are: once a board has stopped, by its endstop or by
\* its time-out, every other one is set to stop within the time-out after it,
\* whatever it is still sent.
StopTogether ==
  \A a, b \in Boards : RunsAfter(b, a) => expire[b] <= stopped_at[a] + Expire

\* The trigger completion is of this homing move: a report that was still on
\* its way from the one before does not end the move at once.
EndIsOfThisMove ==
  at \in {"moving", "waiting"} /\ completed =>
    \E b \in Boards : board_round[b] = round /\ ~can_trigger[b]

\* After home_wait no board runs, and nothing of the move is on its way to a
\* board that the next move has started, or from it.
NothingLeftOver ==
  at = "idle" => \A b \in Boards :
    /\ board_round[b] = round /\ ~can_trigger[b]
    /\ commands[b] = <<>> /\ reports[b] = <<>> /\ responses[b] = <<>>

\* Homing succeeds only if the endstop was hit and no board had been left
\* alone: else its motors may have stopped elsewhere.
HitMeansHit ==
  at = "idle" /\ outcome = "hit" =>
    reason[First] = "hit" /\ \A b \in Boards : reason[b] # "timeout"
=============================================================================
