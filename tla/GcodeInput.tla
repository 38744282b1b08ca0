----------------------------- MODULE GcodeInput -----------------------------
(***************************************************************************)
(* Input of G-code from the pseudo-tty (GCodeIO in klippy/gcode.py), on    *)
(* top of the mutex that it shares with the scripts of other greenlets.    *)
(* _process_data is called by the reactor whenever there is input: one     *)
(* call at a time processes commands, and those that come while it waits   *)
(* or a command pauses only add to its list, look for an emergency stop    *)
(* and, when the list is long, stop the input.                             *)
(*                                                                         *)
(* A line is its number in the input.  A piece of a line that a read ends  *)
(* with comes with the next read (partial_input).                          *)
(***************************************************************************)
EXTENDS ReactorMutex

CONSTANTS
  Pty,                  \* the greenlet that processes the pty's commands
  MaxPending,           \* 20: input stops when so many commands are pending
  MaxLines              \* bound: the lines that are written

ASSUME InputAssumption ==
  Pty \in Greenlets /\ MaxPending \in Nat /\ MaxLines \in Nat

VARIABLES
  sent,                 \* the lines written to the pty, each a kind
  read,                 \* how many of them have been read
  pending,              \* GCodeIO.pending_commands
  batch,                \* the commands handed to _process_commands, not run yet
  is_processing_data,
  fd_open,              \* fd_handle is registered
  loops,                \* the pty's greenlet is at its loop, and goes on at once
  is_shutdown,
  ran                   \* history: the lines whose handler was called, in order

mutex == vars
queues == <<pending, batch, ran>>
flags == <<is_processing_data, fd_open, loops>>
input == <<sent, read, queues, flags, is_shutdown>>
inputVars == <<mutex, input>>

Kinds == {"command", "M112"}

InputTypeOK ==
  /\ sent \in Seq(Kinds) /\ read \in Nat
  /\ pending \in Seq(Nat) /\ batch \in Seq(Nat) /\ ran \in Seq(Nat)
  /\ is_processing_data \in BOOLEAN /\ fd_open \in BOOLEAN /\ loops \in BOOLEAN
  /\ is_shutdown \in BOOLEAN

InputInit ==
  /\ Init
  /\ sent = <<>> /\ read = 0
  /\ pending = <<>> /\ batch = <<>> /\ ran = <<>>
  /\ is_processing_data = FALSE /\ fd_open = TRUE /\ loops = FALSE
  /\ is_shutdown = FALSE

-----------------------------------------------------------------------------
(* _process_data. *)

Lines(n) == [i \in 1..n |-> read + i]

\* An M112 among the new lines that is not simply the next command.
StopsAtOnce(all, n) ==
  /\ is_processing_data \/ Len(all) > 1
  /\ Len(all) < MaxPending
  /\ \E i \in 1..n : sent[read + i] = "M112"

\* Mutant: input goes on until there are more commands than the limit.
KeepsReadingOneMore(all) == Len(all) <= MaxPending

\* The input stops when the list is long.
KeepsReading(all) == Len(all) < MaxPending

\* Read what is there, or a part of it; leave it to the call that is processing,
\* or start to process.
ReadData ==
  /\ ~loops /\ fd_open
  /\ \E n \in 1..Len(sent) - read :
       LET all == pending \o Lines(n)
       IN  /\ read' = read + n
           /\ pending' = all
           /\ is_shutdown' = (is_shutdown \/ StopsAtOnce(all, n))
           /\ IF is_processing_data
              THEN fd_open' = KeepsReading(all) /\ UNCHANGED <<is_processing_data, loops>>
              ELSE is_processing_data' = TRUE /\ loops' = TRUE /\ UNCHANGED fd_open
  /\ UNCHANGED <<mutex, sent, batch, ran>>

\* The loop takes the list, leaves an empty one, and asks for the mutex.
Loop ==
  /\ loops /\ pending # <<>>
  /\ batch' = pending /\ pending' = <<>>
  /\ loops' = FALSE
  /\ Acquire(Pty) \/ Block(Pty)
  /\ UNCHANGED <<sent, read, ran, is_processing_data, fd_open, is_shutdown>>

\* Mutant: the input stays stopped.
LoopEndsStopped ==
  /\ loops /\ pending = <<>>
  /\ loops' = FALSE /\ is_processing_data' = FALSE
  /\ UNCHANGED <<mutex, sent, read, queues, fd_open, is_shutdown>>

\* Nothing is left: the input is started again if it was stopped.
LoopEnds ==
  /\ loops /\ pending = <<>>
  /\ loops' = FALSE /\ is_processing_data' = FALSE /\ fd_open' = TRUE
  /\ UNCHANGED <<mutex, sent, read, queues, is_shutdown>>

\* _process_commands calls the handler of the next command, which may pause or
\* fail; an internal error shuts the printer down, and the next command is run.
RunLine ==
  /\ ~loops /\ place[Pty] = "inside" /\ batch # <<>>
  /\ ran' = Append(ran, Head(batch))
  /\ batch' = Tail(batch)
  /\ \E fails \in BOOLEAN :
       is_shutdown' = (is_shutdown \/ fails \/ sent[Head(batch)] = "M112")
  /\ UNCHANGED <<mutex, sent, read, pending, flags>>

\* Mutant: the list is emptied when its commands have been run.
BatchEndsEmptied ==
  /\ ~loops /\ batch = <<>>
  /\ Exit(Pty)
  /\ loops' = TRUE
  /\ pending' = <<>>
  /\ UNCHANGED <<sent, read, batch, ran, is_processing_data, fd_open, is_shutdown>>

\* The mutex is left and the loop looks at its list again.
BatchEnds ==
  /\ ~loops /\ batch = <<>>
  /\ Exit(Pty)
  /\ loops' = TRUE
  /\ UNCHANGED <<sent, read, queues, is_processing_data, fd_open, is_shutdown>>

-----------------------------------------------------------------------------
(* The sender, and the other greenlets that run scripts. *)

WriteLine ==
  /\ ~loops /\ Len(sent) < MaxLines
  /\ \E k \in Kinds : sent' = Append(sent, k)
  /\ UNCHANGED <<mutex, read, queues, flags, is_shutdown>>

Others == Greenlets \ {Pty}

ScriptStarts(g) == ~loops /\ (Acquire(g) \/ Block(g)) /\ UNCHANGED input
ScriptEnds(g) == ~loops /\ Exit(g) /\ UNCHANGED input
Resumes(g) == ~loops /\ Wake(g) /\ UNCHANGED input

InputNext ==
  \/ ReadData \/ Loop \/ LoopEnds \/ RunLine \/ BatchEnds \/ WriteLine
  \/ \E g \in Others : ScriptStarts(g) \/ ScriptEnds(g)
  \/ \E g \in Greenlets : Resumes(g)

InputSpec == InputInit /\ [][InputNext]_inputVars

\* The reactor runs due timers and readable descriptors; commands and scripts end.
InputFairSpec ==
  /\ InputSpec
  /\ WF_inputVars(ReadData) /\ WF_inputVars(Loop \/ LoopEnds)
  /\ WF_inputVars(RunLine \/ BatchEnds)
  /\ \A g \in Others : WF_inputVars(ScriptEnds(g))
  /\ \A g \in Greenlets : WF_inputVars(Resumes(g))

-----------------------------------------------------------------------------
(* Properties. *)

\* Every line is run once, in the order of the input, however the calls of
\* _process_data overlap: pending_commands is replaced, not emptied.
LinesInOrder == \A i \in 1..Len(ran) : ran[i] = i

\* As long as the input is read, an emergency stop among the lines that wait has
\* stopped the printer: an M112 is looked for below the limit at which the input
\* stops, so none is read and left to wait behind them.
StopIsHeard ==
  ~loops /\ fd_open =>
    \A i \in 1..Len(pending) : sent[pending[i]] = "M112" => is_shutdown

\* Every line that is written is run: the input that was stopped starts again,
\* and lines that come at the end of a batch are not left in the list.
EveryLineRuns == \A i \in 1..MaxLines : (i <= Len(sent)) ~> (i <= Len(ran))
=============================================================================
