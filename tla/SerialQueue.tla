---------------------------- MODULE SerialQueue ----------------------------
(***************************************************************************)
(* The command stream to a microcontroller: chelper/serialqueue.c, with    *)
(* the Python threads that use it through klippy/serialhdl.py.             *)
(*                                                                         *)
(* One background thread runs the timers and the input handler; a callback *)
(* of its reactor is one step, except that command_event builds one block  *)
(* per step with the lock held.  Messages are numbered in the order they   *)
(* are given to the queue.  Times are dropped: a timer is off ("never"),   *)
(* due at once ("now") or due some time later ("later").                   *)
(*                                                                         *)
(* The microcontroller and the wire are external.  It runs the blocks that *)
(* come in sequence, sends the responses while it runs a block, and        *)
(* acknowledges it when it is done; anything else it answers with the      *)
(* sequence number it expects.  The wire keeps order and may lose.         *)
(***************************************************************************)
EXTENDS Integers, Sequences, SequencesExt

CONSTANTS
  SeqSize,       \* sequence numbers on the wire (MESSAGE_SEQ_MASK + 1)
  MaxPending,   \* MAX_PENDING_BLOCKS
  BlockMax,     \* messages that fit in a block (MESSAGE_MAX)
  RecvWindow,   \* receive_window, in messages
  Messages,     \* how many messages are sent
  Queries,      \* the messages whose sender waits for a notification
  MaxLosses,    \* bound: blocks and answers the wire may lose
  MaxSpurious,  \* bound: retransmissions by timeout while answers are coming
  MaxReports,   \* bound: messages the microcontroller sends unasked
  MaxEvents     \* bound: all of these together

ASSUME SerialAssumption ==
  /\ MaxPending \in Nat \ {0} /\ SeqSize \in Nat /\ MaxPending < SeqSize
  /\ BlockMax \in Nat \ {0} /\ RecvWindow \in Nat /\ RecvWindow >= 2 * BlockMax
  /\ Messages \in Nat \ {0} /\ Queries \subseteq 1..Messages /\ 1 \in Queries
  /\ MaxLosses \in Nat /\ MaxSpurious \in Nat /\ MaxReports \in Nat
  /\ MaxEvents \in Nat

VARIABLES
  next,            \* the message that is sent next
  pending,         \* messages in the pending queues
  need_kick,       \* need_kick_clock: "none" is 0, "clock" a time, "max" MAX_CLOCK
  kicked,          \* a byte is in the pipe
  ctimer,          \* SQPT_COMMAND
  rtimer,          \* SQPT_RETRANSMIT
  buf,             \* blocks built by the command_event in progress
  filling,         \* command_event holds the lock
  seqs,            \* send_seq, receive_seq, last_ack, retransmit, ignore_nak
  sent,            \* sent_queue: blocks [seq, msgs]
  last_len,        \* last_ack_bytes
  sampled,         \* last_receive_sent_time: the block it is the time of, or 0
  notify_queue,    \* [id, seq] of the queries in the blocks sent
  receive_queue,   \* what serialqueue_pull has not taken
  pulling,         \* whether the receiving thread waits on the condition
  heard,           \* what the receiving thread got for each query, in order
  toMcu, toHost,   \* the wire
  mcu,             \* [next, running]: sequence number expected, block it runs
  delivered,       \* messages the microcontroller has run
  resent,          \* history: blocks sent more than once
  losses, spurious, reports

host == <<next, pending, need_kick, kicked, ctimer, rtimer, buf, filling, seqs, sent,
          last_len, sampled, notify_queue, receive_queue, pulling, heard, resent>>
board == <<mcu, delivered>>
bounds == <<losses, spurious, reports>>
vars == <<host, board, toMcu, toHost, bounds>>

MoreEvents == losses + spurious + reports < MaxEvents

NoBlock == [seq |-> 0, msgs |-> <<>>]
Report == 0     \* in place of a query: a message nobody asked for

\* the messages of a set in the order they were given to the queue
InOrder(S) ==
  {s \in UNION {[1..k -> S] : k \in 0..BlockMax} :
     ToSet(s) = S /\ \A i, j \in 1..Len(s) : i < j => s[i] < s[j]}

\* the places of the messages in some blocks of a sequence, and how many
\* there are in all of it
Places(blocks, I) == UNION {{k} \X DOMAIN blocks[k].msgs : k \in I}
TotalLen(blocks) == Cardinality(Places(blocks, DOMAIN blocks))

(***************************************************************************)
(* serialqueue_send, called by any Python thread.  The identify query is   *)
(* sent alone: nothing follows before its answer or its notification       *)
(* (SerialReader._get_identify_data).                                      *)
(***************************************************************************)
Connected == next = 1 \/ heard[1] # <<>>

Kick(clocks) ==
  /\ need_kick \in clocks
  /\ need_kick' = "none" /\ kicked' = TRUE

DontKick ==
  /\ need_kick \in {"none", "clock"}
  /\ UNCHANGED <<need_kick, kicked>>

Send ==
  /\ ~filling /\ next <= Messages /\ Connected
  /\ next' = next + 1
  /\ pending' = Append(pending, next)
  /\ Kick({"clock", "max"}) \/ DontKick
  /\ UNCHANGED <<ctimer, rtimer, buf, filling, seqs, sent, last_len, sampled, notify_queue,
                 receive_queue, pulling, heard, resent, board, toMcu, toHost, bounds>>

\* serialqueue_pull, by the thread of SerialReader._bg_thread
Pull ==
  /\ ~filling /\ ~pulling
  /\ IF receive_queue = <<>>
     THEN pulling' = TRUE /\ UNCHANGED <<receive_queue, heard>>
     ELSE LET m == Head(receive_queue) IN
          /\ receive_queue' = Tail(receive_queue)
          /\ heard' = IF m.id = Report THEN heard
                      ELSE [heard EXCEPT ![m.id] = Append(@, m.kind)]
          /\ UNCHANGED pulling
  /\ UNCHANGED <<next, pending, need_kick, kicked, ctimer, rtimer, buf, filling, seqs, sent,
                 last_len, sampled, notify_queue, resent, board, toMcu, toHost, bounds>>

KickEvent ==
  /\ ~filling /\ kicked
  /\ kicked' = FALSE /\ ctimer' = "now"
  /\ UNCHANGED <<next, pending, need_kick, rtimer, buf, filling, seqs, sent, last_len, sampled,
                 notify_queue, receive_queue, pulling, heard, resent, board, toMcu, toHost, bounds>>

(***************************************************************************)
(* command_event: check_send_command decides, build_and_send_command fills *)
(* one block, and the blocks are written when nothing more is to be sent.  *)
(***************************************************************************)
\* mutant: what a response has acknowledged is taken to be out of the buffer
WindowForgetsLast ==
  \/ seqs.send - seqs.receive >= MaxPending
  \/ seqs.send > seqs.receive /\ TotalLen(sent) + BlockMax > RecvWindow

\* mutant: one block more than the numbers can tell apart
WindowOneMore ==
  \/ seqs.send - seqs.receive > MaxPending
  \/ /\ seqs.send > seqs.receive
     /\ TotalLen(sent) + BlockMax + (IF seqs.last_ack < seqs.receive THEN last_len ELSE 0)
          > RecvWindow

WindowFull ==
  \/ seqs.send - seqs.receive >= MaxPending
  \/ /\ seqs.send > seqs.receive
     /\ TotalLen(sent) + BlockMax + (IF seqs.last_ack < seqs.receive THEN last_len ELSE 0)
          > RecvWindow

InCommandEvent == filling \/ ctimer # "never"

\* the first n messages are ready; as many as fit make the block
Fill ==
  /\ InCommandEvent /\ ~WindowFull
  /\ \E n \in 1..Len(pending) :
       /\ n <= BlockMax
       /\ LET b == [seq |-> seqs.send, msgs |-> SubSeq(pending, 1, n)]
          IN /\ pending' = SubSeq(pending, n + 1, Len(pending))
             /\ \E asked \in InOrder(Queries \cap ToSet(b.msgs)) :
                  notify_queue' = notify_queue \o
                                    [i \in 1..Len(asked) |-> [id |-> asked[i], seq |-> b.seq]]
             /\ sent' = Append(sent, b)
             /\ buf' = Append(buf, b)
  /\ rtimer' = IF sent = <<>> THEN "later" ELSE rtimer
  /\ seqs' = [seqs EXCEPT !.send = @ + 1]
  /\ filling' = TRUE
  /\ UNCHANGED <<next, need_kick, kicked, ctimer, last_len, sampled, receive_queue, pulling, heard,
                 resent, board, toMcu, toHost, bounds>>

\* do_write and the return from command_event
Write ==
  /\ toMcu' = toMcu \o buf
  /\ buf' = <<>> /\ filling' = FALSE
  /\ UNCHANGED <<next, pending, kicked, rtimer, seqs, sent, last_len, sampled, notify_queue,
                 receive_queue, pulling, heard, resent, board, toHost, bounds>>

WaitForAck ==
  /\ InCommandEvent /\ WindowFull
  /\ ctimer' = "never"
  /\ Write /\ UNCHANGED need_kick

WaitForMessages ==
  /\ InCommandEvent /\ ~WindowFull /\ pending = <<>>
  /\ ctimer' = "never" /\ need_kick' = "max"
  /\ Write

\* nothing is due yet; the timer is set for the time when something is
WaitForClock ==
  /\ filling \/ ctimer = "now"
  /\ ~WindowFull /\ pending # <<>>
  /\ ctimer' = "later" /\ need_kick' = "clock"
  /\ Write

(***************************************************************************)
(* handle_message and update_receive_seq.                                  *)
(***************************************************************************)
\* the number in a message, extended to the full width
FullSeq(seq) == seqs.receive + ((seq - seqs.receive) % SeqSize)

Unexpected(rseq) == rseq > seqs.send /\ seqs.receive # 1

\* mutant: any number acknowledges every block
AckedAll(rseq) == Len(sent)

\* how many sent blocks are acknowledged; all of them at connection, where
\* the microcontroller tells the number it goes on with
Acked(rseq) == IF rseq - seqs.receive <= Len(sent) THEN rseq - seqs.receive ELSE Len(sent)

\* an acknowledgement that is new is remembered
WithAck(rseq, m, s) ==
  IF m.kind = "ack" /\ s.last_ack < rseq THEN [s EXCEPT !.last_ack = rseq] ELSE s

UpdateReceiveSeq(rseq, m) ==
  LET n == Acked(rseq) IN
  /\ sent' = SubSeq(sent, n + 1, Len(sent))
  /\ seqs' = WithAck(rseq, m, [seqs EXCEPT !.receive = rseq,
                                  !.send = IF n = rseq - seqs.receive THEN @ ELSE rseq])
  /\ ctimer' = "now"
  /\ IF n = rseq - seqs.receive
     THEN last_len' = Len(sent[n].msgs) /\ sampled' = rseq - 1
     ELSE sampled' = 0 /\ UNCHANGED last_len

\* mutant: a response counts as an acknowledgement
WakeSeqAtOnce(rseq, m) == rseq - 1

\* The last block whose commands are all done.  It is unsigned: before the
\* first block is acknowledged, a message that is no acknowledgement takes it
\* from 0 to the greatest number there is, beyond every block.
WakeSeq(rseq, m) ==
  IF rseq = 1 /\ m.kind = "data" THEN seqs.send
  ELSE rseq - 1 - (IF m.kind = "data" THEN 1 ELSE 0)

\* how many notifications are given: those in front, up to the first that waits
Woken(rseq, m) ==
  {n \in 0..Len(notify_queue) :
     /\ \A i \in 1..n : notify_queue[i].seq <= WakeSeq(rseq, m)
     /\ n < Len(notify_queue) => notify_queue[n + 1].seq > WakeSeq(rseq, m)}

\* The program does not tell "early" from "done": it marks, for the properties,
\* a notification given before anything was acknowledged.
DoneNotes(rseq, n) ==
  [i \in 1..n |-> [kind |-> IF rseq = 1 THEN "early" ELSE "done",
                   id |-> notify_queue[i].id, time |-> sampled']]

\* mutant: the block may have been sent twice
ResponseAlwaysTimed(rseq, m) ==
  IF m.kind = "ack" THEN <<>> ELSE <<[kind |-> "data", id |-> m.id, time |-> sampled']>>

\* a response that may be for a block sent twice tells no time
Response(rseq, m) ==
  IF m.kind = "ack" THEN <<>>
  ELSE <<[kind |-> "data", id |-> m.id, time |-> IF rseq > seqs.retransmit THEN sampled' ELSE 0]>>

\* the same number again says that a block was not understood
Nak(rseq, m) == m.kind = "ack" /\ rseq <= seqs.last_ack

RetransmitTimer(rseq, m) ==
  IF Nak(rseq, m) /\ rseq > seqs.ignore_nak /\ sent' # <<>> THEN "now"
  ELSE IF rseq = seqs.receive THEN rtimer
  ELSE IF sent' = <<>> THEN "never" ELSE "later"

\* mutant: a notification does not wake the receiving thread
QueueWakesForData(news) ==
  /\ receive_queue' = receive_queue \o news
  /\ pulling' = (pulling /\ \A i \in 1..Len(news) : news[i].kind # "data")

Queue(news) ==
  /\ receive_queue' = receive_queue \o news
  /\ pulling' = (pulling /\ news = <<>>)

HandleMessage ==
  /\ ~filling /\ toHost # <<>>
  /\ toHost' = Tail(toHost)
  /\ LET m == Head(toHost)
         rseq == FullSeq(m.seq)
     IN IF Unexpected(rseq)
        THEN UNCHANGED host
        ELSE /\ IF rseq = seqs.receive
                THEN UNCHANGED <<sent, ctimer, last_len, sampled>> /\ seqs' = WithAck(rseq, m, seqs)
                ELSE UpdateReceiveSeq(rseq, m)
             /\ rtimer' = RetransmitTimer(rseq, m)
             /\ \E n \in Woken(rseq, m) :
                  /\ notify_queue' = SubSeq(notify_queue, n + 1, Len(notify_queue))
                  /\ Queue(DoneNotes(rseq, n) \o Response(rseq, m))
             /\ UNCHANGED <<next, pending, need_kick, kicked, buf, filling, heard, resent>>
  /\ UNCHANGED <<board, toMcu, bounds>>

(***************************************************************************)
(* retransmit_event: what the port has not sent yet is thrown away, and    *)
(* all blocks without an acknowledgement go out again.                     *)
(***************************************************************************)
IgnoreNak ==
  IF rtimer = "later" THEN seqs.send
  ELSE IF seqs.receive < seqs.retransmit THEN seqs.retransmit
  ELSE seqs.receive

\* mutant: only the last block goes out again
LatestBlock == SubSeq(sent, Len(sent), Len(sent))

BlocksToResend == sent

Retransmit ==
  /\ \E kept \in 0..Len(toMcu) : toMcu' = SubSeq(toMcu, 1, kept) \o BlocksToResend
  /\ seqs' = [seqs EXCEPT !.ignore_nak = IgnoreNak, !.retransmit = seqs.send]
  /\ resent' = resent \cup {sent[i].seq : i \in 1..Len(sent)}
  /\ rtimer' = "later"
  /\ UNCHANGED <<next, pending, need_kick, kicked, ctimer, buf, filling, sent, last_len, sampled,
                 notify_queue, receive_queue, pulling, heard, board, toHost, losses, reports>>

RetransmitOnNak ==
  /\ ~filling /\ rtimer = "now"
  /\ Retransmit /\ UNCHANGED spurious

\* the time-out has passed; when answers are still coming it was too short
Quiet == toMcu = <<>> /\ toHost = <<>> /\ mcu.running = NoBlock

RetransmitOnTimeout ==
  /\ ~filling /\ rtimer = "later"
  /\ Retransmit
  /\ IF Quiet THEN UNCHANGED spurious
     ELSE spurious < MaxSpurious /\ MoreEvents /\ spurious' = spurious + 1

(***************************************************************************)
(* The microcontroller.                                                    *)
(***************************************************************************)
Answer(kind, id, seq) == [kind |-> kind, id |-> id, seq |-> seq]

WireSeq(b) == b.seq % SeqSize

McuStart ==
  /\ mcu.running = NoBlock /\ toMcu # <<>> /\ WireSeq(Head(toMcu)) = mcu.next
  /\ LET b == Head(toMcu)
         seq == (mcu.next + 1) % SeqSize
     IN /\ mcu' = [next |-> seq, running |-> b]
        /\ delivered' = delivered \o b.msgs
        /\ \E asked \in InOrder(Queries \cap ToSet(b.msgs)) :
             toHost' = toHost \o [i \in 1..Len(asked) |-> Answer("data", asked[i], seq)]
  /\ toMcu' = Tail(toMcu)
  /\ UNCHANGED <<host, bounds>>

McuFinish ==
  /\ mcu.running # NoBlock
  /\ mcu' = [mcu EXCEPT !.running = NoBlock]
  /\ toHost' = Append(toHost, Answer("ack", 0, mcu.next))
  /\ UNCHANGED <<host, delivered, toMcu, bounds>>

McuReject ==
  /\ mcu.running = NoBlock /\ toMcu # <<>> /\ WireSeq(Head(toMcu)) # mcu.next
  /\ toMcu' = Tail(toMcu)
  /\ toHost' = Append(toHost, Answer("ack", 0, mcu.next))
  /\ UNCHANGED <<host, board, bounds>>

McuReport ==
  /\ reports < MaxReports /\ MoreEvents /\ reports' = reports + 1
  /\ toHost' = Append(toHost, Answer("data", Report, mcu.next))
  /\ UNCHANGED <<host, board, toMcu, losses, spurious>>

(***************************************************************************)
(* The wire.  A block spoilt on the way may make the board ask again.      *)
(***************************************************************************)
LoseBlock ==
  /\ mcu.running = NoBlock /\ toMcu # <<>>
  /\ losses < MaxLosses /\ MoreEvents /\ losses' = losses + 1
  /\ toMcu' = Tail(toMcu)
  /\ \/ toHost' = Append(toHost, Answer("ack", 0, mcu.next))
     \/ UNCHANGED toHost
  /\ UNCHANGED <<host, board, spurious, reports>>

LoseAnswer ==
  /\ toHost # <<>>
  /\ losses < MaxLosses /\ MoreEvents /\ losses' = losses + 1
  /\ toHost' = Tail(toHost)
  /\ UNCHANGED <<host, board, toMcu, spurious, reports>>

Init ==
  /\ next = 1 /\ pending = <<>>
  /\ need_kick = "max" /\ kicked = FALSE /\ ctimer = "never" /\ rtimer = "never"
  /\ buf = <<>> /\ filling = FALSE
  /\ seqs = [send |-> 1, receive |-> 1, last_ack |-> 0, retransmit |-> 0, ignore_nak |-> 0]
  /\ sent = <<>> /\ last_len = 0 /\ sampled = 0
  /\ notify_queue = <<>> /\ receive_queue = <<>> /\ pulling = FALSE
  /\ heard = [q \in Queries |-> <<>>]
  /\ toMcu = <<>> /\ toHost = <<>>
  /\ \E seq \in 0..SeqSize - 1 : mcu = [next |-> seq, running |-> NoBlock]
  /\ delivered = <<>> /\ resent = {}
  /\ losses = 0 /\ spurious = 0 /\ reports = 0

CommandEvent == Fill \/ WaitForAck \/ WaitForMessages \/ WaitForClock
RetransmitEvent == RetransmitOnNak \/ RetransmitOnTimeout
Host == Send \/ Pull \/ KickEvent \/ CommandEvent \/ HandleMessage \/ RetransmitEvent
Mcu == McuStart \/ McuFinish \/ McuReject

\* Nothing is left to do: every message has gone out, or the identify query
\* was dropped unheard and SerialReader._start_session gives up after 5 s.
Finished ==
  /\ next > Messages \/ (next = 2 /\ heard[1] = <<>>)
  /\ Quiet /\ sent = <<>> /\ pending = <<>> /\ ctimer = "never" /\ ~kicked /\ pulling
  /\ UNCHANGED vars

Next == Host \/ Mcu \/ McuReport \/ LoseBlock \/ LoseAnswer \/ Finished

Spec == Init /\ [][Next]_vars

(***************************************************************************)
(* The threads and the board keep running.  A message that waits for its   *)
(* time is due in the end, so command_event does not wait for ever.        *)
(***************************************************************************)
Fairness ==
  /\ WF_vars(Send) /\ WF_vars(Pull) /\ WF_vars(KickEvent) /\ WF_vars(CommandEvent)
  /\ WF_vars(HandleMessage) /\ WF_vars(RetransmitOnNak)
  /\ WF_vars(Quiet /\ RetransmitOnTimeout)
  /\ WF_vars(Mcu)

FairSpec == Spec /\ Fairness

(***************************************************************************)
(* Properties.                                                             *)
(***************************************************************************)
Block == [seq : Nat, msgs : Seq(1..Messages)]
Blocks == Seq(Block)
SomeAnswer == [kind : {"ack", "data"}, id : Queries \cup {Report}, seq : 0..SeqSize - 1]
Timers == {"never", "now", "later"}

TypeOK ==
  /\ next \in 1..Messages + 1 /\ pending \in Seq(1..Messages)
  /\ need_kick \in {"none", "clock", "max"} /\ kicked \in BOOLEAN
  /\ ctimer \in Timers /\ rtimer \in Timers
  /\ buf \in Blocks /\ filling \in BOOLEAN /\ sent \in Blocks
  /\ seqs \in [send : Nat, receive : Nat, last_ack : Nat, retransmit : Nat, ignore_nak : Nat]
  /\ last_len \in Nat /\ sampled \in Nat
  /\ notify_queue \in Seq([id : Queries, seq : Nat])
  /\ receive_queue \in Seq([kind : {"data", "early", "done"}, id : Queries \cup {Report}, time : Nat])
  /\ pulling \in BOOLEAN /\ heard \in [Queries -> Seq({"data", "early", "done"})]
  /\ toMcu \in Blocks /\ toHost \in Seq(SomeAnswer)
  /\ mcu \in [next : 0..SeqSize - 1, running : Block]
  /\ delivered \in Seq(1..Messages) /\ resent \subseteq Nat
  /\ losses \in 0..MaxLosses /\ spurious \in 0..MaxSpurious /\ reports \in 0..MaxReports

SentMessages == UNION {ToSet(sent[i].msgs) : i \in 1..Len(sent)}

\* Whatever is lost, retransmitted or asked for again, the board runs every
\* message at most once and in the order of sending (update_receive_seq and
\* handle_message tell 64 bits of sequence number from the few on the wire).
RunInOrder ==
  \A i, j \in 1..Len(delivered) : i < j => delivered[i] < delivered[j]

\* A message that was put in a block and is no longer kept for retransmission
\* has been run.  Only the identify query, answered by the number the board
\* goes on with, may be dropped at connection.
NothingForgotten ==
  \A m \in 2..next - 1 :
    m \in ToSet(pending) \cup SentMessages \cup ToSet(delivered)

\* A thread that waits for a response is never told that its command is done
\* before the response: handle_message puts off the notification while the
\* block may still be running, or SerialRetryCommand would ask again.  (It is,
\* "early", when the board says something before the first acknowledgement.)
NoLateResponse ==
  \A q \in Queries : \A i, j \in 1..Len(heard[q]) :
    heard[q][i] = "done" /\ heard[q][j] = "data" => j < i

\* the identify query on the way that the host has given up: the board said
\* something meanwhile, and its number is where the host goes on
GivenUp == {i \in 1..Len(toMcu) : 1 \in ToSet(toMcu[i].msgs) /\ 1 \notin SentMessages}

\* Until something is retransmitted the board always has room for what is on
\* the way, but for an identify query that was given up: the window of
\* check_send_command counts the block that a response has acknowledged and
\* that the board has not finished.
WindowHolds ==
  seqs.retransmit = 0 =>
    TotalLen(toMcu) + Len(mcu.running.msgs) <= RecvWindow + Cardinality(GivenUp)

ToldEarly(q) ==
  \/ "early" \in ToSet(heard[q])
  \/ \E i \in 1..Len(receive_queue) : receive_queue[i].kind = "early" /\ receive_queue[i].id = q

\* The time given with a response is that of the block of its query, which
\* waits for its notification (unless it was told "early"), and that block went
\* out once: otherwise the clock would be synchronised to the wrong
\* transmission.
TimeIsOfItsBlock ==
  [][\A i \in Len(receive_queue) + 1..Len(receive_queue') :
       LET r == receive_queue'[i] IN
       r.kind = "data" /\ r.time # 0 /\ r.id # Report =>
         /\ r.time \notin resent
         /\ [id |-> r.id, seq |-> r.time] \in ToSet(notify_queue) \/ ToldEarly(r.id)]_vars

\* Once connected, every message is run in the end: lost blocks go out again,
\* the window opens, and command_event is woken when there is more to send.
EveryMessageRuns ==
  \A m \in 2..Messages : (m < next) ~> (m \in ToSet(delivered))

\* Once connected, a thread that waits for a notification gets it, whatever is
\* lost, as soon as anything later is acknowledged.  (When the response has
\* acknowledged the block and the last acknowledgement is lost, nothing is
\* sent again: the notification then waits for the next message, which
\* ClockSync sends within a second.)
LastAckLost == losses > 0 /\ next > Messages /\ pending = <<>> /\ sent = <<>>

EveryQueryIsHeard ==
  \A q \in Queries \ {1} : (q < next) ~> (ToSet(heard[q]) \cap {"early", "done"} # {} \/ LastAckLost)
=============================================================================
