----------------------- MODULE TriggerDispatchProofs -----------------------
(***************************************************************************)
(* The safety of homing with several boards, for any number of boards,     *)
(* homing moves and any times.  Two arguments run side by side.            *)
(*                                                                         *)
(* Queues: stop() asks each board, and its answer is the last thing the    *)
(* board sends, after the last command it was sent.  So a board that has   *)
(* answered is quiet, and a move starts with all of them quiet.            *)
(*                                                                         *)
(* Times: nothing the host knows of a board's life, and so no time-out it  *)
(* gives to the OTHER boards, is later than the board's last sign of life. *)
(***************************************************************************)
EXTENDS TriggerDispatch, FiniteSetTheorems, WellFoundedInduction, TLAPS

\* The last instant at which board b is known to run in this move: it stops
\* growing when the board stops.
Lim(b) == IF board_round[b] = round /\ ~can_trigger[b] THEN stopped_at[b] ELSE now

Elems(s) == {s[i] : i \in 1..Len(s)}
NoAnswer(s) == \A m \in Elems(s) : ~m.answer

\* The board has obeyed the query that stop() waits for.
Done(b) == at = "stopping" /\ asked = b /\ commands[b] = <<>> /\ ~can_trigger[b]

\* One start at most is on its way, ahead of all other commands.
Started(b) ==
  /\ board_round[b] \in {round - 1, round}
  /\ board_round[b] = round - 1 =>
       ~can_trigger[b] /\ commands[b] # <<>> /\ Head(commands[b]).do = "start"
  /\ \A i \in 1..Len(commands[b]) :
       commands[b][i].do = "start" => i = 1 /\ board_round[b] = round - 1

\* A query is the last command; its answer is the last report.
Asked(b) ==
  /\ \A i \in 1..Len(commands[b]) : commands[b][i].do = "query" =>
       /\ i = Len(commands[b]) /\ at = "stopping" /\ asked = b
       /\ NoAnswer(reports[b]) /\ NoAnswer(responses[b])
  /\ \A i \in 1..Len(reports[b]) : reports[b][i].answer =>
       /\ i = Len(reports[b]) /\ Done(b) /\ NoAnswer(responses[b])
       /\ reports[b][i].reason = reason[b]
  /\ \A i \in 1..Len(responses[b]) : responses[b][i].answer =>
       /\ i = Len(responses[b]) /\ reports[b] = <<>> /\ Done(b)
       /\ responses[b][i].reason = reason[b]

\* What says that a board has stopped is of this move.
Told(b) ==
  \A m \in Elems(reports[b]) \cup Elems(responses[b]) :
    ~m.can_trigger => board_round[b] = round /\ ~can_trigger[b]

\* A board that has answered is quiet.
Settled(b) ==
  at = "idle" \/ (at = "stopping" /\ b \notin left /\ b # asked) =>
    /\ commands[b] = <<>> /\ reports[b] = <<>> /\ responses[b] = <<>>
    /\ ~can_trigger[b] /\ results[b] = reason[b]

\* Nothing known of a board's life is later than its last sign of life.
Timely(b) ==
  /\ stopped_at[b] <= now /\ last_status[b] <= Lim(b)
  /\ \A m \in Elems(reports[b]) : m.clock <= now /\ (m.can_trigger => m.clock <= Lim(b))
  /\ \A m \in Elems(responses[b]) : m.clock <= now

\* No time-out given to board b is later than board a's life allows.
Bounded(a, b) ==
  a # b =>
    /\ expire_clock[b] <= Lim(a) + Expire
    /\ \A c \in Elems(commands[b]) :
         c.do \in {"start", "timeout"} => c.clock <= Lim(a) + Expire
    /\ can_trigger[b] => expire[b] <= Lim(a) + Expire

HostInv ==
  /\ is_active => at \in {"moving", "waiting"}
  /\ home_end # NEVER => at = "waiting" \/ (at = "stopping" /\ First \in left)
  /\ asked # Nobody => at = "stopping" /\ asked \notin left
  /\ completed => \E b \in Boards : board_round[b] = round /\ ~can_trigger[b]
  /\ at = "idle" => outcome = EndsWith(results)

QueueOf(b) == Started(b) /\ Asked(b) /\ Told(b) /\ Settled(b)
QueueInv == \A b \in Boards : QueueOf(b)
TimeInv == /\ \A b \in Boards : Timely(b)
           /\ \A a, b \in Boards : Bounded(a, b)

TriggerInv == TypeOK /\ HostInv /\ QueueInv /\ TimeInv

-----------------------------------------------------------------------------
(* Smallest elements, sequences, and the types. *)

\* The earliest of finitely many reports exists.
LEMMA Smallest ==
  ASSUME NEW S, IsFiniteSet(S), NEW f \in [S -> Nat], NEW T \in SUBSET S, T # {}
  PROVE  \E x \in T : \A y \in T : f[x] <= f[y]
<1> DEFINE below(x) == {y \in T : f[y] < f[x]}
           sets == {below(x) : x \in T}
<1>1. IsWellFoundedOn(StrictSubsetOrdering(S), FiniteSubsetsOf(S))
  BY FS_StrictSubsetOrderingWellFounded
<1>2. sets # {} /\ sets \subseteq FiniteSubsetsOf(S)
  <2>1. ASSUME NEW x \in T PROVE below(x) \in FiniteSubsetsOf(S)
    <3>1. below(x) \subseteq S
      OBVIOUS
    <3> HIDE DEF below
    <3> QED
      BY <3>1, FS_Subset DEF FiniteSubsetsOf
  <2>2. PICK x \in T : TRUE
    OBVIOUS
  <2>3. below(x) \in sets
    BY <2>2
  <2> QED
    BY <2>1, <2>3
<1> HIDE DEF sets
<1>3. PICK A \in sets : \A B \in sets : ~(<<B, A>> \in StrictSubsetOrdering(S))
  BY <1>1, <1>2, WFMin
<1> USE DEF sets
<1>4. PICK x \in T : A = below(x)
  BY <1>3
<1>5. ASSUME NEW y \in T, f[y] < f[x] PROVE FALSE
  <2>1. below(y) \subseteq below(x) /\ y \in below(x) /\ y \notin below(y)
    BY <1>5
  <2>2. <<below(y), below(x)>> \in StrictSubsetOrdering(S)
    BY <2>1 DEF StrictSubsetOrdering
  <2> QED
    BY <1>3, <1>4, <2>2
<1> QED
  BY <1>5

\* Append adds an element behind the others.
LEMMA AppendIs ==
  ASSUME NEW S, NEW s \in Seq(S), NEW x \in S
  PROVE  /\ Append(s, x) \in Seq(S) /\ Len(Append(s, x)) = Len(s) + 1
         /\ \A i \in 1..Len(s) : Append(s, x)[i] = s[i]
         /\ Append(s, x)[Len(s) + 1] = x
         /\ Elems(Append(s, x)) = Elems(s) \cup {x}
<1>1. /\ Append(s, x) \in Seq(S) /\ Len(Append(s, x)) = Len(s) + 1
      /\ \A i \in 1..Len(s) : Append(s, x)[i] = s[i]
      /\ Append(s, x)[Len(s) + 1] = x /\ Len(s) \in Nat
  OBVIOUS
<1>2. \A i \in 1..(Len(s) + 1) : i \in 1..Len(s) \/ i = Len(s) + 1
  BY <1>1
<1>3. \A i \in 1..Len(s) : i \in 1..(Len(s) + 1)
  BY <1>1
<1>4. Len(s) + 1 \in 1..(Len(s) + 1)
  BY <1>1
<1>5. Elems(Append(s, x)) = Elems(s) \cup {x}
  <2>1. ASSUME NEW y \in Elems(Append(s, x)) PROVE y \in Elems(s) \cup {x}
    BY <1>1, <1>2, <2>1 DEF Elems
  <2>2. ASSUME NEW y \in Elems(s) PROVE y \in Elems(Append(s, x))
    BY <1>1, <1>3, <2>2 DEF Elems
  <2>3. x \in Elems(Append(s, x))
    BY <1>1, <1>4 DEF Elems
  <2> QED
    BY <2>1, <2>2, <2>3
<1> QED
  BY <1>1, <1>5

\* Tail moves every element but the first to the front.
LEMMA TailIs ==
  ASSUME NEW S, NEW s \in Seq(S), s # <<>>
  PROVE  /\ Tail(s) \in Seq(S) /\ Len(Tail(s)) = Len(s) - 1 /\ Len(s) >= 1
         /\ \A i \in 1..Len(Tail(s)) : i + 1 \in 1..Len(s) /\ Tail(s)[i] = s[i + 1]
         /\ Head(s) = s[1] /\ Head(s) \in S /\ Head(s) \in Elems(s)
         /\ Elems(Tail(s)) \subseteq Elems(s)
<1>1. /\ Tail(s) \in Seq(S) /\ Len(Tail(s)) = Len(s) - 1 /\ Len(s) >= 1 /\ Len(s) \in Nat
      /\ \A i \in 1..Len(Tail(s)) : i + 1 \in 1..Len(s) /\ Tail(s)[i] = s[i + 1]
      /\ Head(s) = s[1] /\ Head(s) \in S
  OBVIOUS
<1> QED
  BY <1>1 DEF Elems

\* Nothing is in an empty queue, and what is in a queue has its type.
LEMMA ElemsAre ==
  ASSUME NEW S, NEW s \in Seq(S)
  PROVE  Elems(s) \subseteq S /\ (s = <<>> <=> Elems(s) = {}) /\ Elems(<<>>) = {}
<1>1. Elems(s) \subseteq S /\ (s = <<>> => Elems(s) = {}) /\ Elems(<<>>) = {}
  BY DEF Elems
<1>2. s # <<>> => Elems(s) # {}
  BY TailIs
<1> QED
  BY <1>1, <1>2

\* A queue of length 0 is empty, another one has a first element.
LEMMA LengthIs ==
  ASSUME NEW S, NEW s \in Seq(S)
  PROVE  /\ Len(s) = 0 => s = <<>>
         /\ Len(s) >= 1 => 1 \in 1..Len(s)
OBVIOUS

\* An empty queue has no places.
LEMMA NoPlaces == ASSUME NEW n, n = 0 PROVE 1..n = {}
OBVIOUS

\* What the fields of a command are.
LEMMA CommandIs ==
  /\ \A c \in Command :
       /\ c.do \in {"start", "timeout", "home", "trigger", "query"}
       /\ c.do \in {"start", "timeout"} => c.clock \in Nat
       /\ c.do = "home" => c.on \in BOOLEAN
       /\ c.do \in {"trigger", "query"} => c.reason \in Reasons
  /\ \A t \in Nat : [do |-> "start", clock |-> t] \in Command /\ [do |-> "timeout", clock |-> t] \in Command
  /\ \A o \in BOOLEAN : [do |-> "home", on |-> o] \in Command
  /\ \A r \in Reasons : [do |-> "trigger", reason |-> r] \in Command /\ [do |-> "query", reason |-> r] \in Command
BY DEF Command

\* The acknowledged clock is that of another board, and the earliest of them.
LEMMA AcknowledgedIs ==
  ASSUME NEW status \in [Boards -> Nat], NEW b \in Boards
  PROVE  /\ Acknowledged(b, status) \in Nat
         /\ \A a \in Boards \ {b} : Acknowledged(b, status) <= status[a]
<1> DEFINE others == IF Boards = {b} THEN Boards ELSE Boards \ {b}
           m == CHOOSE x \in others : \A n \in others : status[x] <= status[n]
<1>1. others \in SUBSET Boards /\ others # {} /\ \A a \in Boards \ {b} : a \in others
  OBVIOUS
<1> HIDE DEF others
<1>2. \E x \in others : \A n \in others : status[x] <= status[n]
  BY <1>1, Smallest, TriggerAssumption
<1>3. m \in others /\ \A n \in others : status[m] <= status[n]
  BY <1>2
<1>4. Acknowledged(b, status) = status[m]
  BY DEF Acknowledged, others
<1> HIDE DEF m
<1> QED
  BY <1>1, <1>3, <1>4

\* Everything that a step leaves alone keeps its type.
LEMMA Unchanged ==
  ASSUME TypeOK
  PROVE  /\ UNCHANGED board => BoardTypes'
         /\ UNCHANGED <<link, responses>> => QueueTypes'
         /\ UNCHANGED td => TdTypes'
         /\ UNCHANGED host => HostTypes'
         /\ UNCHANGED now => now' \in 0..MaxTime
BY DEF TypeOK, board, BoardTypes, link, QueueTypes, td, TdTypes, host, HostTypes, NEVER

\* A board that stops, or is asked to.
LEMMA StopsTypes ==
  ASSUME TypeOK, NEW b \in Boards, NEW why \in Reasons, NEW answer \in BOOLEAN, Stops(b, why, answer)
  PROVE  /\ homing' \in BOOLEAN => BoardTypes'
         /\ reports' \in [Boards -> Seq(State)]
<1> DEFINE because == IF can_trigger[b] THEN why ELSE reason[b]
           m == [can_trigger |-> FALSE, reason |-> because, clock |-> now, answer |-> answer]
<1>1. because \in Reasons /\ now \in Nat
  BY TriggerAssumption DEF TypeOK, BoardTypes
<1>2. m \in State
  BY <1>1 DEF State
<1>3. reports' = [reports EXCEPT ![b] = Append(@, m)] /\ reason' = [reason EXCEPT ![b] = because]
  BY DEF Stops
<1> HIDE DEF m, because
<1>4. Append(reports[b], m) \in Seq(State)
  BY <1>2, AppendIs DEF TypeOK, QueueTypes
<1>5. reports' \in [Boards -> Seq(State)]
  BY <1>3, <1>4 DEF TypeOK, QueueTypes
<1>6. homing' \in BOOLEAN => BoardTypes'
  BY <1>1, <1>3 DEF TypeOK, BoardTypes, Stops
<1> QED
  BY <1>5, <1>6

\* A command is sent.
LEMMA SendTypes ==
  ASSUME TypeOK, NEW b \in Boards, NEW c \in Command, Send(b, c)
  PROVE  commands' \in [Boards -> Seq(Command)]
BY AppendIs DEF TypeOK, QueueTypes, Send

\* The commands of the model are commands.
LEMMA CommandsAre ==
  /\ [do |-> "home", on |-> TRUE] \in Command /\ [do |-> "home", on |-> FALSE] \in Command
  /\ Trigger("host") \in Command /\ Trigger("past end") \in Command
  /\ [do |-> "query", reason |-> "host"] \in Command
BY CommandIs DEF Trigger, Reasons

\* A message is taken off one queue.
LEMMA PoppedTypes ==
  ASSUME TypeOK, NEW b \in Boards, Popped(b), responses[b] # <<>>
  PROVE  responses' \in [Boards -> Seq(State)] /\ Head(responses[b]) \in State
BY TailIs DEF TypeOK, QueueTypes, Popped

\* The homing greenlet and the clock keep the types.
LEMMA HostStepTypes ==
  ASSUME TypeOK, Start \/ Arm \/ MoveEnds \/ WaitEnds \/ Tick \/ (\E b \in Boards : Stop(b) \/ Answer(b))
  PROVE  TypeOK'
<1> USE TriggerAssumption
<1>0. now \in Nat /\ now <= MaxTime /\ NEVER \in Nat /\ NEVER = MaxTime + 1
  BY DEF TypeOK, NEVER
<1>1. CASE Start
  <2>1. now + Expire \in Nat
    BY <1>0
  <2>2. [do |-> "start", clock |-> now + Expire] \in Command
    BY <2>1, CommandIs
  <2>3. commands' \in [Boards -> Seq(Command)]
    BY <1>1, <2>2, AppendIs DEF Start, TypeOK, QueueTypes
  <2>4. QueueTypes' /\ BoardTypes' /\ now' \in 0..MaxTime
    BY <1>1, <2>3, Unchanged DEF Start, TypeOK, QueueTypes
  <2>5. TdTypes'
    BY <1>0, <1>1, <2>1 DEF Start, TypeOK, TdTypes
  <2>6. HostTypes'
    <3>1. round' \in Nat /\ listening' \in [Boards -> BOOLEAN] /\ home_end' \in 0..NEVER
      BY <1>0, <1>1 DEF Start, TypeOK, HostTypes
    <3> QED
      BY <1>1, <3>1 DEF Start, TypeOK, HostTypes, Places
  <2> QED
    BY <2>4, <2>5, <2>6 DEF TypeOK
<1>2. CASE Arm
  <2>1. commands' \in [Boards -> Seq(Command)]
    BY <1>2, SendTypes, CommandsAre DEF Arm
  <2>2. QueueTypes' /\ BoardTypes' /\ now' \in 0..MaxTime
    BY <1>2, <2>1, Unchanged DEF Arm, TypeOK, QueueTypes
  <2>3. TdTypes' /\ HostTypes'
    BY <1>2 DEF Arm, TypeOK, TdTypes, HostTypes, Places
  <2> QED
    BY <2>2, <2>3 DEF TypeOK
<1>3. CASE MoveEnds
  <2>1. HostTypes'
    BY <1>0, <1>3 DEF MoveEnds, TypeOK, HostTypes, Places
  <2> QED
    BY <1>3, <2>1, Unchanged DEF MoveEnds, TypeOK
<1>4. CASE WaitEnds
  <2>1. commands' \in [Boards -> Seq(Command)]
    BY <1>4, SendTypes, CommandsAre DEF WaitEnds
  <2>2. QueueTypes' /\ BoardTypes' /\ now' \in 0..MaxTime
    BY <1>4, <2>1, Unchanged DEF WaitEnds, TypeOK, QueueTypes
  <2>3. TdTypes' /\ HostTypes'
    BY <1>4 DEF WaitEnds, TypeOK, TdTypes, HostTypes, Places, Reasons
  <2> QED
    BY <2>2, <2>3 DEF TypeOK
<1>5. CASE Tick
  BY <1>0, <1>5, Unchanged DEF Tick, TypeOK
<1>6. ASSUME NEW b \in Boards, Stop(b) PROVE TypeOK'
  <2>1. commands' \in [Boards -> Seq(Command)]
    BY <1>6, SendTypes, CommandsAre DEF Stop
  <2>2. QueueTypes' /\ BoardTypes' /\ TdTypes' /\ now' \in 0..MaxTime
    BY <1>6, <2>1, Unchanged DEF Stop, TypeOK, QueueTypes
  <2>3. HostTypes'
    BY <1>0, <1>6 DEF Stop, TypeOK, HostTypes, Places
  <2> QED
    BY <2>2, <2>3 DEF TypeOK
<1>7. ASSUME NEW b \in Boards, Answer(b) PROVE TypeOK'
  <2>1. responses' \in [Boards -> Seq(State)] /\ Head(responses[b]).reason \in Reasons
    BY <1>7, PoppedTypes DEF Answer, TakeAnswer, State
  <2>2. results' \in [Boards -> Reasons]
    BY <1>7, <2>1 DEF Answer, TakeAnswer, TypeOK, HostTypes
  <2>3. EndsWith(results') \in Reasons
    BY <2>2 DEF EndsWith, Reasons
  <2>4. HostTypes'
    BY <1>7, <2>2, <2>3 DEF Answer, TakeAnswer, TypeOK, HostTypes, Places, NEVER
  <2>5. QueueTypes'
    BY <1>7, <2>1 DEF Answer, TakeAnswer, TypeOK, QueueTypes, link
  <2> QED
    BY <1>7, <2>4, <2>5, Unchanged DEF Answer, TakeAnswer, TypeOK
<1> QED
  BY <1>1, <1>2, <1>3, <1>4, <1>5, <1>6, <1>7

\* The boards keep the types.
LEMMA BoardStepTypes ==
  ASSUME TypeOK, Hit \/ (\E b \in Boards : Obey(b) \/ Expires(b) \/ Reports(b))
  PROVE  TypeOK'
<1> USE TriggerAssumption
<1>1. CASE Hit
  <2>1. BoardTypes' /\ reports' \in [Boards -> Seq(State)]
    BY <1>1, StopsTypes DEF Hit, Reasons
  <2> QED
    BY <1>1, <2>1, Unchanged DEF Hit, TypeOK, QueueTypes
<1>2. ASSUME NEW b \in Boards, Obey(b) PROVE TypeOK'
  <2> DEFINE c == Head(commands[b])
  <2>1. commands[b] \in Seq(Command) /\ commands[b] # <<>>
    BY <1>2 DEF Obey, TypeOK, QueueTypes
  <2>2. c \in Command /\ Tail(commands[b]) \in Seq(Command)
    BY <2>1, TailIs
  <2>3. commands' \in [Boards -> Seq(Command)] /\ UNCHANGED <<now, responses, td, host>>
    BY <1>2, <2>2 DEF Obey, TypeOK, QueueTypes
  <2> HIDE DEF c
  <2>4. CASE c.do = "start" /\ BoardStarts(b, c.clock)
    <3>1. now \in Nat /\ c.clock \in Nat
      BY <2>2, <2>4, CommandIs DEF TypeOK
    <3>2. /\ can_trigger' \in [Boards -> BOOLEAN] /\ reason' \in [Boards -> Reasons]
          /\ expire' \in [Boards -> Nat] /\ next_report' \in [Boards -> Nat]
      BY <2>4, <3>1 DEF BoardStarts, TypeOK, BoardTypes, Reasons
    <3>3. /\ board_round' \in [Boards -> Nat] /\ stopped_at' \in [Boards -> Nat]
          /\ homing' \in BOOLEAN
      BY <2>4 DEF BoardStarts, TypeOK, BoardTypes
    <3>4. BoardTypes'
      BY <3>2, <3>3 DEF BoardTypes
    <3> QED
      BY <2>3, <2>4, <3>4, Unchanged DEF BoardStarts, TypeOK, QueueTypes
  <2>5. CASE c.do = "timeout" /\ expire' = [expire EXCEPT ![b] = c.clock]
             /\ UNCHANGED <<can_trigger, reason, next_report, homing, stopped_at, board_round, reports>>
    <3>1. BoardTypes'
      BY <2>2, <2>5, CommandIs DEF TypeOK, BoardTypes
    <3> QED
      BY <2>3, <2>5, <3>1, Unchanged DEF TypeOK, QueueTypes
  <2>6. CASE c.do = "home" /\ homing' = c.on
             /\ UNCHANGED <<can_trigger, reason, expire, next_report, stopped_at, board_round, reports>>
    <3>1. BoardTypes'
      BY <2>2, <2>6, CommandIs DEF TypeOK, BoardTypes
    <3> QED
      BY <2>3, <2>6, <3>1, Unchanged DEF TypeOK, QueueTypes
  <2>7. CASE c.do \in {"trigger", "query"} /\ Stops(b, c.reason, c.do = "query") /\ UNCHANGED homing
    <3>1. BoardTypes' /\ reports' \in [Boards -> Seq(State)]
      BY <2>2, <2>7, CommandIs, StopsTypes DEF TypeOK, BoardTypes
    <3> QED
      BY <2>3, <3>1, Unchanged DEF TypeOK, QueueTypes
  <2> QED
    BY <1>2, <2>4, <2>5, <2>6, <2>7 DEF Obey, c
<1>3. ASSUME NEW b \in Boards, Expires(b) PROVE TypeOK'
  <2>1. BoardTypes' /\ reports' \in [Boards -> Seq(State)]
    BY <1>3, StopsTypes DEF Expires, Reasons, TypeOK, BoardTypes
  <2> QED
    BY <1>3, <2>1, Unchanged DEF Expires, TypeOK, QueueTypes
<1>4. ASSUME NEW b \in Boards, Reports(b) PROVE TypeOK'
  <2>0. now \in Nat
    BY DEF TypeOK
  <2>1. [can_trigger |-> TRUE, reason |-> "none", clock |-> now, answer |-> FALSE] \in State
    BY <2>0 DEF State, Reasons
  <2>2. reports' \in [Boards -> Seq(State)]
    BY <1>4, <2>1, AppendIs DEF Reports, TypeOK, QueueTypes
  <2>3. BoardTypes'
    BY <1>4, <2>0 DEF Reports, TypeOK, BoardTypes
  <2> QED
    BY <1>4, <2>2, <2>3, Unchanged DEF Reports, TypeOK, QueueTypes
<1> QED
  BY <1>1, <1>2, <1>3, <1>4

\* The host's other threads keep the types.
LEMMA ThreadStepTypes ==
  ASSUME TypeOK, NEW b \in Boards, FastRead(b) \/ Handle(b) PROVE TypeOK'
<1>1. CASE FastRead(b)
  <2>1. reports[b] \in Seq(State) /\ reports[b] # <<>>
    BY <1>1 DEF FastRead, TypeOK, QueueTypes
  <2>2. Head(reports[b]) \in State /\ Tail(reports[b]) \in Seq(State)
    BY <2>1, TailIs
  <2>3. Append(responses[b], Head(reports[b])) \in Seq(State)
    BY <2>2, AppendIs DEF TypeOK, QueueTypes
  <2>4. /\ reports' \in [Boards -> Seq(State)] /\ responses' \in [Boards -> Seq(State)]
        /\ UNCHANGED <<now, board, is_active, host>>
    BY <1>1, <2>2, <2>3 DEF FastRead, TypeOK, QueueTypes
  <2>5. /\ commands' \in [Boards -> Seq(Command)] /\ td_can_trigger' \in BOOLEAN
        /\ last_status' \in [Boards -> Nat] /\ expire_clock' \in [Boards -> Nat]
    <3>1. CASE Alive(b, Head(reports[b]).clock)
      <4> DEFINE status == [last_status EXCEPT ![b] = Head(reports[b]).clock]
                 new == [m \in Boards |-> IF m \in Extended(status)
                                 THEN Acknowledged(m, status) + Expire ELSE expire_clock[m]]
      <4>1. status \in [Boards -> Nat]
        BY <2>2 DEF TypeOK, TdTypes, State
      <4> HIDE DEF status
      <4>2. \A m \in Boards : Acknowledged(m, status) \in Nat
        BY <4>1, AcknowledgedIs
      <4>3. new \in [Boards -> Nat]
        BY <4>2, TriggerAssumption DEF TypeOK, TdTypes
      <4> HIDE DEF new
      <4>4. \A m \in Boards : [do |-> "timeout", clock |-> new[m]] \in Command
        BY <4>3, CommandIs
      <4>5. \A m \in Boards : Append(commands[m], [do |-> "timeout", clock |-> new[m]]) \in Seq(Command)
        BY <4>4, AppendIs DEF TypeOK, QueueTypes
      <4>6. /\ last_status' = status /\ expire_clock' = new /\ td_can_trigger' = td_can_trigger
            /\ commands' = [m \in Boards |->
                 IF m \in Extended(status)
                 THEN Append(commands[m], [do |-> "timeout", clock |-> new[m]]) ELSE commands[m]]
        BY <3>1 DEF Alive, status, new
      <4>7. commands' \in [Boards -> Seq(Command)]
        BY <4>5, <4>6 DEF TypeOK, QueueTypes
      <4> QED
        BY <4>1, <4>3, <4>6, <4>7 DEF TypeOK, TdTypes
    <3>2. CASE PassOn
      <4>1. \A m \in Boards : Append(commands[m], Trigger("host")) \in Seq(Command)
        BY CommandsAre, AppendIs DEF TypeOK, QueueTypes
      <4> QED
        BY <3>2, <4>1 DEF PassOn, TypeOK, TdTypes
    <3>3. CASE UNCHANGED <<commands, td_can_trigger, last_status, expire_clock>>
      BY <3>3 DEF TypeOK, TdTypes, QueueTypes
    <3> QED
      BY <1>1, <3>1, <3>2, <3>3 DEF FastRead
  <2>6. QueueTypes' /\ TdTypes'
    BY <2>4, <2>5 DEF QueueTypes, TdTypes, TypeOK
  <2> QED
    BY <2>4, <2>6, Unchanged DEF TypeOK
<1>2. CASE Handle(b)
  <2>1. responses' \in [Boards -> Seq(State)]
    BY <1>2, PoppedTypes DEF Handle
  <2>2. commands' \in [Boards -> Seq(Command)]
    BY <1>2, SendTypes, CommandsAre DEF Handle, TypeOK, QueueTypes
  <2>3. QueueTypes'
    BY <1>2, <2>1, <2>2 DEF Handle, TypeOK, QueueTypes
  <2>4. HostTypes'
    <3>1. NEVER \in 0..NEVER
      BY TriggerAssumption DEF NEVER
    <3> QED
      BY <1>2, <3>1 DEF Handle, TypeOK, HostTypes
  <2> QED
    BY <1>2, <2>3, <2>4, Unchanged DEF Handle, TypeOK
<1> QED
  BY <1>1, <1>2

\* Every step keeps the types.
LEMMA TypeStep == TypeOK /\ [Next]_vars => TypeOK'
<1>1. ASSUME TypeOK, UNCHANGED vars PROVE TypeOK'
  BY <1>1, Unchanged DEF vars, TypeOK
<1> QED
  BY <1>1, HostStepTypes, BoardStepTypes, ThreadStepTypes DEF Next

-----------------------------------------------------------------------------
(* The queues of one board, whoever works on them. *)

NoQuery(s) == \A c \in Elems(s) : c.do # "query"

\* stop() has not come to the board.
Live(b) == at # "idle" /\ asked # b /\ ~(at = "stopping" /\ b \notin left)

\* A board that has not obeyed a query has not answered, and one that is not
\* asked has no query.
LEMMA Unanswered ==
  ASSUME NEW b \in Boards, Asked(b)
  PROVE  /\ ~Done(b) => NoAnswer(reports[b]) /\ NoAnswer(responses[b])
         /\ asked # b => NoQuery(commands[b])
BY DEF Asked, NoAnswer, NoQuery, Elems, Done

\* Without a query and an answer there is nothing to say of them.
LEMMA AskedEmpty ==
  ASSUME NEW b \in Boards, NoQuery(commands[b]), NoAnswer(reports[b]), NoAnswer(responses[b])
  PROVE  Asked(b)
BY DEF Asked, NoAnswer, NoQuery, Elems

\* The host sends to a board that stop() has not come to, and reads from it.
LEMMA LiveQueue ==
  ASSUME TypeOK, TypeOK', NEW b \in Boards, QueueOf(b), Live(b), Live(b)',
         \/ commands'[b] = commands[b]
         \/ \E c \in Command : /\ c.do \notin {"start", "query"}
                             /\ commands'[b] = Append(commands[b], c),
         Elems(reports'[b]) \subseteq Elems(reports[b]),
         Elems(responses'[b]) \subseteq Elems(responses[b]) \cup Elems(reports[b]),
         UNCHANGED board, round' = round
  PROVE  QueueOf(b)'
<1>1. UNCHANGED <<can_trigger, reason, board_round>>
  BY DEF board
<1>2. commands[b] \in Seq(Command) /\ commands'[b] \in Seq(Command)
  BY DEF TypeOK, QueueTypes
<1>3. NoQuery(commands[b]) /\ NoAnswer(reports[b]) /\ NoAnswer(responses[b])
  BY Unanswered DEF QueueOf, Live, Done
<1> DEFINE s == commands[b]
           s_new == commands'[b]
           Same == /\ s # <<>> => s_new # <<>> /\ Head(s_new) = Head(s)
                   /\ \A i \in 1..Len(s_new) : s_new[i].do = "start" =>
                        i \in 1..Len(s) /\ s[i].do = "start"
                   /\ \A c \in Elems(s_new) : c \in Elems(s) \/ c.do # "query"
<1>4. Same
  <2>1. CASE s_new = s
    BY <2>1
  <2>2. ASSUME NEW c \in Command, c.do \notin {"start", "query"}, s_new = Append(s, c) PROVE Same
    <3>1. /\ Len(s_new) = Len(s) + 1 /\ Len(s) \in Nat
          /\ \A i \in 1..Len(s) : s_new[i] = s[i]
          /\ s_new[Len(s) + 1] = c /\ Elems(s_new) = Elems(s) \cup {c}
      BY <1>2, <2>2, AppendIs
    <3>2. s # <<>> => s_new # <<>> /\ Head(s_new) = Head(s)
      BY <1>2, <2>2, <3>1, TailIs
    <3>3. \A i \in 1..Len(s_new) : i \in 1..Len(s) \/ i = Len(s) + 1
      BY <3>1
    <3> HIDE DEF s, s_new
    <3> QED
      BY <2>2, <3>1, <3>2, <3>3
  <2> QED
    BY <2>1, <2>2
<1>5. Started(b)'
  BY <1>1, <1>4 DEF QueueOf, Started
<1>6. NoQuery(commands'[b]) /\ NoAnswer(reports'[b]) /\ NoAnswer(responses'[b])
  BY <1>3, <1>4 DEF NoQuery, NoAnswer
<1>7. Asked(b)'
  BY <1>6 DEF Asked, NoQuery, NoAnswer, Elems
<1>8. Told(b)'
  BY <1>1 DEF QueueOf, Told
<1>9. Settled(b)'
  BY DEF Settled, Live
<1> QED
  BY <1>5, <1>7, <1>8, <1>9 DEF QueueOf

\* A board that nothing happens to.
LEMMA QueueUntouched ==
  ASSUME NEW b \in Boards, QueueOf(b), commands'[b] = commands[b], reports'[b] = reports[b],
         responses'[b] = responses[b], can_trigger'[b] = can_trigger[b], reason'[b] = reason[b],
         board_round'[b] = board_round[b], results'[b] = results[b],
         UNCHANGED <<round, at, asked, left>>
  PROVE  QueueOf(b)'
BY DEF QueueOf, Started, Asked, Told, Settled, Done, NoAnswer

\* The board works off a command or reports, without a start or a query.
LEMMA BoardActs ==
  ASSUME TypeOK, TypeOK', NEW b \in Boards, QueueOf(b),
         UNCHANGED <<at, asked, left, round, results>>, responses'[b] = responses[b],
         board_round'[b] = board_round[b], can_trigger'[b] => can_trigger[b],
         \/ commands'[b] = commands[b] /\ can_trigger[b]
         \/ /\ commands[b] # <<>> /\ commands'[b] = Tail(commands[b])
            /\ Head(commands[b]).do \notin {"start", "query"},
         \/ reports'[b] = reports[b]
         \/ \E m \in State : /\ ~m.answer /\ (~m.can_trigger => ~can_trigger'[b])
                           /\ reports'[b] = Append(reports[b], m)
  PROVE  QueueOf(b)'
<1>1. ~Done(b) /\ ~(at = "idle" \/ (at = "stopping" /\ b \notin left /\ b # asked))
  BY DEF QueueOf, Settled, Done
<1>2. NoAnswer(reports[b]) /\ NoAnswer(responses[b])
  BY <1>1, Unanswered DEF QueueOf
<1>3. /\ commands[b] \in Seq(Command) /\ reports[b] \in Seq(State) /\ board_round[b] \in Nat
      /\ round \in Nat
  BY DEF TypeOK, QueueTypes, BoardTypes, HostTypes
<1>4. board_round[b] = round
  BY DEF QueueOf, Started
<1>5. /\ NoAnswer(reports'[b])
      /\ \A m \in Elems(reports'[b]) : m \in Elems(reports[b]) \/ (~m.can_trigger => ~can_trigger'[b])
  <2>1. CASE reports'[b] = reports[b]
    BY <1>2, <2>1
  <2>2. CASE reports'[b] # reports[b]
    <3>1. PICK m \in State : /\ ~m.answer /\ (~m.can_trigger => ~can_trigger'[b])
                             /\ reports'[b] = Append(reports[b], m)
      BY <2>2
    <3>2. Elems(reports'[b]) = Elems(reports[b]) \cup {m}
      BY <1>3, <3>1, AppendIs
    <3> QED
      BY <1>2, <3>1, <3>2 DEF NoAnswer
  <2> QED
    BY <2>1, <2>2
<1>6. /\ \A i \in 1..Len(commands'[b]) : commands'[b][i].do # "start"
      /\ \A i \in 1..Len(commands'[b]) : commands'[b][i].do = "query" =>
           i = Len(commands'[b]) /\ at = "stopping" /\ asked = b
  <2> DEFINE s == commands[b]
             s_new == commands'[b]
  <2>0. /\ \A i \in 1..Len(s) : s[i].do # "start"
        /\ \A i \in 1..Len(s) : s[i].do = "query" => i = Len(s) /\ at = "stopping" /\ asked = b
    BY <1>3, <1>4 DEF QueueOf, Started, Asked
  <2>1. CASE s_new = s
    BY <2>0, <2>1
  <2>2. CASE s # <<>> /\ s_new = Tail(s)
    <3>1. /\ Len(s_new) = Len(s) - 1 /\ Len(s) \in Nat
          /\ \A i \in 1..Len(s_new) : i + 1 \in 1..Len(s) /\ s_new[i] = s[i + 1]
      BY <1>3, <2>2, TailIs
    <3> HIDE DEF s, s_new
    <3>2. ASSUME NEW i \in 1..Len(s_new)
          PROVE  /\ s_new[i].do # "start"
                 /\ s_new[i].do = "query" => i = Len(s_new) /\ at = "stopping" /\ asked = b
      BY <2>0, <3>1
    <3> USE DEF s_new
    <3> QED
      BY <3>2
  <2> QED
    BY <2>1, <2>2
<1>7. Started(b)'
  BY <1>3, <1>4, <1>6 DEF Started
<1>8. Asked(b)'
  BY <1>2, <1>5, <1>6 DEF Asked, NoAnswer, Elems
<1>9. Told(b)'
  BY <1>4, <1>5 DEF QueueOf, Told
<1>10. Settled(b)'
  BY <1>1 DEF Settled
<1> QED
  BY <1>7, <1>8, <1>9, <1>10 DEF QueueOf

\* The board obeys the start.
LEMMA BoardStartsQueue ==
  ASSUME TypeOK, TypeOK', NEW b \in Boards, QueueOf(b),
         UNCHANGED <<at, asked, left, round, results>>, responses'[b] = responses[b],
         reports'[b] = reports[b], board_round'[b] = board_round[b] + 1,
         commands[b] # <<>>, commands'[b] = Tail(commands[b]), Head(commands[b]).do = "start"
  PROVE  QueueOf(b)'
<1>1. ~Done(b) /\ ~(at = "idle" \/ (at = "stopping" /\ b \notin left /\ b # asked))
  BY DEF QueueOf, Settled, Done
<1>2. NoAnswer(reports[b]) /\ NoAnswer(responses[b])
  BY <1>1, Unanswered DEF QueueOf
<1>3. commands[b] \in Seq(Command) /\ board_round[b] \in Nat /\ round \in Nat
  BY DEF TypeOK, QueueTypes, BoardTypes, HostTypes
<1>4. /\ Len(commands'[b]) = Len(commands[b]) - 1 /\ Len(commands[b]) \in Nat
      /\ Len(commands[b]) >= 1 /\ Head(commands[b]) = commands[b][1]
      /\ \A i \in 1..Len(commands'[b]) :
           i + 1 \in 1..Len(commands[b]) /\ commands'[b][i] = commands[b][i + 1]
  BY <1>3, TailIs
<1>5. board_round[b] = round - 1 /\ board_round'[b] = round
  BY <1>3, <1>4 DEF QueueOf, Started
<1>6. \A i \in 1..Len(commands'[b]) : commands'[b][i].do # "start"
  BY <1>4 DEF QueueOf, Started
<1>7. Started(b)'
  BY <1>3, <1>5, <1>6 DEF Started
<1>8. Asked(b)'
  BY <1>2, <1>4 DEF QueueOf, Asked, NoAnswer, Elems
<1>9. Told(b)'
  <2>1. \A m \in Elems(reports[b]) \cup Elems(responses[b]) : m.can_trigger
    BY <1>3, <1>5 DEF QueueOf, Told
  <2> QED
    BY <2>1 DEF Told
<1>10. Settled(b)'
  BY <1>1 DEF Settled
<1> QED
  BY <1>7, <1>8, <1>9, <1>10 DEF QueueOf

\* The board answers the query, its last command.
LEMMA BoardAnswersQueue ==
  ASSUME TypeOK, TypeOK', NEW b \in Boards, QueueOf(b),
         UNCHANGED <<at, asked, left, round, results>>, responses'[b] = responses[b],
         board_round'[b] = board_round[b], ~can_trigger'[b],
         commands[b] # <<>>, commands'[b] = Tail(commands[b]), Head(commands[b]).do = "query",
         NEW m \in State, m.reason = reason'[b], reports'[b] = Append(reports[b], m)
  PROVE  QueueOf(b)'
<1>1. /\ commands[b] \in Seq(Command) /\ reports[b] \in Seq(State) /\ board_round[b] \in Nat
      /\ round \in Nat /\ commands'[b] \in Seq(Command)
  BY DEF TypeOK, QueueTypes, BoardTypes, HostTypes
<1>2. /\ Len(commands[b]) >= 1 /\ 1 \in 1..Len(commands[b]) /\ Head(commands[b]) = commands[b][1]
      /\ Len(commands'[b]) = Len(commands[b]) - 1
  BY <1>1, TailIs, LengthIs
<1>3. /\ Len(commands[b]) = 1 /\ at = "stopping" /\ asked = b
      /\ NoAnswer(reports[b]) /\ NoAnswer(responses[b])
  BY <1>2 DEF QueueOf, Asked
<1>4. commands'[b] = <<>>
  <2> DEFINE s == commands'[b]
  <2>1. s \in Seq(Command) /\ Len(s) = 0
    BY <1>1, <1>2, <1>3
  <2> HIDE DEF s
  <2>2. s = <<>>
    BY <2>1, LengthIs
  <2> QED
    BY <2>2 DEF s
<1>5. board_round[b] = round
  BY <1>1 DEF QueueOf, Started
<1>6. Started(b)'
  <2>1. Len(commands'[b]) = 0
    BY <1>2, <1>3
  <2>2. 1..Len(commands'[b]) = {}
    BY <2>1, NoPlaces, Zenon
  <2>3. board_round'[b] = round' /\ board_round'[b] # round' - 1
    BY <1>1, <1>5
  <2> QED
    BY <2>2, <2>3 DEF Started
<1>7. Done(b)'
  BY <1>3, <1>4 DEF Done
<1>8. Asked(b)'
  <2>1. /\ Len(reports'[b]) = Len(reports[b]) + 1 /\ reports'[b][Len(reports[b]) + 1] = m
        /\ \A i \in 1..Len(reports[b]) : reports'[b][i] = reports[b][i]
        /\ Len(reports[b]) \in Nat
    BY <1>1, AppendIs
  <2>2. \A i \in 1..Len(reports'[b]) : i \in 1..Len(reports[b]) \/ i = Len(reports[b]) + 1
    BY <2>1
  <2>3. \A i \in 1..Len(reports'[b]) : reports'[b][i].answer =>
          i = Len(reports'[b]) /\ reports'[b][i].reason = reason'[b]
    BY <1>3, <2>1, <2>2 DEF NoAnswer, Elems
  <2>4. 1..Len(commands'[b]) = {}
    <3>1. Len(commands'[b]) = 0
      BY <1>2, <1>3
    <3> QED
      BY <3>1, NoPlaces, Zenon
  <2>5. NoAnswer(responses'[b]) /\ \A i \in 1..Len(responses'[b]) : ~responses'[b][i].answer
    BY <1>3 DEF NoAnswer, Elems
  <2> QED
    BY <1>7, <2>3, <2>4, <2>5 DEF Asked
<1>9. Told(b)'
  BY <1>5 DEF Told
<1>10. Settled(b)'
  BY <1>3 DEF Settled
<1> QED
  BY <1>6, <1>8, <1>9, <1>10 DEF QueueOf

\* A report of the board that is asked arrives.
LEMMA AskedReads ==
  ASSUME TypeOK, TypeOK', NEW b \in Boards, QueueOf(b), at = "stopping", asked = b,
         UNCHANGED board, UNCHANGED <<at, asked, left, round, results>>, commands'[b] = commands[b],
         reports[b] # <<>>, reports'[b] = Tail(reports[b]),
         \/ responses'[b] = responses[b]
         \/ responses'[b] = Append(responses[b], Head(reports[b]))
  PROVE  QueueOf(b)'
<1>1. /\ reports[b] \in Seq(State) /\ reports'[b] \in Seq(State) /\ responses[b] \in Seq(State)
      /\ UNCHANGED <<can_trigger, reason, board_round>>
  BY DEF TypeOK, QueueTypes, board
<1>2. /\ 1 \in 1..Len(reports[b]) /\ Len(reports[b]) \in Nat /\ Head(reports[b]) = reports[b][1]
      /\ Head(reports[b]) \in State /\ Head(reports[b]) \in Elems(reports[b])
      /\ Len(reports'[b]) = Len(reports[b]) - 1 /\ Elems(reports'[b]) \subseteq Elems(reports[b])
      /\ \A i \in 1..Len(reports'[b]) :
           i + 1 \in 1..Len(reports[b]) /\ reports'[b][i] = reports[b][i + 1]
  BY <1>1, TailIs, LengthIs
<1>3. Elems(responses'[b]) \subseteq Elems(responses[b]) \cup Elems(reports[b])
  <2>1. CASE responses'[b] = responses[b]
    BY <2>1
  <2>2. CASE responses'[b] = Append(responses[b], Head(reports[b]))
    <3>1. Elems(responses'[b]) = Elems(responses[b]) \cup {Head(reports[b])}
      BY <1>1, <1>2, <2>2, AppendIs
    <3> QED
      BY <1>2, <3>1
  <2> QED
    BY <2>1, <2>2
<1>4. NoAnswer(responses[b])
  BY <1>1, <1>2 DEF QueueOf, Asked, NoAnswer, Elems
<1>5. Done(b)' <=> Done(b)
  BY <1>1 DEF Done
<1>6. CASE NoAnswer(reports[b])
  <2>1. NoAnswer(reports'[b]) /\ NoAnswer(responses'[b])
    BY <1>2, <1>3, <1>4, <1>6 DEF NoAnswer
  <2> QED
    BY <1>1, <1>2, <1>3, <2>1 DEF QueueOf, Started, Asked, Told, Settled, NoAnswer, Elems
<1>7. CASE ~NoAnswer(reports[b])
  <2>1. PICK i \in 1..Len(reports[b]) : reports[b][i].answer
    BY <1>7 DEF NoAnswer, Elems
  <2>2. Done(b) /\ i = Len(reports[b])
    BY <2>1 DEF QueueOf, Asked
  <2>3. 1..Len(commands'[b]) = {}
    <3>1. commands'[b] = <<>> /\ Len(<<>>) = 0
      BY <2>2 DEF Done
    <3> QED
      BY <3>1
  <2>4. ASSUME NEW j \in 1..Len(reports'[b]), reports'[b][j].answer
        PROVE  /\ j = Len(reports'[b]) /\ NoAnswer(responses'[b]) /\ reports'[b][j].reason = reason'[b]
    <3>1. reports[b][j + 1].answer /\ j + 1 \in 1..Len(reports[b])
      BY <1>2, <2>4
    <3>2. j + 1 = Len(reports[b]) /\ reports[b][j + 1].reason = reason[b]
      BY <3>1 DEF QueueOf, Asked
    <3>3. ~Head(reports[b]).answer
      BY <1>2, <3>1, <3>2 DEF QueueOf, Asked
    <3>4. NoAnswer(responses'[b])
      <4>1. CASE responses'[b] = responses[b]
        BY <1>4, <4>1
      <4>2. CASE responses'[b] = Append(responses[b], Head(reports[b]))
        <5>1. Elems(responses'[b]) = Elems(responses[b]) \cup {Head(reports[b])}
          BY <1>1, <1>2, <4>2, AppendIs
        <5> QED
          BY <1>4, <3>3, <5>1 DEF NoAnswer
      <4> QED
        BY <4>1, <4>2
    <3> QED
      BY <1>1, <1>2, <3>2, <3>4
  <2>5. ASSUME NEW j \in 1..Len(responses'[b]), responses'[b][j].answer
        PROVE  j = Len(responses'[b]) /\ reports'[b] = <<>> /\ responses'[b][j].reason = reason'[b]
    <3>1. responses'[b] = Append(responses[b], Head(reports[b]))
      BY <1>4, <2>5 DEF NoAnswer, Elems
    <3>2. /\ Len(responses'[b]) = Len(responses[b]) + 1 /\ Len(responses[b]) \in Nat
          /\ responses'[b][Len(responses[b]) + 1] = Head(reports[b])
          /\ \A k \in 1..Len(responses[b]) : responses'[b][k] = responses[b][k]
      BY <1>1, <1>2, <3>1, AppendIs
    <3>3. j = Len(responses[b]) + 1
      BY <1>4, <2>5, <3>2 DEF NoAnswer, Elems
    <3>4. Head(reports[b]).answer /\ Len(reports[b]) = 1 /\ Head(reports[b]).reason = reason[b]
      BY <1>2, <2>5, <3>2, <3>3 DEF QueueOf, Asked
    <3>5. reports'[b] = <<>>
      <4> DEFINE s == reports'[b]
      <4>1. s \in Seq(State) /\ Len(s) = 0
        BY <1>1, <1>2, <3>4
      <4> HIDE DEF s
      <4>2. s = <<>>
        BY <4>1, LengthIs
      <4> QED
        BY <4>2 DEF s
    <3> QED
      BY <1>1, <3>2, <3>3, <3>4, <3>5
  <2>6. Asked(b)'
    BY <1>5, <2>2, <2>3, <2>4, <2>5 DEF Asked
  <2>7. Started(b)' /\ Told(b)' /\ Settled(b)'
    BY <1>1, <1>2, <1>3 DEF QueueOf, Started, Told, Settled
  <2> QED
    BY <2>6, <2>7 DEF QueueOf
<1> QED
  BY <1>6, <1>7

\* A report of the board that is asked is handled.
LEMMA AskedHandles ==
  ASSUME TypeOK, TypeOK', NEW b \in Boards, QueueOf(b), at = "stopping", asked = b,
         UNCHANGED board, UNCHANGED <<at, asked, left, round, results>>, commands'[b] = commands[b],
         reports'[b] = reports[b], responses[b] # <<>>, responses'[b] = Tail(responses[b])
  PROVE  QueueOf(b)'
<1>1. /\ responses[b] \in Seq(State) /\ UNCHANGED <<can_trigger, reason, board_round>>
  BY DEF TypeOK, QueueTypes, board
<1>2. /\ Len(responses[b]) \in Nat
      /\ Len(responses'[b]) = Len(responses[b]) - 1 /\ Elems(responses'[b]) \subseteq Elems(responses[b])
      /\ \A i \in 1..Len(responses'[b]) :
           i + 1 \in 1..Len(responses[b]) /\ responses'[b][i] = responses[b][i + 1]
  BY <1>1, TailIs
<1>3. Done(b)' <=> Done(b)
  BY <1>1 DEF Done
<1>4. Started(b)' /\ Told(b)' /\ Settled(b)'
  BY <1>1, <1>2 DEF QueueOf, Started, Told, Settled
<1>5. /\ NoAnswer(responses[b]) => NoAnswer(responses'[b])
      /\ NoAnswer(reports[b]) => NoAnswer(reports'[b])
  BY <1>2 DEF NoAnswer
<1>6. \A i \in 1..Len(responses'[b]) : responses'[b][i].answer =>
        i = Len(responses'[b]) /\ reports'[b] = <<>> /\ Done(b)' /\ responses'[b][i].reason = reason'[b]
  BY <1>1, <1>2, <1>3 DEF QueueOf, Asked
<1>7. Asked(b)'
  BY <1>1, <1>3, <1>5, <1>6 DEF QueueOf, Asked
<1> QED
  BY <1>4, <1>7 DEF QueueOf

\* A board that has answered and is left alone.
LEMMA SettledStays ==
  ASSUME TypeOK, NEW b \in Boards, QueueOf(b),
         at = "idle" \/ (at = "stopping" /\ b \notin left /\ b # asked),
         commands'[b] = commands[b], reports'[b] = reports[b],
         responses'[b] = responses[b], can_trigger'[b] = can_trigger[b], reason'[b] = reason[b],
         board_round'[b] = board_round[b], results'[b] = results[b], round' = round
  PROVE  QueueOf(b)'
<1>1. /\ commands'[b] = <<>> /\ reports'[b] = <<>> /\ responses'[b] = <<>>
      /\ ~can_trigger'[b] /\ results'[b] = reason'[b]
  BY DEF QueueOf, Settled
<1>2. Started(b)' /\ Settled(b)'
  BY <1>1 DEF QueueOf, Started, Settled
<1>3. Elems(<<>>) = {} /\ 1..Len(<<>>) = {}
  BY NoPlaces DEF Elems
<1>4. Asked(b)' /\ Told(b)'
  BY <1>1, <1>3 DEF Asked, Told
<1> QED
  BY <1>2, <1>4 DEF QueueOf

\* stop() asks the next board.
LEMMA StopQueue ==
  ASSUME TypeOK, TypeOK', HostInv, QueueInv, NEW b \in Boards, Stop(b) PROVE QueueInv'
<1> DEFINE q == [do |-> "query", reason |-> "host"]
<1>0. /\ at = "stopping" /\ at' = at /\ asked = Nobody /\ asked' = b /\ b \in left
      /\ left' = left \ {b} /\ UNCHANGED <<board, round, reports, responses, results>>
      /\ commands' = [commands EXCEPT ![b] = Append(@, q)] /\ Nobody \notin Boards
  BY TriggerAssumption DEF Stop, Send
<1>1. UNCHANGED <<can_trigger, reason, board_round>>
  BY <1>0 DEF board
<1>2. ASSUME NEW d \in Boards, d # b PROVE QueueOf(d)'
  <2>1. commands'[d] = commands[d] /\ QueueOf(d)
    BY <1>0, <1>2 DEF TypeOK, QueueTypes, QueueInv
  <2>2. CASE d \in left
    <3>1. Live(d) /\ Live(d)'
      BY <1>0, <1>2, <2>2 DEF Live
    <3> QED
      BY <1>0, <2>1, <3>1, LiveQueue
  <2>3. CASE d \notin left
    <3>1. d # asked
      BY <1>0
    <3> QED
      BY <1>0, <1>1, <2>1, <2>3, <3>1, SettledStays
  <2> QED
    BY <2>2, <2>3
<1>3. QueueOf(b)'
  <2>0. QueueOf(b) /\ asked # b /\ ~Done(b)
    BY <1>0 DEF QueueInv, Done
  <2>1. NoQuery(commands[b]) /\ NoAnswer(reports[b]) /\ NoAnswer(responses[b])
    BY <2>0, Unanswered DEF QueueOf
  <2> DEFINE s == commands[b]
             s_new == commands'[b]
  <2>2. s \in Seq(Command) /\ s_new = Append(s, q) /\ q \in Command
    BY <1>0, CommandsAre DEF TypeOK, QueueTypes
  <2> HIDE DEF s_new
  <2>3. /\ Len(s_new) = Len(s) + 1 /\ Len(s) \in Nat /\ s_new[Len(s) + 1] = q
        /\ \A i \in 1..Len(s) : s_new[i] = s[i]
        /\ \A i \in 1..Len(s_new) : i \in 1..Len(s) \/ i = Len(s) + 1
    BY <2>2, AppendIs
  <2>4. s # <<>> => s_new # <<>> /\ Head(s_new) = Head(s)
    BY <2>2, <2>3, TailIs
  <2>5. \A i \in 1..Len(s_new) : s_new[i].do = "query" => i = Len(s_new)
    BY <2>1, <2>3 DEF NoQuery, Elems
  <2>6. \A i \in 1..Len(s_new) : s_new[i].do = "start" => i \in 1..Len(s) /\ s[i].do = "start"
    BY <2>3
  <2> USE DEF s_new
  <2>7. Started(b)'
    <3> HIDE DEF q
    <3> QED
      BY <1>0, <1>1, <2>0, <2>4, <2>6 DEF QueueOf, Started
  <2>8. Asked(b)'
    <3> HIDE DEF q
    <3>1. NoAnswer(reports'[b]) /\ NoAnswer(responses'[b])
      BY <1>0, <2>1
    <3> QED
      BY <1>0, <2>5, <3>1 DEF Asked, NoAnswer, Elems
  <2>9. Told(b)' /\ Settled(b)'
    BY <1>0, <1>1, <2>0 DEF QueueOf, Told, Settled
  <2> QED
    BY <2>7, <2>8, <2>9 DEF QueueOf
<1> QED
  BY <1>2, <1>3 DEF QueueInv

\* The answer settles a board, the last one all of them.
LEMMA AnswerQueue ==
  ASSUME TypeOK, TypeOK', HostInv, QueueInv, NEW b \in Boards, Answer(b)
  PROVE  QueueInv' /\ (at' = "idle" => at = "stopping" /\ left = {})
<1>0. /\ asked = b /\ asked' = Nobody /\ responses[b] # <<>> /\ Head(responses[b]).answer
      /\ responses' = [responses EXCEPT ![b] = Tail(@)] /\ left' = left
      /\ results' = [results EXCEPT ![b] = Head(responses[b]).reason]
      /\ UNCHANGED <<board, commands, reports, round>>
      /\ at' = IF left = {} THEN "idle" ELSE at
      /\ at = "stopping" /\ Nobody \notin Boards /\ b \notin left
  BY TriggerAssumption DEF Answer, TakeAnswer, Popped, link, HostInv
<1>1. UNCHANGED <<can_trigger, reason, board_round>>
  BY <1>0 DEF board
<1>2. QueueOf(b)'
  <2>0. responses[b] \in Seq(State) /\ QueueOf(b)
    BY DEF TypeOK, QueueTypes, QueueInv
  <2>1. /\ 1 \in 1..Len(responses[b]) /\ Head(responses[b]) = responses[b][1]
        /\ Len(Tail(responses[b])) = Len(responses[b]) - 1 /\ Tail(responses[b]) \in Seq(State)
    BY <1>0, <2>0, TailIs, LengthIs
  <2>2. /\ Len(responses[b]) = 1 /\ reports[b] = <<>> /\ Done(b)
        /\ Head(responses[b]).reason = reason[b]
    BY <1>0, <2>0, <2>1 DEF QueueOf, Asked
  <2>3. Tail(responses[b]) = <<>>
    <3> DEFINE s == Tail(responses[b])
    <3>1. s \in Seq(State) /\ Len(s) = 0
      BY <2>1, <2>2
    <3> HIDE DEF s
    <3>2. s = <<>>
      BY <3>1, LengthIs
    <3> QED
      BY <3>2 DEF s
  <2>4. /\ commands'[b] = <<>> /\ reports'[b] = <<>> /\ responses'[b] = <<>>
        /\ ~can_trigger'[b] /\ results'[b] = reason'[b]
    BY <1>0, <1>1, <2>2, <2>3 DEF TypeOK, QueueTypes, HostTypes, Done
  <2>5. Started(b)' /\ Settled(b)'
    BY <1>0, <1>1, <2>0, <2>2, <2>4 DEF QueueOf, Started, Settled, Done
  <2>6. Elems(<<>>) = {} /\ 1..Len(<<>>) = {}
    BY NoPlaces DEF Elems
  <2>7. Asked(b)' /\ Told(b)'
    BY <2>4, <2>6 DEF Asked, Told
  <2> QED
    BY <2>5, <2>7 DEF QueueOf
<1>3. ASSUME NEW d \in Boards, d # b PROVE QueueOf(d)'
  <2>1. /\ QueueOf(d) /\ results'[d] = results[d] /\ responses'[d] = responses[d]
    BY <1>0, <1>3 DEF TypeOK, QueueTypes, HostTypes, QueueInv
  <2>2. CASE d \in left
    <3>1. Live(d) /\ Live(d)'
      BY <1>0, <1>3, <2>2 DEF Live
    <3> QED
      BY <1>0, <2>1, <3>1, LiveQueue
  <2>3. CASE d \notin left
    BY <1>0, <1>1, <1>3, <2>1, <2>3, SettledStays
  <2> QED
    BY <2>2, <2>3
<1> QED
  BY <1>0, <1>2, <1>3 DEF QueueInv

\* A move starts with all boards quiet.
LEMMA StartQueue ==
  ASSUME TypeOK, TypeOK', QueueInv, Start PROVE QueueInv'
<1> SUFFICES ASSUME NEW b \in Boards PROVE QueueOf(b)'
  BY DEF QueueInv
<1> DEFINE c == [do |-> "start", clock |-> now + Expire]
<1>0. /\ at = "idle" /\ at' = "starting" /\ round' = round + 1 /\ round \in Nat
      /\ UNCHANGED <<board, reports, responses, asked>>
      /\ commands'[b] = Append(commands[b], c)
  BY DEF Start, TypeOK, HostTypes
<1>1. UNCHANGED <<can_trigger, reason, board_round>>
  BY <1>0 DEF board
<1>2. /\ commands[b] = <<>> /\ reports[b] = <<>> /\ responses[b] = <<>> /\ ~can_trigger[b]
  BY <1>0 DEF QueueInv, QueueOf, Settled
<1>3. board_round[b] = round
  BY <1>2 DEF QueueInv, QueueOf, Started
<1>4. Len(commands'[b]) = 1 /\ commands'[b][1] = c /\ Head(commands'[b]) = c /\ commands'[b] # <<>>
  BY <1>0, <1>2
<1>5. Started(b)'
  BY <1>0, <1>1, <1>2, <1>3, <1>4 DEF Started
<1>6. \A i \in 1..Len(commands'[b]) : commands'[b][i].do # "query"
  BY <1>4
<1>7. Elems(<<>>) = {} /\ 1..Len(<<>>) = {}
  BY NoPlaces DEF Elems
<1>8. Asked(b)' /\ Told(b)' /\ Settled(b)'
  BY <1>0, <1>2, <1>6, <1>7 DEF Asked, Told, Settled
<1> QED
  BY <1>5, <1>8 DEF QueueOf

\* The other steps of the homing greenlet come before stop().
LEMMA GreenletQueue ==
  ASSUME TypeOK, TypeOK', HostInv, QueueInv, Arm \/ MoveEnds \/ WaitEnds PROVE QueueInv'
<1> SUFFICES ASSUME NEW b \in Boards PROVE QueueOf(b)'
  BY DEF QueueInv
<1>1. /\ UNCHANGED <<board, reports, responses, round>> /\ asked' = asked
      /\ asked = Nobody /\ Nobody \notin Boards
  BY TriggerAssumption DEF Arm, MoveEnds, WaitEnds, link, HostInv
<1>2. Live(b) /\ Live(b)'
  BY <1>1 DEF Live, Arm, MoveEnds, WaitEnds
<1> DEFINE Sent == \/ commands'[b] = commands[b]
                   \/ \E c \in Command : /\ c.do \notin {"start", "query"}
                                       /\ commands'[b] = Append(commands[b], c)
<1>3. Sent
  <2>1. ASSUME NEW o \in BOOLEAN, Send(First, [do |-> "home", on |-> o]) PROVE Sent
    <3>1. [do |-> "home", on |-> o] \in Command
      BY CommandIs
    <3>2. CASE b = First
      BY <2>1, <3>1, <3>2 DEF Send, TypeOK, QueueTypes
    <3>3. CASE b # First
      BY <2>1, <3>3 DEF Send, TypeOK, QueueTypes
    <3> QED
      BY <3>2, <3>3
  <2> QED
    BY <2>1 DEF Arm, MoveEnds, WaitEnds, link
<1> QED
  BY <1>1, <1>2, <1>3, LiveQueue DEF QueueInv

\* What Stops does to the board that stops, and to the others.
LEMMA StopsIs ==
  ASSUME TypeOK, NEW b \in Boards, NEW why \in Reasons, NEW answer \in BOOLEAN, Stops(b, why, answer)
  PROVE  /\ ~can_trigger'[b]
         /\ \E m \in State : /\ m.answer = answer /\ ~m.can_trigger /\ m.reason = reason'[b]
                          /\ m.clock = now /\ reports'[b] = Append(reports[b], m)
         /\ stopped_at'[b] = IF can_trigger[b] THEN now ELSE stopped_at[b]
         /\ board_round' = board_round /\ expire' = expire
         /\ \A d \in Boards \ {b} :
              /\ can_trigger'[d] = can_trigger[d] /\ reason'[d] = reason[d]
              /\ reports'[d] = reports[d] /\ stopped_at'[d] = stopped_at[d]
<1> DEFINE because == IF can_trigger[b] THEN why ELSE reason[b]
           m == [can_trigger |-> FALSE, reason |-> because, clock |-> now, answer |-> answer]
<1>1. because \in Reasons /\ now \in Nat
  BY TriggerAssumption DEF TypeOK, BoardTypes
<1>2. m \in State
  BY <1>1 DEF State
<1>3. reports' = [reports EXCEPT ![b] = Append(@, m)] /\ reason' = [reason EXCEPT ![b] = because]
  BY DEF Stops
<1>4. /\ m.answer = answer /\ ~m.can_trigger /\ m.reason = because /\ m.clock = now
  OBVIOUS
<1> HIDE DEF m, because
<1>5. reports'[b] = Append(reports[b], m) /\ reason'[b] = because
  BY <1>3 DEF TypeOK, QueueTypes, BoardTypes
<1>6. /\ ~can_trigger'[b] /\ stopped_at'[b] = IF can_trigger[b] THEN now ELSE stopped_at[b]
      /\ board_round' = board_round /\ expire' = expire
      /\ \A d \in Boards \ {b} : can_trigger'[d] = can_trigger[d] /\ stopped_at'[d] = stopped_at[d]
  BY DEF Stops, TypeOK, BoardTypes
<1>7. \A d \in Boards \ {b} : reason'[d] = reason[d] /\ reports'[d] = reports[d]
  BY <1>3 DEF TypeOK, BoardTypes, QueueTypes
<1> QED
  BY <1>2, <1>4, <1>5, <1>6, <1>7

\* A board stops by itself, or reports that it runs.
LEMMA BoardQueue ==
  ASSUME TypeOK, TypeOK', QueueInv, NEW b \in Boards,
         Expires(b) \/ Reports(b) \/ (Hit /\ b = First)
  PROVE  QueueInv'
<1> SUFFICES ASSUME NEW d \in Boards PROVE QueueOf(d)'
  BY DEF QueueInv
<1>0. QueueOf(d) /\ UNCHANGED <<commands, responses, at, asked, left, round, results>>
  BY DEF Expires, Reports, Hit, host, QueueInv
<1>1. CASE Expires(b) \/ (Hit /\ b = First)
  <2>1. PICK why \in Reasons : Stops(b, why, FALSE)
    BY <1>1 DEF Expires, Hit, Reasons
  <2>2. can_trigger[b]
    BY <1>1 DEF Expires, Hit
  <2>3. CASE d = b
    BY <1>0, <2>1, <2>2, <2>3, StopsIs, BoardActs
  <2>4. CASE d # b
    BY <1>0, <2>1, <2>4, StopsIs, QueueUntouched
  <2> QED
    BY <2>3, <2>4
<1>2. CASE Reports(b)
  <2> DEFINE m == [can_trigger |-> TRUE, reason |-> "none", clock |-> now, answer |-> FALSE]
  <2>1. m \in State /\ ~m.answer /\ m.can_trigger
    BY TriggerAssumption DEF TypeOK, State, Reasons
  <2>2. /\ can_trigger[b] /\ UNCHANGED <<can_trigger, reason, board_round>>
        /\ reports' = [reports EXCEPT ![b] = Append(@, m)]
    BY <1>2 DEF Reports
  <2> HIDE DEF m
  <2>3. /\ reports'[b] = Append(reports[b], m)
        /\ d # b => reports'[d] = reports[d]
    BY <2>2 DEF TypeOK, QueueTypes
  <2>4. CASE d = b
    BY <1>0, <2>1, <2>2, <2>3, <2>4, BoardActs
  <2>5. CASE d # b
    BY <1>0, <2>2, <2>3, <2>5, QueueUntouched
  <2> QED
    BY <2>4, <2>5
<1> QED
  BY <1>1, <1>2

\* What Obey does to the board's command queue, and to the other boards.
LEMMA ObeyIs ==
  ASSUME TypeOK, NEW b \in Boards, Obey(b)
  PROVE  /\ commands[b] # <<>> /\ commands'[b] = Tail(commands[b]) /\ Head(commands[b]) \in Command
         /\ UNCHANGED <<now, responses, td, host>>
         /\ \A d \in Boards \ {b} :
              /\ commands'[d] = commands[d] /\ reports'[d] = reports[d] /\ reason'[d] = reason[d]
              /\ can_trigger'[d] = can_trigger[d] /\ board_round'[d] = board_round[d]
              /\ stopped_at'[d] = stopped_at[d] /\ expire'[d] = expire[d]
         /\ \/ /\ Head(commands[b]).do = "start" /\ reports' = reports /\ can_trigger'[b]
               /\ board_round'[b] = board_round[b] + 1 /\ stopped_at' = stopped_at
               /\ expire'[b] = Head(commands[b]).clock
            \/ /\ Head(commands[b]).do = "timeout" /\ expire'[b] = Head(commands[b]).clock
               /\ UNCHANGED <<can_trigger, reason, board_round, reports, stopped_at>>
            \/ /\ Head(commands[b]).do = "home"
               /\ UNCHANGED <<can_trigger, reason, board_round, reports, stopped_at, expire>>
            \/ /\ Head(commands[b]).do \in {"trigger", "query"}
               /\ \E why \in Reasons : Stops(b, why, Head(commands[b]).do = "query")
<1> DEFINE c == Head(commands[b])
<1>1. /\ commands[b] # <<>> /\ commands' = [commands EXCEPT ![b] = Tail(@)]
      /\ UNCHANGED <<now, responses, td, host>>
  BY DEF Obey
<1>2. c \in Command /\ commands[b] \in Seq(Command)
  BY <1>1, TailIs DEF TypeOK, QueueTypes
<1>3. commands'[b] = Tail(commands[b]) /\ \A d \in Boards \ {b} : commands'[d] = commands[d]
  BY <1>1 DEF TypeOK, QueueTypes
<1> HIDE DEF c
<1>4. CASE c.do = "start" /\ BoardStarts(b, c.clock)
  <2>1. /\ can_trigger'[b] /\ board_round'[b] = board_round[b] + 1 /\ expire'[b] = c.clock
        /\ reports' = reports /\ stopped_at' = stopped_at
        /\ \A d \in Boards \ {b} :
              /\ can_trigger'[d] = can_trigger[d] /\ board_round'[d] = board_round[d]
              /\ reason'[d] = reason[d] /\ expire'[d] = expire[d]
    BY <1>4 DEF BoardStarts, TypeOK, BoardTypes
  <2> QED
    BY <1>1, <1>2, <1>3, <1>4, <2>1 DEF c
<1>5. CASE c.do = "timeout" /\ expire' = [expire EXCEPT ![b] = c.clock]
           /\ UNCHANGED <<can_trigger, reason, next_report, homing, stopped_at, board_round, reports>>
  <2>1. expire'[b] = c.clock /\ \A d \in Boards \ {b} : expire'[d] = expire[d]
    BY <1>5 DEF TypeOK, BoardTypes
  <2> QED
    BY <1>1, <1>2, <1>3, <1>5, <2>1 DEF c
<1>6. CASE c.do = "home" /\ homing' = c.on
           /\ UNCHANGED <<can_trigger, reason, expire, next_report, stopped_at, board_round, reports>>
  BY <1>1, <1>2, <1>3, <1>6 DEF c
<1>7. CASE c.do \in {"trigger", "query"} /\ Stops(b, c.reason, c.do = "query") /\ UNCHANGED homing
  <2>1. c.reason \in Reasons /\ (c.do = "query") \in BOOLEAN
    BY <1>2, <1>7, CommandIs
  <2>2. /\ board_round' = board_round /\ expire' = expire
        /\ \A d \in Boards \ {b} :
              /\ can_trigger'[d] = can_trigger[d] /\ reason'[d] = reason[d]
              /\ reports'[d] = reports[d] /\ stopped_at'[d] = stopped_at[d]
    BY <1>7, <2>1, StopsIs
  <2> QED
    BY <1>1, <1>2, <1>3, <1>7, <2>1, <2>2 DEF c
<1> QED
  BY <1>4, <1>5, <1>6, <1>7 DEF Obey, c

\* A board obeys its next command.
LEMMA ObeyQueue ==
  ASSUME TypeOK, TypeOK', QueueInv, NEW b \in Boards, Obey(b) PROVE QueueInv'
<1> SUFFICES ASSUME NEW d \in Boards PROVE QueueOf(d)'
  BY DEF QueueInv
<1>0. QueueOf(d) /\ UNCHANGED <<responses, at, asked, left, round, results>>
  BY ObeyIs DEF host, QueueInv
<1>1. CASE d # b
  BY <1>0, <1>1, ObeyIs, QueueUntouched
<1>2. CASE d = b
  <2>1. CASE Head(commands[b]).do = "start" /\ board_round'[b] = board_round[b] + 1 /\ reports' = reports
    BY <1>0, <1>2, <2>1, ObeyIs, BoardStartsQueue
  <2>2. CASE /\ Head(commands[b]).do \in {"timeout", "home"}
             /\ UNCHANGED <<can_trigger, board_round, reports>>
    BY <1>0, <1>2, <2>2, ObeyIs, BoardActs
  <2>3. CASE /\ Head(commands[b]).do = "trigger" /\ \E why \in Reasons : Stops(b, why, FALSE)
    <3>1. /\ ~can_trigger'[b] /\ board_round' = board_round
          /\ \E m \in State : ~m.answer /\ ~m.can_trigger /\ reports'[b] = Append(reports[b], m)
      BY <2>3, StopsIs
    <3> QED
      BY <1>0, <1>2, <2>3, <3>1, ObeyIs, BoardActs
  <2>4. CASE /\ Head(commands[b]).do = "query" /\ \E why \in Reasons : Stops(b, why, TRUE)
    <3>1. /\ ~can_trigger'[b] /\ board_round' = board_round
          /\ \E m \in State : m.reason = reason'[b] /\ reports'[b] = Append(reports[b], m)
      BY <2>4, StopsIs
    <3> QED
      BY <1>0, <1>2, <2>4, <3>1, ObeyIs, BoardAnswersQueue
  <2> QED
    BY <2>1, <2>2, <2>3, <2>4, ObeyIs
<1> QED
  BY <1>1, <1>2

\* A board that still has something on its way, and that stop() has come to, is
\* the one that is asked.
LEMMA NotQuiet ==
  ASSUME HostInv, NEW b \in Boards, QueueOf(b), ~Live(b), reports[b] # <<>> \/ responses[b] # <<>>
  PROVE  at = "stopping" /\ asked = b
<1>1. asked = b
  BY DEF Live, QueueOf, Settled
<1> QED
  BY <1>1, TriggerAssumption DEF HostInv

\* What the fast reader may send to board d, and what it then takes for granted.
Relayed(d) ==
  /\ \/ commands'[d] = commands[d]
     \/ \E c \in Command :
          /\ c.do \notin {"start", "query"} /\ commands'[d] = Append(commands[d], c)
          /\ c.do = "timeout" => c.clock = expire_clock'[d]
  /\ \/ expire_clock'[d] = expire_clock[d]
     \/ \A a \in Boards \ {d} : expire_clock'[d] <= last_status'[a] + Expire

\* A report of a board that still runs, passed on as time-outs.
LEMMA AliveIs ==
  ASSUME TypeOK, NEW b \in Boards, NEW clock \in Nat, Alive(b, clock)
  PROVE  /\ last_status'[b] = clock
         /\ \A d \in Boards : d # b => last_status'[d] = last_status[d]
         /\ \A d \in Boards : Relayed(d)
<1> DEFINE status == [last_status EXCEPT ![b] = clock]
           new == [m \in Boards |-> IF m \in Extended(status)
                           THEN Acknowledged(m, status) + Expire ELSE expire_clock[m]]
<1>1. status \in [Boards -> Nat] /\ status[b] = clock
      /\ \A d \in Boards : d # b => status[d] = last_status[d]
  BY DEF TypeOK, TdTypes
<1> HIDE DEF status
<1>2. \A d \in Boards : /\ Acknowledged(d, status) \in Nat
                        /\ \A a \in Boards \ {d} : Acknowledged(d, status) <= status[a]
  BY <1>1, AcknowledgedIs
<1>3. \A d \in Boards : new[d] = IF d \in Extended(status)
                                 THEN Acknowledged(d, status) + Expire ELSE expire_clock[d]
  OBVIOUS
<1>4. \A d \in Boards : new[d] \in Nat
  BY <1>2, <1>3, TriggerAssumption DEF TypeOK, TdTypes
<1> HIDE DEF new
<1>5. /\ last_status' = status /\ expire_clock' = new
      /\ commands' = [m \in Boards |->
           IF m \in Extended(status)
           THEN Append(commands[m], [do |-> "timeout", clock |-> new[m]]) ELSE commands[m]]
  BY DEF Alive, status, new
<1>6. ASSUME NEW d \in Boards PROVE Relayed(d)
  <2>1. CASE d \in Extended(status)
    <3> DEFINE c == [do |-> "timeout", clock |-> new[d]]
    <3>1. c \in Command /\ c.do \notin {"start", "query"} /\ c.clock = expire_clock'[d]
      BY <1>4, <1>5, CommandIs
    <3>2. commands'[d] = Append(commands[d], c)
      BY <1>5, <2>1
    <3> HIDE DEF c
    <3>3. \A a \in Boards \ {d} : expire_clock'[d] <= last_status'[a] + Expire
      BY <1>1, <1>2, <1>3, <1>5, <2>1, TriggerAssumption
    <3> QED
      BY <3>1, <3>2, <3>3 DEF Relayed
  <2>2. CASE d \notin Extended(status)
    BY <1>3, <1>5, <2>2 DEF Relayed
  <2> QED
    BY <2>1, <2>2
<1> QED
  BY <1>1, <1>5, <1>6

\* What FastRead does.
LEMMA FastReadIs ==
  ASSUME TypeOK, NEW b \in Boards, FastRead(b)
  PROVE  /\ reports[b] # <<>> /\ reports'[b] = Tail(reports[b]) /\ Head(reports[b]) \in State
         /\ \/ responses'[b] = responses[b]
            \/ responses'[b] = Append(responses[b], Head(reports[b]))
         /\ \A d \in Boards \ {b} : reports'[d] = reports[d] /\ responses'[d] = responses[d]
         /\ UNCHANGED <<now, board, is_active, host>>
         /\ is_active \/ UNCHANGED commands
         /\ \A d \in Boards : Relayed(d)
         /\ \/ UNCHANGED last_status
            \/ /\ Head(reports[b]).can_trigger /\ last_status'[b] = Head(reports[b]).clock
               /\ \A d \in Boards : d # b => last_status'[d] = last_status[d]
<1> DEFINE m == Head(reports[b])
<1>1. /\ reports[b] # <<>> /\ reports' = [reports EXCEPT ![b] = Tail(@)]
      /\ \/ responses' = responses
         \/ responses' = [responses EXCEPT ![b] = Append(@, m)]
      /\ UNCHANGED <<now, board, is_active, host>>
      /\ \/ UNCHANGED <<commands, td_can_trigger, last_status, expire_clock>>
         \/ is_active /\ m.can_trigger /\ Alive(b, m.clock)
         \/ is_active /\ PassOn
  BY DEF FastRead, Reads
<1>2. m \in State
  BY <1>1, TailIs DEF TypeOK, QueueTypes
<1> HIDE DEF m
<1>3. /\ reports'[b] = Tail(reports[b])
      /\ responses'[b] = responses[b] \/ responses'[b] = Append(responses[b], m)
      /\ \A d \in Boards \ {b} : reports'[d] = reports[d] /\ responses'[d] = responses[d]
  BY <1>1 DEF TypeOK, QueueTypes
<1>4. CASE UNCHANGED <<commands, td_can_trigger, last_status, expire_clock>>
  BY <1>1, <1>2, <1>3, <1>4 DEF Relayed, m
<1>5. CASE is_active /\ m.can_trigger /\ Alive(b, m.clock)
  <2>1. m.clock \in Nat
    BY <1>2 DEF State
  <2> QED
    BY <1>1, <1>2, <1>3, <1>5, <2>1, AliveIs DEF m
<1>6. CASE is_active /\ PassOn
  <2>1. Trigger("host") \in Command /\ Trigger("host").do = "trigger"
    BY CommandsAre DEF Trigger
  <2>2. \A d \in Boards : commands'[d] = Append(commands[d], Trigger("host"))
    BY <1>6 DEF PassOn
  <2>3. UNCHANGED <<last_status, expire_clock>>
    BY <1>6 DEF PassOn
  <2>4. \A d \in Boards : Relayed(d)
    BY <2>1, <2>2, <2>3 DEF Relayed
  <2> QED
    BY <1>1, <1>2, <1>3, <1>6, <2>3, <2>4 DEF m
<1> QED
  BY <1>1, <1>4, <1>5, <1>6

\* Reading a report keeps the queues in order.
LEMMA FastReadQueue ==
  ASSUME TypeOK, TypeOK', HostInv, QueueInv, NEW b \in Boards, FastRead(b) PROVE QueueInv'
<1> SUFFICES ASSUME NEW d \in Boards PROVE QueueOf(d)'
  BY DEF QueueInv
<1>0. /\ QueueOf(d) /\ UNCHANGED <<board, at, asked, left, round, results>>
      /\ UNCHANGED <<can_trigger, reason, board_round>>
  BY FastReadIs DEF host, board, QueueInv
<1>1. /\ Elems(reports'[d]) \subseteq Elems(reports[d])
      /\ Elems(responses'[d]) \subseteq Elems(responses[d]) \cup Elems(reports[d])
  <2>1. CASE d = b
    <3>1. /\ reports[b] \in Seq(State) /\ responses[b] \in Seq(State) /\ reports[b] # <<>>
          /\ Head(reports[b]) \in State
      BY FastReadIs DEF TypeOK, QueueTypes
    <3>2. Head(reports[b]) \in Elems(reports[b]) /\ Elems(Tail(reports[b])) \subseteq Elems(reports[b])
      BY <3>1, TailIs
    <3>3. Elems(Append(responses[b], Head(reports[b]))) = Elems(responses[b]) \cup {Head(reports[b])}
      BY <3>1, AppendIs
    <3>4. CASE responses'[b] = responses[b]
      BY <2>1, <3>2, <3>4, FastReadIs
    <3>5. CASE responses'[b] = Append(responses[b], Head(reports[b]))
      <4>1. Elems(responses'[b]) \subseteq Elems(responses[b]) \cup Elems(reports[b])
        BY <3>2, <3>3, <3>5
      <4> QED
        BY <2>1, <3>2, <4>1, FastReadIs
    <3> QED
      BY <3>4, <3>5, FastReadIs
  <2>2. CASE d # b
    BY <2>2, FastReadIs
  <2> QED
    BY <2>1, <2>2
<1>2. \/ commands'[d] = commands[d]
      \/ \E c \in Command : c.do \notin {"start", "query"} /\ commands'[d] = Append(commands[d], c)
  <2>1. Relayed(d)
    BY FastReadIs
  <2> QED
    BY <2>1 DEF Relayed
<1>3. CASE Live(d)
  <2>1. Live(d)'
    BY <1>0, <1>3 DEF Live
  <2> QED
    BY <1>0, <1>1, <1>2, <1>3, <2>1, LiveQueue
<1>4. CASE ~Live(d)
  <2>1. ~is_active /\ commands' = commands
    <3>1. is_active => at \in {"moving", "waiting"} /\ asked = Nobody /\ Nobody \notin Boards
      BY TriggerAssumption DEF HostInv
    <3> QED
      BY <1>4, <3>1, FastReadIs DEF Live
  <2>2. CASE d = b
    <3>1. at = "stopping" /\ asked = b
      BY <1>0, <1>4, <2>2, FastReadIs, NotQuiet
    <3> QED
      BY <1>0, <2>1, <2>2, <3>1, FastReadIs, AskedReads
  <2>3. CASE d # b
    BY <1>0, <2>1, <2>3, FastReadIs, QueueUntouched
  <2> QED
    BY <2>2, <2>3
<1> QED
  BY <1>3, <1>4

\* A report later than the end of the move is of a move that has ended.
LEMMA HandleQueue ==
  ASSUME TypeOK, TypeOK', HostInv, QueueInv, TimeInv, NEW b \in Boards, Handle(b) PROVE QueueInv'
<1> SUFFICES ASSUME NEW d \in Boards PROVE QueueOf(d)'
  BY DEF QueueInv
<1>0. /\ QueueOf(d) /\ UNCHANGED <<board, reports, at, asked, left, round, results>>
      /\ UNCHANGED <<can_trigger, reason, board_round>>
      /\ responses[b] # <<>> /\ responses' = [responses EXCEPT ![b] = Tail(@)]
  BY DEF Handle, Popped, board, QueueInv
<1>1. /\ responses'[b] = Tail(responses[b]) /\ responses[b] \in Seq(State)
      /\ d # b => responses'[d] = responses[d]
  BY <1>0 DEF TypeOK, QueueTypes
<1>2. Elems(responses'[d]) \subseteq Elems(responses[d])
  BY <1>0, <1>1, TailIs
<1>3. \/ commands' = commands
      \/ b = First /\ home_end # NEVER /\ Send(b, Trigger("past end"))
  <2>1. Head(responses[b]).clock <= now /\ Head(responses[b]) \in State
    BY <1>0, <1>1, TailIs DEF TimeInv, Timely
  <2>2. ~(Head(responses[b]).clock >= NEVER)
    BY <2>1, TriggerAssumption DEF State, NEVER, TypeOK
  <2> QED
    BY <2>2 DEF Handle
<1>4. CASE commands' = commands
  <2>1. CASE d # b
    BY <1>0, <1>1, <1>4, <2>1, QueueUntouched
  <2>2. CASE d = b /\ Live(b)
    <3>1. Live(b)'
      BY <1>0, <2>2 DEF Live
    <3> QED
      BY <1>0, <1>2, <1>4, <2>2, <3>1, LiveQueue
  <2>3. CASE d = b /\ ~Live(b)
    <3>1. at = "stopping" /\ asked = b
      BY <1>0, <2>3, NotQuiet
    <3> QED
      BY <1>0, <1>1, <1>4, <2>3, <3>1, AskedHandles
  <2> QED
    BY <2>1, <2>2, <2>3
<1>5. CASE b = First /\ home_end # NEVER /\ Send(b, Trigger("past end"))
  <2>1. Live(b) /\ Live(b)'
    BY <1>0, <1>5, TriggerAssumption DEF Live, HostInv
  <2>2. /\ Trigger("past end") \in Command /\ Trigger("past end").do = "trigger"
        /\ commands'[b] = Append(commands[b], Trigger("past end"))
        /\ d # b => commands'[d] = commands[d]
    BY <1>5, CommandsAre DEF Trigger, Send, TypeOK, QueueTypes
  <2>3. CASE d = b
    BY <1>0, <1>2, <2>1, <2>2, <2>3, LiveQueue
  <2>4. CASE d # b
    BY <1>0, <1>1, <2>2, <2>4, QueueUntouched
  <2> QED
    BY <2>3, <2>4
<1> QED
  BY <1>3, <1>4, <1>5

\* Every step keeps the queues in order.
LEMMA QueueStep == TriggerInv /\ TypeOK' /\ [Next]_vars => QueueInv'
<1> SUFFICES ASSUME TypeOK, TypeOK', HostInv, QueueInv, TimeInv, [Next]_vars PROVE QueueInv'
  BY DEF TriggerInv
<1>1. ASSUME UNCHANGED <<board, link, responses, host>> PROVE QueueInv'
  BY <1>1, QueueUntouched DEF board, link, host, QueueInv
<1>2. CASE UNCHANGED vars \/ Tick
  BY <1>1, <1>2 DEF vars, Tick
<1>3. CASE Start \/ Arm \/ MoveEnds \/ WaitEnds \/ Hit
  BY <1>3, StartQueue, GreenletQueue, BoardQueue, TriggerAssumption
<1>4. ASSUME NEW b \in Boards,
             \/ Stop(b) \/ FastRead(b) \/ Handle(b) \/ Answer(b)
             \/ Obey(b) \/ Expires(b) \/ Reports(b)
      PROVE QueueInv'
  BY <1>4, StopQueue, FastReadQueue, HandleQueue, AnswerQueue, ObeyQueue, BoardQueue
<1> QED
  BY <1>2, <1>3, <1>4 DEF Next

-----------------------------------------------------------------------------
(* The homing greenlet. *)

\* A board that has stopped in this move stays so until the next one starts.
LEMMA WitnessStays ==
  ASSUME TypeOK, QueueInv, [Next]_vars, round' = round, NEW b \in Boards,
         board_round[b] = round, ~can_trigger[b]
  PROVE  board_round'[b] = round' /\ ~can_trigger'[b]
<1>1. ASSUME UNCHANGED board PROVE board_round'[b] = round' /\ ~can_trigger'[b]
  BY <1>1 DEF board
<1>2. ASSUME NEW d \in Boards, NEW why \in Reasons, NEW o \in BOOLEAN, Stops(d, why, o)
      PROVE board_round'[b] = round' /\ ~can_trigger'[b]
  <2>1. board_round' = board_round /\ ~can_trigger'[d] /\ (d # b => can_trigger'[b] = can_trigger[b])
    BY <1>2, StopsIs
  <2> QED
    BY <2>1
<1>3. ASSUME NEW d \in Boards, Obey(d) PROVE board_round'[b] = round' /\ ~can_trigger'[b]
  <2>1. CASE d # b
    BY <1>3, <2>1, ObeyIs
  <2>2. CASE d = b
    <3>1. commands[b] \in Seq(Command) /\ commands[b] # <<>> /\ board_round[b] \in Nat
      BY <1>3, <2>2 DEF Obey, TypeOK, QueueTypes, BoardTypes
    <3>2. 1 \in 1..Len(commands[b]) /\ Head(commands[b]) = commands[b][1]
      BY <3>1, TailIs, LengthIs
    <3>3. Head(commands[b]).do # "start"
      BY <3>1, <3>2 DEF QueueInv, QueueOf, Started
    <3> QED
      BY <1>2, <1>3, <2>2, <3>3, ObeyIs
  <2> QED
    BY <2>1, <2>2
<1>4. CASE UNCHANGED vars \/ Tick \/ Start \/ Arm \/ MoveEnds \/ WaitEnds
  BY <1>1, <1>4 DEF vars, Tick, Start, Arm, MoveEnds, WaitEnds
<1>5. ASSUME NEW d \in Boards, Stop(d) \/ FastRead(d) \/ Handle(d) \/ Answer(d)
      PROVE board_round'[b] = round' /\ ~can_trigger'[b]
  BY <1>1, <1>5 DEF Stop, FastRead, Handle, Answer, TakeAnswer
<1>6. CASE Hit
  BY <1>2, <1>6, TriggerAssumption DEF Hit, Reasons
<1>7. ASSUME NEW d \in Boards, Expires(d) PROVE board_round'[b] = round' /\ ~can_trigger'[b]
  BY <1>2, <1>7 DEF Expires, Reasons
<1>8. ASSUME NEW d \in Boards, Reports(d) PROVE board_round'[b] = round' /\ ~can_trigger'[b]
  BY <1>8 DEF Reports
<1> QED
  BY <1>3, <1>4, <1>5, <1>6, <1>7, <1>8 DEF Next

\* What the greenlet knows of the move, step by step.
LEMMA HostStep == TriggerInv /\ TypeOK' /\ [Next]_vars => HostInv'
<1> SUFFICES ASSUME TypeOK, TypeOK', HostInv, QueueInv, TimeInv, [Next]_vars PROVE HostInv'
  BY DEF TriggerInv
<1> USE TriggerAssumption
<1> DEFINE Finished == completed => \E b \in Boards : board_round[b] = round /\ ~can_trigger[b]
<1>0. ASSUME completed' => completed, round' = round PROVE Finished'
  BY <1>0, WitnessStays DEF HostInv
<1>1. ASSUME UNCHANGED <<is_active, host>> PROVE HostInv'
  <2>1. completed' = completed /\ round' = round /\ outcome' = outcome /\ results' = results
        /\ at' = at /\ asked' = asked /\ left' = left /\ home_end' = home_end
    BY <1>1 DEF host
  <2>2. Finished'
    BY <1>0, <2>1
  <2>3. EndsWith(results') = EndsWith(results)
    BY <2>1
  <2> QED
    BY <1>1, <2>1, <2>2, <2>3 DEF HostInv
<1>2. CASE UNCHANGED vars \/ Tick \/ Hit
  BY <1>1, <1>2 DEF vars, Tick, Hit, td
<1>3. ASSUME NEW b \in Boards, FastRead(b) \/ Obey(b) \/ Expires(b) \/ Reports(b) PROVE HostInv'
  BY <1>1, <1>3 DEF FastRead, Obey, Expires, Reports, td
<1>4. CASE Start
  BY <1>4 DEF Start, HostInv
<1>5. CASE Arm
  <2>1. Finished'
    BY <1>0, <1>5 DEF Arm
  <2> QED
    BY <1>5, <2>1 DEF Arm, HostInv
<1>6. CASE MoveEnds
  <2>1. Finished'
    BY <1>0, <1>6 DEF MoveEnds
  <2> QED
    BY <1>6, <2>1 DEF MoveEnds, HostInv, td
<1>7. CASE WaitEnds
  <2>1. Finished'
    BY <1>0, <1>7 DEF WaitEnds
  <2> QED
    BY <1>7, <2>1 DEF WaitEnds, HostInv
<1>8. ASSUME NEW b \in Boards, Stop(b) PROVE HostInv'
  <2>1. Finished'
    BY <1>0, <1>8 DEF Stop
  <2> QED
    BY <1>8, <2>1 DEF Stop, HostInv, td
<1>9. ASSUME NEW b \in Boards, Answer(b) PROVE HostInv'
  <2>1. Finished'
    BY <1>0, <1>9 DEF Answer, TakeAnswer
  <2>2. at = "stopping" /\ asked = b /\ asked' = Nobody /\ is_active' = is_active
        /\ left' = left /\ home_end' = home_end
    BY <1>9 DEF Answer, TakeAnswer, td, HostInv
  <2>3. at' = "idle" => outcome' = EndsWith(results') /\ left = {}
    BY <1>9, <2>2 DEF Answer, TakeAnswer
  <2>4. at' = "idle" \/ at' = "stopping"
    BY <1>9, <2>2 DEF Answer, TakeAnswer
  <2> QED
    BY <2>1, <2>2, <2>3, <2>4 DEF HostInv
<1>10. ASSUME NEW b \in Boards, Handle(b) PROVE HostInv'
  <2>1. /\ UNCHANGED <<board, td, at, round, left, asked, results, outcome>>
        /\ home_end' = home_end \/ home_end' = NEVER
    BY <1>10 DEF Handle
  <2>2. Finished'
    <3>1. CASE completed' => completed
      BY <1>0, <2>1, <3>1
    <3>2. CASE ~(completed' => completed)
      <4>1. ~Head(responses[b]).can_trigger /\ responses[b] # <<>> /\ responses[b] \in Seq(State)
        BY <1>10, <3>2 DEF Handle, TypeOK, QueueTypes
      <4>2. Head(responses[b]) \in Elems(responses[b])
        BY <4>1, TailIs
      <4>3. board_round[b] = round /\ ~can_trigger[b]
        BY <4>1, <4>2 DEF QueueInv, QueueOf, Told
      <4> QED
        BY <2>1, <4>3 DEF board
    <3> QED
      BY <3>1, <3>2
  <2>3. EndsWith(results') = EndsWith(results) /\ is_active' = is_active
    BY <2>1 DEF td
  <2> QED
    BY <2>1, <2>2, <2>3 DEF HostInv
<1> QED
  BY <1>2, <1>3, <1>4, <1>5, <1>6, <1>7, <1>8, <1>9, <1>10 DEF Next

-----------------------------------------------------------------------------
(* The times. *)

\* What a step may do to the times known of board b ...
TimelyStep(b) ==
  /\ Lim(b) <= Lim(b)' /\ stopped_at'[b] <= now'
  /\ last_status'[b] = last_status[b] \/ last_status'[b] <= Lim(b)'
  /\ \A m \in Elems(reports'[b]) :
       m \in Elems(reports[b]) \/ (m.clock <= now' /\ (m.can_trigger => m.clock <= Lim(b)'))
  /\ Elems(responses'[b]) \subseteq Elems(responses[b]) \cup Elems(reports[b])

\* ... and to the time-outs of board b.
BoundedStep(a, b) ==
  /\ expire_clock'[b] = expire_clock[b] \/ expire_clock'[b] <= Lim(a)' + Expire
  /\ \A c \in Elems(commands'[b]) :
       \/ c \in Elems(commands[b]) \/ c.do \notin {"start", "timeout"}
       \/ c.clock <= Lim(a)' + Expire
       \/ c.clock = expire_clock'[b]
  /\ can_trigger'[b] => \/ can_trigger[b] /\ expire'[b] = expire[b]
                        \/ \E c \in Elems(commands[b]) :
                             c.do \in {"start", "timeout"} /\ expire'[b] = c.clock

\* All these are numbers.
LEMMA TimesAre ==
  ASSUME TypeOK
  PROVE  /\ now \in Nat /\ Expire \in Nat
         /\ \A b \in Boards :
              /\ Lim(b) \in Nat /\ stopped_at[b] \in Nat /\ last_status[b] \in Nat
              /\ expire_clock[b] \in Nat /\ expire[b] \in Nat
              /\ \A m \in Elems(reports[b]) \cup Elems(responses[b]) : m \in State /\ m.clock \in Nat
              /\ \A c \in Elems(commands[b]) :
                   c \in Command /\ (c.do \in {"start", "timeout"} => c.clock \in Nat)
<1>1. now \in Nat /\ Expire \in Nat
  BY TriggerAssumption DEF TypeOK
<1>2. ASSUME NEW b \in Boards
      PROVE  /\ Lim(b) \in Nat /\ stopped_at[b] \in Nat /\ last_status[b] \in Nat
             /\ expire_clock[b] \in Nat /\ expire[b] \in Nat
  BY <1>1 DEF Lim, TypeOK, BoardTypes, TdTypes
<1>3. ASSUME NEW b \in Boards
      PROVE  /\ Elems(reports[b]) \subseteq State /\ Elems(responses[b]) \subseteq State
             /\ Elems(commands[b]) \subseteq Command
  BY ElemsAre DEF TypeOK, QueueTypes
<1>4. \A m \in State : m.clock \in Nat
  BY DEF State
<1> QED
  BY <1>1, <1>2, <1>3, <1>4, CommandIs

\* Such a step keeps the times in order.
LEMMA TimesKept ==
  ASSUME TypeOK, TypeOK', TimeInv, now <= now', \A b \in Boards : TimelyStep(b),
         \A a, b \in Boards : a # b => BoundedStep(a, b)
  PROVE  TimeInv'
<1>1. ASSUME NEW b \in Boards PROVE Timely(b)'
  <2>0. /\ now \in Nat /\ Lim(b) \in Nat
        /\ last_status[b] \in Nat /\ last_status'[b] \in Nat /\ TimelyStep(b) /\ Timely(b)
        /\ \A m \in Elems(reports[b]) \cup Elems(responses[b]) : m.clock \in Nat
    BY TimesAre DEF TypeOK, TdTypes, TimeInv
  <2>00. Lim(b)' \in Nat /\ now' \in Nat
    <3>1. stopped_at'[b] \in Nat /\ now' \in Nat
      BY TriggerAssumption DEF TypeOK, BoardTypes
    <3> QED
      BY <3>1 DEF Lim
  <2>1. stopped_at'[b] <= now' /\ last_status'[b] <= Lim(b)'
    BY <2>0, <2>00 DEF TimelyStep, Timely
  <2>2. ASSUME NEW m \in Elems(reports'[b])
        PROVE  m.clock <= now' /\ (m.can_trigger => m.clock <= Lim(b)')
    BY <2>0, <2>00 DEF TimelyStep, Timely
  <2>3. ASSUME NEW m \in Elems(responses'[b]) PROVE m.clock <= now'
    BY <2>0, <2>00 DEF TimelyStep, Timely
  <2> QED
    BY <2>1, <2>2, <2>3 DEF Timely
<1>2. ASSUME NEW a \in Boards, NEW b \in Boards, a # b PROVE Bounded(a, b)'
  <2>0. /\ Lim(a) \in Nat /\ Expire \in Nat /\ expire_clock[b] \in Nat /\ expire[b] \in Nat
        /\ BoundedStep(a, b) /\ Bounded(a, b) /\ Lim(a) <= Lim(a)'
        /\ \A c \in Elems(commands[b]) : c.do \in {"start", "timeout"} => c.clock \in Nat
    BY <1>2, TimesAre DEF TimeInv, TimelyStep
  <2>1. Lim(a)' \in Nat /\ expire_clock'[b] \in Nat
    <3>1. stopped_at'[a] \in Nat /\ now' \in Nat
      BY TriggerAssumption DEF TypeOK, BoardTypes
    <3> QED
      BY <3>1 DEF Lim, TypeOK, TdTypes
  <2>2. expire_clock'[b] <= Lim(a)' + Expire
    BY <1>2, <2>0, <2>1 DEF BoundedStep, Bounded
  <2>3. ASSUME NEW c \in Elems(commands'[b]), c.do \in {"start", "timeout"}
        PROVE  c.clock <= Lim(a)' + Expire
    BY <1>2, <2>0, <2>1, <2>2, <2>3 DEF BoundedStep, Bounded
  <2>4. can_trigger'[b] => expire'[b] <= Lim(a)' + Expire
    BY <1>2, <2>0, <2>1 DEF BoundedStep, Bounded
  <2> QED
    BY <2>2, <2>3, <2>4 DEF Bounded
<1>3. ASSUME NEW a \in Boards, NEW b \in Boards, a = b PROVE Bounded(a, b)'
  BY <1>3 DEF Bounded
<1> QED
  BY <1>1, <1>2, <1>3 DEF TimeInv

\* Nothing happens to the boards: the clock goes on, or the host works.
LEMMA HostTimes ==
  ASSUME TypeOK, TypeOK', TimeInv, UNCHANGED <<board, round, last_status, expire_clock, reports>>,
         now <= now', \A b \in Boards : Elems(responses'[b]) \subseteq Elems(responses[b]),
         \A b \in Boards : \/ commands'[b] = commands[b]
                           \/ \E c \in Command : /\ c.do \notin {"start", "timeout"}
                                               /\ commands'[b] = Append(commands[b], c)
  PROVE  TimeInv'
<1>1. UNCHANGED <<can_trigger, expire, stopped_at, board_round>>
  BY DEF board
<1>2. \A b \in Boards : TimelyStep(b)
  <2>1. SUFFICES ASSUME NEW b \in Boards PROVE TimelyStep(b)
    OBVIOUS
  <2>2. stopped_at[b] <= now /\ stopped_at[b] \in Nat /\ now \in Nat /\ now' \in Nat
    BY TriggerAssumption DEF TimeInv, Timely, TypeOK, BoardTypes
  <2>3. Lim(b) <= Lim(b)' /\ stopped_at'[b] <= now'
    BY <1>1, <2>2 DEF Lim
  <2> QED
    BY <1>1, <2>3 DEF TimelyStep
<1>3. ASSUME NEW a \in Boards, NEW b \in Boards, a # b PROVE BoundedStep(a, b)
  <2>1. \A c \in Elems(commands'[b]) : c \in Elems(commands[b]) \/ c.do \notin {"start", "timeout"}
    <3>1. CASE commands'[b] = commands[b]
      BY <3>1
    <3>2. ASSUME NEW c \in Command, c.do \notin {"start", "timeout"}, commands'[b] = Append(commands[b], c)
          PROVE  \A d \in Elems(commands'[b]) : d \in Elems(commands[b]) \/ d.do \notin {"start", "timeout"}
      <4>1. Elems(commands'[b]) = Elems(commands[b]) \cup {c}
        BY <3>2, AppendIs DEF TypeOK, QueueTypes
      <4> QED
        BY <3>2, <4>1
    <3> QED
      BY <3>1, <3>2
  <2> QED
    BY <1>1, <2>1 DEF BoundedStep
<1> QED
  BY <1>2, <1>3, TimesKept

\* A move starts: every board is known to live, until now.
LEMMA StartTimes ==
  ASSUME TypeOK, TypeOK', QueueInv, TimeInv, Start PROVE TimeInv'
<1> DEFINE c == [do |-> "start", clock |-> now + Expire]
<1>0. /\ at = "idle" /\ round' = round + 1 /\ round \in Nat /\ now' = now
      /\ UNCHANGED <<board, reports, responses>>
      /\ \A b \in Boards : /\ commands'[b] = Append(commands[b], c) /\ last_status'[b] = now
                           /\ expire_clock'[b] = now + Expire
  BY DEF Start, TypeOK, HostTypes
<1>1. UNCHANGED <<can_trigger, expire, stopped_at, board_round>> /\ now \in Nat /\ Expire \in Nat
  BY <1>0, TimesAre DEF board
<1>2. \A b \in Boards : ~can_trigger[b] /\ board_round[b] = round /\ stopped_at[b] <= now
  BY <1>0 DEF QueueInv, QueueOf, Settled, Started, TimeInv, Timely
<1>3. \A b \in Boards : Lim(b) <= now /\ Lim(b)' = now
  BY <1>0, <1>1, <1>2 DEF Lim
<1>4. ASSUME NEW b \in Boards PROVE TimelyStep(b)
  BY <1>0, <1>1, <1>2, <1>3 DEF TimelyStep
<1>5. c.clock = now + Expire /\ c \in Command
  <2>1. now + Expire \in Nat
    BY <1>1
  <2> QED
    BY <2>1, CommandIs
<1> HIDE DEF c
<1>6. ASSUME NEW a \in Boards, NEW b \in Boards, a # b PROVE BoundedStep(a, b)
  <2>1. Elems(commands'[b]) = Elems(commands[b]) \cup {c}
    <3>1. commands[b] \in Seq(Command) /\ commands'[b] = Append(commands[b], c)
      BY <1>0 DEF TypeOK, QueueTypes
    <3> QED
      BY <1>5, <3>1, AppendIs
  <2> QED
    BY <1>0, <1>1, <1>2, <1>3, <1>5, <2>1 DEF BoundedStep
<1> QED
  BY <1>0, <1>1, <1>4, <1>6, TimesKept

\* A board stops, or does not: its life ends now at the latest.
LEMMA StopsTimes ==
  ASSUME TypeOK, TypeOK', TimeInv, NEW b \in Boards, NEW why \in Reasons, NEW o \in BOOLEAN,
         Stops(b, why, o), UNCHANGED <<now, responses, td, round>>,
         \A d \in Boards : Elems(commands'[d]) \subseteq Elems(commands[d])
  PROVE  TimeInv'
<1>1. /\ ~can_trigger'[b] /\ board_round' = board_round /\ expire' = expire
      /\ stopped_at'[b] = IF can_trigger[b] THEN now ELSE stopped_at[b]
      /\ \A d \in Boards \ {b} :
           /\ can_trigger'[d] = can_trigger[d] /\ reports'[d] = reports[d]
           /\ stopped_at'[d] = stopped_at[d]
  BY StopsIs
<1>2. PICK m \in State : /\ ~m.can_trigger /\ m.clock = now /\ reports'[b] = Append(reports[b], m)
  BY StopsIs
<1>3. Elems(reports'[b]) = Elems(reports[b]) \cup {m}
  BY <1>2, AppendIs DEF TypeOK, QueueTypes
<1>4. now \in Nat /\ now' = now /\ \A d \in Boards : stopped_at[d] <= now /\ stopped_at[d] \in Nat
  BY TimesAre DEF TimeInv, Timely
<1>5. ASSUME NEW d \in Boards PROVE TimelyStep(d)
  <2>1. last_status' = last_status /\ responses' = responses
    BY DEF td
  <2>2. CASE d = b
    <3>1. Lim(b) <= Lim(b)' /\ stopped_at'[b] <= now'
      BY <1>1, <1>4 DEF Lim
    <3>2. \A x \in Elems(reports'[b]) :
            x \in Elems(reports[b]) \/ (x.clock <= now' /\ (x.can_trigger => x.clock <= Lim(b)'))
      BY <1>2, <1>3, <1>4
    <3>3. TimelyStep(b)
      BY <2>1, <3>1, <3>2 DEF TimelyStep
    <3> QED
      BY <2>2, <3>3
  <2>3. CASE d # b
    <3>1. Lim(d) <= Lim(d)' /\ stopped_at'[d] <= now'
      BY <1>1, <1>4, <2>3 DEF Lim
    <3> QED
      BY <1>1, <2>1, <2>3, <3>1 DEF TimelyStep
  <2> QED
    BY <2>2, <2>3
<1>6. ASSUME NEW a \in Boards, NEW d \in Boards, a # d PROVE BoundedStep(a, d)
  <2>1. expire_clock' = expire_clock /\ expire'[d] = expire[d] /\ (can_trigger'[d] => can_trigger[d])
    BY <1>1 DEF td
  <2> QED
    BY <2>1 DEF BoundedStep
<1> QED
  BY <1>4, <1>5, <1>6, TimesKept

\* A board obeys a command.
LEMMA ObeyTimes ==
  ASSUME TypeOK, TypeOK', QueueInv, TimeInv, NEW b \in Boards, Obey(b) PROVE TimeInv'
<1> DEFINE c == Head(commands[b])
<1>0. /\ UNCHANGED <<now, responses, td, round, last_status, expire_clock>>
      /\ commands[b] # <<>> /\ commands'[b] = Tail(commands[b]) /\ commands[b] \in Seq(Command)
  BY ObeyIs DEF td, host, TypeOK, QueueTypes
<1>1. /\ c \in Elems(commands[b])
      /\ \A d \in Boards : Elems(commands'[d]) \subseteq Elems(commands[d])
  <2>1. c \in Elems(commands[b]) /\ Elems(Tail(commands[b])) \subseteq Elems(commands[b])
    BY <1>0, TailIs
  <2> QED
    BY <1>0, <2>1, ObeyIs
<1>2. CASE \E why \in Reasons : Stops(b, why, c.do = "query")
  <2>1. (c.do = "query") \in BOOLEAN
    OBVIOUS
  <2> QED
    BY <1>0, <1>1, <1>2, <2>1, StopsTimes
<1>3. CASE /\ c.do \in {"start", "timeout", "home"} /\ UNCHANGED <<reports, stopped_at>>
           /\ (c.do = "start" /\ can_trigger'[b]) \/ UNCHANGED <<can_trigger, board_round>>
           /\ expire' = expire \/ (c.do \in {"start", "timeout"} /\ expire'[b] = c.clock)
           /\ c.do = "home" => expire' = expire
  <2>1. \A d \in Boards : stopped_at[d] <= now /\ stopped_at[d] \in Nat /\ now \in Nat
    BY TimesAre DEF TimeInv, Timely
  <2>2. ASSUME NEW d \in Boards PROVE Lim(d) <= Lim(d)'
    <3>1. CASE d = b /\ can_trigger'[b]
      BY <1>0, <2>1, <3>1 DEF Lim
    <3>2. CASE can_trigger'[d] = can_trigger[d] /\ board_round'[d] = board_round[d]
      BY <1>0, <1>3, <2>1, <3>2 DEF Lim
    <3> QED
      BY <1>3, <3>1, <3>2, ObeyIs
  <2>3. ASSUME NEW d \in Boards PROVE TimelyStep(d)
    BY <1>0, <1>3, <2>1, <2>2 DEF TimelyStep
  <2>4. ASSUME NEW a \in Boards, NEW d \in Boards, a # d PROVE BoundedStep(a, d)
    <3>1. CASE d = b
      <4>1. can_trigger'[b] =>
              \/ can_trigger[b] /\ expire'[b] = expire[b]
              \/ c.do \in {"start", "timeout"} /\ expire'[b] = c.clock
        BY <1>3, ObeyIs
      <4> HIDE DEF c
      <4> QED
        BY <1>0, <1>1, <3>1, <4>1 DEF BoundedStep
    <3>2. CASE d # b
      BY <1>0, <1>1, <3>2, ObeyIs DEF BoundedStep
    <3> QED
      BY <3>1, <3>2
  <2> QED
    BY <1>0, <2>1, <2>3, <2>4, TimesKept
<1> QED
  BY <1>2, <1>3, ObeyIs

\* A board reports that it runs.
LEMMA ReportsTimes ==
  ASSUME TypeOK, TypeOK', TimeInv, NEW b \in Boards, Reports(b) PROVE TimeInv'
<1> DEFINE m == [can_trigger |-> TRUE, reason |-> "none", clock |-> now, answer |-> FALSE]
<1>0. /\ can_trigger[b] /\ UNCHANGED <<can_trigger, board_round, stopped_at, expire, round, now>>
      /\ UNCHANGED <<commands, responses, last_status, expire_clock>>
      /\ reports' = [reports EXCEPT ![b] = Append(@, m)]
  BY DEF Reports, host, td
<1>1. /\ now \in Nat /\ m \in State /\ m.clock = now
  BY TimesAre DEF State, Reasons
<1>2. \A d \in Boards : stopped_at[d] <= now
  BY DEF TimeInv, Timely
<1> HIDE DEF m
<1>3. /\ Elems(reports'[b]) = Elems(reports[b]) \cup {m}
      /\ \A d \in Boards \ {b} : reports'[d] = reports[d]
  <2>1. reports[b] \in Seq(State) /\ reports'[b] = Append(reports[b], m)
        /\ \A d \in Boards \ {b} : reports'[d] = reports[d]
    BY <1>0 DEF TypeOK, QueueTypes
  <2> QED
    BY <1>1, <2>1, AppendIs
<1>4. \A d \in Boards : Lim(d)' = Lim(d) /\ Lim(d) \in Nat
  BY <1>0, TimesAre DEF Lim
<1>5. Lim(b) = now
  BY <1>0 DEF Lim
<1>6. ASSUME NEW d \in Boards PROVE TimelyStep(d)
  <2>1. CASE d = b
    BY <1>0, <1>1, <1>2, <1>3, <1>4, <1>5, <2>1 DEF TimelyStep
  <2>2. CASE d # b
    BY <1>0, <1>2, <1>3, <1>4, <2>2 DEF TimelyStep
  <2> QED
    BY <2>1, <2>2
<1>7. ASSUME NEW a \in Boards, NEW d \in Boards, a # d PROVE BoundedStep(a, d)
  BY <1>0 DEF BoundedStep
<1> QED
  BY <1>0, <1>1, <1>6, <1>7, TimesKept

\* The fast reader gives a board no more time than the others have reported.
LEMMA FastReadTimes ==
  ASSUME TypeOK, TypeOK', TimeInv, NEW b \in Boards, FastRead(b) PROVE TimeInv'
<1> DEFINE m == Head(reports[b])
<1>0. /\ UNCHANGED <<can_trigger, board_round, stopped_at, expire, round, now>>
      /\ reports[b] \in Seq(State) /\ responses[b] \in Seq(State) /\ reports[b] # <<>>
      /\ m \in State /\ m \in Elems(reports[b]) /\ now \in Nat
      /\ Elems(Tail(reports[b])) \subseteq Elems(reports[b])
  <2>1. /\ UNCHANGED <<can_trigger, board_round, stopped_at, expire, round, now>>
        /\ reports[b] \in Seq(State) /\ responses[b] \in Seq(State) /\ reports[b] # <<>>
    BY FastReadIs DEF board, host, TypeOK, QueueTypes
  <2> QED
    BY <2>1, TailIs, TimesAre
<1>1. \A d \in Boards : Lim(d)' = Lim(d) /\ Lim(d) \in Nat
  BY <1>0, TimesAre DEF Lim
<1>2. ASSUME NEW d \in Boards PROVE last_status'[d] = last_status[d] \/ last_status'[d] <= Lim(d)
  BY <1>0, FastReadIs DEF TimeInv, Timely
<1>3. ASSUME NEW d \in Boards PROVE last_status'[d] <= Lim(d) /\ last_status'[d] \in Nat
  BY <1>2 DEF TimeInv, Timely, TypeOK, TdTypes
<1>4. ASSUME NEW d \in Boards PROVE TimelyStep(d)
  <2>1. /\ Elems(reports'[d]) \subseteq Elems(reports[d])
        /\ Elems(responses'[d]) \subseteq Elems(responses[d]) \cup Elems(reports[d])
    <3>1. CASE d = b
      <4>1. Elems(Append(responses[b], m)) = Elems(responses[b]) \cup {m}
        BY <1>0, AppendIs
      <4>2. responses'[b] = responses[b] \/ responses'[b] = Append(responses[b], m)
        BY FastReadIs
      <4>3. reports'[b] = Tail(reports[b])
        BY FastReadIs
      <4>4. Elems(responses'[b]) \subseteq Elems(responses[b]) \cup Elems(reports[b])
        BY <1>0, <4>1, <4>2
      <4> QED
        BY <1>0, <3>1, <4>3, <4>4
    <3>2. CASE d # b
      BY <3>2, FastReadIs
    <3> QED
      BY <3>1, <3>2
  <2>2. stopped_at[d] <= now
    BY DEF TimeInv, Timely
  <2> QED
    BY <1>0, <1>1, <1>2, <2>1, <2>2 DEF TimelyStep
<1>5. ASSUME NEW a \in Boards, NEW d \in Boards, a # d PROVE BoundedStep(a, d)
  <2>1. Relayed(d)
    BY FastReadIs
  <2>2. expire_clock'[d] = expire_clock[d] \/ expire_clock'[d] <= Lim(a)' + Expire
    <3>1. expire_clock'[d] \in Nat /\ Expire \in Nat
      BY TimesAre DEF TypeOK, TdTypes
    <3>2. CASE expire_clock'[d] <= last_status'[a] + Expire
      BY <1>1, <1>3, <3>1, <3>2
    <3>3. CASE expire_clock'[d] = expire_clock[d]
      BY <3>3
    <3> QED
      BY <1>5, <2>1, <3>2, <3>3 DEF Relayed
  <2>3. \A c \in Elems(commands'[d]) :
          \/ c \in Elems(commands[d]) \/ c.do \notin {"start", "timeout"}
          \/ c.clock = expire_clock'[d]
    <3>1. CASE commands'[d] = commands[d]
      BY <3>1
    <3>2. CASE commands'[d] # commands[d]
      <4>1. PICK c \in Command :
              /\ c.do \notin {"start", "query"} /\ commands'[d] = Append(commands[d], c)
              /\ c.do = "timeout" => c.clock = expire_clock'[d]
        BY <2>1, <3>2 DEF Relayed
      <4>2. Elems(commands'[d]) = Elems(commands[d]) \cup {c}
        <5>1. commands[d] \in Seq(Command)
          BY DEF TypeOK, QueueTypes
        <5> QED
          BY <4>1, <5>1, AppendIs
      <4> QED
        BY <4>1, <4>2
    <3> QED
      BY <3>1, <3>2
  <2> QED
    BY <1>0, <2>2, <2>3 DEF BoundedStep
<1> QED
  BY <1>0, <1>4, <1>5, TimesKept

\* Every step keeps the times in order.
LEMMA TimeStep == TriggerInv /\ TypeOK' /\ [Next]_vars => TimeInv'
<1> SUFFICES ASSUME TypeOK, TypeOK', HostInv, QueueInv, TimeInv, [Next]_vars PROVE TimeInv'
  BY DEF TriggerInv
<1>1. now \in Nat
  BY TimesAre
<1>2. CASE UNCHANGED vars \/ Tick
  BY <1>1, <1>2, HostTimes DEF vars, Tick, board, link, td, host
<1>3. CASE Start
  BY <1>3, StartTimes
<1>4. ASSUME UNCHANGED <<now, board, reports, td, round>>,
             \A b \in Boards : Elems(responses'[b]) \subseteq Elems(responses[b]),
             \/ commands' = commands
             \/ \E b \in Boards : \E c \in Command : c.do \in {"home", "trigger", "query"} /\ Send(b, c)
      PROVE TimeInv'
  <2>1. ASSUME NEW d \in Boards
        PROVE  \/ commands'[d] = commands[d]
               \/ \E c \in Command : /\ c.do \notin {"start", "timeout"}
                                   /\ commands'[d] = Append(commands[d], c)
    BY <1>4 DEF Send, TypeOK, QueueTypes
  <2>2. last_status' = last_status /\ expire_clock' = expire_clock /\ now <= now'
    BY <1>1, <1>4 DEF td
  <2> QED
    BY <1>4, <2>1, <2>2, HostTimes
<1>5. CASE MoveEnds
  BY <1>4, <1>5 DEF MoveEnds, link
<1>6. CASE Arm \/ WaitEnds
  <2>1. UNCHANGED <<now, board, reports, responses, last_status, expire_clock, round>>
    BY <1>6 DEF Arm, WaitEnds
  <2>2. PICK o \in BOOLEAN : Send(First, [do |-> "home", on |-> o])
    BY <1>6 DEF Arm, WaitEnds
  <2>3. [do |-> "home", on |-> o] \in Command
    BY CommandIs
  <2>4. ASSUME NEW d \in Boards
        PROVE  \/ commands'[d] = commands[d]
               \/ \E c \in Command : /\ c.do \notin {"start", "timeout"}
                                   /\ commands'[d] = Append(commands[d], c)
    BY <2>2, <2>3 DEF Send, TypeOK, QueueTypes
  <2> QED
    BY <1>1, <2>1, <2>4, HostTimes
<1>7. ASSUME NEW b \in Boards, Stop(b) PROVE TimeInv'
  <2>1. Send(b, [do |-> "query", reason |-> "host"]) /\ UNCHANGED <<now, board, reports, responses, td, round>>
    BY <1>7 DEF Stop
  <2> QED
    BY <1>4, <2>1, CommandsAre
<1>8. ASSUME NEW b \in Boards, Handle(b) \/ Answer(b) PROVE TimeInv'
  <2>1. /\ UNCHANGED <<now, board, reports, td, round>> /\ responses[b] # <<>>
        /\ responses' = [responses EXCEPT ![b] = Tail(@)]
        /\ commands' = commands \/ Send(b, Trigger("past end"))
    BY <1>8 DEF Handle, Answer, TakeAnswer, Popped, link
  <2>2. Elems(Tail(responses[b])) \subseteq Elems(responses[b])
    BY <2>1, TailIs DEF TypeOK, QueueTypes
  <2>3. \A d \in Boards : Elems(responses'[d]) \subseteq Elems(responses[d])
    BY <2>1, <2>2 DEF TypeOK, QueueTypes
  <2>4. Trigger("past end") \in Command /\ Trigger("past end").do = "trigger"
    BY CommandsAre DEF Trigger
  <2> QED
    BY <1>4, <2>1, <2>3, <2>4
<1>9. ASSUME NEW b \in Boards, NEW why \in Reasons, Stops(b, why, FALSE),
             UNCHANGED <<now, commands, responses, td, round>>
      PROVE TimeInv'
  BY <1>9, StopsTimes
<1>10. CASE Hit
  BY <1>9, <1>10, TriggerAssumption DEF Hit, Reasons, host
<1>11. ASSUME NEW b \in Boards, Expires(b) PROVE TimeInv'
  BY <1>9, <1>11 DEF Expires, Reasons, host
<1>12. ASSUME NEW b \in Boards, Obey(b) \/ Reports(b) \/ FastRead(b) PROVE TimeInv'
  BY <1>12, ObeyTimes, ReportsTimes, FastReadTimes
<1> QED
  BY <1>2, <1>3, <1>5, <1>6, <1>7, <1>8, <1>10, <1>11, <1>12 DEF Next

-----------------------------------------------------------------------------
(* What follows for every behaviour. *)

\* Everything is quiet before the first move.
LEMMA TriggerInit == Init => TriggerInv
<1> SUFFICES ASSUME Init PROVE TriggerInv
  OBVIOUS
<1> USE TriggerAssumption
<1>1. TypeOK
  <2>1. BoardTypes /\ TdTypes
    BY DEF Init, BoardTypes, TdTypes, Reasons
  <2>2. QueueTypes
    BY DEF Init, QueueTypes
  <2>3. HostTypes
    <3>1. NEVER \in 0..NEVER /\ 0 \in Nat
      BY DEF NEVER
    <3>2. /\ listening \in [Boards -> BOOLEAN] /\ results \in [Boards -> Reasons]
          /\ board_round \in [Boards -> Nat]
      BY DEF Init, Reasons
    <3> QED
      BY <3>1, <3>2 DEF Init, HostTypes, Places, Reasons
  <2> QED
    BY <2>1, <2>2, <2>3 DEF Init, TypeOK
<1>2. HostInv
  BY DEF Init, HostInv, EndsWith
<1>3. Elems(<<>>) = {} /\ 1..Len(<<>>) = {}
  BY NoPlaces DEF Elems
<1>4. ASSUME NEW b \in Boards PROVE QueueOf(b) /\ Timely(b)
  <2>1. Started(b) /\ Asked(b)
    BY <1>3 DEF Init, Started, Asked
  <2>2. Told(b) /\ Settled(b) /\ Timely(b)
    BY <1>3 DEF Init, Told, Settled, Timely, Lim
  <2> QED
    BY <2>1, <2>2 DEF QueueOf
<1>5. ASSUME NEW a \in Boards, NEW b \in Boards PROVE Bounded(a, b)
  BY <1>3 DEF Init, Bounded, Lim
<1> QED
  BY <1>1, <1>2, <1>4, <1>5 DEF TriggerInv, QueueInv, TimeInv

\* The invariant is inductive.
LEMMA TriggerNext == TriggerInv /\ [Next]_vars => TriggerInv'
<1>1. TriggerInv /\ [Next]_vars => TypeOK'
  BY TypeStep DEF TriggerInv
<1> QED
  BY <1>1, HostStep, QueueStep, TimeStep DEF TriggerInv

\* It says all that the properties say.
LEMMA TriggerSays ==
  TriggerInv => StopTogether /\ EndIsOfThisMove /\ NothingLeftOver /\ HitMeansHit
<1> SUFFICES ASSUME TypeOK, HostInv, QueueInv, TimeInv
             PROVE  StopTogether /\ EndIsOfThisMove /\ NothingLeftOver /\ HitMeansHit
  BY DEF TriggerInv
<1>0. \A b \in Boards : board_round[b] \in Nat /\ round \in Nat
  BY DEF TypeOK, BoardTypes, HostTypes
<1>1. StopTogether
  <2>1. ASSUME NEW a \in Boards, NEW b \in Boards, RunsAfter(b, a)
        PROVE  expire[b] <= stopped_at[a] + Expire
    <3>1. a # b /\ board_round[a] = board_round[b] /\ can_trigger[b] /\ ~can_trigger[a]
      BY <2>1 DEF RunsAfter
    <3>2. board_round[b] = round
      BY <1>0, <3>1 DEF QueueInv, QueueOf, Started
    <3>3. Lim(a) = stopped_at[a]
      BY <3>1, <3>2 DEF Lim
    <3> QED
      BY <3>1, <3>3 DEF TimeInv, Bounded
  <2> QED
    BY <2>1 DEF StopTogether
<1>2. EndIsOfThisMove
  BY DEF EndIsOfThisMove, HostInv
<1>3. ASSUME at = "idle", NEW b \in Boards
      PROVE  /\ board_round[b] = round /\ ~can_trigger[b] /\ results[b] = reason[b]
             /\ commands[b] = <<>> /\ reports[b] = <<>> /\ responses[b] = <<>>
  <2>1. /\ commands[b] = <<>> /\ reports[b] = <<>> /\ responses[b] = <<>>
        /\ ~can_trigger[b] /\ results[b] = reason[b]
    BY <1>3 DEF QueueInv, QueueOf, Settled
  <2> QED
    BY <1>0, <2>1 DEF QueueInv, QueueOf, Started
<1>4. NothingLeftOver
  BY <1>3 DEF NothingLeftOver
<1>5. HitMeansHit
  <2>1. SUFFICES ASSUME at = "idle", outcome = "hit"
                 PROVE  reason[First] = "hit" /\ \A b \in Boards : reason[b] # "timeout"
    BY DEF HitMeansHit
  <2>2. EndsWith(results) = "hit"
    BY <2>1 DEF HostInv
  <2>3. (\A b \in Boards : results[b] # "timeout") /\ results[First] = "hit"
    BY <2>2 DEF EndsWith
  <2> QED
    BY <1>3, <2>1, <2>3, TriggerAssumption
<1> QED
  BY <1>1, <1>2, <1>4, <1>5

\* For any number of boards and moves, and however late the links are, the
\* variables of a homing move (TriggerDispatch, MCU_trsync) keep their types.
THEOREM TriggerTypes == Spec => []TypeOK
<1>1. TriggerInv => TypeOK
  BY DEF TriggerInv
<1> QED
  BY <1>1, TriggerInit, TriggerNext, PTL DEF Spec

\* When a board has stopped, by its endstop or its time-out, no other is set to
\* run for longer than the time-out after it (handle_trsync_state).
THEOREM BoardsStopTogether == Spec => []StopTogether
BY TriggerInit, TriggerNext, TriggerSays, PTL DEF Spec

\* The completion that ends a homing move is of this move.
THEOREM CompletionIsOfThisMove == Spec => []EndIsOfThisMove
BY TriggerInit, TriggerNext, TriggerSays, PTL DEF Spec

\* Between two homing moves no board runs and no link holds a message of them
\* (TriggerDispatch.stop asks every board, and each answers last).
THEOREM NothingIsLeftOver == Spec => []NothingLeftOver
BY TriggerInit, TriggerNext, TriggerSays, PTL DEF Spec

\* Homing succeeds only when the endstop was hit and no board had timed out.
THEOREM SuccessMeansHit == Spec => []HitMeansHit
BY TriggerInit, TriggerNext, TriggerSays, PTL DEF Spec
=============================================================================
