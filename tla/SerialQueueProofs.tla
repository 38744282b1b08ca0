------------------------- MODULE SerialQueueProofs -------------------------
(***************************************************************************)
(* Proofs about the serial queue, for any numbers on the wire, limits,     *)
(* messages and losses.  Everything is told by the full sequence number    *)
(* that the board expects: the host's blocks before it have been run, the  *)
(* ones from it on have not.                                               *)
(***************************************************************************)
EXTENDS SerialQueue, FiniteSetTheorems, TLAPS

Increasing(s) == \A i, j \in 1..Len(s) : i < j => s[i] < s[j]

Below(A, B) == \A a \in A, b \in B : a < b

\* a number on the wire, extended to the full width from r on
Full(r, x) == r + ((x - r) % SeqSize)

\* the number that the board expects
Expected == Full(seqs.receive, mcu.next)

\* the blocks on the way, and those that will be written
Wire == toMcu \o buf

\* the number in an answer on the way
Number(r, a) == Full(r, a.seq)

\* a query is done when its notification is given, heard or not yet
IsDone(q, h, rq) ==
  \/ "done" \in ToSet(h[q])
  \/ \E i \in 1..Len(rq) : rq[i].kind = "done" /\ rq[i].id = q

\* the same when it was given too early
IsEarly(q, h, rq) ==
  \/ "early" \in ToSet(h[q])
  \/ \E i \in 1..Len(rq) : rq[i].kind = "early" /\ rq[i].id = q

-----------------------------------------------------------------------------
\* The window: the sent queue is what lies between the two numbers.
Window(q, r, s) ==
  /\ 1 <= r /\ Len(q) = s - r /\ Len(q) <= MaxPending
  /\ \A k \in 1..Len(q) : q[k].seq = (r + k) - 1

SentInv == Window(sent, seqs.receive, seqs.send) /\ (~filling => buf = <<>>)

\* A block on the way is one of the sent queue or acknowledged, and no block
\* is so far ahead of a later one that the board could mistake the later one.
InWindow(b, q, r, s, e) ==
  /\ 1 <= b.seq /\ b.seq < s /\ e - b.seq < SeqSize
  /\ b.seq >= r => b = q[b.seq - r + 1]

Close(W) == \A i, j \in 1..Len(W) : i < j => (W[i].seq + 1) - W[j].seq <= MaxPending

WireInv ==
  /\ \A i \in 1..Len(Wire) : InWindow(Wire[i], sent, seqs.receive, seqs.send, Expected)
  /\ Close(Wire)

\* Answers come with numbers that do not fall, and a response comes before the
\* acknowledgement of its block.
AnswersOk(h, r, e, D) ==
  /\ \A i \in 1..Len(h) : Number(r, h[i]) <= e
  /\ \A i, j \in 1..Len(h) : i < j =>
       /\ Number(r, h[i]) <= Number(r, h[j])
       /\ h[i].kind = "ack" /\ h[j].id # Report => Number(r, h[i]) < Number(r, h[j])
  /\ \A i \in 1..Len(h) : h[i].id # Report => h[i].kind = "data" /\ h[i].id \in D

AnswerInv == AnswersOk(toHost, seqs.receive, Expected, ToSet(delivered))

\* The board may expect a number that was never sent only while it has not
\* been heard, and then nothing but the identify query has been given.
ConnectInv ==
  Expected > seqs.send =>
    /\ seqs.receive = 1 /\ next <= 2 /\ heard[1] = <<>> /\ receive_queue = <<>>
    /\ \A i \in 1..Len(toHost) : Number(seqs.receive, toHost[i]) = Expected

\* Messages keep their order wherever they are.
Ordered(d, p, n, q, e) ==
  /\ Increasing(d) /\ Increasing(p)
  /\ Below(ToSet(d), ToSet(p) \cup {n}) /\ Below(ToSet(p), {n})
  /\ \A k \in 1..Len(q) :
       /\ Increasing(q[k].msgs)
       /\ Below(ToSet(q[k].msgs), ToSet(p) \cup {n})
       /\ q[k].seq >= e => Below(ToSet(d), ToSet(q[k].msgs))
  /\ \A k, l \in 1..Len(q) : k < l => Below(ToSet(q[k].msgs), ToSet(q[l].msgs))

OrderInv == Ordered(delivered, pending, next, sent, Expected)

\* Messages are kept until they have been run, and the blocks before the one
\* the board expects have been.
MessagesOf(q) == UNION {ToSet(q[i].msgs) : i \in 1..Len(q)}

Kept(d, p, n, q, e) ==
  /\ \A m \in 2..n - 1 : m \in ToSet(p) \cup MessagesOf(q) \cup ToSet(d)
  /\ \A k \in 1..Len(q) : q[k].seq < e => ToSet(q[k].msgs) \subseteq ToSet(d) \cup {1}

KeptInv == Kept(delivered, pending, next, sent, Expected)

\* A notification that waits knows the block of its query, and so the number
\* with which the response comes.
NoteOk(x, s, n, p, q) ==
  /\ 1 <= x.seq /\ x.seq < s /\ x.id < n /\ x.id \notin ToSet(p)
  /\ \A k \in 1..Len(q) : x.id \in ToSet(q[k].msgs) => q[k].seq = x.seq

NoteAnswers(x, r, h) == \A i \in 1..Len(h) : h[i].id = x.id => Number(r, h[i]) = x.seq + 1

NotifyInv ==
  \A k \in 1..Len(notify_queue) :
    /\ NoteOk(notify_queue[k], seqs.send, next, pending, sent)
    /\ NoteAnswers(notify_queue[k], seqs.receive, toHost)

\* A query that is done has no response on the way and will not be run.
DoneOk(q, n, p, sq, e, h) ==
  /\ q < n /\ q \notin ToSet(p)
  /\ \A k \in 1..Len(sq) : sq[k].seq >= e => q \notin ToSet(sq[k].msgs)
  /\ \A i \in 1..Len(h) : h[i].id # q

\* A response that has not been taken is before the notification.
DataOk(q, h, rq) ==
  \A i \in 1..Len(rq) : rq[i].kind = "data" /\ rq[i].id = q =>
    /\ "done" \notin ToSet(h[q])
    /\ \A j \in 1..i : ~(rq[j].kind = "done" /\ rq[j].id = q)

DoneInv ==
  \A q \in Queries :
    /\ IsDone(q, heard, receive_queue) => DoneOk(q, next, pending, sent, Expected, toHost)
    /\ DataOk(q, heard, receive_queue)

\* A query waits to be sent, or its notification waits or has been given.
TellInv ==
  \A q \in Queries : q < next =>
    \/ q \in ToSet(pending)
    \/ \E k \in 1..Len(notify_queue) : notify_queue[k].id = q
    \/ IsEarly(q, heard, receive_queue) \/ IsDone(q, heard, receive_queue)

\* What the clock is fed with.
TimeInv ==
  /\ sampled \in {0, seqs.receive - 1}
  /\ seqs.retransmit <= seqs.send
  /\ \A s \in resent : s < seqs.retransmit

\* What is kept for retransmission fits in the board's buffer, with the block
\* that was acknowledged last as long as only a response has acknowledged it.
Held(q, l, a, r) == TotalLen(q) + (IF a < r THEN l ELSE 0)

LoadInv ==
  /\ \A k \in 1..Len(sent) : Len(sent[k].msgs) <= BlockMax
  /\ last_len <= BlockMax
  /\ Held(sent, last_len, seqs.last_ack, seqs.receive) <= RecvWindow

\* The block that the board runs is kept for retransmission, or it is the one
\* acknowledged last, and by a response.
RunInv ==
  /\ seqs.last_ack <= Expected
  /\ mcu.running # NoBlock =>
       /\ Expected <= seqs.send /\ seqs.last_ack < Expected
       /\ \A i \in 1..Len(toHost) :
            toHost[i].kind = "ack" => Number(seqs.receive, toHost[i]) < Expected
       /\ \/ seqs.receive < Expected /\ mcu.running = sent[Expected - seqs.receive]
          \/ seqs.receive = Expected /\ last_len = Len(mcu.running.msgs)

\* Until something is retransmitted every block is on the way once; one before
\* the number that the board expects has the identify query only.
FreshInv ==
  seqs.retransmit = 0 =>
    /\ \A i, j \in 1..Len(Wire) : i < j => Wire[i].seq < Wire[j].seq
    /\ \A i \in 1..Len(Wire) :
         /\ Wire[i].seq < Expected =>
              /\ Wire[i].msgs = <<1>> /\ 1 \notin ToSet(pending) /\ 1 < next
              /\ mcu.running = NoBlock
         /\ Wire[i].seq < seqs.receive => 1 \notin MessagesOf(sent)

\* The window, the blocks on the way and the answers.
WindowInv == SentInv /\ WireInv /\ AnswerInv /\ ConnectInv

\* The inductive invariant.
SerialInv ==
  /\ TypeOK /\ WindowInv
  /\ OrderInv /\ KeptInv /\ NotifyInv /\ DoneInv /\ NoLateResponse
  /\ TellInv /\ TimeInv
  /\ LoadInv /\ RunInv /\ FreshInv
-----------------------------------------------------------------------------
(* Numbers modulo SeqSize. *)

LEMMA Sizes == SeqSize \in Nat \ {0} /\ MaxPending \in Nat \ {0} /\ MaxPending < SeqSize
BY SerialAssumption

\* A multiple of n that is less than n away from 0 is 0.
LEMMA SmallMultiple ==
  ASSUME NEW n \in Nat \ {0}, NEW k \in Int, n * k < n, n * k > -n
  PROVE  k = 0
<1>1. CASE k >= 1
  <2> n * k >= n * 1
    BY <1>1
  <2> QED
    OBVIOUS
<1>2. CASE k <= -1
  <2> n * k <= n * (-1)
    BY <1>2
  <2> QED
    OBVIOUS
<1> QED
  BY <1>1, <1>2

\* The remainder is the one between 0 and n.
LEMMA Remainder ==
  ASSUME NEW n \in Nat \ {0}, NEW a \in Int, NEW k \in Int, NEW r \in 0..n - 1, a = (n * k) + r
  PROVE  a % n = r
<1>1. /\ a = (n * (a \div n)) + (a % n)
      /\ a \div n \in Int /\ a % n \in 0..n - 1
  OBVIOUS
<1>2. n * (k - (a \div n)) = (a % n) - r
  BY <1>1
<1>3. k - (a \div n) = 0
  <2>1. k - (a \div n) \in Int
    BY <1>1
  <2>2. n * (k - (a \div n)) < n /\ n * (k - (a \div n)) > -n
    BY <1>1, <1>2
  <2> QED
    BY <2>1, <2>2, SmallMultiple
<1> QED
  BY <1>1, <1>2, <1>3

LEMMA RemainderShift ==
  ASSUME NEW n \in Nat \ {0}, NEW a \in Int, NEW k \in Int
  PROVE  (a + (n * k)) % n = a % n
<1>1. /\ a = (n * (a \div n)) + (a % n)
      /\ a \div n \in Int /\ a % n \in 0..n - 1
  OBVIOUS
<1>2. PICK q \in Int, s \in 0..n - 1 : q = a \div n /\ s = a % n
  BY <1>1
<1>3. PICK c \in Int, d \in Int : c = a + (n * k) /\ d = q + k
  OBVIOUS
<1>4. n * d = (n * q) + (n * k)
  BY <1>3
<1>5. c = (n * d) + s
  BY <1>1, <1>2, <1>3, <1>4
<1>6. c % n = s
  BY <1>5, Remainder
<1> QED
  BY <1>2, <1>3, <1>6

\* Numbers with the same remainder that are close are the same.
LEMMA SameRemainder ==
  ASSUME NEW n \in Nat \ {0}, NEW a \in Int, NEW b \in Int, a % n = b % n, a - b < n, b - a < n
  PROVE  a = b
<1>1. /\ a = (n * (a \div n)) + (a % n) /\ b = (n * (b \div n)) + (b % n)
      /\ a \div n \in Int /\ b \div n \in Int
  OBVIOUS
<1>2. n * ((a \div n) - (b \div n)) = a - b
  BY <1>1
<1>3. (a \div n) - (b \div n) = 0
  <2>1. (a \div n) - (b \div n) \in Int
    BY <1>1
  <2> QED
    BY <1>2, <2>1, SmallMultiple
<1> QED
  BY <1>1, <1>2, <1>3

LEMMA SuccRemainder ==
  ASSUME NEW n \in Nat \ {0}, NEW a \in Int, NEW b \in Int, a % n = b % n
  PROVE  (a + 1) % n = (b + 1) % n
<1>1. /\ a = (n * (a \div n)) + (a % n) /\ b = (n * (b \div n)) + (b % n)
      /\ a \div n \in Int /\ b \div n \in Int
  OBVIOUS
<1>2. PICK p \in Int, q \in Int : p = a \div n /\ q = b \div n
  BY <1>1
<1>3. PICK c \in Int, d \in Int : c = b + 1 /\ d = p - q
  OBVIOUS
<1>4. n * d = (n * p) - (n * q)
  BY <1>3
<1>5. a + 1 = c + (n * d)
  BY <1>1, <1>2, <1>3, <1>4
<1>6. (c + (n * d)) % n = c % n
  BY RemainderShift
<1> QED
  BY <1>3, <1>5, <1>6

\* A number on the wire, extended to the full width.
LEMMA FullIs ==
  ASSUME NEW r \in Int, NEW x \in Int
  PROVE  /\ Full(r, x) \in Int /\ r <= Full(r, x) /\ Full(r, x) < r + SeqSize
         /\ Full(r, x) % SeqSize = x % SeqSize
<1> DEFINE n == SeqSize
<1>1. n \in Nat \ {0}
  BY Sizes
<1>2. /\ x - r = (n * ((x - r) \div n)) + ((x - r) % n)
      /\ (x - r) \div n \in Int /\ (x - r) % n \in 0..n - 1
  BY <1>1
<1>3. Full(r, x) = x + (n * (-((x - r) \div n)))
  BY <1>1, <1>2 DEF Full
<1>4. -((x - r) \div n) \in Int
  BY <1>2
<1>5. Full(r, x) % n = x % n
  BY <1>1, <1>3, <1>4, RemainderShift
<1> QED
  BY <1>1, <1>2, <1>5 DEF Full

LEMMA FullShift ==
  ASSUME NEW r \in Int, NEW t \in Int, NEW x \in Int, r <= t, t <= Full(r, x)
  PROVE  Full(t, x) = Full(r, x)
<1>1. /\ Full(r, x) \in Int /\ Full(r, x) < r + SeqSize
      /\ Full(t, x) \in Int /\ t <= Full(t, x) /\ Full(t, x) < t + SeqSize
      /\ Full(r, x) % SeqSize = Full(t, x) % SeqSize
  BY FullIs
<1> QED
  BY <1>1, Sizes, SameRemainder

LEMMA FullSucc ==
  ASSUME NEW r \in Int, NEW x \in Int, Full(r, x) + 1 < r + SeqSize
  PROVE  Full(r, (x + 1) % SeqSize) = Full(r, x) + 1
<1>1. SeqSize \in Nat \ {0}
  BY Sizes
<1>2. PICK y \in 0..SeqSize - 1 : y = (x + 1) % SeqSize
  BY <1>1
<1>3. y % SeqSize = y
  BY <1>1, Remainder, y = (SeqSize * 0) + y
<1>4. PICK f \in Int : f = Full(r, x)
  BY FullIs
<1>5. r <= f /\ f % SeqSize = x % SeqSize
  BY <1>4, FullIs
<1>6. y \in Int
  BY <1>1
<1>7. PICK g \in Int : g = Full(r, y)
  BY <1>6, FullIs
<1>8. r <= g /\ g < r + SeqSize /\ g % SeqSize = y % SeqSize
  BY <1>6, <1>7, FullIs
<1>9. (f + 1) % SeqSize = y
  BY <1>1, <1>2, <1>5, SuccRemainder
<1>10. f + 1 = g
  <2>1. f + 1 < r + SeqSize
    BY <1>4
  <2>2. PICK h \in Int : h = f + 1
    OBVIOUS
  <2>3. h % SeqSize = g % SeqSize
    BY <1>3, <1>8, <1>9, <2>2
  <2>4. h - g < SeqSize /\ g - h < SeqSize
    BY <1>1, <1>5, <1>8, <2>1, <2>2
  <2> QED
    BY <1>1, <2>2, <2>3, <2>4, SameRemainder
<1> QED
  BY <1>2, <1>4, <1>7, <1>10

\* The board takes a block for the one it expects only if it is.
LEMMA SameNumber ==
  ASSUME NEW r \in Int, NEW x \in 0..SeqSize - 1, NEW b \in Int, b % SeqSize = x,
         b - Full(r, x) < SeqSize, Full(r, x) - b < SeqSize
  PROVE  b = Full(r, x)
<1>1. Full(r, x) \in Int /\ Full(r, x) % SeqSize = x % SeqSize
  BY FullIs, Sizes
<1>2. x % SeqSize = x
  BY Sizes, Remainder, x = (SeqSize * 0) + x
<1> QED
  BY <1>1, <1>2, Sizes, SameRemainder

-----------------------------------------------------------------------------
(* Sequences. *)

LEMMA TailIs ==
  ASSUME NEW S, NEW s \in Seq(S), s # <<>>
  PROVE  /\ Tail(s) \in Seq(S) /\ Len(s) \in Nat \ {0} /\ Len(Tail(s)) = Len(s) - 1
         /\ \A i \in 1..Len(Tail(s)) : Tail(s)[i] = s[i + 1] /\ i + 1 \in 1..Len(s)
         /\ Head(s) = s[1] /\ s[1] \in S
OBVIOUS

LEMMA AppendIs ==
  ASSUME NEW S, NEW s \in Seq(S), NEW x \in S
  PROVE  /\ Append(s, x) \in Seq(S) /\ Len(s) \in Nat /\ Len(Append(s, x)) = Len(s) + 1
         /\ \A i \in 1..Len(s) : Append(s, x)[i] = s[i]
         /\ Append(s, x)[Len(s) + 1] = x
OBVIOUS

LEMMA ConcatIs ==
  ASSUME NEW S, NEW s \in Seq(S), NEW t \in Seq(S)
  PROVE  /\ s \o t \in Seq(S) /\ Len(s) \in Nat /\ Len(t) \in Nat
         /\ Len(s \o t) = Len(s) + Len(t)
         /\ \A i \in 1..Len(s) : (s \o t)[i] = s[i]
         /\ \A i \in Len(s) + 1..Len(s \o t) : (s \o t)[i] = t[i - Len(s)] /\ i - Len(s) \in 1..Len(t)
OBVIOUS

LEMMA FrontIs ==
  ASSUME NEW S, NEW s \in Seq(S), NEW n \in 0..Len(s)
  PROVE  /\ SubSeq(s, 1, n) \in Seq(S) /\ Len(SubSeq(s, 1, n)) = n
         /\ \A i \in 1..n : SubSeq(s, 1, n)[i] = s[i]
OBVIOUS

LEMMA RestIs ==
  ASSUME NEW S, NEW s \in Seq(S), NEW n \in 0..Len(s)
  PROVE  /\ SubSeq(s, n + 1, Len(s)) \in Seq(S) /\ Len(SubSeq(s, n + 1, Len(s))) = Len(s) - n
         /\ \A i \in 1..Len(s) - n : SubSeq(s, n + 1, Len(s))[i] = s[i + n]
OBVIOUS

LEMMA ToSetIs ==
  ASSUME NEW S, NEW s \in Seq(S)
  PROVE  /\ ToSet(s) \subseteq S
         /\ \A x : x \in ToSet(s) <=> \E i \in 1..Len(s) : s[i] = x
BY DEF ToSet

LEMMA ToSetConcat ==
  ASSUME NEW S, NEW s \in Seq(S), NEW t \in Seq(S)
  PROVE  ToSet(s \o t) = ToSet(s) \cup ToSet(t)
<1>1. ASSUME NEW x \in ToSet(s) PROVE x \in ToSet(s \o t)
  <2>1. PICK i \in 1..Len(s) : s[i] = x
    BY ToSetIs
  <2>2. i \in 1..Len(s \o t) /\ (s \o t)[i] = x
    BY <2>1, ConcatIs
  <2> QED
    BY <2>2, ConcatIs, ToSetIs
<1>2. ASSUME NEW x \in ToSet(t) PROVE x \in ToSet(s \o t)
  <2>1. PICK i \in 1..Len(t) : t[i] = x
    BY ToSetIs
  <2>2. i + Len(s) \in 1..Len(s \o t) /\ (s \o t)[i + Len(s)] = x
    BY <2>1
  <2> QED
    BY <2>2, ConcatIs, ToSetIs
<1>3. ASSUME NEW x \in ToSet(s \o t) PROVE x \in ToSet(s) \cup ToSet(t)
  <2>1. PICK i \in 1..Len(s \o t) : (s \o t)[i] = x
    BY <1>3, ConcatIs, ToSetIs
  <2>2. CASE i \in 1..Len(s)
    BY <2>1, <2>2, ConcatIs, ToSetIs
  <2>3. CASE i \in Len(s) + 1..Len(s \o t)
    BY <2>1, <2>3, ConcatIs, ToSetIs
  <2> QED
    BY <2>2, <2>3
<1> QED
  BY <1>1, <1>2, <1>3

LEMMA ToSetAppend ==
  ASSUME NEW S, NEW s \in Seq(S), NEW x \in S
  PROVE  ToSet(Append(s, x)) = ToSet(s) \cup {x}
<1> DEFINE a == Append(s, x)
<1>1. /\ a \in Seq(S) /\ Len(s) \in Nat /\ Len(a) = Len(s) + 1
      /\ \A i \in 1..Len(s) : a[i] = s[i]
      /\ a[Len(s) + 1] = x
  BY AppendIs
<1> HIDE DEF a
<1>2. ASSUME NEW y \in ToSet(s) PROVE y \in ToSet(a)
  <2>1. PICK i \in 1..Len(s) : s[i] = y
    BY ToSetIs
  <2>2. i \in 1..Len(a) /\ a[i] = y
    BY <1>1, <2>1
  <2> QED
    BY <1>1, <2>2, ToSetIs
<1>3. x \in ToSet(a)
  <2>1. Len(s) + 1 \in 1..Len(a)
    BY <1>1
  <2> QED
    BY <1>1, <2>1, ToSetIs
<1>4. ASSUME NEW y \in ToSet(a) PROVE y \in ToSet(s) \cup {x}
  <2>1. PICK i \in 1..Len(a) : a[i] = y
    BY <1>1, <1>4, ToSetIs
  <2>2. CASE i = Len(s) + 1
    BY <1>1, <2>1, <2>2
  <2>3. CASE i # Len(s) + 1
    <3>1. i \in 1..Len(s) /\ s[i] = y
      BY <1>1, <2>1, <2>3
    <3> QED
      BY <3>1, ToSetIs
  <2> QED
    BY <2>2, <2>3
<1> QED
  BY <1>2, <1>3, <1>4 DEF a

\* A sequence in two pieces.
LEMMA ToSetSplit ==
  ASSUME NEW S, NEW s \in Seq(S), NEW n \in 0..Len(s)
  PROVE  ToSet(s) = ToSet(SubSeq(s, 1, n)) \cup ToSet(SubSeq(s, n + 1, Len(s)))
<1> DEFINE f == SubSeq(s, 1, n)  r == SubSeq(s, n + 1, Len(s))
<1>1. /\ f \in Seq(S) /\ Len(f) = n /\ \A i \in 1..n : f[i] = s[i]
      /\ r \in Seq(S) /\ Len(r) = Len(s) - n /\ \A i \in 1..Len(s) - n : r[i] = s[i + n]
  BY FrontIs, RestIs
<1> HIDE DEF f, r
<1>2. ASSUME NEW x \in ToSet(s) PROVE x \in ToSet(f) \cup ToSet(r)
  <2>1. PICK i \in 1..Len(s) : s[i] = x
    BY ToSetIs
  <2>2. CASE i <= n
    BY <1>1, <2>1, <2>2, ToSetIs
  <2>3. CASE i > n
    <3>1. i - n \in 1..Len(s) - n /\ s[i - n + n] = x
      BY <2>1, <2>3
    <3>2. r[i - n] = x
      BY <1>1, <3>1
    <3> QED
      BY <1>1, <3>1, <3>2, ToSetIs
  <2> QED
    BY <2>2, <2>3
<1>3. ASSUME NEW x \in ToSet(f) \cup ToSet(r) PROVE x \in ToSet(s)
  <2>1. CASE x \in ToSet(f)
    <3>1. PICK i \in 1..Len(f) : f[i] = x
      BY <1>1, <2>1, ToSetIs
    <3>2. i \in 1..Len(s) /\ s[i] = x
      BY <1>1, <3>1
    <3> QED
      BY <3>2, ToSetIs
  <2>2. CASE x \in ToSet(r)
    <3>1. PICK i \in 1..Len(r) : r[i] = x
      BY <1>1, <2>2, ToSetIs
    <3>2. i + n \in 1..Len(s) /\ s[i + n] = x
      BY <1>1, <3>1
    <3> QED
      BY <3>2, ToSetIs
  <2> QED
    BY <1>3, <2>1, <2>2
<1> QED
  BY <1>2, <1>3 DEF f, r

LEMMA IncreasingSplit ==
  ASSUME NEW s \in Seq(Nat), NEW n \in 0..Len(s), Increasing(s)
  PROVE  /\ Increasing(SubSeq(s, 1, n)) /\ Increasing(SubSeq(s, n + 1, Len(s)))
         /\ Below(ToSet(SubSeq(s, 1, n)), ToSet(SubSeq(s, n + 1, Len(s))))
<1> DEFINE f == SubSeq(s, 1, n)  r == SubSeq(s, n + 1, Len(s))
<1>1. /\ f \in Seq(Nat) /\ Len(f) = n /\ \A i \in 1..n : f[i] = s[i]
      /\ r \in Seq(Nat) /\ Len(r) = Len(s) - n /\ \A i \in 1..Len(s) - n : r[i] = s[i + n]
  BY FrontIs, RestIs
<1> HIDE DEF f, r
<1>2. Increasing(f)
  <2> SUFFICES ASSUME NEW i \in 1..Len(f), NEW j \in 1..Len(f), i < j PROVE f[i] < f[j]
    BY DEF Increasing
  <2>1. i \in 1..Len(s) /\ j \in 1..Len(s)
    BY <1>1
  <2> QED
    BY <1>1, <2>1 DEF Increasing
<1>4. Increasing(r)
  <2> SUFFICES ASSUME NEW i \in 1..Len(r), NEW j \in 1..Len(r), i < j PROVE r[i] < r[j]
    BY DEF Increasing
  <2>1. i + n \in 1..Len(s) /\ j + n \in 1..Len(s) /\ i + n < j + n
    BY <1>1
  <2> QED
    BY <1>1, <2>1 DEF Increasing
<1>3. ASSUME NEW a \in ToSet(f), NEW b \in ToSet(r) PROVE a < b
  <2>a. f \in Seq(Nat) /\ r \in Seq(Nat)
    BY <1>1
  <2>b. Len(f) = n /\ Len(r) = Len(s) - n /\ Len(s) \in Nat /\ n \in Nat /\ n <= Len(s)
    BY <1>1
  <2>1. PICK i \in 1..Len(f) : f[i] = a
    BY <2>a, ToSetIs
  <2>2. PICK j \in 1..Len(r) : r[j] = b
    BY <2>a, ToSetIs
  <2>3. i \in 1..Len(s) /\ j + n \in 1..Len(s) /\ i < j + n
    BY <2>b
  <2>4. s[i] = a /\ s[j + n] = b
    BY <1>1, <2>1, <2>2
  <2> QED
    BY <2>3, <2>4 DEF Increasing
<1> QED
  BY <1>2, <1>3, <1>4 DEF f, r, Below

LEMMA IncreasingConcat ==
  ASSUME NEW s \in Seq(Nat), NEW t \in Seq(Nat), Increasing(s), Increasing(t),
         Below(ToSet(s), ToSet(t))
  PROVE  Increasing(s \o t)
<1> SUFFICES ASSUME NEW i \in 1..Len(s \o t), NEW j \in 1..Len(s \o t), i < j
             PROVE  (s \o t)[i] < (s \o t)[j]
  BY DEF Increasing
<1>0. /\ Len(s) \in Nat /\ Len(t) \in Nat /\ Len(s \o t) = Len(s) + Len(t)
      /\ \A k \in 1..Len(s) : (s \o t)[k] = s[k]
      /\ \A k \in Len(s) + 1..Len(s \o t) : (s \o t)[k] = t[k - Len(s)] /\ k - Len(s) \in 1..Len(t)
  BY ConcatIs
<1>1. CASE j \in 1..Len(s)
  <2>1. i \in 1..Len(s)
    BY <1>0, <1>1
  <2> QED
    BY <1>0, <1>1, <2>1 DEF Increasing
<1>2. CASE i \in Len(s) + 1..Len(s \o t)
  <2>1. j \in Len(s) + 1..Len(s \o t)
    BY <1>0, <1>2
  <2>2. i - Len(s) < j - Len(s)
    BY <1>0
  <2>3. t[i - Len(s)] < t[j - Len(s)]
    BY <1>0, <1>2, <2>1, <2>2 DEF Increasing
  <2> QED
    BY <1>0, <1>2, <2>1, <2>3
<1>3. CASE i \in 1..Len(s) /\ j \in Len(s) + 1..Len(s \o t)
  <2>1. (s \o t)[i] \in ToSet(s) /\ (s \o t)[j] \in ToSet(t)
    BY <1>0, <1>3, ToSetIs
  <2> QED
    BY <2>1 DEF Below
<1> QED
  BY <1>0, <1>1, <1>2, <1>3

LEMMA InOrderIs ==
  ASSUME NEW S, NEW s \in InOrder(S)
  PROVE  s \in Seq(S) /\ Len(s) \in Nat /\ ToSet(s) = S
<1>1. PICK k \in 0..BlockMax : s \in [1..k -> S]
  BY DEF InOrder
<1>2. k \in Nat
  BY SerialAssumption
<1>3. s \in Seq(S) /\ Len(s) = k
  BY <1>1, <1>2
<1> QED
  BY <1>3 DEF InOrder

-----------------------------------------------------------------------------
(* Types. *)

SqType == [send : Nat, receive : Nat, last_ack : Nat, retransmit : Nat, ignore_nak : Nat]
NoteType == [id : Queries, seq : Nat]
NewsType == [kind : {"data", "early", "done"}, id : Queries \cup {Report}, time : Nat]

LEMMA FullTypes ==
  ASSUME TypeOK, NEW x \in 0..SeqSize - 1
  PROVE  /\ FullSeq(x) = Full(seqs.receive, x) /\ FullSeq(x) \in Nat
         /\ seqs.receive <= FullSeq(x)
<1>1. seqs.receive \in Nat
  BY DEF TypeOK
<1>2. FullSeq(x) = Full(seqs.receive, x)
  BY DEF FullSeq, Full
<1>3. x \in Int /\ seqs.receive \in Int
  BY <1>1, Sizes
<1>4. Full(seqs.receive, x) \in Int /\ seqs.receive <= Full(seqs.receive, x)
  BY <1>3, FullIs
<1> QED
  BY <1>1, <1>2, <1>4

LEMMA InitTypes == Init => TypeOK
<1> SUFFICES ASSUME Init PROVE TypeOK
  OBVIOUS
<1>1. \A S : <<>> \in Seq(S)
  OBVIOUS
<1>2. heard \in [Queries -> Seq({"data", "early", "done"})]
  BY <1>1 DEF Init
<1>3. mcu \in [next : 0..SeqSize - 1, running : Block]
  BY <1>1 DEF Init, NoBlock, Block
<1>4. seqs \in SqType
  BY DEF Init, SqType
<1>5. next \in 1..Messages + 1
  BY SerialAssumption DEF Init
<1>6. losses \in 0..MaxLosses /\ spurious \in 0..MaxSpurious /\ reports \in 0..MaxReports
  BY SerialAssumption DEF Init
<1> QED
  BY <1>1, <1>2, <1>3, <1>4, <1>5, <1>6 DEF Init, TypeOK, SqType, Timers, Blocks

\* What a command_event puts in a block.
LEMMA FillDoes ==
  ASSUME TypeOK, Fill
  PROVE  \E n \in 1..Len(pending), b \in Block, asked \in Seq(Queries) :
           /\ seqs.send - seqs.receive < MaxPending
           /\ b.seq = seqs.send /\ b.msgs = SubSeq(pending, 1, n)
           /\ ToSet(asked) = Queries \cap ToSet(b.msgs)
           /\ pending' = SubSeq(pending, n + 1, Len(pending))
           /\ notify_queue' = notify_queue \o
                                [i \in 1..Len(asked) |-> [id |-> asked[i], seq |-> seqs.send]]
           /\ sent' = Append(sent, b) /\ buf' = Append(buf, b)
<1>1. PICK n \in 1..Len(pending) :
        LET b == [seq |-> seqs.send, msgs |-> SubSeq(pending, 1, n)] IN
        /\ pending' = SubSeq(pending, n + 1, Len(pending))
        /\ \E asked \in InOrder(Queries \cap ToSet(b.msgs)) :
             notify_queue' = notify_queue \o
                               [i \in 1..Len(asked) |-> [id |-> asked[i], seq |-> b.seq]]
        /\ sent' = Append(sent, b)
        /\ buf' = Append(buf, b)
  BY DEF Fill
<1> DEFINE b == [seq |-> seqs.send, msgs |-> SubSeq(pending, 1, n)]
<1>2. b \in Block
  <2>1. pending \in Seq(1..Messages) /\ n \in 0..Len(pending) /\ seqs.send \in Nat
    BY DEF TypeOK
  <2> QED
    BY <2>1, FrontIs DEF Block
<1>3. PICK asked \in InOrder(Queries \cap ToSet(b.msgs)) :
        notify_queue' = notify_queue \o
                          [i \in 1..Len(asked) |-> [id |-> asked[i], seq |-> b.seq]]
  BY <1>1
<1>4. asked \in Seq(Queries \cap ToSet(b.msgs)) /\ ToSet(asked) = Queries \cap ToSet(b.msgs)
  BY <1>3, InOrderIs
<1>5. asked \in Seq(Queries)
  BY <1>4
<1>6. seqs.send - seqs.receive < MaxPending
  <2>1. ~(seqs.send - seqs.receive >= MaxPending)
    BY DEF Fill, WindowFull
  <2>2. seqs.send \in Nat /\ seqs.receive \in Nat
    BY DEF TypeOK
  <2> QED
    BY <2>1, <2>2, Sizes
<1> QED
  BY <1>1, <1>2, <1>3, <1>4, <1>5, <1>6

LEMMA NotesTypes ==
  ASSUME NEW asked \in Seq(Queries), NEW s \in Nat
  PROVE  LET w == [i \in 1..Len(asked) |-> [id |-> asked[i], seq |-> s]] IN
         /\ w \in Seq(NoteType) /\ Len(w) = Len(asked)
         /\ \A i \in 1..Len(w) : w[i] = [id |-> asked[i], seq |-> s] /\ asked[i] \in Queries
BY DEF NoteType

\* What the microcontroller runs and answers.
LEMMA McuStartDoes ==
  ASSUME TypeOK, McuStart
  PROVE  \E asked \in Seq(Queries) :
           /\ toMcu # <<>> /\ Head(toMcu).seq % SeqSize = mcu.next
           /\ ToSet(asked) = Queries \cap ToSet(Head(toMcu).msgs)
           /\ mcu' = [next |-> (mcu.next + 1) % SeqSize, running |-> Head(toMcu)]
           /\ delivered' = delivered \o Head(toMcu).msgs
           /\ toHost' = toHost \o [i \in 1..Len(asked) |->
                                     Answer("data", asked[i], (mcu.next + 1) % SeqSize)]
<1>1. PICK asked \in InOrder(Queries \cap ToSet(Head(toMcu).msgs)) :
        toHost' = toHost \o [i \in 1..Len(asked) |->
                               Answer("data", asked[i], (mcu.next + 1) % SeqSize)]
  BY DEF McuStart
<1>2. asked \in Seq(Queries) /\ ToSet(asked) = Queries \cap ToSet(Head(toMcu).msgs)
  BY <1>1, InOrderIs
<1> QED
  BY <1>1, <1>2 DEF McuStart, WireSeq

LEMMA AnswersTypes ==
  ASSUME NEW asked \in Seq(Queries), NEW s \in 0..SeqSize - 1
  PROVE  LET w == [i \in 1..Len(asked) |-> Answer("data", asked[i], s)] IN
         /\ w \in Seq(SomeAnswer) /\ Len(w) = Len(asked)
         /\ \A i \in 1..Len(w) :
              w[i] = [kind |-> "data", id |-> asked[i], seq |-> s] /\ asked[i] \in Queries
BY DEF Answer, SomeAnswer

\* What a message from the microcontroller changes: the window, the
\* notifications given, and what the receiving thread gets.
HandleWindow(rseq) ==
  /\ seqs' \in SqType /\ seqs'.receive = rseq /\ seqs'.retransmit = seqs.retransmit
  /\ rseq - seqs.receive <= Len(sent) =>
       sent' = SubSeq(sent, (rseq - seqs.receive) + 1, Len(sent)) /\ seqs'.send = seqs.send
  /\ rseq - seqs.receive > Len(sent) => sent' = <<>> /\ seqs'.send = rseq
  /\ rseq = seqs.receive => sampled' = sampled
  /\ rseq # seqs.receive => sampled' \in {0, rseq - 1}
  /\ last_len' \in Nat /\ ctimer' \in Timers

HandleNews(rseq, m, n, w, v) ==
  /\ \A i \in 1..n : notify_queue[i].seq <= WakeSeq(rseq, m)
  /\ notify_queue' = SubSeq(notify_queue, n + 1, Len(notify_queue))
  /\ Len(w) = n
  /\ \A i \in 1..n : /\ w[i].kind = (IF rseq = 1 THEN "early" ELSE "done")
                     /\ w[i].id = notify_queue[i].id
  /\ m.kind = "ack" => v = <<>>
  /\ m.kind = "data" => /\ Len(v) = 1 /\ v[1].kind = "data" /\ v[1].id = m.id
                        /\ v[1].time = (IF rseq > seqs.retransmit THEN sampled' ELSE 0)
  /\ receive_queue' = receive_queue \o (w \o v)

LEMMA HandleWindowDoes ==
  ASSUME TypeOK, HandleMessage, NEW m, m = Head(toHost), NEW rseq, rseq = FullSeq(m.seq),
         ~Unexpected(rseq)
  PROVE  HandleWindow(rseq) /\ rseq \in Nat /\ rseq >= seqs.receive
<1>1. toHost # <<>>
  BY DEF HandleMessage
<1>2. m \in SomeAnswer
  BY <1>1 DEF TypeOK
<1>3. rseq \in Nat /\ rseq >= seqs.receive
  BY <1>2, FullTypes DEF SomeAnswer
<1>4. /\ seqs \in SqType /\ sent \in Seq(Block) /\ sampled \in Nat /\ last_len \in Nat
      /\ ctimer \in Timers
  BY DEF TypeOK, SqType, Blocks
<1>5. CASE rseq = seqs.receive
  <2>1. UNCHANGED <<sent, ctimer, last_len, sampled>> /\ seqs' = WithAck(rseq, m, seqs)
    BY <1>5 DEF HandleMessage
  <2>2. /\ seqs' \in SqType /\ seqs'.receive = rseq /\ seqs'.send = seqs.send
        /\ seqs'.retransmit = seqs.retransmit
    BY <1>3, <1>4, <1>5, <2>1 DEF WithAck, SqType
  <2>3. rseq - seqs.receive = 0 /\ Len(sent) \in Nat /\ sent = SubSeq(sent, 1, Len(sent))
    BY <1>3, <1>4, <1>5 DEF SqType
  <2> QED
    BY <1>3, <1>4, <1>5, <2>1, <2>2, <2>3 DEF HandleWindow
<1>6. CASE rseq # seqs.receive
  <2> DEFINE n == Acked(rseq)
             s == [seqs EXCEPT !.receive = rseq, !.send = IF n = rseq - seqs.receive THEN @ ELSE rseq]
  <2>1. UpdateReceiveSeq(rseq, m)
    BY <1>6 DEF HandleMessage
  <2>2. /\ sent' = SubSeq(sent, n + 1, Len(sent)) /\ seqs' = WithAck(rseq, m, s)
        /\ ctimer' = "now"
        /\ IF n = rseq - seqs.receive
           THEN last_len' = Len(sent[n].msgs) /\ sampled' = rseq - 1
           ELSE sampled' = 0 /\ UNCHANGED last_len
    BY <2>1 DEF UpdateReceiveSeq
  <2>3. rseq - seqs.receive \in Nat \ {0} /\ Len(sent) \in Nat
    BY <1>3, <1>4, <1>6 DEF SqType
  <2>4. /\ rseq - seqs.receive <= Len(sent) => n = rseq - seqs.receive
        /\ rseq - seqs.receive > Len(sent) => n = Len(sent)
    BY <2>3 DEF Acked
  <2>5. /\ s \in SqType /\ s.receive = rseq /\ s.retransmit = seqs.retransmit
        /\ s.send = IF n = rseq - seqs.receive THEN seqs.send ELSE rseq
    BY <1>3, <1>4 DEF SqType
  <2>6. /\ seqs' \in SqType /\ seqs'.receive = s.receive /\ seqs'.send = s.send
        /\ seqs'.retransmit = s.retransmit
    <3> HIDE DEF s
    <3> QED
      BY <1>3, <2>2, <2>5 DEF WithAck, SqType
  <2>7. last_len' \in Nat /\ ctimer' \in Timers
    <3>1. CASE n = rseq - seqs.receive
      <4>1. n \in 1..Len(sent)
        BY <2>3, <2>4, <3>1
      <4>2. Len(sent[n].msgs) \in Nat
        BY <1>4, <4>1 DEF Block
      <4> QED
        BY <2>2, <3>1, <4>2 DEF Timers
    <3>2. CASE n # rseq - seqs.receive
      BY <1>4, <2>2, <3>2 DEF Timers
    <3> QED
      BY <3>1, <3>2
  <2>8. n = Len(sent) => SubSeq(sent, n + 1, Len(sent)) = <<>>
    BY <1>4, <2>3
  <2> HIDE DEF n, s
  <2>9. rseq - seqs.receive <= Len(sent) =>
          sent' = SubSeq(sent, (rseq - seqs.receive) + 1, Len(sent)) /\ seqs'.send = seqs.send
    BY <2>2, <2>4, <2>5, <2>6
  <2>10. rseq - seqs.receive > Len(sent) => sent' = <<>> /\ seqs'.send = rseq
    <3> HAVE rseq - seqs.receive > Len(sent)
    <3>1. n = Len(sent) /\ n # rseq - seqs.receive
      BY <2>3, <2>4
    <3> QED
      BY <2>2, <2>5, <2>6, <2>8, <3>1
  <2>11. sampled' \in {0, rseq - 1}
    BY <2>2
  <2> QED
    BY <1>3, <1>6, <2>5, <2>6, <2>7, <2>9, <2>10, <2>11 DEF HandleWindow
<1> QED
  BY <1>3, <1>5, <1>6

LEMMA HandleNewsDoes ==
  ASSUME TypeOK, HandleMessage, NEW m, m = Head(toHost), NEW rseq, rseq = FullSeq(m.seq),
         ~Unexpected(rseq)
  PROVE  \E n \in 0..Len(notify_queue), w \in Seq(NewsType), v \in Seq(NewsType) :
           HandleNews(rseq, m, n, w, v) /\ pulling' \in BOOLEAN /\ rtimer' \in Timers
<1>0. toHost # <<>>
  BY DEF HandleMessage
<1>1. m \in SomeAnswer
  BY <1>0 DEF TypeOK
<1>2. HandleWindow(rseq) /\ rseq \in Nat /\ rseq >= seqs.receive
  BY HandleWindowDoes
<1>3. sampled' \in Nat
  <2>1. sampled \in Nat /\ seqs.receive \in Nat
    BY DEF TypeOK
  <2> QED
    BY <1>2, <2>1 DEF HandleWindow
<1>4. PICK n \in Woken(rseq, m) :
        /\ notify_queue' = SubSeq(notify_queue, n + 1, Len(notify_queue))
        /\ Queue(DoneNotes(rseq, n) \o Response(rseq, m))
  BY DEF HandleMessage
<1>5. n \in 0..Len(notify_queue) /\ \A i \in 1..n : notify_queue[i].seq <= WakeSeq(rseq, m)
  BY <1>4 DEF Woken
<1>6. notify_queue \in Seq(NoteType) /\ Len(notify_queue) \in Nat
  BY DEF TypeOK, NoteType
<1> DEFINE w == DoneNotes(rseq, n)  v == Response(rseq, m)
<1>7. /\ w \in Seq(NewsType) /\ Len(w) = n
      /\ \A i \in 1..n : /\ w[i].kind = (IF rseq = 1 THEN "early" ELSE "done")
                         /\ w[i].id = notify_queue[i].id
  <2>1. \A i \in 1..n : notify_queue[i].id \in Queries
    <3> SUFFICES ASSUME NEW i \in 1..n PROVE notify_queue[i].id \in Queries
      OBVIOUS
    <3>1. i \in 1..Len(notify_queue)
      BY <1>5, <1>6
    <3>2. notify_queue[i] \in NoteType
      BY <1>6, <3>1
    <3> QED
      BY <3>2 DEF NoteType
  <2> QED
    BY <1>3, <1>5, <1>6, <2>1 DEF DoneNotes, NewsType
<1>8. /\ v \in Seq(NewsType)
      /\ m.kind = "ack" => v = <<>>
      /\ m.kind = "data" => /\ Len(v) = 1 /\ v[1].kind = "data" /\ v[1].id = m.id
                            /\ v[1].time = (IF rseq > seqs.retransmit THEN sampled' ELSE 0)
  <2>1. CASE m.kind = "ack"
    BY <2>1 DEF Response
  <2>2. CASE m.kind = "data"
    <3> DEFINE x == [kind |-> "data", id |-> m.id,
                     time |-> IF rseq > seqs.retransmit THEN sampled' ELSE 0]
    <3>1. v = <<x>>
      BY <2>2 DEF Response
    <3>2. m.id \in Queries \cup {Report}
      BY <1>1 DEF SomeAnswer
    <3>3. x \in NewsType
      BY <1>3, <3>2 DEF NewsType
    <3> HIDE DEF v
    <3>4. v \in Seq(NewsType) /\ Len(v) = 1 /\ v[1] = x
      BY <3>1, <3>3
    <3> QED
      BY <2>2, <3>4
  <2> QED
    BY <1>1, <2>1, <2>2 DEF SomeAnswer
<1>9. receive_queue' = receive_queue \o (w \o v) /\ pulling' \in BOOLEAN
  BY <1>4 DEF Queue, TypeOK
<1>10. rtimer' \in Timers
  <2>1. rtimer' = RetransmitTimer(rseq, m) /\ rtimer \in Timers
    BY DEF HandleMessage, TypeOK
  <2> QED
    BY <2>1 DEF RetransmitTimer, Timers
<1> HIDE DEF w, v
<1> QED
  BY <1>4, <1>5, <1>7, <1>8, <1>9, <1>10 DEF HandleNews

\* The messages of a retransmission are those of the sent queue.
LEMMA RetransmitDoes ==
  ASSUME TypeOK, Retransmit
  PROVE  \E kept \in 0..Len(toMcu) :
           /\ toMcu' = SubSeq(toMcu, 1, kept) \o sent
           /\ SubSeq(toMcu, 1, kept) \in Seq(Block) /\ toMcu' \in Seq(Block)
           /\ seqs' \in SqType /\ seqs'.send = seqs.send /\ seqs'.receive = seqs.receive
           /\ seqs'.retransmit = seqs.send
           /\ resent' = resent \cup {sent[i].seq : i \in 1..Len(sent)}
<1>1. toMcu \in Seq(Block) /\ sent \in Seq(Block) /\ seqs \in SqType
  BY DEF TypeOK, Blocks, SqType
<1>2. PICK kept \in 0..Len(toMcu) : toMcu' = SubSeq(toMcu, 1, kept) \o sent
  BY DEF Retransmit, BlocksToResend
<1>3. SubSeq(toMcu, 1, kept) \in Seq(Block)
  BY <1>1, FrontIs
<1>4. toMcu' \in Seq(Block)
  BY <1>1, <1>2, <1>3, ConcatIs
<1>5. IgnoreNak \in Nat
  BY <1>1 DEF IgnoreNak, SqType
<1>6. /\ seqs' \in SqType /\ seqs'.send = seqs.send /\ seqs'.receive = seqs.receive
      /\ seqs'.retransmit = seqs.send
  BY <1>1, <1>5 DEF Retransmit, SqType
<1> QED
  BY <1>2, <1>3, <1>4, <1>6 DEF Retransmit

LEMMA StepTypes == ASSUME TypeOK, [Next]_vars PROVE TypeOK'
<1> USE DEF Blocks
<1>0. /\ pending \in Seq(1..Messages) /\ toMcu \in Seq(Block) /\ toHost \in Seq(SomeAnswer)
      /\ buf \in Seq(Block) /\ sent \in Seq(Block) /\ notify_queue \in Seq(NoteType)
      /\ receive_queue \in Seq(NewsType) /\ delivered \in Seq(1..Messages)
      /\ mcu \in [next : 0..SeqSize - 1, running : Block] /\ seqs \in SqType
      /\ Messages \in Nat
  BY SerialAssumption DEF TypeOK, SqType, NoteType, NewsType
<1>1. CASE Send
  <2>1. next \in 1..Messages /\ next' = next + 1
    BY <1>0, <1>1 DEF Send, TypeOK
  <2>2. next' \in 1..Messages + 1 /\ pending' \in Seq(1..Messages)
    <3>1. pending' = Append(pending, next)
      BY <1>1 DEF Send
    <3>2. Append(pending, next) \in Seq(1..Messages)
      BY <1>0, <2>1, AppendIs
    <3> QED
      BY <1>0, <2>1, <3>1, <3>2
  <2>3. need_kick' \in {"none", "clock", "max"} /\ kicked' \in BOOLEAN
    BY <1>1 DEF Send, Kick, DontKick, TypeOK
  <2> QED
    BY <1>1, <2>2, <2>3 DEF Send, TypeOK, board, bounds
<1>2. CASE Pull
  <2>1. CASE receive_queue = <<>>
    BY <1>2, <2>1 DEF Pull, TypeOK, board, bounds
  <2>2. CASE receive_queue # <<>>
    <3> DEFINE m == Head(receive_queue)
    <3>1. m \in NewsType /\ Tail(receive_queue) \in Seq(NewsType)
      BY <1>0, <2>2, TailIs
    <3>2. /\ receive_queue' = Tail(receive_queue)
          /\ heard' = IF m.id = Report THEN heard
                      ELSE [heard EXCEPT ![m.id] = Append(@, m.kind)]
          /\ pulling' = pulling
      BY <1>2, <2>2 DEF Pull
    <3>3. heard' \in [Queries -> Seq({"data", "early", "done"})]
      <4>1. heard \in [Queries -> Seq({"data", "early", "done"})]
        BY DEF TypeOK
      <4>2. CASE m.id = Report
        BY <3>2, <4>1, <4>2
      <4>3. CASE m.id # Report
        <5>1. m.id \in Queries /\ m.kind \in {"data", "early", "done"}
          BY <3>1, <4>3 DEF NewsType
        <5>2. Append(heard[m.id], m.kind) \in Seq({"data", "early", "done"})
          BY <4>1, <5>1
        <5> QED
          BY <3>2, <4>1, <4>3, <5>1, <5>2
      <4> QED
        BY <4>2, <4>3
    <3>4. receive_queue' \in Seq([kind : {"data", "early", "done"}, id : Queries \cup {Report}, time : Nat])
      BY <3>1, <3>2 DEF NewsType
    <3> HIDE DEF m
    <3> QED
      BY <1>2, <3>2, <3>3, <3>4 DEF Pull, TypeOK, board, bounds
  <2> QED
    BY <2>1, <2>2
<1>3. CASE KickEvent
  BY <1>3 DEF KickEvent, TypeOK, board, bounds, Timers
<1>4. CASE Fill
  <2>1. PICK n \in 1..Len(pending), b \in Block, asked \in Seq(Queries) :
          /\ pending' = SubSeq(pending, n + 1, Len(pending))
          /\ notify_queue' = notify_queue \o
                               [i \in 1..Len(asked) |-> [id |-> asked[i], seq |-> seqs.send]]
          /\ sent' = Append(sent, b) /\ buf' = Append(buf, b)
    BY <1>4, FillDoes
  <2>2. pending' \in Seq(1..Messages)
    <3>1. n \in 0..Len(pending)
      BY <1>0, <2>1
    <3> QED
      BY <1>0, <2>1, <3>1, RestIs
  <2>3. sent' \in Seq(Block) /\ buf' \in Seq(Block)
    BY <1>0, <2>1, AppendIs
  <2>4. notify_queue' \in Seq([id : Queries, seq : Nat])
    <3> DEFINE w == [i \in 1..Len(asked) |-> [id |-> asked[i], seq |-> seqs.send]]
    <3>1. w \in Seq(NoteType)
      BY <1>0, NotesTypes DEF SqType
    <3> HIDE DEF w
    <3>2. notify_queue \o w \in Seq(NoteType)
      BY <1>0, <3>1, ConcatIs
    <3> QED
      BY <2>1, <3>2 DEF NoteType, w
  <2>5. seqs' \in SqType
    <3>1. seqs' = [seqs EXCEPT !.send = @ + 1]
      BY <1>4 DEF Fill
    <3>2. seqs \in SqType
      BY <1>0
    <3> QED
      BY <3>1, <3>2 DEF SqType
  <2>6. rtimer' \in Timers /\ filling' \in BOOLEAN
    BY <1>4 DEF Fill, Timers, TypeOK
  <2> QED
    BY <1>4, <2>2, <2>3, <2>4, <2>5, <2>6 DEF Fill, TypeOK, SqType, board, bounds
<1>5. CASE WaitForAck \/ WaitForMessages \/ WaitForClock
  <2>1. Write /\ ctimer' \in Timers /\ need_kick' \in {"none", "clock", "max"}
    BY <1>5 DEF WaitForAck, WaitForMessages, WaitForClock, Timers, TypeOK
  <2>2. toMcu' \in Seq(Block) /\ buf' \in Seq(Block) /\ filling' \in BOOLEAN
    <3>1. toMcu \o buf \in Seq(Block)
      BY <1>0, ConcatIs
    <3>2. toMcu' = toMcu \o buf /\ buf' = <<>> /\ filling' = FALSE
      BY <2>1 DEF Write
    <3>3. toMcu' \in Seq(Block)
      BY <3>1, <3>2, Zenon
    <3>4. <<>> \in Seq(Block)
      OBVIOUS
    <3> QED
      BY <3>2, <3>3, <3>4
  <2> QED
    BY <2>1, <2>2 DEF Write, TypeOK, board, bounds
<1>6. CASE HandleMessage
  <2> DEFINE m == Head(toHost)  rseq == FullSeq(m.seq)
  <2>0. toHost # <<>> /\ toHost' = Tail(toHost)
    BY <1>6 DEF HandleMessage
  <2>1. toHost' \in Seq(SomeAnswer)
    BY <1>0, <2>0, TailIs
  <2>2. CASE Unexpected(rseq)
    <3>1. UNCHANGED host
      BY <1>6, <2>2 DEF HandleMessage
    <3> QED
      BY <1>6, <2>1, <3>1 DEF HandleMessage, host, TypeOK, board, bounds
  <2>3. CASE ~Unexpected(rseq)
    <3>1. HandleWindow(rseq) /\ rseq \in Nat /\ rseq >= seqs.receive
      BY <1>6, <2>3, HandleWindowDoes
    <3>2. PICK n \in 0..Len(notify_queue), w \in Seq(NewsType), v \in Seq(NewsType) :
            HandleNews(rseq, m, n, w, v) /\ pulling' \in BOOLEAN /\ rtimer' \in Timers
      BY <1>6, <2>3, HandleNewsDoes
    <3>8. UNCHANGED <<next, pending, need_kick, kicked, buf, filling, heard, resent, board, toMcu, bounds>>
      BY <1>6, <2>3 DEF HandleMessage
    <3> HIDE DEF m, rseq
    <3>3. sent' \in Seq(Block)
      <4>1. rseq - seqs.receive \in Nat
        <5>1. seqs.receive \in Nat
          BY <1>0 DEF SqType
        <5> QED
          BY <3>1, <5>1
      <4>2. CASE rseq - seqs.receive <= Len(sent)
        <5>1. rseq - seqs.receive \in 0..Len(sent)
          BY <1>0, <4>1, <4>2
        <5>2. sent' = SubSeq(sent, (rseq - seqs.receive) + 1, Len(sent))
          BY <3>1, <4>2 DEF HandleWindow
        <5> QED
          BY <1>0, <5>1, <5>2, RestIs
      <4>3. CASE rseq - seqs.receive > Len(sent)
        <5>1. sent' = <<>>
          BY <3>1, <4>3 DEF HandleWindow
        <5> QED
          BY <5>1
      <4>4. Len(sent) \in Nat
        BY <1>0
      <4> QED
        BY <4>1, <4>2, <4>3, <4>4
    <3>4. seqs' \in SqType /\ last_len' \in Nat /\ ctimer' \in Timers
      BY <3>1 DEF HandleWindow
    <3>5. sampled' \in Nat
      <4>1. sampled \in Nat /\ seqs.receive \in Nat
        BY DEF TypeOK
      <4> QED
        BY <3>1, <4>1 DEF HandleWindow
    <3>6. notify_queue' \in Seq(NoteType)
      BY <1>0, <3>2, RestIs DEF HandleNews
    <3>7. receive_queue' \in Seq(NewsType)
      <4>1. w \o v \in Seq(NewsType)
        BY <3>2, ConcatIs
      <4>2. receive_queue \o (w \o v) \in Seq(NewsType)
        BY <1>0, <4>1, ConcatIs
      <4> QED
        BY <3>2, <4>2 DEF HandleNews
    <3> QED
      BY <2>1, <3>2, <3>3, <3>4, <3>5, <3>6, <3>7, <3>8
      DEF TypeOK, SqType, NoteType, NewsType, board, bounds
  <2> QED
    BY <2>2, <2>3
<1>7. CASE RetransmitEvent
  <2>1. Retransmit
    BY <1>7 DEF RetransmitEvent, RetransmitOnNak, RetransmitOnTimeout
  <2>2. PICK kept \in 0..Len(toMcu) :
          /\ toMcu' \in Seq(Block) /\ seqs' \in SqType
          /\ resent' = resent \cup {sent[i].seq : i \in 1..Len(sent)}
    BY <2>1, RetransmitDoes
  <2>3. resent' \subseteq Nat
    <3>1. \A i \in 1..Len(sent) : sent[i].seq \in Nat
      <4>1. \A i \in 1..Len(sent) : sent[i] \in Block
        BY <1>0
      <4> QED
        BY <4>1 DEF Block
    <3> QED
      BY <2>2, <3>1 DEF TypeOK
  <2>4. spurious' \in 0..MaxSpurious
    <3>1. spurious \in 0..MaxSpurious /\ MaxSpurious \in Nat
      BY SerialAssumption DEF TypeOK
    <3>2. \/ spurious' = spurious
          \/ spurious < MaxSpurious /\ spurious' = spurious + 1
      BY <1>7 DEF RetransmitEvent, RetransmitOnNak, RetransmitOnTimeout
    <3> QED
      BY <3>1, <3>2
  <2>5. rtimer' \in Timers
    BY <2>1 DEF Retransmit, Timers
  <2> QED
    BY <2>1, <2>2, <2>3, <2>4, <2>5 DEF Retransmit, TypeOK, SqType, board
<1>8. CASE McuStart
  <2>1. PICK asked \in Seq(Queries) :
          /\ toMcu # <<>>
          /\ mcu' = [next |-> (mcu.next + 1) % SeqSize, running |-> Head(toMcu)]
          /\ delivered' = delivered \o Head(toMcu).msgs
          /\ toHost' = toHost \o [i \in 1..Len(asked) |->
                                    Answer("data", asked[i], (mcu.next + 1) % SeqSize)]
    BY <1>8, McuStartDoes
  <2>2. Head(toMcu) \in Block /\ Tail(toMcu) \in Seq(Block)
    BY <1>0, <2>1, TailIs
  <2>3. (mcu.next + 1) % SeqSize \in 0..SeqSize - 1
    BY <1>0, Sizes
  <2>4. mcu' \in [next : 0..SeqSize - 1, running : Block]
    BY <2>1, <2>2, <2>3
  <2>5. delivered' \in Seq(1..Messages)
    BY <1>0, <2>1, <2>2, ConcatIs DEF Block
  <2>6. toHost' \in Seq(SomeAnswer)
    <3> DEFINE w == [i \in 1..Len(asked) |-> Answer("data", asked[i], (mcu.next + 1) % SeqSize)]
    <3>1. w \in Seq(SomeAnswer)
      BY <2>3, AnswersTypes
    <3> HIDE DEF w
    <3>2. toHost \o w \in Seq(SomeAnswer)
      BY <1>0, <3>1, ConcatIs
    <3> QED
      BY <2>1, <3>2 DEF w
  <2> QED
    BY <1>8, <2>2, <2>4, <2>5, <2>6 DEF McuStart, TypeOK, host, bounds
<1>9. ASSUME UNCHANGED <<host, delivered, spurious>>,
             mcu' \in {mcu, [mcu EXCEPT !.running = NoBlock]},
             toMcu' \in Seq(Block), toHost' \in Seq(SomeAnswer),
             losses' \in 0..MaxLosses, reports' \in 0..MaxReports
      PROVE  TypeOK'
  <2>1. mcu' \in [next : 0..SeqSize - 1, running : Block]
    <3>1. NoBlock \in Block
      BY DEF NoBlock, Block
    <3> QED
      BY <1>0, <1>9, <3>1
  <2> QED
    BY <1>9, <2>1 DEF TypeOK, host
<1>a. /\ Append(toHost, Answer("ack", 0, mcu.next)) \in Seq(SomeAnswer)
      /\ Append(toHost, Answer("data", Report, mcu.next)) \in Seq(SomeAnswer)
  <2>1. Answer("ack", 0, mcu.next) \in SomeAnswer /\ Answer("data", Report, mcu.next) \in SomeAnswer
    BY <1>0 DEF Answer, SomeAnswer, Report
  <2> QED
    BY <1>0, <2>1, AppendIs
<1>b. /\ losses \in 0..MaxLosses /\ reports \in 0..MaxReports
      /\ losses < MaxLosses => losses + 1 \in 0..MaxLosses
      /\ reports < MaxReports => reports + 1 \in 0..MaxReports
  BY SerialAssumption DEF TypeOK
<1>10. CASE McuFinish
  BY <1>0, <1>9, <1>10, <1>a, <1>b DEF McuFinish, bounds
<1>11. CASE McuReject
  <2>1. Tail(toMcu) \in Seq(Block)
    BY <1>0, <1>11, TailIs DEF McuReject
  <2> QED
    BY <1>9, <1>11, <1>a, <1>b, <2>1 DEF McuReject, board, bounds
<1>12. CASE McuReport
  BY <1>0, <1>9, <1>12, <1>a, <1>b DEF McuReport, board
<1>13. CASE LoseBlock
  <2>1. Tail(toMcu) \in Seq(Block)
    BY <1>0, <1>13, TailIs DEF LoseBlock
  <2> QED
    BY <1>0, <1>9, <1>13, <1>a, <1>b, <2>1 DEF LoseBlock, board
<1>14. CASE LoseAnswer
  <2>1. Tail(toHost) \in Seq(SomeAnswer)
    BY <1>0, <1>14, TailIs DEF LoseAnswer
  <2> QED
    BY <1>0, <1>9, <1>14, <1>b, <2>1 DEF LoseAnswer, board
<1>15. CASE UNCHANGED vars
  BY <1>15 DEF vars, host, board, bounds, TypeOK
<1> QED
  BY <1>1, <1>2, <1>3, <1>4, <1>5, <1>6, <1>7, <1>8, <1>10, <1>11, <1>12, <1>13, <1>14, <1>15
  DEF Next, Host, Mcu, CommandEvent, Finished

-----------------------------------------------------------------------------
(* Answers on the way. *)

\* The number in an answer, from any number on.
LEMMA NumberIs ==
  ASSUME NEW r \in Int, NEW a \in SomeAnswer
  PROVE  Number(r, a) \in Int /\ r <= Number(r, a)
<1>1. a.seq \in Int
  BY Sizes DEF SomeAnswer
<1> QED
  BY <1>1, FullIs DEF Number

\* New answers carry the number that the board then expects; a response only
\* when that is a new one.
LEMMA AnswersAppend ==
  ASSUME NEW h \in Seq(SomeAnswer), NEW w \in Seq(SomeAnswer), NEW r \in Int, NEW e \in Int,
         NEW D, NEW f \in Int, NEW E, AnswersOk(h, r, e, D), e <= f, D \subseteq E,
         \A i \in 1..Len(w) :
           /\ Number(r, w[i]) = f
           /\ w[i].id # Report => e < f /\ w[i].kind = "data" /\ w[i].id \in E,
         \A i \in 1..Len(w) : i < Len(w) => w[i].kind = "data"
  PROVE  AnswersOk(h \o w, r, f, E)
<1> DEFINE g == h \o w
<1>1. /\ g \in Seq(SomeAnswer) /\ Len(h) \in Nat /\ Len(w) \in Nat /\ Len(g) = Len(h) + Len(w)
      /\ \A i \in 1..Len(h) : g[i] = h[i]
      /\ \A i \in Len(h) + 1..Len(g) : g[i] = w[i - Len(h)] /\ i - Len(h) \in 1..Len(w)
  BY ConcatIs
<1> HIDE DEF g
<1>2. ASSUME NEW i \in 1..Len(h) PROVE g[i] = h[i] /\ Number(r, h[i]) \in Int /\ Number(r, h[i]) <= e
  <2>1. h[i] \in SomeAnswer
    OBVIOUS
  <2> QED
    BY <1>1, <2>1, NumberIs DEF AnswersOk
<1>3. ASSUME NEW i \in 1..Len(g), i > Len(h)
      PROVE  /\ Number(r, g[i]) = f
             /\ g[i].id # Report => e < f /\ g[i].kind = "data" /\ g[i].id \in E
  <2>1. i \in Len(h) + 1..Len(g)
    BY <1>1, <1>3
  <2> QED
    BY <1>1, <2>1
<1>4. \A i \in 1..Len(g) : i <= Len(h) => i \in 1..Len(h)
  BY <1>1
<1>5. ASSUME NEW i \in 1..Len(g) PROVE Number(r, g[i]) <= f
  <2>1. CASE i <= Len(h)
    BY <1>2, <1>4, <2>1
  <2>2. CASE i > Len(h)
    BY <1>3, <2>2
  <2> QED
    BY <1>1, <2>1, <2>2
<1>6. ASSUME NEW i \in 1..Len(g), NEW j \in 1..Len(g), i < j
      PROVE  /\ Number(r, g[i]) <= Number(r, g[j])
             /\ g[i].kind = "ack" /\ g[j].id # Report => Number(r, g[i]) < Number(r, g[j])
  <2>1. CASE j <= Len(h)
    <3>1. i \in 1..Len(h) /\ j \in 1..Len(h)
      BY <1>1, <1>6, <2>1
    <3> QED
      BY <1>2, <1>6, <3>1 DEF AnswersOk
  <2>2. CASE j > Len(h) /\ i <= Len(h)
    <3>1. Number(r, g[i]) \in Int /\ Number(r, g[i]) <= e
      BY <1>2, <1>4, <2>2
    <3>2. Number(r, g[j]) = f /\ (g[j].id # Report => e < f)
      BY <1>3, <2>2
    <3> QED
      BY <3>1, <3>2
  <2>3. CASE i > Len(h)
    <3>1. j > Len(h)
      BY <1>1, <1>6, <2>3
    <3>2. Number(r, g[i]) = f /\ Number(r, g[j]) = f
      BY <1>3, <2>3, <3>1
    <3>3. i - Len(h) \in 1..Len(w) /\ i - Len(h) < Len(w) /\ g[i] = w[i - Len(h)]
      BY <1>1, <1>6, <2>3
    <3>4. g[i].kind = "data"
      BY <3>3
    <3> QED
      BY <3>2, <3>4
  <2> QED
    BY <1>1, <2>1, <2>2, <2>3
<1>7. ASSUME NEW i \in 1..Len(g), g[i].id # Report PROVE g[i].kind = "data" /\ g[i].id \in E
  <2>1. CASE i <= Len(h)
    BY <1>1, <1>4, <1>7, <2>1 DEF AnswersOk
  <2>2. CASE i > Len(h)
    BY <1>3, <1>7, <2>2
  <2> QED
    BY <1>1, <2>1, <2>2
<1>8. AnswersOk(g, r, f, E)
  BY <1>5, <1>6, <1>7 DEF AnswersOk
<1> QED
  BY <1>8 DEF g

LEMMA AnswersTail ==
  ASSUME NEW h \in Seq(SomeAnswer), h # <<>>, NEW r, NEW e, NEW D, AnswersOk(h, r, e, D)
  PROVE  AnswersOk(Tail(h), r, e, D)
<1> DEFINE t == Tail(h)
<1>1. /\ Len(h) \in Nat /\ Len(t) = Len(h) - 1
      /\ \A i \in 1..Len(t) : t[i] = h[i + 1] /\ i + 1 \in 1..Len(h)
  BY TailIs
<1> HIDE DEF t
<1>2. ASSUME NEW i \in 1..Len(t), NEW j \in 1..Len(t), i < j
      PROVE  /\ Number(r, t[i]) <= Number(r, t[j])
             /\ t[i].kind = "ack" /\ t[j].id # Report => Number(r, t[i]) < Number(r, t[j])
  <2>1. i + 1 \in 1..Len(h) /\ j + 1 \in 1..Len(h) /\ i + 1 < j + 1
    BY <1>1, <1>2
  <2> QED
    BY <1>1, <2>1 DEF AnswersOk
<1>3. \A i \in 1..Len(t) : Number(r, t[i]) <= e /\ (t[i].id # Report => t[i].kind = "data" /\ t[i].id \in D)
  BY <1>1 DEF AnswersOk
<1> QED
  BY <1>2, <1>3 DEF AnswersOk, t

\* Numbers are told from a later one on, as long as it is not later than they.
LEMMA AnswersShift ==
  ASSUME NEW h \in Seq(SomeAnswer), NEW r \in Int, NEW t \in Int, NEW e, NEW D,
         AnswersOk(h, r, e, D), r <= t, \A i \in 1..Len(h) : t <= Number(r, h[i])
  PROVE  /\ \A i \in 1..Len(h) : Number(t, h[i]) = Number(r, h[i])
         /\ AnswersOk(h, t, e, D)
<1>1. ASSUME NEW i \in 1..Len(h) PROVE Number(t, h[i]) = Number(r, h[i])
  <2>1. h[i] \in SomeAnswer
    OBVIOUS
  <2>2. h[i].seq \in Int
    BY <2>1, Sizes DEF SomeAnswer
  <2> QED
    BY <2>2, FullShift DEF Number
<1> QED
  BY <1>1 DEF AnswersOk

-----------------------------------------------------------------------------
(* The window, the blocks on the way and the answers. *)

LEMMA WindowIs ==
  ASSUME NEW q \in Seq(Block), NEW r \in Nat, NEW s \in Nat, Window(q, r, s)
  PROVE  /\ Len(q) \in Nat /\ s = r + Len(q) /\ 1 <= r /\ Len(q) <= MaxPending
         /\ \A k \in 1..Len(q) : /\ k \in Nat /\ 1 <= k /\ k <= Len(q) /\ q[k] \in Block
                                 /\ q[k].seq \in Nat /\ q[k].seq = (r + k) - 1
                                 /\ r <= q[k].seq /\ q[k].seq < s
<1>1. PICK n \in Nat : n = Len(q)
  OBVIOUS
<1>2. s = r + n /\ 1 <= r /\ n <= MaxPending
  BY <1>1 DEF Window
<1>3. ASSUME NEW k \in 1..n
      PROVE  /\ k \in Nat /\ 1 <= k /\ k <= n /\ q[k] \in Block
             /\ q[k].seq \in Nat /\ q[k].seq = (r + k) - 1
             /\ r <= q[k].seq /\ q[k].seq < s
  <2>1. q[k].seq = (r + k) - 1 /\ q[k] \in Block
    BY <1>1 DEF Window
  <2> QED
    BY <1>2, <2>1
<1> QED
  BY <1>1, <1>2, <1>3

LEMMA Numbers ==
  ASSUME TypeOK, SentInv
  PROVE  /\ seqs.receive \in Nat /\ seqs.send \in Nat /\ 1 <= seqs.receive
         /\ seqs.receive <= seqs.send
         /\ Expected \in Nat /\ seqs.receive <= Expected /\ Expected < seqs.receive + SeqSize
         /\ mcu.next \in 0..SeqSize - 1 /\ toHost \in Seq(SomeAnswer)
<1>1. /\ seqs.receive \in Nat /\ seqs.send \in Nat /\ Len(sent) \in Nat
      /\ mcu.next \in 0..SeqSize - 1 /\ toHost \in Seq(SomeAnswer)
  BY DEF TypeOK, Blocks
<1>2. Expected \in Nat /\ seqs.receive <= Expected
  BY <1>1, FullTypes DEF Expected
<1>3. Expected < seqs.receive + SeqSize
  <2>1. mcu.next \in Int /\ seqs.receive \in Int
    BY <1>1, Sizes
  <2> QED
    BY <2>1, FullIs DEF Expected
<1>5. 1 <= seqs.receive /\ seqs.receive <= seqs.send
  <2>1. sent \in Seq(Block)
    BY DEF TypeOK, Blocks
  <2> QED
    BY <1>1, <2>1, WindowIs DEF SentInv
<1> QED
  BY <1>1, <1>2, <1>3, <1>5

LEMMA WireTypes ==
  ASSUME TypeOK
  PROVE  /\ Wire \in Seq(Block) /\ Len(Wire) \in Nat
         /\ \A i \in 1..Len(Wire) : Wire[i].seq \in Nat
         /\ sent \in Seq(Block) /\ Len(sent) \in Nat
<1>1. toMcu \in Seq(Block) /\ buf \in Seq(Block) /\ sent \in Seq(Block)
  BY DEF TypeOK, Blocks
<1>2. Wire \in Seq(Block) /\ Len(Wire) \in Nat
  <2>1. toMcu \o buf \in Seq(Block)
    BY <1>1, ConcatIs
  <2> QED
    BY <2>1 DEF Wire
<1>3. \A i \in 1..Len(Wire) : Wire[i].seq \in Nat
  <2>1. \A i \in 1..Len(Wire) : Wire[i] \in Block
    BY <1>2
  <2> QED
    BY <2>1 DEF Block
<1> QED
  BY <1>1, <1>2, <1>3

\* Taking the first block off the wire.
LEMMA WireTail ==
  ASSUME TypeOK, toMcu # <<>>, toMcu' = Tail(toMcu), buf' = buf
  PROVE  /\ Wire # <<>> /\ Wire' = Tail(Wire) /\ Head(toMcu) = Wire[1] /\ 1 \in 1..Len(Wire)
         /\ Len(Wire') = Len(Wire) - 1
         /\ \A i \in 1..Len(Wire') : Wire'[i] = Wire[i + 1] /\ i + 1 \in 1..Len(Wire)
<1>1. toMcu \in Seq(Block) /\ buf \in Seq(Block)
  BY DEF TypeOK, Blocks
<1>2. /\ Wire # <<>> /\ Wire' = Tail(Wire) /\ Head(toMcu) = Wire[1]
  BY <1>1 DEF Wire
<1>3. Wire \in Seq(Block)
  BY WireTypes
<1> QED
  BY <1>2, <1>3, TailIs

\* The board takes a block only if it is the one it expects, and that is the
\* block of the sent queue.
LEMMA StartIs ==
  ASSUME TypeOK, SentInv, WireInv, McuStart
  PROVE  /\ Expected - seqs.receive + 1 \in 1..Len(sent)
         /\ Head(toMcu) = sent[Expected - seqs.receive + 1]
         /\ Head(toMcu).seq = Expected /\ Expected < seqs.send
         /\ Expected' = Expected + 1
<1>1. toMcu # <<>> /\ Head(toMcu).seq % SeqSize = mcu.next /\ toMcu' = Tail(toMcu)
  BY DEF McuStart, WireSeq
<1>2. buf' = buf /\ seqs' = seqs /\ mcu'.next = (mcu.next + 1) % SeqSize
  BY DEF McuStart, host
<1>3. Head(toMcu) = Wire[1] /\ 1 \in 1..Len(Wire)
  BY <1>1, <1>2, WireTail
<1>4. PICK b \in Nat : b = Head(toMcu).seq
  BY <1>3, WireTypes
<1>5. /\ b < seqs.send /\ Expected - b < SeqSize
      /\ b >= seqs.receive => Head(toMcu) = sent[b - seqs.receive + 1]
  BY <1>3, <1>4 DEF WireInv, InWindow
<1>6. /\ seqs.receive \in Nat /\ seqs.send \in Nat /\ Expected \in Nat /\ Len(sent) \in Nat
      /\ seqs.receive <= Expected
      /\ seqs.send = seqs.receive + Len(sent) /\ Len(sent) <= MaxPending
      /\ mcu.next \in 0..SeqSize - 1
  BY Numbers, WireTypes, WindowIs DEF SentInv
<1>7. b = Expected
  <2>1. b - Expected < SeqSize
    BY <1>5, <1>6, Sizes
  <2>2. b \in Int /\ seqs.receive \in Int
    BY <1>6
  <2> QED
    BY <1>1, <1>4, <1>5, <1>6, <2>1, <2>2, SameNumber DEF Expected
<1>8. Expected' = Expected + 1
  <2>1. Expected + 1 < seqs.receive + SeqSize
    BY <1>5, <1>6, <1>7, Sizes
  <2>2. seqs.receive \in Int /\ mcu.next \in Int
    BY <1>6, Sizes
  <2>3. Full(seqs.receive, (mcu.next + 1) % SeqSize) = Expected + 1
    BY <1>6, <2>1, <2>2, FullSucc DEF Expected
  <2>4. Expected' = Full(seqs.receive, (mcu.next + 1) % SeqSize)
    BY <1>2 DEF Expected
  <2> QED
    BY <2>3, <2>4
<1> QED
  BY <1>4, <1>5, <1>6, <1>7, <1>8

\* What stays as long as the two numbers, the board's number and the rest do.
LEMMA AnswerFrame ==
  ASSUME AnswerInv, toHost' = toHost, ToSet(delivered) \subseteq ToSet(delivered)',
         seqs'.receive = seqs.receive, mcu'.next = mcu.next
  PROVE  AnswerInv'
BY DEF AnswerInv, AnswersOk, Number, Expected

LEMMA ConnectFrame ==
  ASSUME ConnectInv, toHost' = toHost, mcu'.next = mcu.next, seqs'.receive = seqs.receive,
         seqs'.send = seqs.send, UNCHANGED <<next, heard, receive_queue>>
  PROVE  ConnectInv'
BY DEF ConnectInv, Number, Expected

LEMMA SentFrame ==
  ASSUME SentInv, UNCHANGED sent, seqs'.receive = seqs.receive, seqs'.send = seqs.send,
         (filling' = filling /\ buf' = buf) \/ buf' = <<>>
  PROVE  SentInv'
BY DEF SentInv

LEMMA WireFrame ==
  ASSUME WireInv, Wire' = Wire, sent' = sent, seqs'.receive = seqs.receive,
         seqs'.send = seqs.send, mcu'.next = mcu.next
  PROVE  WireInv'
BY DEF WireInv, Expected

LEMMA CloseTail ==
  ASSUME NEW W \in Seq(Block), W # <<>>, Close(W)
  PROVE  Close(Tail(W))
<1>1. /\ Len(Tail(W)) = Len(W) - 1 /\ Len(W) \in Nat
      /\ \A i \in 1..Len(Tail(W)) : Tail(W)[i] = W[i + 1] /\ i + 1 \in 1..Len(W)
  BY TailIs
<1> SUFFICES ASSUME NEW i \in 1..Len(Tail(W)), NEW j \in 1..Len(Tail(W)), i < j
             PROVE  (Tail(W)[i].seq + 1) - Tail(W)[j].seq <= MaxPending
  BY DEF Close
<1>2. /\ i + 1 \in 1..Len(W) /\ j + 1 \in 1..Len(W) /\ i + 1 < j + 1
      /\ Tail(W)[i] = W[i + 1] /\ Tail(W)[j] = W[j + 1]
  BY <1>1
<1> QED
  BY <1>2 DEF Close

LEMMA CloseAppend ==
  ASSUME NEW W \in Seq(Block), NEW b \in Block, Close(W),
         \A i \in 1..Len(W) : W[i].seq < b.seq
  PROVE  Close(Append(W, b))
<1> DEFINE V == Append(W, b)
<1>1. /\ Len(W) \in Nat /\ Len(V) = Len(W) + 1 /\ V[Len(W) + 1] = b
      /\ \A i \in 1..Len(W) : V[i] = W[i]
  BY AppendIs
<1> HIDE DEF V
<1> SUFFICES ASSUME NEW i \in 1..Len(V), NEW j \in 1..Len(V), i < j
             PROVE  (V[i].seq + 1) - V[j].seq <= MaxPending
  BY DEF Close, V
<1>2. i \in 1..Len(W) /\ V[i] = W[i]
  BY <1>1
<1>3. CASE j = Len(W) + 1
  <2>1. W[i] \in Block
    BY <1>2
  <2>2. W[i].seq \in Nat /\ b.seq \in Nat /\ W[i].seq < b.seq
    BY <1>2, <2>1 DEF Block
  <2> QED
    BY <1>1, <1>2, <1>3, <2>2, Sizes
<1>4. CASE j # Len(W) + 1
  <2>1. j \in 1..Len(W) /\ V[j] = W[j]
    BY <1>1, <1>4
  <2> QED
    BY <1>2, <2>1 DEF Close
<1> QED
  BY <1>3, <1>4

LEMMA WireTailInv ==
  ASSUME TypeOK, WireInv, toMcu # <<>>, toMcu' = Tail(toMcu), buf' = buf, sent' = sent,
         seqs' = seqs, mcu'.next = mcu.next
  PROVE  WireInv'
<1>1. /\ Wire' = Tail(Wire) /\ Wire # <<>> /\ Wire \in Seq(Block)
      /\ \A i \in 1..Len(Wire') : Wire'[i] = Wire[i + 1] /\ i + 1 \in 1..Len(Wire)
  BY WireTail, WireTypes
<1>2. Expected' = Expected
  BY DEF Expected
<1>3. Close(Tail(Wire))
  BY <1>1, CloseTail DEF WireInv
<1> QED
  BY <1>1, <1>2, <1>3 DEF WireInv

\* A new block goes behind all others.
LEMMA FillWindow ==
  ASSUME TypeOK, SentInv, WireInv, AnswerInv, ConnectInv, Fill
  PROVE  SentInv' /\ WireInv' /\ AnswerInv' /\ ConnectInv'
<1>1. PICK b \in Block :
        /\ seqs.send - seqs.receive < MaxPending
        /\ b.seq = seqs.send
        /\ sent' = Append(sent, b) /\ buf' = Append(buf, b)
  BY FillDoes
<1>2. /\ seqs'.receive = seqs.receive /\ seqs'.send = seqs.send + 1
      /\ filling' = TRUE /\ UNCHANGED <<toMcu, toHost, mcu, delivered, next, heard, receive_queue>>
  <2>1. seqs' = [seqs EXCEPT !.send = @ + 1] /\ seqs \in SqType
    BY DEF Fill, TypeOK, SqType
  <2> QED
    BY <2>1 DEF Fill, board, SqType
<1>3. /\ sent \in Seq(Block) /\ Len(sent) \in Nat /\ Wire \in Seq(Block) /\ Len(Wire) \in Nat
      /\ \A i \in 1..Len(Wire) : Wire[i].seq \in Nat
  BY WireTypes
<1>4. /\ seqs.receive \in Nat /\ seqs.send \in Nat /\ Expected \in Nat /\ MaxPending \in Nat
      /\ 1 <= seqs.receive /\ seqs.receive <= seqs.send /\ MaxPending < SeqSize
      /\ Expected < seqs.receive + SeqSize /\ SeqSize \in Nat
      /\ seqs.send = seqs.receive + Len(sent) /\ Len(sent) <= MaxPending
      /\ \A k \in 1..Len(sent) : k \in Nat /\ sent[k].seq = (seqs.receive + k) - 1
  BY <1>3, Numbers, Sizes, WindowIs DEF SentInv
<1>5. Expected' = Expected
  BY <1>2 DEF Expected
<1>6. /\ Len(sent') = Len(sent) + 1 /\ \A k \in 1..Len(sent) : sent'[k] = sent[k]
      /\ sent'[Len(sent) + 1] = b
  BY <1>1, <1>3, AppendIs
<1>7. Wire' = Append(Wire, b)
  <2>1. toMcu \in Seq(Block) /\ buf \in Seq(Block)
    BY DEF TypeOK, Blocks
  <2> QED
    BY <1>1, <1>2, <2>1 DEF Wire
<1>8. /\ Len(Wire') = Len(Wire) + 1 /\ \A k \in 1..Len(Wire) : Wire'[k] = Wire[k]
      /\ Wire'[Len(Wire) + 1] = b
  BY <1>3, <1>7, AppendIs
<1>9. SentInv'
  <2>1. ASSUME NEW k \in 1..Len(sent') PROVE sent'[k].seq = (seqs.receive + k) - 1
    <3>1. CASE k = Len(sent) + 1
      <4>1. sent'[k].seq = seqs.receive + Len(sent)
        BY <1>1, <1>4, <1>6, <3>1
      <4>2. (seqs.receive + k) - 1 = seqs.receive + Len(sent)
        <5>1. seqs.receive \in Nat /\ Len(sent) \in Nat
          BY <1>3, <1>4
        <5> QED
          BY <3>1, <5>1
      <4> QED
        BY <4>1, <4>2
    <3>2. CASE k # Len(sent) + 1
      <4>1. k \in 1..Len(sent)
        BY <1>3, <1>6, <3>2
      <4> QED
        BY <1>4, <1>6, <4>1
    <3> QED
      BY <3>1, <3>2
  <2>2. Len(sent') = seqs'.send - seqs'.receive /\ Len(sent') <= MaxPending
    BY <1>1, <1>2, <1>3, <1>4, <1>6
  <2> QED
    BY <1>2, <1>4, <2>1, <2>2 DEF SentInv, Window
<1>10. WireInv'
  <2>1. ASSUME NEW i \in 1..Len(Wire)
        PROVE  /\ InWindow(Wire[i], sent', seqs.receive, seqs.send + 1, Expected)
               /\ Wire[i].seq < b.seq
    <3>1. InWindow(Wire[i], sent, seqs.receive, seqs.send, Expected)
      BY DEF WireInv
    <3>2. PICK a \in Nat : a = Wire[i].seq
      BY <1>3
    <3>4. a < seqs.send
      BY <3>1, <3>2 DEF InWindow
    <3>3. a >= seqs.receive => (a - seqs.receive) + 1 \in 1..Len(sent)
      <4>1. seqs.receive \in Nat /\ Len(sent) \in Nat /\ seqs.send = seqs.receive + Len(sent)
        BY <1>3, <1>4
      <4> QED
        BY <3>4, <4>1
    <3>5. a >= seqs.receive => Wire[i] = sent'[(a - seqs.receive) + 1]
      <4>1. a >= seqs.receive => Wire[i] = sent[(a - seqs.receive) + 1]
        BY <3>1, <3>2 DEF InWindow
      <4> QED
        BY <1>6, <3>3, <4>1
    <3>6. 1 <= a /\ a < seqs.send + 1 /\ Expected - a < SeqSize
      <4>1. 1 <= a /\ Expected - a < SeqSize
        BY <3>1, <3>2 DEF InWindow
      <4> QED
        BY <1>4, <3>4, <4>1
    <3> QED
      BY <1>1, <3>2, <3>4, <3>5, <3>6 DEF InWindow
  <2>2. InWindow(b, sent', seqs.receive, seqs.send + 1, Expected)
    <3>1. sent'[seqs.send - seqs.receive + 1] = b
      BY <1>4, <1>6
    <3>2. 1 <= seqs.send /\ seqs.send < seqs.send + 1 /\ Expected - seqs.send < SeqSize
      BY <1>4
    <3> QED
      BY <1>1, <3>1, <3>2 DEF InWindow
  <2>3. \A i \in 1..Len(Wire') : i = Len(Wire) + 1 \/ i \in 1..Len(Wire)
    BY <1>3, <1>8
  <2>4. \A i \in 1..Len(Wire') : InWindow(Wire'[i], sent', seqs'.receive, seqs'.send, Expected')
    BY <1>2, <1>5, <1>8, <2>1, <2>2, <2>3
  <2>5. Close(Append(Wire, b))
    BY <1>3, <2>1, CloseAppend DEF WireInv
  <2> QED
    BY <1>7, <2>4, <2>5 DEF WireInv
<1>11. AnswerInv'
  BY <1>2, AnswerFrame
<1>12. ConnectInv'
  <2>1. Expected' > seqs'.send => Expected > seqs.send
    BY <1>2, <1>4, <1>5
  <2> QED
    BY <1>2, <1>5, <2>1 DEF ConnectInv
<1> QED
  BY <1>9, <1>10, <1>11, <1>12

\* A retransmission puts the whole sent queue behind what is kept.
LEMMA WireResent ==
  ASSUME NEW W \in Seq(Block), NEW q \in Seq(Block), NEW kept \in 0..Len(W),
         NEW r \in Nat, NEW s \in Nat, NEW e \in Nat, e < r + SeqSize, Window(q, r, s),
         \A i \in 1..Len(W) : InWindow(W[i], q, r, s, e), Close(W)
  PROVE  LET V == SubSeq(W, 1, kept) \o q IN
         Close(V) /\ \A i \in 1..Len(V) : InWindow(V[i], q, r, s, e)
<1> DEFINE f == SubSeq(W, 1, kept)  V == f \o q
<1>1. /\ kept \in Nat /\ kept <= Len(W) /\ Len(W) \in Nat /\ Len(q) \in Nat
      /\ SeqSize \in Nat /\ MaxPending \in Nat
  BY Sizes
<1>2. f \in Seq(Block) /\ Len(f) = kept /\ \A i \in 1..kept : f[i] = W[i]
  BY FrontIs
<1> HIDE DEF f
<1>3. /\ Len(V) = kept + Len(q) /\ \A i \in 1..kept : V[i] = f[i]
      /\ \A i \in kept + 1..Len(V) : V[i] = q[i - kept] /\ i - kept \in 1..Len(q)
  BY <1>2, ConcatIs
<1> HIDE DEF V
<1>w. /\ s = r + Len(q) /\ 1 <= r /\ Len(q) <= MaxPending
      /\ \A k \in 1..Len(q) : q[k].seq \in Nat /\ q[k].seq = (r + k) - 1 /\ k \in Nat
                              /\ r <= q[k].seq /\ q[k].seq < s
  BY WindowIs
<1>4. ASSUME NEW i \in 1..Len(V), i <= kept
      PROVE  V[i] = W[i] /\ i \in 1..Len(W) /\ V[i].seq \in Nat /\ V[i].seq < s
  <2>1. i \in 1..Len(W) /\ V[i] = W[i]
    BY <1>1, <1>2, <1>3, <1>4
  <2>2. W[i] \in Block
    BY <2>1
  <2> QED
    BY <2>1, <2>2 DEF Block, InWindow
<1>5. ASSUME NEW i \in 1..Len(V), i > kept
      PROVE  \E k \in 1..Len(q) : k = i - kept /\ V[i] = q[k]
  <2>1. i \in kept + 1..Len(V)
    BY <1>1, <1>3, <1>5
  <2> QED
    BY <1>3, <2>1
<1>6. ASSUME NEW i \in 1..Len(V) PROVE InWindow(V[i], q, r, s, e)
  <2>1. CASE i <= kept
    BY <1>4, <2>1
  <2>2. CASE i > kept
    <3>1. PICK k \in 1..Len(q) : V[i] = q[k]
      BY <1>5, <2>2
    <3>2. PICK c \in Nat : c = q[k].seq
      BY <1>w
    <3>3. c < s /\ c >= r /\ c = (r + k) - 1 /\ k \in Nat
      BY <1>w, <3>2
    <3>4. 1 <= c /\ e - c < SeqSize /\ c - r + 1 = k
      BY <1>1, <1>w, <3>3
    <3> QED
      BY <3>1, <3>2, <3>3, <3>4 DEF InWindow
  <2>3. i \in Int
    BY <1>1, <1>3
  <2> QED
    BY <1>1, <2>1, <2>2, <2>3
<1>7. ASSUME NEW i \in 1..Len(V), NEW j \in 1..Len(V), i < j
      PROVE  (V[i].seq + 1) - V[j].seq <= MaxPending
  <2>0. i \in Int /\ j \in Int
    BY <1>1, <1>3
  <2>1. CASE j <= kept
    <3>1. i <= kept
      BY <1>1, <1>7, <2>0, <2>1
    <3> QED
      BY <1>4, <1>7, <2>1, <3>1 DEF Close
  <2>2. CASE j > kept
    <3>1. PICK c \in Nat : c = V[j].seq /\ c >= r
      BY <1>5, <1>w, <2>2
    <3>2. V[i].seq \in Nat /\ V[i].seq < s
      <4>1. CASE i <= kept
        BY <1>4, <4>1
      <4>2. CASE i > kept
        BY <1>5, <1>w, <4>2
      <4> QED
        BY <1>1, <2>0, <4>1, <4>2
    <3>3. PICK n \in Nat : n = Len(q)
      BY <1>1
    <3>4. PICK a \in Nat : a = V[i].seq /\ a < s
      BY <3>2
    <3>6. s = r + n /\ n <= MaxPending /\ MaxPending \in Nat
      BY <1>1, <1>w, <3>3
    <3>5. a < r + n /\ n <= MaxPending /\ r <= c /\ MaxPending \in Nat
      BY <3>1, <3>4, <3>6
    <3>7. (a + 1) - c <= MaxPending
      BY <3>5
    <3> QED
      BY <3>1, <3>4, <3>7
  <2> QED
    BY <1>1, <2>0, <2>1, <2>2
<1>8. Close(V)
  BY <1>7 DEF Close
<1> QED
  BY <1>6, <1>8 DEF V, f

LEMMA RetransmitWindow ==
  ASSUME TypeOK, SentInv, WireInv, AnswerInv, ConnectInv, Retransmit, ~filling
  PROVE  SentInv' /\ WireInv' /\ AnswerInv' /\ ConnectInv'
<1>1. PICK kept \in 0..Len(toMcu) :
        /\ toMcu' = SubSeq(toMcu, 1, kept) \o sent
        /\ seqs'.send = seqs.send /\ seqs'.receive = seqs.receive
  BY RetransmitDoes
<1>2. UNCHANGED <<toHost, mcu, delivered, next, heard, receive_queue, sent, filling, buf>>
  BY DEF Retransmit, board
<1>3. buf = <<>> /\ toMcu \in Seq(Block) /\ sent \in Seq(Block)
  BY DEF SentInv, TypeOK, Blocks
<1>4. Wire = toMcu /\ Wire' = SubSeq(toMcu, 1, kept) \o sent
  <2>1. SubSeq(toMcu, 1, kept) \o sent \in Seq(Block)
    BY <1>3, FrontIs, ConcatIs
  <2>2. \A s \in Seq(Block) : s \o <<>> = s
    OBVIOUS
  <2>3. PICK V \in Seq(Block) : V = SubSeq(toMcu, 1, kept) \o sent
    BY <2>1
  <2>4. toMcu' = V /\ buf' = <<>>
    BY <1>1, <1>2, <1>3, <2>3
  <2> QED
    BY <1>3, <2>2, <2>3, <2>4 DEF Wire
<1>5. WireInv'
  <2>2. /\ seqs.receive \in Nat /\ seqs.send \in Nat /\ Expected \in Nat
        /\ Expected < seqs.receive + SeqSize /\ Window(sent, seqs.receive, seqs.send)
    BY Numbers DEF SentInv
  <2>3. /\ \A i \in 1..Len(toMcu) :
             InWindow(toMcu[i], sent, seqs.receive, seqs.send, Expected)
        /\ Close(toMcu)
    BY <1>4 DEF WireInv
  <2>4. /\ Close(SubSeq(toMcu, 1, kept) \o sent)
        /\ \A i \in 1..Len(SubSeq(toMcu, 1, kept) \o sent) :
             InWindow((SubSeq(toMcu, 1, kept) \o sent)[i], sent, seqs.receive, seqs.send, Expected)
    BY <1>3, <2>2, <2>3, WireResent
  <2>5. Expected' = Expected
    BY <1>1, <1>2 DEF Expected
  <2> QED
    BY <1>1, <1>2, <1>4, <2>4, <2>5 DEF WireInv
<1>6. SentInv' /\ AnswerInv' /\ ConnectInv'
  BY <1>1, <1>2, SentFrame, AnswerFrame, ConnectFrame
<1> QED
  BY <1>5, <1>6

\* The board takes a block: its number goes on by one, and the responses come
\* behind all that it has said.
LEMMA StartWindow ==
  ASSUME TypeOK, SentInv, WireInv, AnswerInv, ConnectInv, McuStart
  PROVE  SentInv' /\ WireInv' /\ AnswerInv' /\ ConnectInv'
<1>1. /\ Head(toMcu).seq = Expected /\ Expected < seqs.send /\ Expected' = Expected + 1
  BY StartIs
<1>2. /\ UNCHANGED host /\ UNCHANGED <<seqs, sent, buf, filling, next, heard, receive_queue>>
      /\ toMcu # <<>> /\ toMcu' = Tail(toMcu)
  BY DEF McuStart, host
<1>3. /\ Head(toMcu) = Wire[1] /\ 1 \in 1..Len(Wire) /\ Len(Wire') = Len(Wire) - 1
      /\ \A i \in 1..Len(Wire') : Wire'[i] = Wire[i + 1] /\ i + 1 \in 1..Len(Wire)
      /\ Len(Wire) \in Nat /\ \A i \in 1..Len(Wire) : Wire[i].seq \in Nat
  BY <1>2, WireTail, WireTypes
<1>4. /\ Expected \in Nat /\ MaxPending \in Nat /\ MaxPending < SeqSize /\ SeqSize \in Nat
      /\ seqs.send \in Nat /\ seqs.receive \in Nat /\ mcu.next \in 0..SeqSize - 1
  BY Numbers, Sizes DEF TypeOK
<1>5. SentInv'
  BY <1>2, SentFrame
<1>6. WireInv'
  <2>1. ASSUME NEW i \in 1..Len(Wire')
        PROVE  InWindow(Wire'[i], sent, seqs.receive, seqs.send, Expected + 1)
    <3>1. Wire'[i] = Wire[i + 1] /\ i + 1 \in 1..Len(Wire) /\ 1 < i + 1
      BY <1>3
    <3>2. (Wire[1].seq + 1) - Wire[i + 1].seq <= MaxPending
      BY <1>3, <3>1 DEF WireInv, Close
    <3>3. PICK c \in Nat : c = Wire[i + 1].seq
      BY <1>3, <3>1
    <3>4. (Expected + 1) - c <= MaxPending
      BY <1>1, <1>3, <3>2, <3>3
    <3>5. (Expected + 1) - c < SeqSize
      BY <1>4, <3>4
    <3>6. InWindow(Wire[i + 1], sent, seqs.receive, seqs.send, Expected)
      BY <3>1 DEF WireInv
    <3>7. InWindow(Wire[i + 1], sent, seqs.receive, seqs.send, Expected + 1)
      <4>1. PICK b : b = Wire[i + 1]
        OBVIOUS
      <4>2. PICK e : e = Expected + 1
        OBVIOUS
      <4>3. InWindow(b, sent, seqs.receive, seqs.send, Expected)
        BY <3>6, <4>1, Zenon
      <4>5. e - b.seq < SeqSize
        BY <3>3, <3>5, <4>1, <4>2
      <4>4. InWindow(b, sent, seqs.receive, seqs.send, e)
        BY <4>3, <4>5 DEF InWindow
      <4> QED
        BY <4>1, <4>2, <4>4
    <3> QED
      BY <3>1, <3>7
  <2>2. Close(Wire')
    <3>1. Wire' = Tail(Wire) /\ Wire # <<>> /\ Wire \in Seq(Block)
      BY <1>2, WireTail, WireTypes
    <3> QED
      BY <3>1, CloseTail DEF WireInv
  <2> QED
    BY <1>1, <1>2, <2>1, <2>2 DEF WireInv
<1>7. PICK asked \in Seq(Queries) :
        /\ ToSet(asked) = Queries \cap ToSet(Head(toMcu).msgs)
        /\ delivered' = delivered \o Head(toMcu).msgs
        /\ toHost' = toHost \o [i \in 1..Len(asked) |->
                                  Answer("data", asked[i], (mcu.next + 1) % SeqSize)]
        /\ mcu'.next = (mcu.next + 1) % SeqSize
  <2>1. PICK asked \in Seq(Queries) :
          /\ ToSet(asked) = Queries \cap ToSet(Head(toMcu).msgs)
          /\ mcu' = [next |-> (mcu.next + 1) % SeqSize, running |-> Head(toMcu)]
          /\ delivered' = delivered \o Head(toMcu).msgs
          /\ toHost' = toHost \o [i \in 1..Len(asked) |->
                                    Answer("data", asked[i], (mcu.next + 1) % SeqSize)]
    BY McuStartDoes
  <2> QED
    BY <2>1
<1>8. PICK x \in 0..SeqSize - 1 : x = (mcu.next + 1) % SeqSize
  BY <1>4, Sizes
<1>9. Full(seqs.receive, x) = Expected + 1
  BY <1>1, <1>2, <1>7, <1>8 DEF Expected
<1> DEFINE w == [i \in 1..Len(asked) |-> Answer("data", asked[i], x)]
<1>10. /\ w \in Seq(SomeAnswer) /\ Len(w) = Len(asked)
       /\ \A i \in 1..Len(w) :
            w[i] = [kind |-> "data", id |-> asked[i], seq |-> x] /\ asked[i] \in Queries
  BY AnswersTypes
<1>11. toHost \in Seq(SomeAnswer) /\ toHost' = toHost \o w
  BY <1>7, <1>8 DEF TypeOK
<1> HIDE DEF w
<1>12. AnswerInv'
  <2>1. ToSet(delivered)' = ToSet(delivered) \cup ToSet(Head(toMcu).msgs)
    <3>1. toMcu \in Seq(Block) /\ delivered \in Seq(1..Messages)
      BY DEF TypeOK, Blocks
    <3>2. Head(toMcu) \in Block
      BY <1>2, <3>1, TailIs
    <3>3. Head(toMcu).msgs \in Seq(1..Messages)
      BY <3>2 DEF Block
    <3> QED
      BY <1>7, <3>1, <3>3, ToSetConcat
  <2>2. ASSUME NEW i \in 1..Len(w)
        PROVE  /\ Number(seqs.receive, w[i]) = Expected + 1 /\ w[i].kind = "data"
               /\ w[i].id \in ToSet(delivered)'
    <3>1. i \in 1..Len(asked)
      BY <1>10
    <3>2. asked[i] \in ToSet(asked)
      BY <3>1, ToSetIs
    <3>3. asked[i] \in ToSet(delivered)'
      BY <1>7, <2>1, <3>2
    <3>4. w[i] = [kind |-> "data", id |-> asked[i], seq |-> x]
      BY <1>10
    <3> QED
      BY <1>9, <3>3, <3>4 DEF Number
  <2>3. AnswersOk(toHost, seqs.receive, Expected, ToSet(delivered))
    BY DEF AnswerInv
  <2>4. seqs.receive \in Int /\ Expected \in Int /\ Expected + 1 \in Int /\ Expected < Expected + 1
    BY <1>4
  <2>5. AnswersOk(toHost \o w, seqs.receive, Expected + 1, ToSet(delivered)')
    <3>1. ToSet(delivered) \subseteq ToSet(delivered)'
      BY <2>1
    <3>2. PICK D : D = ToSet(delivered)'
      OBVIOUS
    <3>3. PICK e \in Int : e = Expected
      BY <2>4
    <3>4. e + 1 \in Int /\ e <= e + 1 /\ e < e + 1
      OBVIOUS
    <3>5. \A i \in 1..Len(w) : /\ Number(seqs.receive, w[i]) = e + 1
                               /\ w[i].kind = "data" /\ w[i].id \in D
      BY <2>2, <3>2, <3>3
    <3>6. AnswersOk(toHost \o w, seqs.receive, e + 1, D)
      BY <1>10, <1>11, <2>3, <2>4, <3>1, <3>2, <3>3, <3>4, <3>5, AnswersAppend
    <3> QED
      BY <3>2, <3>3, <3>6
  <2> QED
    BY <1>1, <1>2, <1>11, <2>5 DEF AnswerInv
<1>13. ConnectInv'
  BY <1>1, <1>2, <1>4 DEF ConnectInv
<1> QED
  BY <1>5, <1>6, <1>12, <1>13

\* The board says the number it expects.
LEMMA SayWindow ==
  ASSUME TypeOK, SentInv, AnswerInv, ConnectInv, UNCHANGED <<host, delivered>>,
         mcu'.next = mcu.next, NEW k \in {"ack", "data"},
         toHost' = Append(toHost, Answer(k, Report, mcu.next))
  PROVE  AnswerInv' /\ ConnectInv'
<1>1. PICK x \in SomeAnswer : x = Answer(k, Report, mcu.next)
  BY Numbers DEF Answer, SomeAnswer
<1>2. /\ toHost \in Seq(SomeAnswer) /\ seqs.receive \in Int /\ Expected \in Int
      /\ UNCHANGED <<seqs, next, heard, receive_queue>>
  BY Numbers DEF host
<1>3. x.id = Report /\ Number(seqs.receive, x) = Expected
  BY <1>1 DEF Answer, Number, Expected
<1>4. Expected' = Expected
  BY <1>2 DEF Expected
<1>5. PICK w \in Seq(SomeAnswer) : Len(w) = 1 /\ w[1] = x /\ toHost' = toHost \o w
  <2>1. <<x>> \in Seq(SomeAnswer) /\ Len(<<x>>) = 1 /\ <<x>>[1] = x
    OBVIOUS
  <2>2. Append(toHost, x) = toHost \o <<x>>
    BY <1>2
  <2> QED
    BY <1>1, <2>1, <2>2
<1>6. AnswerInv'
  <2>1. AnswersOk(toHost, seqs.receive, Expected, ToSet(delivered))
    BY DEF AnswerInv
  <2>2. PICK e \in Int, D \in {ToSet(delivered)} : e = Expected /\ D = ToSet(delivered)
    BY <1>2
  <2>3. \A i \in 1..Len(w) :
          /\ Number(seqs.receive, w[i]) = e
          /\ w[i].id # Report => e < e /\ w[i].kind = "data" /\ w[i].id \in D
    BY <1>3, <1>5, <2>2
  <2>4. \A i \in 1..Len(w) : i < Len(w) => w[i].kind = "data"
    BY <1>5
  <2>5. e <= e /\ D \subseteq D
    OBVIOUS
  <2>6. AnswersOk(toHost, seqs.receive, e, D)
    BY <2>1, <2>2
  <2>7. AnswersOk(toHost \o w, seqs.receive, e, D)
    BY <1>2, <1>5, <2>3, <2>4, <2>5, <2>6, AnswersAppend
  <2>8. AnswersOk(toHost', seqs.receive, Expected, ToSet(delivered))
    BY <1>5, <2>2, <2>7
  <2>9. seqs'.receive = seqs.receive /\ ToSet(delivered)' = ToSet(delivered)
    BY <1>2
  <2> QED
    BY <1>4, <2>8, <2>9 DEF AnswerInv
<1>7. ConnectInv'
  <2>1. ASSUME \A i \in 1..Len(toHost) : Number(seqs.receive, toHost[i]) = Expected
        PROVE  \A i \in 1..Len(toHost') : Number(seqs.receive, toHost'[i]) = Expected
    <3> SUFFICES ASSUME NEW i \in 1..Len(toHost')
                 PROVE  Number(seqs.receive, toHost'[i]) = Expected
      OBVIOUS
    <3>1. /\ Len(toHost') = Len(toHost) + 1 /\ Len(toHost) \in Nat
          /\ \A j \in 1..Len(toHost) : toHost'[j] = toHost[j]
          /\ toHost'[Len(toHost) + 1] = x
      BY <1>1, <1>2, AppendIs
    <3>2. i \in 1..Len(toHost) \/ i = Len(toHost) + 1
      BY <3>1
    <3> QED
      BY <1>3, <2>1, <3>1, <3>2
  <2> QED
    BY <1>2, <1>4, <2>1 DEF ConnectInv
<1> QED
  BY <1>6, <1>7

\* An answer is taken off the wire and nothing else changes.
LEMMA TakeWindow ==
  ASSUME TypeOK, AnswerInv, ConnectInv, UNCHANGED <<host, delivered>>, mcu'.next = mcu.next,
         toHost # <<>>, toHost' = Tail(toHost)
  PROVE  AnswerInv' /\ ConnectInv'
<1>1. /\ toHost \in Seq(SomeAnswer) /\ UNCHANGED <<seqs, next, heard, receive_queue>>
      /\ ToSet(delivered)' = ToSet(delivered)
  BY DEF TypeOK, host
<1>2. Expected' = Expected
  BY <1>1 DEF Expected
<1>3. AnswersOk(Tail(toHost), seqs.receive, Expected, ToSet(delivered))
  BY <1>1, AnswersTail DEF AnswerInv
<1>4. \A i \in 1..Len(Tail(toHost)) : Tail(toHost)[i] = toHost[i + 1] /\ i + 1 \in 1..Len(toHost)
  BY <1>1, TailIs
<1>5. AnswerInv'
  BY <1>1, <1>2, <1>3 DEF AnswerInv
<1>6. ConnectInv'
  BY <1>1, <1>2, <1>4 DEF ConnectInv
<1> QED
  BY <1>5, <1>6

\* A message from the board carries a number from the first one that is not
\* acknowledged to the one that it expects.
LEMMA HearIs ==
  ASSUME TypeOK, SentInv, AnswerInv, ConnectInv, HandleMessage, NEW m, m = Head(toHost),
         NEW rseq, rseq = FullSeq(m.seq)
  PROVE  /\ m = toHost[1] /\ m \in SomeAnswer /\ toHost # <<>> /\ 1 \in 1..Len(toHost)
         /\ toHost' = Tail(toHost) /\ toHost \in Seq(SomeAnswer)
         /\ \A i \in 1..Len(toHost') : toHost'[i] = toHost[i + 1] /\ i + 1 \in 1..Len(toHost)
         /\ rseq = Number(seqs.receive, m) /\ rseq \in Nat
         /\ seqs.receive <= rseq /\ rseq <= Expected
         /\ Full(rseq, mcu.next) = Expected
         /\ \A i \in 1..Len(toHost) : rseq <= Number(seqs.receive, toHost[i])
         /\ Expected > seqs.send => rseq = Expected /\ seqs.receive = 1
         /\ ~filling /\ buf = <<>>
<1>1. toHost # <<>> /\ toHost' = Tail(toHost) /\ ~filling
  BY DEF HandleMessage
<1>2. toHost \in Seq(SomeAnswer) /\ seqs.receive \in Nat /\ mcu.next \in 0..SeqSize - 1
  BY Numbers
<1>3. /\ m = toHost[1] /\ m \in SomeAnswer /\ 1 \in 1..Len(toHost)
      /\ \A i \in 1..Len(toHost') : toHost'[i] = toHost[i + 1] /\ i + 1 \in 1..Len(toHost)
  BY <1>1, <1>2, TailIs
<1>4. rseq = Number(seqs.receive, m) /\ rseq \in Nat /\ seqs.receive <= rseq
  BY <1>3, FullTypes DEF SomeAnswer, Number
<1>5. rseq <= Expected
  BY <1>3, <1>4 DEF AnswerInv, AnswersOk
<1>6. Full(rseq, mcu.next) = Expected
  <2>1. mcu.next \in Int /\ seqs.receive \in Int /\ rseq \in Int
    BY <1>2, <1>4, Sizes
  <2> QED
    BY <1>4, <1>5, <2>1, FullShift DEF Expected
<1>7. ASSUME NEW i \in 1..Len(toHost) PROVE rseq <= Number(seqs.receive, toHost[i])
  <2>1. CASE i = 1
    BY <1>3, <1>4, <2>1
  <2>2. CASE i # 1
    <3>1. 1 < i
      BY <2>2
    <3> QED
      BY <1>3, <1>4, <3>1 DEF AnswerInv, AnswersOk
  <2> QED
    BY <2>1, <2>2
<1>8. Expected > seqs.send => rseq = Expected /\ seqs.receive = 1
  BY <1>3, <1>4 DEF ConnectInv
<1>9. buf = <<>>
  BY <1>1 DEF SentInv
<1> QED
  BY <1>1, <1>2, <1>3, <1>4, <1>5, <1>6, <1>7, <1>8, <1>9

\* What it acknowledges leaves the sent queue; at connection the host takes
\* the number from the board.
Acknowledges(d) ==
  /\ d \in 0..Len(sent) /\ seqs'.send = seqs.send
  /\ Len(sent') = Len(sent) - d
  /\ \A k \in 1..Len(sent') : sent'[k] = sent[k + d] /\ k + d \in 1..Len(sent)

Connects(rseq) ==
  /\ sent' = <<>> /\ seqs'.send = rseq /\ rseq = Expected /\ Expected > seqs.send
  /\ seqs.receive = 1

LEMMA HearSent ==
  ASSUME TypeOK, SentInv, AnswerInv, ConnectInv, HandleMessage, NEW m, m = Head(toHost),
         NEW rseq, rseq = FullSeq(m.seq), ~Unexpected(rseq)
  PROVE  \E d \in Nat :
           /\ d = rseq - seqs.receive /\ rseq = seqs.receive + d
           /\ HandleWindow(rseq) /\ Expected' = Expected /\ Expected <= seqs'.send
           /\ seqs'.receive = rseq /\ seqs'.send \in Nat
           /\ Acknowledges(d) \/ Connects(rseq)
           /\ UNCHANGED <<next, pending, buf, filling, heard, resent, mcu, delivered, toMcu>>
           /\ \A i \in 1..Len(toHost') :
                Number(rseq, toHost'[i]) = Number(seqs.receive, toHost[i + 1])
<1>1. HandleWindow(rseq) /\ rseq \in Nat /\ rseq >= seqs.receive
  BY HandleWindowDoes
<1>2. /\ rseq <= Expected /\ Full(rseq, mcu.next) = Expected
      /\ Expected > seqs.send => rseq = Expected /\ seqs.receive = 1
      /\ toHost \in Seq(SomeAnswer) /\ toHost # <<>> /\ toHost' = Tail(toHost)
      /\ \A i \in 1..Len(toHost') : toHost'[i] = toHost[i + 1] /\ i + 1 \in 1..Len(toHost)
      /\ \A i \in 1..Len(toHost) : rseq <= Number(seqs.receive, toHost[i])
  BY HearIs
<1>3. /\ UNCHANGED <<next, pending, buf, filling, heard, resent, mcu, delivered, toMcu>>
  BY DEF HandleMessage, board
<1>4. seqs'.receive = rseq /\ seqs'.send \in Nat
  BY <1>1 DEF HandleWindow, SqType
<1>5. Expected' = Expected
  BY <1>2, <1>3, <1>4 DEF Expected
<1>6. /\ seqs.receive \in Nat /\ seqs.send \in Nat /\ Len(sent) \in Nat /\ Expected \in Nat
      /\ seqs.send = seqs.receive + Len(sent) /\ sent \in Seq(Block)
  BY Numbers, WireTypes, WindowIs DEF SentInv
<1>7. PICK d \in Nat : d = rseq - seqs.receive /\ rseq = seqs.receive + d
  BY <1>1, <1>6
<1>10. ASSUME NEW i \in 1..Len(toHost')
       PROVE  Number(rseq, toHost'[i]) = Number(seqs.receive, toHost[i + 1])
  <2>1. PICK a \in SomeAnswer : a = toHost[i + 1] /\ a = toHost'[i]
    BY <1>2
  <2>2. rseq <= Number(seqs.receive, a) /\ a.seq \in Int /\ rseq \in Int /\ seqs.receive \in Int
    <3>1. a.seq \in Int
      BY <2>1, Sizes DEF SomeAnswer
    <3>2. rseq <= Number(seqs.receive, a)
      BY <1>2, <2>1
    <3> QED
      BY <1>1, <1>6, <3>1, <3>2
  <2>3. Number(rseq, a) = Number(seqs.receive, a)
    BY <1>1, <2>2, FullShift DEF Number
  <2> QED
    BY <2>1, <2>3
<1>8. CASE d <= Len(sent)
  <2>1. sent' = SubSeq(sent, d + 1, Len(sent)) /\ seqs'.send = seqs.send
    BY <1>1, <1>7, <1>8 DEF HandleWindow
  <2>2. d \in 0..Len(sent)
    BY <1>6, <1>8
  <2>3. /\ Len(sent') = Len(sent) - d
        /\ \A k \in 1..Len(sent') : sent'[k] = sent[k + d] /\ k + d \in 1..Len(sent)
    BY <1>6, <2>1, <2>2, RestIs
  <2>4. Expected <= seqs'.send
    <3>1. PICK l, r, e \in Nat : l = Len(sent) /\ r = seqs.receive /\ e = Expected
      BY <1>6
    <3>2. seqs'.send = r + l
      BY <1>6, <2>1, <3>1
    <3>3. d <= l /\ rseq = r + d
      BY <1>7, <1>8, <3>1
    <3>4. e > r + l => rseq = e
      BY <1>2, <1>6, <3>1
    <3>5. e <= r + l
      BY <3>3, <3>4
    <3> QED
      BY <3>1, <3>2, <3>5
  <2>5. Acknowledges(d)
    BY <2>1, <2>2, <2>3 DEF Acknowledges
  <2> QED
    BY <1>1, <1>3, <1>4, <1>5, <1>7, <1>10, <2>4, <2>5
<1>9. CASE d > Len(sent)
  <2>1. sent' = <<>> /\ seqs'.send = rseq
    BY <1>1, <1>7, <1>9 DEF HandleWindow
  <2>2. Expected > seqs.send
    BY <1>2, <1>6, <1>7, <1>9
  <2>3. Connects(rseq) /\ Expected <= seqs'.send
    BY <1>2, <1>6, <2>1, <2>2 DEF Connects
  <2> QED
    BY <1>1, <1>3, <1>4, <1>5, <1>7, <1>10, <2>3
<1> QED
  BY <1>6, <1>7, <1>8, <1>9

LEMMA HearWindow ==
  ASSUME TypeOK, SentInv, WireInv, AnswerInv, ConnectInv, HandleMessage
  PROVE  SentInv' /\ WireInv' /\ AnswerInv' /\ ConnectInv'
<1> DEFINE m == Head(toHost)  rseq == FullSeq(m.seq)
<1>0. /\ toHost # <<>> /\ toHost' = Tail(toHost) /\ UNCHANGED <<mcu, delivered, toMcu>>
  BY DEF HandleMessage, board
<1>1. CASE Unexpected(rseq)
  <2>1. UNCHANGED host
    BY <1>1 DEF HandleMessage
  <2>2. UNCHANGED <<seqs, sent, filling, buf, delivered>> /\ Wire' = Wire
    BY <1>0, <2>1 DEF host, Wire
  <2> QED
    BY <1>0, <2>1, <2>2, TakeWindow, SentFrame, WireFrame
<1>2. CASE ~Unexpected(rseq)
  <2> HIDE DEF rseq, m
  <2>1. PICK d \in Nat :
          /\ d = rseq - seqs.receive /\ rseq = seqs.receive + d
          /\ Expected' = Expected /\ Expected <= seqs'.send
          /\ seqs'.receive = rseq /\ seqs'.send \in Nat
          /\ Acknowledges(d) \/ Connects(rseq)
          /\ UNCHANGED <<buf, filling, mcu, delivered, toMcu>>
    BY <1>2, HearSent DEF rseq, m
  <2>2. /\ rseq \in Nat /\ seqs.receive <= rseq /\ rseq <= Expected
        /\ toHost \in Seq(SomeAnswer) /\ toHost # <<>> /\ toHost' = Tail(toHost)
        /\ \A i \in 1..Len(toHost') : toHost'[i] = toHost[i + 1] /\ i + 1 \in 1..Len(toHost)
        /\ \A i \in 1..Len(toHost) : rseq <= Number(seqs.receive, toHost[i])
    BY HearIs DEF rseq, m
  <2>3. /\ seqs.receive \in Nat /\ seqs.send \in Nat /\ Len(sent) \in Nat /\ Expected \in Nat
        /\ MaxPending \in Nat /\ 1 <= seqs.receive
        /\ seqs.send = seqs.receive + Len(sent) /\ Len(sent) <= MaxPending /\ sent \in Seq(Block)
    BY Numbers, WireTypes, WindowIs, Sizes DEF SentInv
  <2>4. rseq = seqs.receive + d /\ MaxPending \in Nat
    BY <2>1, <2>3
  <2>5. Wire' = Wire /\ Wire = toMcu \o <<>>
    BY <2>1, HearIs DEF Wire, rseq, m
  <2>6. AnswerInv'
    <3>1. AnswersOk(Tail(toHost), seqs.receive, Expected, ToSet(delivered))
      BY <2>2, AnswersTail DEF AnswerInv
    <3>2. PICK h \in Seq(SomeAnswer) : h = Tail(toHost)
      BY <2>2, TailIs
    <3>3. \A i \in 1..Len(h) : rseq <= Number(seqs.receive, h[i])
      BY <2>2, <3>2
    <3>4. AnswersOk(h, seqs.receive, Expected, ToSet(delivered)) /\ rseq \in Int /\ seqs.receive \in Int
      BY <2>2, <2>3, <3>1, <3>2
    <3>5. AnswersOk(h, rseq, Expected, ToSet(delivered))
      BY <2>2, <3>3, <3>4, AnswersShift
    <3> QED
      BY <2>1, <2>2, <3>2, <3>5 DEF AnswerInv
  <2>7. ConnectInv'
    BY <2>1, <2>3 DEF ConnectInv
  <2>8. CASE Acknowledges(d)
    <3> USE DEF Acknowledges
    <3>a. PICK n \in Nat : n = Len(sent)
      BY <2>3
    <3>b. PICK R \in Nat : R = seqs.receive
      BY <2>3
    <3>c. Len(sent') = n - d /\ d \in 0..n
      BY <2>8, <3>a
    <3>d. PICK z \in Nat : z = Len(sent') /\ z = n - d
      BY <3>c
    <3>0. /\ n = Len(sent) /\ R = seqs.receive /\ z = Len(sent')
          /\ seqs.send = R + n /\ seqs'.send = R + n /\ n <= MaxPending
          /\ rseq = R + d /\ d <= n /\ z = n - d /\ 1 <= R
      BY <2>3, <2>4, <2>8, <3>a, <3>b, <3>c, <3>d
    <3>1. ASSUME NEW k \in 1..Len(sent') PROVE sent'[k].seq = (rseq + k) - 1
      <4>1. k + d \in 1..Len(sent) /\ sent'[k] = sent[k + d]
        BY <2>8
      <4>2. sent[k + d].seq = (seqs.receive + (k + d)) - 1
        BY <4>1 DEF SentInv, Window
      <4> QED
        BY <2>3, <2>4, <4>1, <4>2
    <3>2. SentInv'
      <4>1. 1 <= rseq /\ Len(sent') = seqs'.send - rseq /\ Len(sent') <= MaxPending
        BY <2>4, <3>0
      <4> QED
        BY <2>1, <3>1, <4>1 DEF SentInv, Window
    <3>3. ASSUME NEW i \in 1..Len(Wire)
          PROVE  InWindow(Wire[i], sent', rseq, seqs.send, Expected)
      <4>1. InWindow(Wire[i], sent, seqs.receive, seqs.send, Expected)
        BY DEF WireInv
      <4>2. PICK b \in Block : b = Wire[i]
        BY WireTypes
      <4>3. PICK c \in Nat : c = b.seq
        BY DEF Block
      <4>4. /\ 1 <= c /\ c < seqs.send /\ Expected - c < SeqSize
            /\ c >= seqs.receive => b = sent[(c - seqs.receive) + 1]
        BY <4>1, <4>2, <4>3 DEF InWindow
      <4>5. ASSUME c >= rseq PROVE b = sent'[(c - rseq) + 1]
        <5>1. PICK k \in Nat : k = (c - rseq) + 1
          BY <2>2, <4>5
        <5>2. k \in 1..Len(sent') /\ k + d = (c - seqs.receive) + 1 /\ c >= seqs.receive
          <6>1. c < R + n /\ c >= R + d /\ k = (c - (R + d)) + 1
            BY <3>0, <4>4, <4>5, <5>1
          <6>3. z = n - d
            BY <3>0
          <6>4. k + d = (c - R) + 1 /\ c >= R /\ 1 <= k
            BY <6>1
          <6>5. k + d <= n
            BY <6>1, <6>4
          <6>2. k \in 1..z /\ k + d = (c - R) + 1 /\ c >= R
            BY <6>3, <6>4, <6>5
          <6> QED
            BY <3>0, <6>2
        <5> QED
          BY <2>8, <4>4, <5>1, <5>2
      <4> QED
        BY <4>2, <4>3, <4>4, <4>5 DEF InWindow
    <3>4. WireInv'
      BY <2>1, <2>5, <2>8, <3>3 DEF WireInv
    <3> QED
      BY <2>6, <2>7, <3>2, <3>4
  <2>9. CASE Connects(rseq)
    <3> USE DEF Connects
    <3>1. SentInv'
      <4>1. Len(sent') = 0 /\ 1 <= rseq
        BY <2>2, <2>3, <2>9
      <4> QED
        BY <2>1, <2>2, <2>3, <2>9, <4>1 DEF SentInv, Window
    <3>3. ASSUME NEW i \in 1..Len(Wire)
          PROVE  InWindow(Wire[i], sent', rseq, rseq, Expected)
      <4>1. InWindow(Wire[i], sent, seqs.receive, seqs.send, Expected)
        BY DEF WireInv
      <4>2. Wire[i].seq \in Nat
        BY WireTypes
      <4> QED
        BY <2>2, <2>3, <2>9, <4>1, <4>2 DEF InWindow
    <3>4. WireInv'
      BY <2>1, <2>5, <2>9, <3>3 DEF WireInv
    <3> QED
      BY <2>6, <2>7, <3>1, <3>4
  <2> QED
    BY <2>1, <2>8, <2>9
<1> QED
  BY <1>1, <1>2

LEMMA WriteWindow ==
  ASSUME TypeOK, SentInv, WireInv, AnswerInv, ConnectInv, Write
  PROVE  SentInv' /\ WireInv' /\ AnswerInv' /\ ConnectInv'
<1>1. /\ toMcu' = toMcu \o buf /\ buf' = <<>> /\ filling' = FALSE
      /\ UNCHANGED <<next, seqs, sent, receive_queue, heard, mcu, delivered, toHost>>
  BY DEF Write, board
<1>2. Wire' = Wire
  <2>1. PICK V \in Seq(Block) : V = toMcu \o buf
    BY ConcatIs DEF TypeOK, Blocks
  <2>2. V \o <<>> = V
    OBVIOUS
  <2> QED
    BY <1>1, <2>1, <2>2 DEF Wire
<1> QED
  BY <1>1, <1>2, SentFrame, WireFrame, AnswerFrame, ConnectFrame

\* Every step keeps the window, the blocks on the way and the answers in order.
LEMMA StepWindow == ASSUME TypeOK, WindowInv, [Next]_vars PROVE WindowInv'
<1> USE DEF WindowInv
<1>a. ASSUME UNCHANGED <<seqs, sent, buf, filling, toMcu, toHost, mcu, delivered>>
      PROVE  SentInv' /\ WireInv' /\ AnswerInv'
  <2>1. Wire' = Wire /\ ToSet(delivered) \subseteq ToSet(delivered)'
    BY <1>a DEF Wire
  <2> QED
    BY <1>a, <2>1, SentFrame, WireFrame, AnswerFrame
<1>b. ASSUME UNCHANGED <<host, delivered>>, mcu'.next = mcu.next,
             toMcu' = toMcu \/ (toMcu # <<>> /\ toMcu' = Tail(toMcu))
      PROVE  SentInv' /\ WireInv'
  <2>1. UNCHANGED <<seqs, sent, filling, buf>>
    BY <1>b DEF host
  <2>2. CASE toMcu' = toMcu
    <3>1. Wire' = Wire
      BY <2>1, <2>2 DEF Wire
    <3> QED
      BY <1>b, <2>1, <3>1, SentFrame, WireFrame
  <2>3. CASE toMcu # <<>> /\ toMcu' = Tail(toMcu)
    BY <1>b, <2>1, <2>3, SentFrame, WireTailInv
  <2> QED
    BY <1>b, <2>2, <2>3
<1>1. CASE Send
  <2>1. /\ UNCHANGED <<seqs, sent, buf, filling, toMcu, toHost, mcu, delivered, heard, receive_queue>>
        /\ next' = next + 1 /\ Connected
    BY <1>1 DEF Send, board
  <2>2. ConnectInv'
    <3>1. Expected' = Expected
      BY <2>1 DEF Expected
    <3>2. Expected > seqs.send => next' <= 2
      BY <2>1 DEF ConnectInv, Connected
    <3> QED
      BY <2>1, <3>1, <3>2 DEF ConnectInv
  <2> QED
    BY <1>a, <2>1, <2>2
<1>2. CASE Pull
  <2>1. UNCHANGED <<seqs, sent, buf, filling, toMcu, toHost, mcu, delivered, next>>
    BY <1>2 DEF Pull, board
  <2>2. receive_queue = <<>> => UNCHANGED <<receive_queue, heard>>
    BY <1>2 DEF Pull
  <2>3. ConnectInv'
    BY <2>1, <2>2 DEF ConnectInv, Expected
  <2> QED
    BY <1>a, <2>1, <2>3
<1>3. CASE KickEvent \/ UNCHANGED vars
  <2>1. /\ UNCHANGED <<seqs, sent, buf, filling, toMcu, toHost, mcu, delivered>>
        /\ UNCHANGED <<next, heard, receive_queue>>
    BY <1>3 DEF KickEvent, vars, host, board
  <2> QED
    BY <1>a, <2>1, ConnectFrame
<1>4. CASE Fill
  BY <1>4, FillWindow
<1>5. CASE WaitForAck \/ WaitForMessages \/ WaitForClock
  <2>1. Write
    BY <1>5 DEF WaitForAck, WaitForMessages, WaitForClock
  <2> QED
    BY <2>1, WriteWindow
<1>6. CASE HandleMessage
  BY <1>6, HearWindow
<1>7. CASE RetransmitEvent
  <2>1. Retransmit /\ ~filling
    BY <1>7 DEF RetransmitEvent, RetransmitOnNak, RetransmitOnTimeout
  <2> QED
    BY <2>1, RetransmitWindow
<1>8. CASE McuStart
  BY <1>8, StartWindow
<1>9. CASE McuFinish
  <2>1. /\ UNCHANGED <<host, delivered, toMcu>> /\ mcu'.next = mcu.next
        /\ toHost' = Append(toHost, Answer("ack", Report, mcu.next))
    BY <1>9 DEF McuFinish, TypeOK, Report
  <2> QED
    BY <1>b, <2>1, SayWindow
<1>10. CASE McuReject
  <2>1. /\ UNCHANGED <<host, delivered>> /\ mcu'.next = mcu.next
        /\ toMcu # <<>> /\ toMcu' = Tail(toMcu)
        /\ toHost' = Append(toHost, Answer("ack", Report, mcu.next))
    BY <1>10 DEF McuReject, board, Report
  <2> QED
    BY <1>b, <2>1, SayWindow
<1>11. CASE McuReport
  <2>1. /\ UNCHANGED <<host, delivered, toMcu>> /\ mcu'.next = mcu.next
        /\ toHost' = Append(toHost, Answer("data", Report, mcu.next))
    BY <1>11 DEF McuReport, board
  <2> QED
    BY <1>b, <2>1, SayWindow
<1>12. CASE LoseBlock
  <2>1. /\ UNCHANGED <<host, delivered>> /\ mcu'.next = mcu.next
        /\ toMcu # <<>> /\ toMcu' = Tail(toMcu)
        /\ toHost' = Append(toHost, Answer("ack", Report, mcu.next)) \/ UNCHANGED toHost
    BY <1>12 DEF LoseBlock, board, Report
  <2>2. CASE toHost' = Append(toHost, Answer("ack", Report, mcu.next))
    BY <1>b, <2>1, <2>2, SayWindow
  <2>3. CASE UNCHANGED toHost
    <3>1. UNCHANGED <<seqs, next, heard, receive_queue>>
      BY <2>1 DEF host
    <3>2. AnswerInv' /\ ConnectInv'
      BY <2>1, <2>3, <3>1, AnswerFrame, ConnectFrame
    <3> QED
      BY <1>b, <2>1, <3>2
  <2> QED
    BY <2>1, <2>2, <2>3
<1>13. CASE LoseAnswer
  <2>1. /\ UNCHANGED <<host, delivered, toMcu>> /\ mcu'.next = mcu.next
        /\ toHost # <<>> /\ toHost' = Tail(toHost)
    BY <1>13 DEF LoseAnswer, board
  <2> QED
    BY <1>b, <2>1, TakeWindow
<1> QED
  BY <1>1, <1>2, <1>3, <1>4, <1>5, <1>6, <1>7, <1>8, <1>9, <1>10, <1>11, <1>12, <1>13
  DEF Next, Host, Mcu, CommandEvent, Finished

-----------------------------------------------------------------------------
(* The order of the messages. *)

LEMMA MessagesAreNumbers ==
  ASSUME TypeOK
  PROVE  /\ pending \in Seq(Nat) /\ delivered \in Seq(Nat) /\ next \in Nat
         /\ ToSet(pending) \subseteq 1..Messages /\ ToSet(delivered) \subseteq 1..Messages
         /\ \A k \in 1..Len(sent) : sent[k].msgs \in Seq(Nat) /\ sent[k].seq \in Nat
<1>1. \A s : s \in Seq(1..Messages) => s \in Seq(Nat)
  BY SerialAssumption
<1>2. /\ pending \in Seq(1..Messages) /\ delivered \in Seq(1..Messages) /\ sent \in Seq(Block)
      /\ next \in Nat
  BY SerialAssumption DEF TypeOK, Blocks
<1>3. ToSet(pending) \subseteq 1..Messages /\ ToSet(delivered) \subseteq 1..Messages
  BY <1>2, ToSetIs
<1>4. ASSUME NEW k \in 1..Len(sent) PROVE sent[k].msgs \in Seq(Nat) /\ sent[k].seq \in Nat
  <2>1. sent[k] \in Block
    BY <1>2
  <2> QED
    BY <1>1, <2>1 DEF Block
<1> QED
  BY <1>1, <1>2, <1>3, <1>4

\* A message that is sent comes after all others.
LEMMA SendOrder ==
  ASSUME NEW d \in Seq(Nat), NEW p \in Seq(Nat), NEW n \in Nat, NEW q, NEW e,
         Ordered(d, p, n, q, e), Kept(d, p, n, q, e),
         \A k \in 1..Len(q) : q[k].msgs \in Seq(Nat)
  PROVE  Ordered(d, Append(p, n), n + 1, q, e) /\ Kept(d, Append(p, n), n + 1, q, e)
<1> DEFINE r == Append(p, n)
<1>1. ToSet(r) = ToSet(p) \cup {n} /\ ToSet(p) \subseteq Nat /\ ToSet(d) \subseteq Nat
  BY ToSetAppend, ToSetIs
<1>2. Increasing(r)
  <2>1. /\ Len(p) \in Nat /\ Len(r) = Len(p) + 1
        /\ \A i \in 1..Len(p) : r[i] = p[i]
        /\ r[Len(p) + 1] = n
    BY AppendIs
  <2> HIDE DEF r
  <2> SUFFICES ASSUME NEW i \in 1..Len(r), NEW j \in 1..Len(r), i < j PROVE r[i] < r[j]
    BY DEF Increasing
  <2>2. i \in 1..Len(p) /\ r[i] = p[i]
    BY <2>1
  <2>3. CASE j = Len(p) + 1
    <3>1. p[i] \in ToSet(p)
      BY <2>2, ToSetIs
    <3> QED
      BY <2>1, <2>2, <2>3, <3>1 DEF Ordered, Below
  <2>4. CASE j # Len(p) + 1
    <3>1. j \in 1..Len(p) /\ r[j] = p[j]
      BY <2>1, <2>4
    <3> QED
      BY <2>2, <3>1 DEF Ordered, Increasing
  <2> QED
    BY <2>3, <2>4
<1> HIDE DEF r
<1>3. ASSUME NEW A, A \subseteq Nat, Below(A, ToSet(p) \cup {n})
      PROVE  Below(A, ToSet(r) \cup {n + 1})
  <2> SUFFICES ASSUME NEW a \in A, NEW b \in ToSet(r) \cup {n + 1} PROVE a < b
    BY DEF Below
  <2>1. a \in Nat /\ a < n
    BY <1>3 DEF Below
  <2>2. CASE b = n + 1
    BY <2>1, <2>2
  <2>3. CASE b \in ToSet(p) \cup {n}
    BY <1>3, <2>3 DEF Below
  <2> QED
    BY <1>1, <2>2, <2>3
<1>4. Below(ToSet(d), ToSet(r) \cup {n + 1})
  BY <1>1, <1>3 DEF Ordered
<1>5. Below(ToSet(r), {n + 1})
  <2> SUFFICES ASSUME NEW a \in ToSet(r) PROVE a < n + 1
    BY DEF Below
  <2>1. CASE a = n
    BY <2>1
  <2>2. CASE a \in ToSet(p)
    <3>1. a < n /\ a \in Nat
      BY <1>1, <2>2 DEF Ordered, Below
    <3> QED
      BY <3>1
  <2> QED
    BY <1>1, <2>1, <2>2
<1>6. ASSUME NEW k \in 1..Len(q) PROVE Below(ToSet(q[k].msgs), ToSet(r) \cup {n + 1})
  <2>1. ToSet(q[k].msgs) \subseteq Nat
    BY ToSetIs
  <2> QED
    BY <1>3, <2>1 DEF Ordered
<1>7. Ordered(d, r, n + 1, q, e)
  BY <1>2, <1>4, <1>5, <1>6 DEF Ordered
<1>8. Kept(d, r, n + 1, q, e)
  <2>1. ASSUME NEW m \in 2..(n + 1) - 1 PROVE m \in ToSet(r) \cup MessagesOf(q) \cup ToSet(d)
    <3>1. m \in 2..n - 1 \/ m = n
      OBVIOUS
    <3> QED
      BY <1>1, <3>1 DEF Kept
  <2> QED
    BY <2>1 DEF Kept
<1> QED
  BY <1>7, <1>8 DEF r

\* The messages of a new block come after all that were in blocks before it.
LEMMA FillOrder ==
  ASSUME NEW d \in Seq(Nat), NEW p \in Seq(Nat), NEW n \in Nat, NEW q \in Seq(Block), NEW e \in Nat,
         Ordered(d, p, n, q, e), Kept(d, p, n, q, e), NEW c \in 0..Len(p), NEW b \in Block,
         b.msgs = SubSeq(p, 1, c), b.seq < e => ToSet(p) \subseteq {1}
  PROVE  /\ Ordered(d, SubSeq(p, c + 1, Len(p)), n, Append(q, b), e)
         /\ Kept(d, SubSeq(p, c + 1, Len(p)), n, Append(q, b), e)
<1> DEFINE f == SubSeq(p, 1, c)  r == SubSeq(p, c + 1, Len(p))  Q == Append(q, b)
<1>1. ToSet(p) = ToSet(f) \cup ToSet(r)
  BY ToSetSplit
<1>2. Increasing(f) /\ Increasing(r) /\ Below(ToSet(f), ToSet(r))
  BY IncreasingSplit DEF Ordered
<1>3. /\ Len(q) \in Nat /\ Len(Q) = Len(q) + 1 /\ Q[Len(q) + 1] = b
      /\ \A k \in 1..Len(q) : Q[k] = q[k]
  BY AppendIs
<1>4. b.msgs = f /\ b.seq \in Nat
  BY DEF Block
<1> HIDE DEF f, r, Q
<1>5. Below(ToSet(f), ToSet(r) \cup {n}) /\ Below(ToSet(d), ToSet(f))
  BY <1>1, <1>2 DEF Ordered, Below
<1>6. Below(ToSet(d), ToSet(r) \cup {n}) /\ Below(ToSet(r), {n})
  BY <1>1 DEF Ordered, Below
<1>7. \A k \in 1..Len(Q) : k \in 1..Len(q) \/ k = Len(q) + 1
  BY <1>3
<1>8. ASSUME NEW k \in 1..Len(q)
      PROVE  /\ Increasing(q[k].msgs) /\ Below(ToSet(q[k].msgs), ToSet(r) \cup {n})
             /\ q[k].seq >= e => Below(ToSet(d), ToSet(q[k].msgs))
             /\ Below(ToSet(q[k].msgs), ToSet(f))
  BY <1>1 DEF Ordered, Below
<1>9. ASSUME NEW k \in 1..Len(Q)
      PROVE  /\ Increasing(Q[k].msgs) /\ Below(ToSet(Q[k].msgs), ToSet(r) \cup {n})
             /\ Q[k].seq >= e => Below(ToSet(d), ToSet(Q[k].msgs))
  <2>1. CASE k \in 1..Len(q)
    BY <1>3, <1>8, <2>1
  <2>2. CASE k = Len(q) + 1
    BY <1>2, <1>3, <1>4, <1>5, <2>2
  <2> QED
    BY <1>7, <2>1, <2>2
<1>10. ASSUME NEW k \in 1..Len(Q), NEW l \in 1..Len(Q), k < l
       PROVE  Below(ToSet(Q[k].msgs), ToSet(Q[l].msgs))
  <2>1. k \in 1..Len(q) /\ Q[k] = q[k]
    BY <1>3, <1>10
  <2>2. CASE l = Len(q) + 1
    BY <1>3, <1>4, <1>8, <2>1, <2>2
  <2>3. CASE l # Len(q) + 1
    <3>1. l \in 1..Len(q) /\ Q[l] = q[l]
      BY <1>3, <1>7, <2>3
    <3> QED
      BY <1>10, <2>1, <3>1 DEF Ordered
  <2> QED
    BY <2>2, <2>3
<1>11. Ordered(d, r, n, Q, e)
  BY <1>2, <1>6, <1>9, <1>10 DEF Ordered
<1>12. ToSet(f) \cup MessagesOf(q) \subseteq MessagesOf(Q)
  <2>1. ASSUME NEW m \in ToSet(f) PROVE m \in MessagesOf(Q)
    <3>1. Len(q) + 1 \in 1..Len(Q)
      BY <1>3
    <3> QED
      BY <1>3, <1>4, <3>1 DEF MessagesOf
  <2>2. ASSUME NEW m \in MessagesOf(q) PROVE m \in MessagesOf(Q)
    <3>1. PICK k \in 1..Len(q) : m \in ToSet(q[k].msgs)
      BY DEF MessagesOf
    <3>2. k \in 1..Len(Q) /\ Q[k] = q[k]
      BY <1>3
    <3> QED
      BY <3>1, <3>2 DEF MessagesOf
  <2> QED
    BY <2>1, <2>2
<1>13. Kept(d, r, n, Q, e)
  <2>1. \A m \in 2..n - 1 : m \in ToSet(r) \cup MessagesOf(Q) \cup ToSet(d)
    BY <1>1, <1>12 DEF Kept
  <2>2. ASSUME NEW k \in 1..Len(Q), Q[k].seq < e PROVE ToSet(Q[k].msgs) \subseteq ToSet(d) \cup {1}
    <3>1. CASE k \in 1..Len(q)
      BY <1>3, <2>2, <3>1 DEF Kept
    <3>2. CASE k = Len(q) + 1
      BY <1>1, <1>3, <1>4, <2>2, <3>2
    <3> QED
      BY <1>7, <3>1, <3>2
  <2> QED
    BY <2>1, <2>2 DEF Kept
<1> QED
  BY <1>11, <1>13 DEF f, r, Q

\* The board runs the block it expects: all before it have been run.
LEMMA StartOrder ==
  ASSUME NEW d \in Seq(Nat), NEW p, NEW n, NEW q, NEW e \in Nat,
         Ordered(d, p, n, q, e), Kept(d, p, n, q, e), NEW c \in 1..Len(q), q[c].msgs \in Seq(Nat),
         q[c].seq = e, \A k \in 1..Len(q) : q[k].seq \in Nat,
         \A k \in 1..Len(q) : q[k].seq > e => k > c,
         \A k \in 1..Len(q) : q[k].seq = e => k = c
  PROVE  Ordered(d \o q[c].msgs, p, n, q, e + 1) /\ Kept(d \o q[c].msgs, p, n, q, e + 1)
<1> DEFINE f == q[c].msgs  D == d \o f
<1>1. ToSet(D) = ToSet(d) \cup ToSet(f)
  BY ToSetConcat
<1>2. Below(ToSet(d), ToSet(f)) /\ Increasing(f) /\ Increasing(d)
  BY DEF Ordered
<1>3. Increasing(D)
  BY <1>2, IncreasingConcat
<1> HIDE DEF f, D
<1>4. Below(ToSet(D), ToSet(p) \cup {n})
  BY <1>1 DEF Ordered, Below, f
<1>5. ASSUME NEW k \in 1..Len(q), q[k].seq >= e + 1 PROVE Below(ToSet(D), ToSet(q[k].msgs))
  <2>1. q[k].seq > e /\ q[k].seq >= e
    BY <1>5
  <2>2. Below(ToSet(d), ToSet(q[k].msgs)) /\ Below(ToSet(f), ToSet(q[k].msgs))
    BY <2>1 DEF Ordered, f
  <2> QED
    BY <1>1, <2>2 DEF Below
<1>6. Ordered(D, p, n, q, e + 1)
  BY <1>3, <1>4, <1>5 DEF Ordered
<1>7. Kept(D, p, n, q, e + 1)
  <2>1. ASSUME NEW k \in 1..Len(q), q[k].seq < e + 1 PROVE ToSet(q[k].msgs) \subseteq ToSet(D) \cup {1}
    <3>1. q[k].seq < e \/ q[k].seq = e
      BY <2>1
    <3>2. CASE q[k].seq < e
      BY <1>1, <3>2 DEF Kept
    <3>3. CASE q[k].seq = e
      BY <1>1, <3>3 DEF f
    <3> QED
      BY <3>1, <3>2, <3>3
  <2> QED
    BY <1>1, <2>1 DEF Kept
<1> QED
  BY <1>6, <1>7 DEF D, f

\* Acknowledged blocks have been run.
LEMMA HearOrder ==
  ASSUME NEW d, NEW p, NEW n \in Nat, NEW q, NEW e, Ordered(d, p, n, q, e), Kept(d, p, n, q, e),
         NEW Q, NEW c \in Nat, Len(Q) \in Nat, Len(q) \in Nat, Len(Q) = Len(q) - c,
         \A k \in 1..Len(Q) : Q[k] = q[k + c] /\ k + c \in 1..Len(q),
         \A k \in 1..Len(q) : k <= c => q[k].seq < e
  PROVE  Ordered(d, p, n, Q, e) /\ Kept(d, p, n, Q, e)
<1>1. ASSUME NEW k \in 1..Len(Q), NEW l \in 1..Len(Q), k < l
      PROVE  Below(ToSet(Q[k].msgs), ToSet(Q[l].msgs))
  <2>1. /\ Q[k] = q[k + c] /\ k + c \in 1..Len(q)
        /\ Q[l] = q[l + c] /\ l + c \in 1..Len(q) /\ k + c < l + c
    BY <1>1
  <2> QED
    BY <2>1 DEF Ordered
<1>2. Ordered(d, p, n, Q, e)
  BY <1>1 DEF Ordered
<1>3. ASSUME NEW m \in 2..n - 1 PROVE m \in ToSet(p) \cup MessagesOf(Q) \cup ToSet(d)
  <2>1. CASE m \in MessagesOf(q)
    <3>1. PICK k \in 1..Len(q) : m \in ToSet(q[k].msgs)
      BY <2>1 DEF MessagesOf
    <3>2. CASE k <= c
      BY <3>1, <3>2 DEF Kept
    <3>3. CASE k > c
      <4>1. PICK l \in Nat : l = k - c
        BY <3>3
      <4>2. l \in 1..Len(Q) /\ l + c = k
        BY <3>3, <4>1
      <4>3. Q[l] = q[k]
        BY <4>2
      <4> QED
        BY <3>1, <4>2, <4>3 DEF MessagesOf
    <3> QED
      BY <3>2, <3>3
  <2>2. CASE m \notin MessagesOf(q)
    BY <2>2 DEF Kept
  <2> QED
    BY <2>1, <2>2
<1>4. Kept(d, p, n, Q, e)
  BY <1>3 DEF Kept
<1> QED
  BY <1>2, <1>4

LEMMA StepOrder ==
  ASSUME TypeOK, WindowInv, OrderInv, KeptInv, [Next]_vars
  PROVE  OrderInv' /\ KeptInv'
<1> USE DEF WindowInv
<1>a. ASSUME UNCHANGED <<delivered, pending, next, sent>>,
             seqs'.receive = seqs.receive, mcu'.next = mcu.next
      PROVE  OrderInv' /\ KeptInv'
  BY <1>a DEF OrderInv, KeptInv, Expected
<1>b. /\ pending \in Seq(Nat) /\ delivered \in Seq(Nat) /\ next \in Nat
      /\ ToSet(pending) \subseteq 1..Messages /\ sent \in Seq(Block)
      /\ \A k \in 1..Len(sent) : sent[k].msgs \in Seq(Nat) /\ sent[k].seq \in Nat
      /\ Expected \in Nat /\ seqs.send \in Nat /\ seqs.receive \in Nat
      /\ Ordered(delivered, pending, next, sent, Expected)
      /\ Kept(delivered, pending, next, sent, Expected)
  BY MessagesAreNumbers, Numbers, WireTypes DEF OrderInv, KeptInv
<1>c. /\ Len(sent) \in Nat /\ seqs.send = seqs.receive + Len(sent)
      /\ \A k \in 1..Len(sent) : k \in Nat /\ sent[k].seq = (seqs.receive + k) - 1
  BY <1>b, WindowIs DEF SentInv
<1>1. CASE Send
  <2>1. /\ pending' = Append(pending, next) /\ next' = next + 1
        /\ UNCHANGED <<delivered, sent, seqs, mcu>>
    BY <1>1 DEF Send, board
  <2>2. /\ Ordered(delivered, Append(pending, next), next + 1, sent, Expected)
        /\ Kept(delivered, Append(pending, next), next + 1, sent, Expected)
    BY <1>b, SendOrder
  <2>3. Expected' = Expected
    BY <2>1 DEF Expected
  <2> QED
    BY <2>1, <2>2, <2>3 DEF OrderInv, KeptInv
<1>2. CASE Fill
  <2>1. PICK n \in 1..Len(pending), b \in Block :
          /\ b.seq = seqs.send /\ b.msgs = SubSeq(pending, 1, n)
          /\ pending' = SubSeq(pending, n + 1, Len(pending)) /\ sent' = Append(sent, b)
    BY <1>2, FillDoes
  <2>2. /\ UNCHANGED <<delivered, next, mcu>> /\ seqs'.receive = seqs.receive
    <3>1. seqs' = [seqs EXCEPT !.send = @ + 1] /\ seqs \in SqType
      BY <1>2 DEF Fill, TypeOK, SqType
    <3> QED
      BY <1>2, <3>1 DEF Fill, board, SqType
  <2>3. b.seq < Expected => ToSet(pending) \subseteq {1}
    <3> SUFFICES ASSUME seqs.send < Expected, NEW a \in ToSet(pending) PROVE a = 1
      BY <2>1
    <3>1. a < next /\ next <= 2 /\ a \in 1..Messages
      BY <1>b DEF Ordered, Below, ConnectInv
    <3> QED
      BY <1>b, <3>1, SerialAssumption
  <2>4. n \in 0..Len(pending)
    OBVIOUS
  <2>5. /\ Ordered(delivered, SubSeq(pending, n + 1, Len(pending)), next, Append(sent, b), Expected)
        /\ Kept(delivered, SubSeq(pending, n + 1, Len(pending)), next, Append(sent, b), Expected)
    BY <1>b, <2>1, <2>3, <2>4, FillOrder
  <2>6. Expected' = Expected
    BY <2>2 DEF Expected
  <2> QED
    BY <2>1, <2>2, <2>5, <2>6 DEF OrderInv, KeptInv
<1>3. CASE McuStart
  <2>1. /\ Expected - seqs.receive + 1 \in 1..Len(sent)
        /\ Head(toMcu) = sent[Expected - seqs.receive + 1]
        /\ Head(toMcu).seq = Expected /\ Expected' = Expected + 1
    BY <1>3, StartIs
  <2>2. PICK c \in 1..Len(sent) : c = Expected - seqs.receive + 1 /\ sent[c] = Head(toMcu)
    BY <2>1
  <2>3. /\ delivered' = delivered \o sent[c].msgs /\ UNCHANGED <<pending, next, sent>>
    BY <1>3, <2>2 DEF McuStart, host
  <2>4. sent[c].seq = Expected /\ sent[c].msgs \in Seq(Nat)
    BY <1>b, <2>1, <2>2
  <2>5. ASSUME NEW k \in 1..Len(sent)
        PROVE  (sent[k].seq > Expected => k > c) /\ (sent[k].seq = Expected => k = c)
    <3>1. PICK R \in Nat, e \in Nat : R = seqs.receive /\ e = Expected
      BY <1>b
    <3>2. k \in Nat /\ c \in Nat /\ c = (e - R) + 1 /\ sent[k].seq = (R + k) - 1
      BY <1>c, <2>2, <3>1
    <3>3. ((R + k) - 1 > e => k > c) /\ ((R + k) - 1 = e => k = c)
      BY <3>2
    <3> QED
      BY <3>1, <3>2, <3>3
  <2>6. /\ Ordered(delivered \o sent[c].msgs, pending, next, sent, Expected + 1)
        /\ Kept(delivered \o sent[c].msgs, pending, next, sent, Expected + 1)
    BY <1>b, <2>4, <2>5, StartOrder
  <2> QED
    BY <2>1, <2>3, <2>6 DEF OrderInv, KeptInv
<1>4. CASE HandleMessage
  <2> DEFINE m == Head(toHost)  rseq == FullSeq(m.seq)
  <2>1. CASE Unexpected(rseq)
    <3>1. UNCHANGED <<host, mcu, delivered>>
      BY <1>4, <2>1 DEF HandleMessage, board
    <3> QED
      BY <1>a, <3>1 DEF host
  <2>2. CASE ~Unexpected(rseq)
    <3>1. PICK d \in Nat :
            /\ d = rseq - seqs.receive /\ rseq = seqs.receive + d
            /\ Expected' = Expected
            /\ Acknowledges(d) \/ Connects(rseq)
            /\ UNCHANGED <<next, pending, delivered>>
      BY <1>4, <2>2, HearSent
    <3>2. rseq <= Expected /\ rseq \in Nat
      BY <1>4, HearIs
    <3> HIDE DEF rseq, m
    <3>3. CASE Acknowledges(d)
      <4>1. Len(sent') \in Nat /\ Len(sent') = Len(sent) - d
        BY <1>c, <3>3 DEF Acknowledges
      <4>2. ASSUME NEW k \in 1..Len(sent), k <= d PROVE sent[k].seq < Expected
        <5>1. PICK R \in Nat, e \in Nat : R = seqs.receive /\ e = Expected
          BY <1>b
        <5>2. k \in Nat /\ sent[k].seq = (R + k) - 1 /\ R + d <= e
          BY <1>c, <3>1, <3>2, <5>1
        <5>3. (R + k) - 1 < e
          BY <4>2, <5>2
        <5> QED
          BY <5>1, <5>2, <5>3
      <4>3. /\ Ordered(delivered, pending, next, sent', Expected)
            /\ Kept(delivered, pending, next, sent', Expected)
        BY <1>b, <1>c, <3>3, <4>1, <4>2, HearOrder DEF Acknowledges
      <4> QED
        BY <3>1, <4>3 DEF OrderInv, KeptInv
    <3>4. CASE Connects(rseq)
      <4>1. sent' = <<>> /\ next <= 2
        BY <3>4 DEF Connects, ConnectInv
      <4>2. Ordered(delivered, pending, next, <<>>, Expected)
        BY <1>b DEF Ordered
      <4>3. Kept(delivered, pending, next, <<>>, Expected)
        BY <1>b, <4>1 DEF Kept
      <4> QED
        BY <3>1, <4>1, <4>2, <4>3 DEF OrderInv, KeptInv
    <3> QED
      BY <3>1, <3>3, <3>4
  <2> QED
    BY <2>1, <2>2
<1>5. CASE Pull \/ KickEvent \/ WaitForAck \/ WaitForMessages \/ WaitForClock \/ UNCHANGED vars
  BY <1>5, <1>a
  DEF Pull, KickEvent, WaitForAck, WaitForMessages, WaitForClock, Write, vars, host, board
<1>6. CASE RetransmitEvent
  <2>1. Retransmit
    BY <1>6 DEF RetransmitEvent, RetransmitOnNak, RetransmitOnTimeout
  <2> QED
    BY <1>a, <2>1, RetransmitDoes DEF Retransmit, board
<1>7. CASE McuFinish \/ McuReject \/ McuReport \/ LoseBlock \/ LoseAnswer
  <2>1. UNCHANGED <<host, delivered>> /\ mcu'.next = mcu.next
    BY <1>7 DEF McuFinish, McuReject, McuReport, LoseBlock, LoseAnswer, board, TypeOK
  <2> QED
    BY <1>a, <2>1 DEF host
<1> QED
  BY <1>1, <1>2, <1>3, <1>4, <1>5, <1>6, <1>7
  DEF Next, Host, Mcu, CommandEvent, Finished

-----------------------------------------------------------------------------
(* The notifications that wait. *)

LEMMA StepNotify ==
  ASSUME TypeOK, WindowInv, OrderInv, NotifyInv, [Next]_vars
  PROVE  NotifyInv'
<1> USE DEF WindowInv
<1>0. /\ notify_queue \in Seq(NoteType) /\ Len(notify_queue) \in Nat
      /\ pending \in Seq(Nat) /\ next \in Nat /\ ToSet(pending) \subseteq Nat
      /\ seqs.send \in Nat /\ seqs.receive \in Nat /\ Expected \in Nat /\ 1 <= seqs.send
      /\ toHost \in Seq(SomeAnswer) /\ sent \in Seq(Block) /\ Len(sent) \in Nat
      /\ Ordered(delivered, pending, next, sent, Expected)
  <2>1. notify_queue \in Seq(NoteType) /\ Len(notify_queue) \in Nat
    BY DEF TypeOK, NoteType
  <2>2. pending \in Seq(Nat) /\ next \in Nat /\ ToSet(pending) \subseteq Nat
    BY MessagesAreNumbers, ToSetIs
  <2>3. /\ seqs.send \in Nat /\ seqs.receive \in Nat /\ Expected \in Nat /\ 1 <= seqs.send
        /\ toHost \in Seq(SomeAnswer) /\ sent \in Seq(Block) /\ Len(sent) \in Nat
    BY Numbers, WireTypes
  <2> QED
    BY <2>1, <2>2, <2>3 DEF OrderInv
<1>q. \A q \in Queries : q \in Nat /\ q # Report
  BY SerialAssumption DEF Report
<1>n. ASSUME NEW k \in 1..Len(notify_queue)
      PROVE  /\ notify_queue[k].id \in Queries /\ notify_queue[k].seq \in Nat
             /\ NoteOk(notify_queue[k], seqs.send, next, pending, sent)
             /\ NoteAnswers(notify_queue[k], seqs.receive, toHost)
  <2>1. notify_queue[k] \in NoteType
    BY <1>0
  <2> QED
    BY <2>1 DEF NotifyInv, NoteType
<1>a. ASSUME UNCHANGED <<notify_queue, next, pending, sent, toHost>>,
             seqs'.receive = seqs.receive, seqs'.send = seqs.send
      PROVE  NotifyInv'
  BY <1>a DEF NotifyInv
<1>1. CASE Send
  <2>1. /\ pending' = Append(pending, next) /\ next' = next + 1
        /\ UNCHANGED <<notify_queue, sent, seqs, toHost>>
    BY <1>1 DEF Send
  <2>2. ToSet(Append(pending, next)) = ToSet(pending) \cup {next}
    BY <1>0, ToSetAppend
  <2>3. ASSUME NEW k \in 1..Len(notify_queue)
        PROVE  NoteOk(notify_queue[k], seqs.send, next + 1, Append(pending, next), sent)
    <3>1. notify_queue[k].id \in Nat /\ NoteOk(notify_queue[k], seqs.send, next, pending, sent)
      BY <1>n, <1>q
    <3> QED
      BY <1>0, <2>2, <3>1 DEF NoteOk
  <2> QED
    BY <1>n, <2>1, <2>3 DEF NotifyInv
<1>2. CASE Fill
  <2>1. PICK n \in 1..Len(pending), b \in Block, asked \in Seq(Queries) :
          /\ b.seq = seqs.send /\ b.msgs = SubSeq(pending, 1, n)
          /\ ToSet(asked) = Queries \cap ToSet(b.msgs)
          /\ pending' = SubSeq(pending, n + 1, Len(pending))
          /\ notify_queue' = notify_queue \o
                               [i \in 1..Len(asked) |-> [id |-> asked[i], seq |-> seqs.send]]
          /\ sent' = Append(sent, b)
    BY <1>2, FillDoes
  <2>2. /\ UNCHANGED <<next, toHost, delivered>> /\ seqs'.receive = seqs.receive
        /\ seqs'.send = seqs.send + 1
    <3>1. seqs' = [seqs EXCEPT !.send = @ + 1] /\ seqs \in SqType
      BY <1>2 DEF Fill, TypeOK, SqType
    <3> QED
      BY <1>2, <3>1 DEF Fill, board, SqType
  <2> DEFINE w == [i \in 1..Len(asked) |-> [id |-> asked[i], seq |-> seqs.send]]
  <2>3. /\ w \in Seq(NoteType) /\ Len(w) = Len(asked) /\ Len(asked) \in Nat
        /\ \A i \in 1..Len(w) : w[i] = [id |-> asked[i], seq |-> seqs.send] /\ asked[i] \in Queries
    BY <1>0, NotesTypes
  <2>4. notify_queue' = notify_queue \o w
    BY <2>1
  <2> HIDE DEF w
  <2>5. /\ Len(notify_queue') = Len(notify_queue) + Len(w)
        /\ \A i \in 1..Len(notify_queue) : notify_queue'[i] = notify_queue[i]
        /\ \A i \in Len(notify_queue) + 1..Len(notify_queue') :
             notify_queue'[i] = w[i - Len(notify_queue)] /\ i - Len(notify_queue) \in 1..Len(w)
    <3>1. /\ Len(notify_queue) \in Nat /\ Len(notify_queue \o w) = Len(notify_queue) + Len(w)
          /\ \A i \in 1..Len(notify_queue) : (notify_queue \o w)[i] = notify_queue[i]
          /\ \A i \in Len(notify_queue) + 1..Len(notify_queue \o w) :
               (notify_queue \o w)[i] = w[i - Len(notify_queue)] /\ i - Len(notify_queue) \in 1..Len(w)
      BY <1>0, <2>3, ConcatIs
    <3>2. PICK V : V = notify_queue \o w
      OBVIOUS
    <3>3. notify_queue' = V
      BY <2>4, <3>2
    <3> QED
      BY <3>1, <3>2, <3>3
  <2>6. n \in 0..Len(pending)
    OBVIOUS
  <2>7. ToSet(pending) = ToSet(b.msgs) \cup ToSet(pending')
    BY <1>0, <2>1, <2>6, ToSetSplit
  <2>8. Below(ToSet(b.msgs), ToSet(pending'))
    BY <1>0, <2>1, <2>6, IncreasingSplit DEF Ordered
  <2>9. /\ Len(sent') = Len(sent) + 1 /\ sent'[Len(sent) + 1] = b
        /\ \A k \in 1..Len(sent) : sent'[k] = sent[k]
        /\ \A k \in 1..Len(sent') : k \in 1..Len(sent) \/ k = Len(sent) + 1
    <3>1. /\ Len(sent') = Len(sent) + 1 /\ sent'[Len(sent) + 1] = b
          /\ \A k \in 1..Len(sent) : sent'[k] = sent[k]
      BY <1>0, <2>1, AppendIs
    <3> QED
      BY <1>0, <3>1
  <2>10. ASSUME NEW k \in 1..Len(notify_queue)
         PROVE  NoteOk(notify_queue[k], seqs.send + 1, next, pending', sent')
    <3>1. PICK x \in NoteType : x = notify_queue[k]
      BY <1>0
    <3>2. NoteOk(x, seqs.send, next, pending, sent) /\ x.seq \in Nat
      BY <1>n, <3>1
    <3>3. x.id \notin ToSet(pending') /\ x.id \notin ToSet(b.msgs)
      BY <2>7, <3>2 DEF NoteOk
    <3>4. \A l \in 1..Len(sent') : x.id \in ToSet(sent'[l].msgs) => sent'[l].seq = x.seq
      BY <2>9, <3>2, <3>3 DEF NoteOk
    <3>5. 1 <= x.seq /\ x.seq < seqs.send + 1 /\ x.id < next
      BY <1>0, <3>2 DEF NoteOk
    <3> QED
      BY <3>1, <3>3, <3>4, <3>5 DEF NoteOk
  <2>11. ASSUME NEW k \in 1..Len(w)
         PROVE  /\ NoteOk(w[k], seqs.send + 1, next, pending', sent')
                /\ NoteAnswers(w[k], seqs.receive, toHost)
    <3>1. PICK q \in Queries : q = asked[k] /\ w[k] = [id |-> q, seq |-> seqs.send]
      BY <2>3
    <3>2. PICK x : x = w[k] /\ x.id = q /\ x.seq = seqs.send
      BY <3>1
    <3>3. q \in ToSet(asked)
      <4>1. k \in 1..Len(asked)
        BY <2>3
      <4> QED
        BY <3>1, <4>1, ToSetIs
    <3>4. q \in ToSet(b.msgs) /\ q \in ToSet(pending) /\ q \in Nat
      BY <1>q, <2>1, <2>7, <3>3
    <3>5. q < next
      BY <1>0, <3>4 DEF Ordered, Below
    <3>6. q \notin ToSet(pending')
      BY <2>8, <3>4 DEF Below
    <3>7. ASSUME NEW l \in 1..Len(sent'), q \in ToSet(sent'[l].msgs) PROVE sent'[l].seq = seqs.send
      <4>1. CASE l \in 1..Len(sent)
        <5>1. q \in ToSet(sent[l].msgs)
          BY <2>9, <3>7, <4>1
        <5>2. Below(ToSet(sent[l].msgs), ToSet(pending) \cup {next})
          BY <1>0, <4>1 DEF Ordered
        <5>3. q < q
          BY <3>4, <5>1, <5>2 DEF Below
        <5> QED
          BY <3>4, <5>3
      <4>2. CASE l = Len(sent) + 1
        BY <2>1, <2>9, <4>2
      <4> QED
        BY <2>9, <4>1, <4>2
    <3>8. ASSUME NEW i \in 1..Len(toHost), toHost[i].id = q PROVE FALSE
      <4>1. q \in ToSet(delivered)
        BY <1>q, <3>8 DEF AnswerInv, AnswersOk
      <4> QED
        BY <1>0, <3>4, <4>1 DEF Ordered, Below
    <3>11. 1 <= seqs.send /\ seqs.send < seqs.send + 1
      BY <1>0
    <3>9. NoteOk(x, seqs.send + 1, next, pending', sent')
      BY <3>2, <3>5, <3>6, <3>7, <3>11 DEF NoteOk
    <3>10. NoteAnswers(x, seqs.receive, toHost)
      BY <3>2, <3>8 DEF NoteAnswers
    <3> QED
      BY <3>2, <3>9, <3>10
  <2>12. ASSUME NEW k \in 1..Len(notify_queue')
         PROVE  /\ NoteOk(notify_queue'[k], seqs.send + 1, next, pending', sent')
                /\ NoteAnswers(notify_queue'[k], seqs.receive, toHost)
    <3>1. CASE k \in 1..Len(notify_queue)
      BY <1>n, <2>5, <2>10, <3>1
    <3>2. CASE k \notin 1..Len(notify_queue)
      <4>1. k \in Len(notify_queue) + 1..Len(notify_queue')
        BY <1>0, <2>3, <2>5, <3>2
      <4> QED
        BY <2>5, <2>11, <4>1
    <3> QED
      BY <3>1, <3>2
  <2> QED
    BY <2>2, <2>12 DEF NotifyInv
<1>3. CASE McuStart
  <2>1. /\ Expected - seqs.receive + 1 \in 1..Len(sent)
        /\ Head(toMcu) = sent[Expected - seqs.receive + 1]
        /\ Head(toMcu).seq = Expected /\ Expected' = Expected + 1
    BY <1>3, StartIs
  <2>2. PICK asked \in Seq(Queries) :
          /\ ToSet(asked) = Queries \cap ToSet(Head(toMcu).msgs)
          /\ mcu' = [next |-> (mcu.next + 1) % SeqSize, running |-> Head(toMcu)]
          /\ toHost' = toHost \o [i \in 1..Len(asked) |->
                                    Answer("data", asked[i], (mcu.next + 1) % SeqSize)]
    BY <1>3, McuStartDoes
  <2>3. UNCHANGED <<notify_queue, next, pending, sent, seqs>>
    BY <1>3 DEF McuStart, host
  <2>4. PICK x \in 0..SeqSize - 1 : x = (mcu.next + 1) % SeqSize
    BY Numbers, Sizes
  <2>5. Full(seqs.receive, x) = Expected + 1
    BY <2>1, <2>2, <2>3, <2>4 DEF Expected
  <2> DEFINE w == [i \in 1..Len(asked) |-> Answer("data", asked[i], x)]
  <2>6. /\ w \in Seq(SomeAnswer) /\ Len(w) = Len(asked)
        /\ \A i \in 1..Len(w) :
             w[i] = [kind |-> "data", id |-> asked[i], seq |-> x] /\ asked[i] \in Queries
    BY AnswersTypes
  <2>7. toHost' = toHost \o w
    BY <2>2, <2>4
  <2> HIDE DEF w
  <2>8. /\ Len(toHost) \in Nat /\ Len(toHost') = Len(toHost) + Len(w)
        /\ \A i \in 1..Len(toHost) : toHost'[i] = toHost[i]
        /\ \A i \in Len(toHost) + 1..Len(toHost') :
             toHost'[i] = w[i - Len(toHost)] /\ i - Len(toHost) \in 1..Len(w)
    <3>1. /\ Len(toHost) \in Nat /\ Len(toHost \o w) = Len(toHost) + Len(w)
          /\ \A i \in 1..Len(toHost) : (toHost \o w)[i] = toHost[i]
          /\ \A i \in Len(toHost) + 1..Len(toHost \o w) :
               (toHost \o w)[i] = w[i - Len(toHost)] /\ i - Len(toHost) \in 1..Len(w)
      BY <1>0, <2>6, ConcatIs
    <3>2. PICK V : V = toHost \o w
      OBVIOUS
    <3>3. toHost' = V
      BY <2>7, <3>2
    <3> QED
      BY <3>1, <3>2, <3>3
  <2>9. ASSUME NEW k \in 1..Len(notify_queue)
        PROVE  NoteAnswers(notify_queue[k], seqs.receive, toHost')
    <3>1. PICK y \in NoteType : y = notify_queue[k]
      BY <1>0
    <3>2. /\ NoteOk(y, seqs.send, next, pending, sent)
          /\ NoteAnswers(y, seqs.receive, toHost)
      BY <1>n, <3>1
    <3>3. ASSUME NEW i \in 1..Len(w), w[i].id = y.id
          PROVE  Number(seqs.receive, w[i]) = y.seq + 1
      <4>0. w[i] = [kind |-> "data", id |-> asked[i], seq |-> x]
        BY <2>6
      <4>1. i \in 1..Len(asked) /\ asked[i] = y.id /\ w[i].seq = x
        <5>1. i \in 1..Len(asked)
          BY <2>6
        <5>2. w[i].id = asked[i] /\ w[i].seq = x
          BY <4>0
        <5> QED
          BY <3>3, <5>1, <5>2
      <4>2. y.id \in ToSet(asked)
        BY <4>1, ToSetIs
      <4>3. y.seq = Expected
        BY <2>1, <2>2, <3>2, <4>2 DEF NoteOk
      <4> QED
        BY <2>5, <4>1, <4>3 DEF Number
    <3>4. ASSUME NEW i \in 1..Len(toHost'), toHost'[i].id = y.id
          PROVE  Number(seqs.receive, toHost'[i]) = y.seq + 1
      <4>1. CASE i \in 1..Len(toHost)
        BY <2>8, <3>2, <3>4, <4>1 DEF NoteAnswers
      <4>2. CASE i \notin 1..Len(toHost)
        <5>1. i \in Len(toHost) + 1..Len(toHost')
          BY <2>6, <2>8, <4>2
        <5> QED
          BY <2>8, <3>3, <3>4, <5>1
      <4> QED
        BY <4>1, <4>2
    <3> QED
      BY <3>1, <3>4 DEF NoteAnswers
  <2> QED
    BY <1>n, <2>3, <2>9 DEF NotifyInv
<1>4. CASE HandleMessage
  <2> DEFINE m == Head(toHost)  rseq == FullSeq(m.seq)
  <2>0. \A i \in 1..Len(toHost') : toHost'[i] = toHost[i + 1] /\ i + 1 \in 1..Len(toHost)
    BY <1>4, HearIs
  <2>1. CASE Unexpected(rseq)
    <3>1. UNCHANGED <<notify_queue, next, pending, sent, seqs>>
      BY <1>4, <2>1 DEF HandleMessage, host
    <3> QED
      BY <1>n, <2>0, <3>1 DEF NotifyInv, NoteAnswers
  <2>2. CASE ~Unexpected(rseq)
    <3>1. PICK d \in Nat :
            /\ d = rseq - seqs.receive /\ rseq = seqs.receive + d /\ seqs'.receive = rseq
            /\ Acknowledges(d) \/ Connects(rseq)
            /\ UNCHANGED <<next, pending>>
            /\ \A i \in 1..Len(toHost') :
                 Number(rseq, toHost'[i]) = Number(seqs.receive, toHost[i + 1])
      BY <1>4, <2>2, HearSent
    <3>2. PICK n \in 0..Len(notify_queue), w \in Seq(NewsType), v \in Seq(NewsType) :
            HandleNews(rseq, m, n, w, v)
      BY <1>4, <2>2, HandleNewsDoes
    <3>3. rseq <= Expected /\ rseq \in Nat
      BY <1>4, HearIs
    <3> HIDE DEF rseq, m
    <3>4. /\ Len(notify_queue') = Len(notify_queue) - n
          /\ \A i \in 1..Len(notify_queue) - n : notify_queue'[i] = notify_queue[i + n]
      BY <1>0, <3>2, RestIs DEF HandleNews
    <3>5. ASSUME NEW k \in 1..Len(notify_queue)
          PROVE  NoteOk(notify_queue[k], seqs'.send, next, pending, sent')
      <4>1. PICK x \in NoteType : x = notify_queue[k]
        BY <1>0
      <4>2. NoteOk(x, seqs.send, next, pending, sent) /\ x.seq \in Nat
        BY <1>n, <4>1
      <4>3. CASE Acknowledges(d)
        BY <4>1, <4>2, <4>3 DEF NoteOk, Acknowledges
      <4>4. CASE Connects(rseq)
        <5>1. x.seq < seqs'.send
          BY <1>0, <3>3, <4>2, <4>4 DEF NoteOk, Connects
        <5> QED
          BY <4>1, <4>2, <4>4, <5>1 DEF NoteOk, Connects
      <4> QED
        BY <3>1, <4>3, <4>4
    <3>6. ASSUME NEW k \in 1..Len(notify_queue)
          PROVE  NoteAnswers(notify_queue[k], rseq, toHost')
      BY <1>n, <2>0, <3>1 DEF NoteAnswers
    <3>7. ASSUME NEW k \in 1..Len(notify_queue')
          PROVE  /\ NoteOk(notify_queue'[k], seqs'.send, next, pending, sent')
                 /\ NoteAnswers(notify_queue'[k], rseq, toHost')
      <4>1. k + n \in 1..Len(notify_queue) /\ notify_queue'[k] = notify_queue[k + n]
        BY <1>0, <3>4
      <4> QED
        BY <3>5, <3>6, <4>1
    <3> QED
      BY <3>1, <3>7 DEF NotifyInv
  <2> QED
    BY <2>1, <2>2
<1>5. CASE Pull \/ KickEvent \/ WaitForAck \/ WaitForMessages \/ WaitForClock \/ UNCHANGED vars
  BY <1>5, <1>a
  DEF Pull, KickEvent, WaitForAck, WaitForMessages, WaitForClock, Write, vars, host, board
<1>6. CASE RetransmitEvent
  <2>1. Retransmit
    BY <1>6 DEF RetransmitEvent, RetransmitOnNak, RetransmitOnTimeout
  <2> QED
    BY <1>a, <2>1, RetransmitDoes DEF Retransmit, board
<1>7. ASSUME UNCHANGED host,
             \/ \E k \in {"ack", "data"} : toHost' = Append(toHost, Answer(k, Report, mcu.next))
             \/ toHost # <<>> /\ toHost' = Tail(toHost)
             \/ toHost' = toHost
      PROVE  NotifyInv'
  <2>1. UNCHANGED <<notify_queue, next, pending, sent, seqs>>
    BY <1>7 DEF host
  <2>2. CASE toHost # <<>> /\ toHost' = Tail(toHost)
    <3>1. \A i \in 1..Len(toHost') : toHost'[i] = toHost[i + 1] /\ i + 1 \in 1..Len(toHost)
      BY <1>0, <2>2, TailIs
    <3> QED
      BY <1>n, <2>1, <3>1 DEF NotifyInv, NoteAnswers
  <2>3. ASSUME NEW k \in {"ack", "data"}, toHost' = Append(toHost, Answer(k, Report, mcu.next))
        PROVE  NotifyInv'
    <3>0. PICK x \in SomeAnswer : x = Answer(k, Report, mcu.next)
      BY <2>3, Numbers DEF Answer, SomeAnswer
    <3>1. x = Answer(k, Report, mcu.next) /\ x.id = Report
      BY <3>0 DEF Answer
    <3>2. /\ Len(toHost') = Len(toHost) + 1 /\ Len(toHost) \in Nat
          /\ \A i \in 1..Len(toHost) : toHost'[i] = toHost[i]
          /\ toHost'[Len(toHost) + 1] = x
      BY <1>0, <2>3, <3>1, AppendIs
    <3>3. \A i \in 1..Len(toHost') : i \in 1..Len(toHost) \/ i = Len(toHost) + 1
      BY <3>2
    <3>4. ASSUME NEW j \in 1..Len(notify_queue)
          PROVE  NoteAnswers(notify_queue[j], seqs.receive, toHost')
      <4>1. notify_queue[j].id # Report /\ NoteAnswers(notify_queue[j], seqs.receive, toHost)
        BY <1>n, <1>q
      <4> QED
        BY <3>1, <3>2, <3>3, <4>1 DEF NoteAnswers
    <3> QED
      BY <1>n, <2>1, <3>4 DEF NotifyInv
  <2>4. CASE toHost' = toHost
    BY <1>a, <2>1, <2>4
  <2> QED
    BY <1>7, <2>2, <2>3, <2>4
<1>8. CASE McuFinish \/ McuReject \/ McuReport \/ LoseBlock \/ LoseAnswer
  BY <1>7, <1>8 DEF McuFinish, McuReject, McuReport, LoseBlock, LoseAnswer, Report
<1> QED
  BY <1>1, <1>2, <1>3, <1>4, <1>5, <1>6, <1>8
  DEF Next, Host, Mcu, CommandEvent, Finished

-----------------------------------------------------------------------------
(* Responses and notifications. *)

\* The receiving thread takes what is in front.
LEMMA PullDone ==
  ASSUME TypeOK, DoneInv, NoLateResponse, Pull
  PROVE  /\ \A q \in Queries : /\ IsDone(q, heard', receive_queue') => IsDone(q, heard, receive_queue)
                               /\ DataOk(q, heard', receive_queue')
         /\ NoLateResponse'
<1>1. CASE receive_queue = <<>>
  <2>1. UNCHANGED <<receive_queue, heard>>
    BY <1>1 DEF Pull
  <2> QED
    BY <2>1 DEF DoneInv, NoLateResponse
<1>2. CASE receive_queue # <<>>
  <2> DEFINE K == {"data", "early", "done"}
  <2>1. PICK m \in NewsType, t \in Seq(NewsType) :
          /\ m = Head(receive_queue) /\ t = Tail(receive_queue) /\ m = receive_queue[1]
          /\ 1 \in 1..Len(receive_queue)
          /\ \A i \in 1..Len(t) : /\ t[i] = receive_queue[i + 1] /\ i + 1 \in 1..Len(receive_queue)
                                  /\ 1 <= i + 1
    <3>1. receive_queue \in Seq(NewsType)
      BY DEF TypeOK, NewsType
    <3>2. /\ Tail(receive_queue) \in Seq(NewsType) /\ Head(receive_queue) \in NewsType
          /\ Head(receive_queue) = receive_queue[1] /\ Len(receive_queue) \in Nat \ {0}
          /\ \A i \in 1..Len(Tail(receive_queue)) :
               Tail(receive_queue)[i] = receive_queue[i + 1] /\ i + 1 \in 1..Len(receive_queue)
      BY <1>2, <3>1, TailIs
    <3>3. PICK m \in NewsType : m = Head(receive_queue)
      BY <3>2
    <3>4. PICK t \in Seq(NewsType) : t = Tail(receive_queue)
      BY <3>2
    <3>5. \A i \in 1..Len(t) : /\ t[i] = receive_queue[i + 1] /\ i + 1 \in 1..Len(receive_queue)
                               /\ 1 <= i + 1
      BY <3>2, <3>4
    <3>6. m = receive_queue[1] /\ 1 \in 1..Len(receive_queue)
      BY <3>2, <3>3
    <3> QED
      BY <3>3, <3>4, <3>5, <3>6
  <2>2. /\ receive_queue' = t
        /\ heard' = IF m.id = Report THEN heard ELSE [heard EXCEPT ![m.id] = Append(@, m.kind)]
    BY <1>2, <2>1 DEF Pull
  <2>3. heard \in [Queries -> Seq(K)] /\ m.kind \in K
    BY <2>1 DEF TypeOK, NewsType
  <2>4. ASSUME NEW q \in Queries
        PROVE  /\ m.id = q => heard'[q] = Append(heard[q], m.kind)
               /\ m.id # q => heard'[q] = heard[q]
    <3>1. q # Report
      BY SerialAssumption DEF Report
    <3> QED
      BY <2>2, <2>3, <3>1
  <2>5. ASSUME NEW q \in Queries
        PROVE  ToSet(heard'[q]) = ToSet(heard[q]) \cup (IF m.id = q THEN {m.kind} ELSE {})
    <3>1. ToSet(Append(heard[q], m.kind)) = ToSet(heard[q]) \cup {m.kind}
      BY <2>3, ToSetAppend
    <3> QED
      BY <2>4, <3>1
  <2>6. ASSUME NEW q \in Queries, IsDone(q, heard', receive_queue')
        PROVE  IsDone(q, heard, receive_queue)
    <3>1. CASE "done" \in ToSet(heard'[q])
      BY <2>1, <2>5, <3>1 DEF IsDone
    <3>2. CASE \E i \in 1..Len(t) : t[i].kind = "done" /\ t[i].id = q
      BY <2>1, <3>2 DEF IsDone
    <3> QED
      BY <2>2, <2>6, <3>1, <3>2 DEF IsDone
  <2>7. ASSUME NEW q \in Queries PROVE DataOk(q, heard', receive_queue')
    <3> SUFFICES ASSUME NEW i \in 1..Len(t), t[i].kind = "data", t[i].id = q
                 PROVE  /\ "done" \notin ToSet(heard'[q])
                        /\ \A j \in 1..i : ~(t[j].kind = "done" /\ t[j].id = q)
      BY <2>2 DEF DataOk
    <3>1. /\ receive_queue[i + 1].kind = "data" /\ receive_queue[i + 1].id = q
          /\ i + 1 \in 1..Len(receive_queue)
      BY <2>1
    <3>2. /\ "done" \notin ToSet(heard[q])
          /\ \A j \in 1..i + 1 : ~(receive_queue[j].kind = "done" /\ receive_queue[j].id = q)
      BY <3>1 DEF DoneInv, DataOk
    <3>3. ~(m.kind = "done" /\ m.id = q)
      <4>1. 1 \in 1..i + 1
        OBVIOUS
      <4> QED
        BY <2>1, <3>2, <4>1
    <3>4. ASSUME NEW j \in 1..i PROVE ~(t[j].kind = "done" /\ t[j].id = q)
      <4>1. j + 1 \in 1..i + 1 /\ j \in 1..Len(t)
        <5>1. Len(t) \in Nat
          BY <2>1
        <5> QED
          BY <5>1
      <4> QED
        BY <2>1, <3>2, <4>1
    <3> QED
      BY <2>5, <3>2, <3>3, <3>4
  <2>8. NoLateResponse'
    <3> SUFFICES ASSUME NEW q \in Queries, NEW i \in 1..Len(heard'[q]), NEW j \in 1..Len(heard'[q]),
                        heard'[q][i] = "done", heard'[q][j] = "data"
                 PROVE  j < i
      BY DEF NoLateResponse
    <3>1. CASE m.id # q
      BY <2>4, <3>1 DEF NoLateResponse
    <3>2. CASE m.id = q
      <4>1. PICK s \in Seq(K) : s = heard[q]
        BY <2>3
      <4>a. PICK z \in Seq(K) : z = heard'[q] /\ z = Append(s, m.kind)
        <5>1. Append(s, m.kind) \in Seq(K)
          BY <2>3, <4>1
        <5> QED
          BY <2>4, <3>2, <4>1, <5>1
      <4>b. /\ Len(s) \in Nat /\ Len(z) = Len(s) + 1 /\ z[Len(s) + 1] = m.kind
            /\ \A k \in 1..Len(s) : z[k] = s[k]
        BY <2>3, <4>a, AppendIs
      <4>2. /\ Len(s) \in Nat /\ Len(heard'[q]) = Len(s) + 1 /\ heard'[q][Len(s) + 1] = m.kind
            /\ \A k \in 1..Len(s) : heard'[q][k] = s[k]
        BY <4>a, <4>b
      <4>3. CASE i \in 1..Len(s)
        <5>1. s[i] = "done" /\ "done" \in ToSet(heard[q])
          <6>1. s[i] = "done"
            BY <4>2, <4>3
          <6> QED
            BY <4>1, <4>3, <6>1, ToSetIs
        <5>2. m.kind # "data"
          BY <2>1, <3>2, <5>1 DEF DoneInv, DataOk
        <5>3. j \in 1..Len(s)
          BY <4>2, <5>2
        <5>4. s[j] = "data"
          BY <4>2, <5>3
        <5> QED
          BY <4>1, <4>3, <5>1, <5>3, <5>4 DEF NoLateResponse
      <4>4. CASE i \notin 1..Len(s)
        <5>1. i = Len(s) + 1
          BY <4>2, <4>4
        <5>2. j # i
          OBVIOUS
        <5> QED
          BY <4>2, <5>1, <5>2
      <4> QED
        BY <4>3, <4>4
    <3> QED
      BY <3>1, <3>2
  <2> QED
    BY <2>6, <2>7, <2>8
<1> QED
  BY <1>1, <1>2

\* A notification is given when its block is acknowledged, and by then the
\* response is there: the host puts it off when a response may have told it.
LEMMA HearDone ==
  ASSUME TypeOK, WindowInv, NotifyInv, DoneInv, HandleMessage,
         NEW m, m = Head(toHost), NEW rseq, rseq = FullSeq(m.seq), ~Unexpected(rseq)
  PROVE  DoneInv'
<1> USE DEF WindowInv
<1>1. /\ m = toHost[1] /\ m \in SomeAnswer /\ 1 \in 1..Len(toHost)
      /\ \A i \in 1..Len(toHost') : toHost'[i] = toHost[i + 1] /\ i + 1 \in 1..Len(toHost)
      /\ rseq = Number(seqs.receive, m) /\ rseq \in Nat /\ rseq <= Expected
      /\ \A i \in 1..Len(toHost) : rseq <= Number(seqs.receive, toHost[i])
  BY HearIs
<1>2. PICK d \in Nat :
        /\ Expected' = Expected
        /\ Acknowledges(d) \/ Connects(rseq)
        /\ UNCHANGED <<next, pending, heard>>
  BY HearSent
<1>3. PICK n \in 0..Len(notify_queue), w \in Seq(NewsType), v \in Seq(NewsType) :
        HandleNews(rseq, m, n, w, v)
  BY HandleNewsDoes
<1>4. /\ notify_queue \in Seq(NoteType) /\ Len(notify_queue) \in Nat
      /\ receive_queue \in Seq(NewsType) /\ Expected \in Nat
      /\ \A q \in Queries : q # Report
  BY Numbers, SerialAssumption DEF TypeOK, NoteType, NewsType, Report
<1>5. ASSUME NEW k \in 1..Len(sent')
      PROVE  \E l \in 1..Len(sent) : sent'[k] = sent[l]
  BY <1>2 DEF Acknowledges, Connects
<1>6. ASSUME NEW i \in 1..n
      PROVE  \E x \in NoteType :
               /\ x = notify_queue[i] /\ NoteOk(x, seqs.send, next, pending, sent)
               /\ NoteAnswers(x, seqs.receive, toHost)
               /\ x.seq \in Nat /\ w[i].id = x.id /\ i \in 1..Len(w)
               /\ w[i].kind = (IF rseq = 1 THEN "early" ELSE "done")
               /\ x.seq <= WakeSeq(rseq, m)
  <2>1. i \in 1..Len(notify_queue) /\ i \in 1..Len(w)
    BY <1>3, <1>4 DEF HandleNews
  <2>2. PICK x \in NoteType : x = notify_queue[i]
    BY <1>4, <2>1
  <2>3. NoteOk(x, seqs.send, next, pending, sent) /\ NoteAnswers(x, seqs.receive, toHost)
    BY <2>1, <2>2 DEF NotifyInv
  <2>4. /\ w[i].id = x.id /\ x.seq <= WakeSeq(rseq, m)
        /\ w[i].kind = (IF rseq = 1 THEN "early" ELSE "done")
    BY <1>3, <2>2 DEF HandleNews
  <2> QED
    BY <2>1, <2>2, <2>3, <2>4 DEF NoteType
\* the notification of a query whose response has come is not given with it
<1>7. ASSUME NEW i \in 1..n, rseq # 1, NEW j \in 1..Len(toHost), toHost[j].id = w[i].id
      PROVE  /\ m.kind = "data" => FALSE
             /\ j # 1 => FALSE
  <2>1. PICK x \in NoteType :
          /\ NoteAnswers(x, seqs.receive, toHost)
          /\ x.seq \in Nat /\ w[i].id = x.id /\ x.seq <= WakeSeq(rseq, m)
    BY <1>6
  <2>2. /\ x.id \in Queries /\ Number(seqs.receive, toHost[j]) = x.seq + 1
        /\ rseq <= x.seq + 1 /\ toHost[j].id # Report
    BY <1>1, <1>4, <1>7, <2>1 DEF NoteType, NoteAnswers
  <2>3. m.kind = "data" => WakeSeq(rseq, m) = rseq - 2
    BY <1>1, <1>7 DEF WakeSeq
  <2>4. m.kind # "data" => WakeSeq(rseq, m) = rseq - 1
    BY <1>1, <1>7 DEF WakeSeq
  <2>5. m.kind # "data"
    BY <1>1, <2>1, <2>2, <2>3
  <2>6. ASSUME j # 1 PROVE FALSE
    <3>1. m.kind = "ack" /\ 1 < j
      BY <1>1, <2>5, <2>6 DEF SomeAnswer
    <3>2. rseq < Number(seqs.receive, toHost[j])
      BY <1>1, <2>2, <3>1 DEF AnswerInv, AnswersOk
    <3> QED
      BY <1>1, <2>1, <2>2, <2>4, <2>5, <3>2
  <2> QED
    BY <2>5, <2>6
<1> DEFINE u == w \o v
<1>8. /\ u \in Seq(NewsType) /\ Len(u) = n + Len(v) /\ Len(w) = n /\ n \in Nat /\ Len(v) \in Nat
      /\ \A i \in 1..n : u[i] = w[i]
      /\ \A i \in n + 1..Len(u) : u[i] = v[i - n] /\ i - n \in 1..Len(v)
  <2>1. Len(w) = n /\ n \in Nat
    BY <1>3, <1>4 DEF HandleNews
  <2> QED
    BY <2>1, ConcatIs
<1>9. receive_queue' = receive_queue \o u
  BY <1>3 DEF HandleNews
<1> HIDE DEF u
<1>10. /\ Len(receive_queue) \in Nat /\ Len(receive_queue') = Len(receive_queue) + Len(u)
       /\ \A i \in 1..Len(receive_queue) : receive_queue'[i] = receive_queue[i]
       /\ \A i \in Len(receive_queue) + 1..Len(receive_queue') :
            receive_queue'[i] = u[i - Len(receive_queue)] /\ i - Len(receive_queue) \in 1..Len(u)
  <2>0. receive_queue \in Seq(NewsType) /\ u \in Seq(NewsType)
    BY <1>4, <1>8
  <2>1. PICK V : V = receive_queue \o u
    OBVIOUS
  <2>2. /\ Len(receive_queue) \in Nat /\ Len(V) = Len(receive_queue) + Len(u)
        /\ \A i \in 1..Len(receive_queue) : V[i] = receive_queue[i]
        /\ \A i \in Len(receive_queue) + 1..Len(V) :
             V[i] = u[i - Len(receive_queue)] /\ i - Len(receive_queue) \in 1..Len(u)
    BY <2>0, <2>1, ConcatIs
  <2>3. receive_queue' = V
    BY <1>9, <2>1
  <2> QED
    BY <2>2, <2>3
\* what a new entry is
<1>11. ASSUME NEW i \in 1..Len(u)
       PROVE  \/ i \in 1..n /\ u[i] = w[i] /\ u[i].kind # "data"
              \/ i = n + 1 /\ m.kind = "data" /\ u[i].kind = "data" /\ u[i].id = m.id
  <2>1. CASE i \in 1..n
    <3>1. w[i].kind # "data"
      BY <1>6, <2>1
    <3> QED
      BY <1>8, <2>1, <3>1
  <2>2. CASE i \notin 1..n
    <3>1. i \in n + 1..Len(u)
      BY <1>8, <2>2
    <3>2. u[i] = v[i - n] /\ i - n \in 1..Len(v)
      BY <1>8, <3>1
    <3>3. m.kind = "data" /\ Len(v) = 1 /\ v[1].kind = "data" /\ v[1].id = m.id
      <4>1. m.kind = "ack" => v = <<>>
        BY <1>3 DEF HandleNews
      <4>2. m.kind = "data"
        BY <1>1, <3>2, <4>1 DEF SomeAnswer
      <4> QED
        BY <1>3, <4>2 DEF HandleNews
    <3>4. i = n + 1 /\ i - n = 1
      BY <1>8, <3>1, <3>2, <3>3
    <3> QED
      BY <3>2, <3>3, <3>4
  <2> QED
    BY <2>1, <2>2
<1>12. ASSUME NEW q \in Queries, IsDone(q, heard, receive_queue)
       PROVE  DoneOk(q, next, pending, sent', Expected, toHost')
  <2>1. DoneOk(q, next, pending, sent, Expected, toHost)
    BY <1>12 DEF DoneInv
  <2>2. \A i \in 1..Len(toHost') : toHost'[i].id # q
    BY <1>1, <2>1 DEF DoneOk
  <2>3. \A k \in 1..Len(sent') : sent'[k].seq >= Expected => q \notin ToSet(sent'[k].msgs)
    BY <1>5, <2>1 DEF DoneOk
  <2> QED
    BY <2>1, <2>2, <2>3 DEF DoneOk
<1>13. ASSUME NEW i \in 1..n, rseq # 1, NEW q \in Queries, w[i].id = q
       PROVE  DoneOk(q, next, pending, sent', Expected, toHost')
  <2>1. PICK x \in NoteType :
          /\ NoteOk(x, seqs.send, next, pending, sent)
          /\ x.seq \in Nat /\ q = x.id /\ x.seq <= WakeSeq(rseq, m)
    BY <1>6, <1>13
  <2>2. x.seq < Expected
    BY <1>1, <1>4, <1>13, <2>1 DEF WakeSeq
  <2>3. ASSUME NEW k \in 1..Len(sent'), sent'[k].seq >= Expected, q \in ToSet(sent'[k].msgs)
        PROVE  FALSE
    <3>1. PICK l \in 1..Len(sent) : sent'[k] = sent[l]
      BY <1>5
    <3>2. sent[l].seq = x.seq
      BY <2>1, <2>3, <3>1 DEF NoteOk
    <3> QED
      BY <1>4, <2>1, <2>2, <2>3, <3>1, <3>2
  <2>4. ASSUME NEW k \in 1..Len(toHost'), toHost'[k].id = q PROVE FALSE
    <3>1. k + 1 \in 1..Len(toHost) /\ toHost[k + 1].id = w[i].id /\ k + 1 # 1
      BY <1>1, <1>13, <2>4
    <3> QED
      BY <1>7, <1>13, <3>1
  <2> QED
    BY <2>1, <2>3, <2>4 DEF NoteOk, DoneOk
<1>14. ASSUME NEW q \in Queries, IsDone(q, heard, receive_queue')
       PROVE  DoneOk(q, next, pending, sent', Expected, toHost')
  <2>1. CASE IsDone(q, heard, receive_queue)
    BY <1>12, <2>1
  <2>2. CASE ~IsDone(q, heard, receive_queue)
    <3>1. PICK k \in 1..Len(receive_queue') :
            receive_queue'[k].kind = "done" /\ receive_queue'[k].id = q
      BY <1>14, <2>2 DEF IsDone
    <3>2. k \notin 1..Len(receive_queue)
      BY <1>10, <2>2, <3>1 DEF IsDone
    <3>3. k \in Len(receive_queue) + 1..Len(receive_queue')
      BY <1>8, <1>10, <3>2
    <3>4. PICK i \in 1..Len(u) : u[i] = receive_queue'[k]
      BY <1>10, <3>3
    <3>5. i \in 1..n /\ w[i].kind = "done" /\ w[i].id = q
      BY <1>11, <3>1, <3>4
    <3>6. rseq # 1
      BY <1>6, <3>5
    <3> QED
      BY <1>13, <3>5, <3>6
  <2> QED
    BY <2>1, <2>2
<1>15. ASSUME NEW q \in Queries PROVE DataOk(q, heard, receive_queue')
  <2> SUFFICES ASSUME NEW k \in 1..Len(receive_queue'),
                      receive_queue'[k].kind = "data", receive_queue'[k].id = q
               PROVE  /\ "done" \notin ToSet(heard[q])
                      /\ \A j \in 1..k : ~(receive_queue'[j].kind = "done" /\ receive_queue'[j].id = q)
    BY DEF DataOk
  <2>1. CASE k \in 1..Len(receive_queue)
    <3>1. /\ "done" \notin ToSet(heard[q])
          /\ \A j \in 1..k : ~(receive_queue[j].kind = "done" /\ receive_queue[j].id = q)
      BY <1>10, <2>1 DEF DoneInv, DataOk
    <3>2. \A j \in 1..k : j \in 1..Len(receive_queue)
      BY <1>10, <2>1
    <3> QED
      BY <1>10, <3>1, <3>2
  <2>2. CASE k \notin 1..Len(receive_queue)
    <3>1. k \in Len(receive_queue) + 1..Len(receive_queue')
      BY <1>8, <1>10, <2>2
    <3>2. PICK i \in 1..Len(u) : u[i] = receive_queue'[k]
      BY <1>10, <3>1
    <3>3. m.kind = "data" /\ m.id = q
      BY <1>11, <3>2
    <3>4. ~IsDone(q, heard, receive_queue)
      BY <1>1, <3>3 DEF DoneInv, DoneOk
    <3>5. ASSUME NEW j \in 1..k, receive_queue'[j].kind = "done", receive_queue'[j].id = q
          PROVE  FALSE
      <4>1. j \notin 1..Len(receive_queue)
        BY <1>10, <3>4, <3>5 DEF IsDone
      <4>2. j \in Len(receive_queue) + 1..Len(receive_queue')
        BY <1>8, <1>10, <4>1
      <4>3. PICK l \in 1..Len(u) : u[l] = receive_queue'[j]
        BY <1>10, <4>2
      <4>4. l \in 1..n /\ w[l].kind = "done" /\ w[l].id = q
        BY <1>11, <3>5, <4>3
      <4>5. rseq # 1
        BY <1>6, <4>4
      <4> QED
        BY <1>1, <1>7, <3>3, <4>4, <4>5
    <3> QED
      BY <3>4, <3>5 DEF IsDone
  <2> QED
    BY <2>1, <2>2
<1> QED
  BY <1>2, <1>14, <1>15 DEF DoneInv

LEMMA StepDone ==
  ASSUME TypeOK, WindowInv, OrderInv, NotifyInv, DoneInv, NoLateResponse, [Next]_vars
  PROVE  DoneInv' /\ NoLateResponse'
<1> USE DEF WindowInv
<1>0. /\ pending \in Seq(Nat) /\ next \in Nat /\ Expected \in Nat /\ seqs.send \in Nat
      /\ toHost \in Seq(SomeAnswer) /\ sent \in Seq(Block) /\ Len(sent) \in Nat
      /\ \A q \in Queries : q \in Nat /\ q # Report
  BY Numbers, WireTypes, MessagesAreNumbers, SerialAssumption DEF Report
<1>d. ASSUME NEW q \in Queries
      PROVE  /\ IsDone(q, heard, receive_queue) => DoneOk(q, next, pending, sent, Expected, toHost)
             /\ DataOk(q, heard, receive_queue)
  BY DEF DoneInv
<1>a. ASSUME UNCHANGED <<heard, receive_queue, next, pending, sent, toHost>>,
             seqs'.receive = seqs.receive, mcu'.next = mcu.next
      PROVE  DoneInv' /\ NoLateResponse'
  <2>1. Expected' = Expected
    BY <1>a DEF Expected
  <2> QED
    BY <1>a, <2>1 DEF DoneInv, NoLateResponse
<1>1. CASE Send
  <2>1. /\ pending' = Append(pending, next) /\ next' = next + 1
        /\ UNCHANGED <<heard, receive_queue, sent, seqs, toHost, mcu>>
    BY <1>1 DEF Send, board
  <2>2. ToSet(Append(pending, next)) = ToSet(pending) \cup {next} /\ Expected' = Expected
    BY <1>0, <2>1, ToSetAppend DEF Expected
  <2>3. ASSUME NEW q \in Queries, DoneOk(q, next, pending, sent, Expected, toHost)
        PROVE  DoneOk(q, next + 1, Append(pending, next), sent, Expected, toHost)
    BY <1>0, <2>2, <2>3 DEF DoneOk
  <2> QED
    BY <1>d, <2>1, <2>2, <2>3 DEF DoneInv, NoLateResponse
<1>2. CASE Pull
  <2>1. UNCHANGED <<next, pending, sent, seqs, toHost, mcu>> /\ Expected' = Expected
    BY <1>2 DEF Pull, board, Expected
  <2> QED
    BY <1>2, <1>d, <2>1, PullDone DEF DoneInv
<1>3. CASE Fill
  <2>1. PICK n \in 1..Len(pending), b \in Block :
          /\ b.msgs = SubSeq(pending, 1, n)
          /\ pending' = SubSeq(pending, n + 1, Len(pending)) /\ sent' = Append(sent, b)
    BY <1>3, FillDoes
  <2>2. UNCHANGED <<heard, receive_queue, next, toHost, mcu>> /\ seqs'.receive = seqs.receive
    <3>1. seqs' = [seqs EXCEPT !.send = @ + 1] /\ seqs \in SqType
      BY <1>3 DEF Fill, TypeOK, SqType
    <3> QED
      BY <1>3, <3>1 DEF Fill, board, SqType
  <2>3. Expected' = Expected /\ n \in 0..Len(pending)
    BY <2>2 DEF Expected
  <2>4. ToSet(pending) = ToSet(b.msgs) \cup ToSet(pending')
    BY <1>0, <2>1, <2>3, ToSetSplit
  <2>5. /\ Len(sent') = Len(sent) + 1 /\ sent'[Len(sent) + 1] = b
        /\ \A k \in 1..Len(sent) : sent'[k] = sent[k]
    BY <1>0, <2>1, AppendIs
  <2>6. \A k \in 1..Len(sent') : k \in 1..Len(sent) \/ k = Len(sent) + 1
    BY <1>0, <2>5
  <2>7. ASSUME NEW q \in Queries, DoneOk(q, next, pending, sent, Expected, toHost)
        PROVE  DoneOk(q, next, pending', sent', Expected, toHost)
    <3>1. q \notin ToSet(pending') /\ q \notin ToSet(b.msgs)
      BY <2>4, <2>7 DEF DoneOk
    <3>2. ASSUME NEW k \in 1..Len(sent'), sent'[k].seq >= Expected PROVE q \notin ToSet(sent'[k].msgs)
      BY <2>5, <2>6, <2>7, <3>1, <3>2 DEF DoneOk
    <3> QED
      BY <2>7, <3>1, <3>2 DEF DoneOk
  <2> QED
    BY <1>d, <2>2, <2>3, <2>7 DEF DoneInv, NoLateResponse
<1>4. CASE HandleMessage
  <2> DEFINE m == Head(toHost)  rseq == FullSeq(m.seq)
  <2>1. CASE Unexpected(rseq)
    <3>1. UNCHANGED <<heard, receive_queue, next, pending, sent, seqs, mcu>>
      BY <1>4, <2>1 DEF HandleMessage, host, board
    <3>2. \A i \in 1..Len(toHost') : toHost'[i] = toHost[i + 1] /\ i + 1 \in 1..Len(toHost)
      BY <1>4, HearIs
    <3>3. Expected' = Expected
      BY <3>1 DEF Expected
    <3>4. ASSUME NEW q \in Queries, DoneOk(q, next, pending, sent, Expected, toHost)
          PROVE  DoneOk(q, next, pending, sent, Expected, toHost')
      BY <3>2, <3>4 DEF DoneOk
    <3> QED
      BY <1>d, <3>1, <3>3, <3>4 DEF DoneInv, NoLateResponse
  <2>2. CASE ~Unexpected(rseq)
    <3>1. DoneInv'
      BY <1>4, <2>2, HearDone
    <3>2. heard' = heard
      BY <1>4, <2>2, HearSent
    <3> QED
      BY <3>1, <3>2 DEF NoLateResponse
  <2> QED
    BY <2>1, <2>2
<1>5. CASE McuStart
  <2>1. /\ Expected - seqs.receive + 1 \in 1..Len(sent)
        /\ Head(toMcu) = sent[Expected - seqs.receive + 1]
        /\ Head(toMcu).seq = Expected /\ Expected' = Expected + 1
    BY <1>5, StartIs
  <2>2. PICK asked \in Seq(Queries) :
          /\ ToSet(asked) = Queries \cap ToSet(Head(toMcu).msgs)
          /\ toHost' = toHost \o [i \in 1..Len(asked) |->
                                    Answer("data", asked[i], (mcu.next + 1) % SeqSize)]
    BY <1>5, McuStartDoes
  <2>3. UNCHANGED <<heard, receive_queue, next, pending, sent, seqs>>
    BY <1>5 DEF McuStart, host
  <2>4. PICK x \in 0..SeqSize - 1 : x = (mcu.next + 1) % SeqSize
    BY Numbers, Sizes
  <2> DEFINE w == [i \in 1..Len(asked) |-> Answer("data", asked[i], x)]
  <2>6. /\ w \in Seq(SomeAnswer) /\ Len(w) = Len(asked)
        /\ \A i \in 1..Len(w) :
             w[i] = [kind |-> "data", id |-> asked[i], seq |-> x] /\ asked[i] \in Queries
    BY AnswersTypes
  <2>7. toHost' = toHost \o w
    BY <2>2, <2>4
  <2>t. toHost \in Seq(SomeAnswer) /\ w \in Seq(SomeAnswer)
    BY <1>0, <2>6
  <2> HIDE DEF w
  <2>8. /\ Len(toHost) \in Nat /\ Len(toHost') = Len(toHost) + Len(w)
        /\ \A i \in 1..Len(toHost) : toHost'[i] = toHost[i]
        /\ \A i \in Len(toHost) + 1..Len(toHost') :
             toHost'[i] = w[i - Len(toHost)] /\ i - Len(toHost) \in 1..Len(w)
    <3>1. PICK V : V = toHost \o w
      OBVIOUS
    <3>2. /\ Len(toHost) \in Nat /\ Len(V) = Len(toHost) + Len(w)
          /\ \A i \in 1..Len(toHost) : V[i] = toHost[i]
          /\ \A i \in Len(toHost) + 1..Len(V) :
               V[i] = w[i - Len(toHost)] /\ i - Len(toHost) \in 1..Len(w)
      BY <2>t, <3>1, ConcatIs
    <3>3. toHost' = V
      BY <2>7, <3>1
    <3> QED
      BY <3>2, <3>3
  <2>9. ASSUME NEW q \in Queries, DoneOk(q, next, pending, sent, Expected, toHost)
        PROVE  DoneOk(q, next, pending, sent, Expected + 1, toHost')
    <3>1. q \notin ToSet(Head(toMcu).msgs)
      <4>1. PICK c \in 1..Len(sent) : sent[c] = Head(toMcu)
        BY <2>1
      <4>2. sent[c].seq >= Expected
        BY <1>0, <2>1, <4>1
      <4> QED
        BY <2>9, <4>1, <4>2 DEF DoneOk
    <3>2. ASSUME NEW i \in 1..Len(w) PROVE w[i].id # q
      <4>1. w[i] = [kind |-> "data", id |-> asked[i], seq |-> x]
        BY <2>6
      <4>2. i \in 1..Len(asked)
        BY <2>6
      <4>3. asked[i] \in ToSet(asked)
        BY <4>2, ToSetIs
      <4> QED
        BY <2>2, <3>1, <4>1, <4>3
    <3>3. ASSUME NEW i \in 1..Len(toHost') PROVE toHost'[i].id # q
      <4>1. CASE i \in 1..Len(toHost)
        BY <2>8, <2>9, <4>1 DEF DoneOk
      <4>2. CASE i \notin 1..Len(toHost)
        <5>1. i \in Len(toHost) + 1..Len(toHost')
          BY <2>6, <2>8, <4>2
        <5> QED
          BY <2>8, <3>2, <5>1
      <4> QED
        BY <4>1, <4>2
    <3>4. ASSUME NEW k \in 1..Len(sent), sent[k].seq >= Expected + 1 PROVE q \notin ToSet(sent[k].msgs)
      <4>1. sent[k].seq \in Nat
        BY MessagesAreNumbers
      <4>2. sent[k].seq >= Expected
        BY <1>0, <3>4, <4>1
      <4> QED
        BY <2>9, <4>2 DEF DoneOk
    <3> QED
      BY <2>9, <3>3, <3>4 DEF DoneOk
  <2> QED
    BY <1>d, <2>1, <2>3, <2>9 DEF DoneInv, NoLateResponse
<1>6. CASE KickEvent \/ WaitForAck \/ WaitForMessages \/ WaitForClock \/ UNCHANGED vars
  BY <1>6, <1>a
  DEF KickEvent, WaitForAck, WaitForMessages, WaitForClock, Write, vars, host, board
<1>7. CASE RetransmitEvent
  <2>1. Retransmit
    BY <1>7 DEF RetransmitEvent, RetransmitOnNak, RetransmitOnTimeout
  <2> QED
    BY <1>a, <2>1, RetransmitDoes DEF Retransmit, board
<1>8. ASSUME UNCHANGED host, mcu'.next = mcu.next,
             \/ \E k \in {"ack", "data"} : toHost' = Append(toHost, Answer(k, Report, mcu.next))
             \/ toHost # <<>> /\ toHost' = Tail(toHost)
             \/ toHost' = toHost
      PROVE  DoneInv' /\ NoLateResponse'
  <2>1. UNCHANGED <<heard, receive_queue, next, pending, sent, seqs>>
    BY <1>8 DEF host
  <2>2. Expected' = Expected
    BY <1>8, <2>1 DEF Expected
  <2>3. ASSUME NEW i \in 1..Len(toHost')
        PROVE  toHost'[i].id = Report \/ \E j \in 1..Len(toHost) : toHost'[i] = toHost[j]
    <3>1. CASE toHost # <<>> /\ toHost' = Tail(toHost)
      BY <1>0, <3>1, TailIs
    <3>2. ASSUME NEW k \in {"ack", "data"}, toHost' = Append(toHost, Answer(k, Report, mcu.next))
          PROVE  toHost'[i].id = Report \/ \E j \in 1..Len(toHost) : toHost'[i] = toHost[j]
      <4>0. PICK x \in SomeAnswer : x = Answer(k, Report, mcu.next)
        BY <3>2, Numbers DEF Answer, SomeAnswer
      <4>1. x.id = Report
        BY <4>0 DEF Answer
      <4>2. /\ Len(toHost') = Len(toHost) + 1 /\ Len(toHost) \in Nat
            /\ \A j \in 1..Len(toHost) : toHost'[j] = toHost[j]
            /\ toHost'[Len(toHost) + 1] = x
        BY <1>0, <3>2, <4>0, AppendIs
      <4>3. i \in 1..Len(toHost) \/ i = Len(toHost) + 1
        BY <4>2
      <4> QED
        BY <4>1, <4>2, <4>3
    <3>3. CASE toHost' = toHost
      BY <3>3
    <3> QED
      BY <1>8, <3>1, <3>2, <3>3
  <2>4. ASSUME NEW q \in Queries, DoneOk(q, next, pending, sent, Expected, toHost)
        PROVE  DoneOk(q, next, pending, sent, Expected, toHost')
    BY <1>0, <2>3, <2>4 DEF DoneOk
  <2> QED
    BY <1>d, <2>1, <2>2, <2>4 DEF DoneInv, NoLateResponse
<1>9. CASE McuFinish \/ McuReject \/ McuReport \/ LoseBlock \/ LoseAnswer
  <2>1. UNCHANGED host /\ mcu'.next = mcu.next
    BY <1>9 DEF McuFinish, McuReject, McuReport, LoseBlock, LoseAnswer, board, TypeOK
  <2> QED
    BY <1>8, <1>9, <2>1 DEF McuFinish, McuReject, McuReport, LoseBlock, LoseAnswer, Report
<1> QED
  BY <1>1, <1>2, <1>3, <1>4, <1>5, <1>6, <1>7, <1>9
  DEF Next, Host, Mcu, CommandEvent, Finished

-----------------------------------------------------------------------------
(* What becomes of a query. *)

\* Where the elements of two sequences are in their concatenation.
LEMMA JoinIs ==
  ASSUME NEW S, NEW s \in Seq(S), NEW t \in Seq(S)
  PROVE  /\ \A i \in 1..Len(s) : i \in 1..Len(s \o t) /\ (s \o t)[i] = s[i]
         /\ \A i \in 1..Len(t) : Len(s) + i \in 1..Len(s \o t) /\ (s \o t)[Len(s) + i] = t[i]
OBVIOUS

\* Nothing that was told is lost when the receiving thread takes it.
LEMMA PullTold ==
  ASSUME TypeOK, Pull, NEW q \in Queries
  PROVE  /\ IsDone(q, heard, receive_queue) => IsDone(q, heard', receive_queue')
         /\ IsEarly(q, heard, receive_queue) => IsEarly(q, heard', receive_queue')
<1>1. CASE receive_queue = <<>>
  BY <1>1 DEF Pull
<1>2. CASE receive_queue # <<>>
  <2> DEFINE K == {"data", "early", "done"}
  <2>1. PICK m \in NewsType, t \in Seq(NewsType) :
          /\ m = Head(receive_queue) /\ t = Tail(receive_queue) /\ m = receive_queue[1]
          /\ \A i \in 1..Len(receive_queue) :
               i # 1 => i - 1 \in 1..Len(t) /\ t[i - 1] = receive_queue[i]
    <3>1. receive_queue \in Seq(NewsType)
      BY DEF TypeOK, NewsType
    <3>2. /\ Tail(receive_queue) \in Seq(NewsType) /\ Head(receive_queue) \in NewsType
          /\ Head(receive_queue) = receive_queue[1] /\ Len(receive_queue) \in Nat \ {0}
          /\ Len(Tail(receive_queue)) = Len(receive_queue) - 1
          /\ \A i \in 1..Len(Tail(receive_queue)) :
               Tail(receive_queue)[i] = receive_queue[i + 1]
      BY <1>2, <3>1, TailIs
    <3>3. PICK m \in NewsType : m = Head(receive_queue)
      BY <3>2
    <3>4. PICK t \in Seq(NewsType) : t = Tail(receive_queue)
      BY <3>2
    <3>5. ASSUME NEW i \in 1..Len(receive_queue), i # 1
          PROVE  i - 1 \in 1..Len(t) /\ t[i - 1] = receive_queue[i]
      <4>1. i - 1 \in 1..Len(t) /\ (i - 1) + 1 = i
        BY <3>2, <3>4, <3>5
      <4> QED
        BY <3>2, <3>4, <4>1
    <3> QED
      BY <3>2, <3>3, <3>4, <3>5
  <2>2. /\ receive_queue' = t
        /\ heard' = IF m.id = Report THEN heard ELSE [heard EXCEPT ![m.id] = Append(@, m.kind)]
    BY <1>2, <2>1 DEF Pull
  <2>3. heard \in [Queries -> Seq(K)] /\ m.kind \in K
    BY <2>1 DEF TypeOK, NewsType
  <2>4. ToSet(heard'[q]) = ToSet(heard[q]) \cup (IF m.id = q THEN {m.kind} ELSE {})
    <3>1. q # Report
      BY SerialAssumption DEF Report
    <3>2. heard'[q] = IF m.id = q THEN Append(heard[q], m.kind) ELSE heard[q]
      BY <2>2, <2>3, <3>1
    <3>3. ToSet(Append(heard[q], m.kind)) = ToSet(heard[q]) \cup {m.kind}
      BY <2>3, ToSetAppend
    <3> QED
      BY <3>2, <3>3
  <2>5. ASSUME NEW kind, NEW i \in 1..Len(receive_queue),
               receive_queue[i].kind = kind, receive_queue[i].id = q
        PROVE  \/ kind \in ToSet(heard'[q])
               \/ \E j \in 1..Len(t) : t[j].kind = kind /\ t[j].id = q
    <3>1. CASE i = 1
      BY <2>1, <2>4, <2>5, <3>1
    <3>2. CASE i # 1
      BY <2>1, <2>5, <3>2
    <3> QED
      BY <3>1, <3>2
  <2> HIDE DEF K
  <2> QED
    BY <2>2, <2>4, <2>5 DEF IsDone, IsEarly
<1> QED
  BY <1>1, <1>2

\* What was told stays told when more is queued, and what is queued is told.
LEMMA QueueTold ==
  ASSUME NEW q, NEW h, NEW rq \in Seq(NewsType), NEW u \in Seq(NewsType)
  PROVE  /\ IsDone(q, h, rq) => IsDone(q, h, rq \o u)
         /\ IsEarly(q, h, rq) => IsEarly(q, h, rq \o u)
         /\ \A j \in 1..Len(u) : u[j].id = q /\ u[j].kind \in {"early", "done"} =>
              IsDone(q, h, rq \o u) \/ IsEarly(q, h, rq \o u)
<1>1. PICK V : V = rq \o u
  OBVIOUS
<1>2. /\ \A i \in 1..Len(rq) : i \in 1..Len(V) /\ V[i] = rq[i]
      /\ \A j \in 1..Len(u) : Len(rq) + j \in 1..Len(V) /\ V[Len(rq) + j] = u[j]
  BY <1>1, JoinIs
<1>3. ASSUME NEW kind, NEW i \in 1..Len(rq), rq[i].kind = kind, rq[i].id = q
      PROVE  \E k \in 1..Len(V) : V[k].kind = kind /\ V[k].id = q
  BY <1>2, <1>3
<1>4. ASSUME NEW j \in 1..Len(u), u[j].id = q
      PROVE  \E k \in 1..Len(V) : V[k].kind = u[j].kind /\ V[k].id = q
  BY <1>2, <1>4
<1>5. /\ IsDone(q, h, rq) => IsDone(q, h, V)
      /\ IsEarly(q, h, rq) => IsEarly(q, h, V)
  BY <1>3 DEF IsDone, IsEarly
<1>6. ASSUME NEW j \in 1..Len(u), u[j].id = q, u[j].kind \in {"early", "done"}
      PROVE  IsDone(q, h, V) \/ IsEarly(q, h, V)
  BY <1>4, <1>6 DEF IsDone, IsEarly
<1> QED
  BY <1>1, <1>5, <1>6

\* A query waits, or its notification does, or has been given.
LEMMA StepTell ==
  ASSUME TypeOK, TellInv, [Next]_vars
  PROVE  TellInv'
<1>0. /\ notify_queue \in Seq(NoteType) /\ Len(notify_queue) \in Nat
      /\ receive_queue \in Seq(NewsType) /\ pending \in Seq(Nat) /\ next \in Nat
      /\ \A q \in Queries : q \in Nat
  BY MessagesAreNumbers, SerialAssumption DEF TypeOK, NoteType, NewsType
<1>t. ASSUME NEW q \in Queries, q < next
      PROVE  \/ q \in ToSet(pending)
             \/ \E k \in 1..Len(notify_queue) : notify_queue[k].id = q
             \/ IsEarly(q, heard, receive_queue) \/ IsDone(q, heard, receive_queue)
  BY <1>t DEF TellInv
<1>1. CASE Send
  <2>1. /\ pending' = Append(pending, next) /\ next' = next + 1
        /\ UNCHANGED <<notify_queue, heard, receive_queue>>
    BY <1>1 DEF Send
  <2>2. ToSet(Append(pending, next)) = ToSet(pending) \cup {next}
    BY <1>0, ToSetAppend
  <2>3. \A q \in Queries : q < next + 1 => q < next \/ q = next
    BY <1>0
  <2> QED
    BY <2>1, <2>2, <2>3 DEF TellInv
<1>2. CASE Fill
  <2>1. PICK n \in 1..Len(pending), b \in Block, asked \in Seq(Queries) :
          /\ b.msgs = SubSeq(pending, 1, n)
          /\ ToSet(asked) = Queries \cap ToSet(b.msgs)
          /\ pending' = SubSeq(pending, n + 1, Len(pending))
          /\ notify_queue' = notify_queue \o
                               [i \in 1..Len(asked) |-> [id |-> asked[i], seq |-> seqs.send]]
    BY <1>2, FillDoes
  <2>2. UNCHANGED <<next, heard, receive_queue>> /\ seqs.send \in Nat /\ n \in 0..Len(pending)
    <3>1. UNCHANGED <<next, heard, receive_queue>>
      BY <1>2 DEF Fill
    <3>2. seqs.send \in Nat
      BY DEF TypeOK
    <3> QED
      BY <3>1, <3>2
  <2> DEFINE w == [i \in 1..Len(asked) |-> [id |-> asked[i], seq |-> seqs.send]]
  <2>3. /\ w \in Seq(NoteType) /\ Len(w) = Len(asked)
        /\ \A i \in 1..Len(w) : w[i].id = asked[i]
    BY <2>2, NotesTypes
  <2>4. notify_queue' = notify_queue \o w
    BY <2>1
  <2> HIDE DEF w
  <2>5. /\ \A k \in 1..Len(notify_queue) :
             k \in 1..Len(notify_queue') /\ notify_queue'[k] = notify_queue[k]
        /\ \A i \in 1..Len(w) :
             Len(notify_queue) + i \in 1..Len(notify_queue') /\ notify_queue'[Len(notify_queue) + i] = w[i]
    <3>0. notify_queue \in Seq(NoteType) /\ w \in Seq(NoteType)
      BY <1>0, <2>3
    <3>1. PICK V : V = notify_queue \o w
      OBVIOUS
    <3>2. /\ \A k \in 1..Len(notify_queue) : k \in 1..Len(V) /\ V[k] = notify_queue[k]
          /\ \A i \in 1..Len(w) : Len(notify_queue) + i \in 1..Len(V) /\ V[Len(notify_queue) + i] = w[i]
      BY <3>0, <3>1, JoinIs
    <3> QED
      BY <2>4, <3>1, <3>2
  <2>6. ToSet(pending) = ToSet(b.msgs) \cup ToSet(pending')
    BY <1>0, <2>1, <2>2, ToSetSplit
  <2>7. ASSUME NEW q \in Queries, q \in ToSet(b.msgs)
        PROVE  \E k \in 1..Len(notify_queue') : notify_queue'[k].id = q
    <3>1. PICK i \in 1..Len(asked) : asked[i] = q
      BY <2>1, <2>7, ToSetIs
    <3> QED
      BY <2>3, <2>5, <3>1
  <2>8. ASSUME NEW k \in 1..Len(notify_queue)
        PROVE  \E l \in 1..Len(notify_queue') : notify_queue'[l].id = notify_queue[k].id
    BY <2>5
  <2>9. ASSUME NEW q \in Queries, q < next
        PROVE  \/ q \in ToSet(pending')
               \/ \E k \in 1..Len(notify_queue') : notify_queue'[k].id = q
               \/ IsEarly(q, heard, receive_queue) \/ IsDone(q, heard, receive_queue)
    BY <1>t, <2>6, <2>7, <2>8, <2>9
  <2> QED
    BY <2>2, <2>9 DEF TellInv
<1>3. CASE Pull
  <2>1. UNCHANGED <<next, pending, notify_queue>>
    BY <1>3 DEF Pull
  <2> QED
    BY <1>3, <2>1, PullTold DEF TellInv
<1>4. CASE HandleMessage /\ ~Unexpected(FullSeq(Head(toHost).seq))
  <2> DEFINE m == Head(toHost)  rseq == FullSeq(m.seq)
  <2>1. PICK n \in 0..Len(notify_queue), w \in Seq(NewsType), v \in Seq(NewsType) :
          HandleNews(rseq, m, n, w, v)
    BY <1>4, HandleNewsDoes
  <2> HIDE DEF rseq, m
  <2>2. UNCHANGED <<next, pending, heard>>
    BY <1>4 DEF HandleMessage, host
  <2> DEFINE u == w \o v
  <2>3. /\ u \in Seq(NewsType) /\ Len(w) = n
        /\ \A i \in 1..n : i \in 1..Len(u) /\ u[i] = w[i]
    BY <2>1 DEF HandleNews
  <2>4. receive_queue' = receive_queue \o u
    BY <2>1 DEF HandleNews
  <2> HIDE DEF u
  <2>5. notify_queue' = SubSeq(notify_queue, n + 1, Len(notify_queue))
    BY <2>1 DEF HandleNews
  <2>6. ASSUME NEW k \in 1..Len(notify_queue), k > n
        PROVE  k - n \in 1..Len(notify_queue') /\ notify_queue'[k - n] = notify_queue[k]
    <3>1. PICK V : V = SubSeq(notify_queue, n + 1, Len(notify_queue))
      OBVIOUS
    <3>2. Len(V) = Len(notify_queue) - n /\ \A i \in 1..Len(notify_queue) - n : V[i] = notify_queue[i + n]
      BY <1>0, <3>1, RestIs
    <3>3. k - n \in 1..Len(notify_queue) - n /\ (k - n) + n = k
      BY <1>0, <2>6
    <3> QED
      BY <2>5, <3>1, <3>2, <3>3
  <2>7. ASSUME NEW q \in Queries, NEW k \in 1..Len(notify_queue), notify_queue[k].id = q
        PROVE  \/ \E l \in 1..Len(notify_queue') : notify_queue'[l].id = q
               \/ IsEarly(q, heard, receive_queue') \/ IsDone(q, heard, receive_queue')
    <3>1. CASE k > n
      BY <2>6, <2>7, <3>1
    <3>2. CASE k \in 1..n
      <4>1. u[k].id = q /\ u[k].kind \in {"early", "done"} /\ k \in 1..Len(u)
        BY <2>1, <2>3, <2>7, <3>2 DEF HandleNews
      <4> QED
        BY <1>0, <2>3, <2>4, <4>1, QueueTold
    <3> QED
      BY <1>0, <3>1, <3>2
  <2>8. ASSUME NEW q \in Queries, q < next
        PROVE  \/ q \in ToSet(pending)
               \/ \E k \in 1..Len(notify_queue') : notify_queue'[k].id = q
               \/ IsEarly(q, heard, receive_queue') \/ IsDone(q, heard, receive_queue')
    <3>1. CASE IsEarly(q, heard, receive_queue) \/ IsDone(q, heard, receive_queue)
      BY <1>0, <2>3, <2>4, <3>1, QueueTold
    <3> QED
      BY <1>t, <2>7, <2>8, <3>1
  <2> QED
    BY <2>2, <2>8 DEF TellInv
<1>5. CASE \/ HandleMessage /\ Unexpected(FullSeq(Head(toHost).seq))
           \/ KickEvent \/ WaitForAck \/ WaitForMessages \/ WaitForClock \/ RetransmitEvent
           \/ McuStart \/ McuFinish \/ McuReject \/ McuReport \/ LoseBlock \/ LoseAnswer
           \/ UNCHANGED vars
  <2>1. UNCHANGED <<next, pending, notify_queue, heard, receive_queue>>
    BY <1>5 DEF HandleMessage, KickEvent, WaitForAck, WaitForMessages, WaitForClock, Write,
                RetransmitEvent, RetransmitOnNak, RetransmitOnTimeout, Retransmit, McuStart,
                McuFinish, McuReject, McuReport, LoseBlock, LoseAnswer, vars, host
  <2> QED
    BY <2>1 DEF TellInv
<1> QED
  BY <1>1, <1>2, <1>3, <1>4, <1>5
  DEF Next, Host, Mcu, CommandEvent, Finished

-----------------------------------------------------------------------------
(* The time that goes with a response. *)

LEMMA StepTime ==
  ASSUME TypeOK, WindowInv, TimeInv, [Next]_vars
  PROVE  TimeInv'
<1> USE DEF WindowInv
<1>0. seqs.send \in Nat /\ seqs.receive \in Nat /\ seqs.retransmit \in Nat /\ Expected \in Nat
  BY Numbers DEF TypeOK
<1>1. CASE Fill
  <2>1. /\ seqs'.send = seqs.send + 1 /\ seqs'.receive = seqs.receive
        /\ seqs'.retransmit = seqs.retransmit /\ UNCHANGED <<sampled, resent>>
    <3>1. seqs' = [seqs EXCEPT !.send = @ + 1] /\ seqs \in SqType
      BY <1>1 DEF Fill, TypeOK, SqType
    <3> QED
      BY <1>1, <3>1 DEF Fill, SqType
  <2> QED
    BY <1>0, <2>1 DEF TimeInv
<1>2. CASE HandleMessage
  <2> DEFINE m == Head(toHost)  rseq == FullSeq(m.seq)
  <2>1. CASE Unexpected(rseq)
    BY <1>2, <2>1 DEF HandleMessage, host, TimeInv
  <2>2. CASE ~Unexpected(rseq)
    <3>1. PICK d \in Nat :
            /\ HandleWindow(rseq) /\ seqs'.receive = rseq
            /\ Acknowledges(d) \/ Connects(rseq)
            /\ UNCHANGED resent
      BY <1>2, <2>2, HearSent
    <3> HIDE DEF rseq, m
    <3>2. seqs'.retransmit = seqs.retransmit /\ sampled' \in {0, rseq - 1}
      BY <3>1 DEF HandleWindow, TimeInv
    <3>3. seqs'.send = seqs.send \/ (seqs'.send = Expected /\ Expected > seqs.send)
      BY <3>1 DEF Acknowledges, Connects
    <3> QED
      BY <1>0, <3>1, <3>2, <3>3 DEF TimeInv
  <2> QED
    BY <2>1, <2>2
<1>3. CASE RetransmitEvent
  <2>1. Retransmit
    BY <1>3 DEF RetransmitEvent, RetransmitOnNak, RetransmitOnTimeout
  <2>2. /\ seqs'.send = seqs.send /\ seqs'.receive = seqs.receive /\ seqs'.retransmit = seqs.send
        /\ resent' = resent \cup {sent[i].seq : i \in 1..Len(sent)} /\ UNCHANGED sampled
    BY <2>1, RetransmitDoes DEF Retransmit
  <2>3. ASSUME NEW s \in resent' PROVE s < seqs.send
    <3>1. CASE s \in resent
      <4>1. s < seqs.retransmit /\ seqs.retransmit <= seqs.send /\ s \in Nat
        BY <3>1 DEF TimeInv, TypeOK
      <4> QED
        BY <1>0, <4>1
    <3>2. CASE s \in {sent[i].seq : i \in 1..Len(sent)}
      <4>1. PICK i \in 1..Len(sent) : s = sent[i].seq
        BY <3>2
      <4> QED
        BY <1>0, <4>1, WireTypes, WindowIs DEF SentInv
    <3> QED
      BY <2>2, <3>1, <3>2
  <2> QED
    BY <1>0, <2>2, <2>3 DEF TimeInv
<1>4. CASE Send \/ Pull \/ KickEvent \/ WaitForAck \/ WaitForMessages \/ WaitForClock
           \/ McuStart \/ McuFinish \/ McuReject \/ McuReport \/ LoseBlock \/ LoseAnswer
           \/ UNCHANGED vars
  <2>1. UNCHANGED <<seqs, sampled, resent>>
    BY <1>4 DEF Send, Pull, KickEvent, WaitForAck, WaitForMessages, WaitForClock, Write, McuStart,
                McuFinish, McuReject, McuReport, LoseBlock, LoseAnswer, vars, host
  <2> QED
    BY <2>1 DEF TimeInv
<1> QED
  BY <1>1, <1>2, <1>3, <1>4
  DEF Next, Host, Mcu, CommandEvent, Finished

-----------------------------------------------------------------------------
(* How many messages there are in some blocks. *)

LEMMA PlacesAre ==
  ASSUME NEW q \in Seq(Block), NEW I \in SUBSET (1..Len(q))
  PROVE  /\ \A k \in I : q[k] \in Block /\ Len(q[k].msgs) \in Nat
         /\ \A p : p \in Places(q, I) <=> \E k \in I : \E i \in 1..Len(q[k].msgs) : p = <<k, i>>
<1>1. ASSUME NEW k \in I
      PROVE  q[k] \in Block /\ Len(q[k].msgs) \in Nat /\ DOMAIN q[k].msgs = 1..Len(q[k].msgs)
  <2>1. q[k] \in Block
    OBVIOUS
  <2>2. q[k].msgs \in Seq(1..Messages)
    BY <2>1 DEF Block
  <2> QED
    BY <2>1, <2>2
<1>2. ASSUME NEW p, NEW k \in I
      PROVE  p \in {k} \X DOMAIN q[k].msgs <=> \E i \in 1..Len(q[k].msgs) : p = <<k, i>>
  BY <1>1
<1>3. ASSUME NEW p
      PROVE  p \in Places(q, I) <=> \E k \in I : p \in {k} \X DOMAIN q[k].msgs
  BY DEF Places
<1> QED
  BY <1>1, <1>2, <1>3

LEMMA PlacesAt ==
  ASSUME NEW q \in Seq(Block), NEW k \in 1..Len(q)
  PROVE  IsFiniteSet(Places(q, {k})) /\ Cardinality(Places(q, {k})) = Len(q[k].msgs)
<1>0. q[k] \in Block
  OBVIOUS
<1>1. PICK n \in Nat : n = Len(q[k].msgs) /\ DOMAIN q[k].msgs = 1..n
  <2>1. q[k].msgs \in Seq(1..Messages)
    BY <1>0 DEF Block
  <2> QED
    BY <2>1
<1>2. Places(q, {k}) = {k} \X (1..n)
  BY <1>1 DEF Places
<1>3. IsFiniteSet({k}) /\ Cardinality({k}) = 1
  BY FS_Singleton, Zenon
<1>4. IsFiniteSet(1..n) /\ Cardinality(1..n) = n
  <2>1. IsFiniteSet(1..n) /\ Cardinality(1..n) = IF 1 > n THEN 0 ELSE n - 1 + 1
    BY FS_Interval
  <2> QED
    BY <2>1
<1>5. /\ IsFiniteSet({k} \X (1..n))
      /\ Cardinality({k} \X (1..n)) = Cardinality({k}) * Cardinality(1..n)
  BY <1>3, <1>4, FS_Product
<1>6. Cardinality({k} \X (1..n)) = 1 * n
  BY <1>3, <1>4, <1>5
<1>7. 1 * n = n
  OBVIOUS
<1> QED
  BY <1>1, <1>2, <1>5, <1>6, <1>7

LEMMA PlacesFinite ==
  ASSUME NEW q \in Seq(Block), NEW I \in SUBSET (1..Len(q))
  PROVE  IsFiniteSet(Places(q, I)) /\ Cardinality(Places(q, I)) \in Nat
<1> DEFINE P == [k \in I |-> Places(q, {k})]
           R == {P[k] : k \in I}
<1>1. Len(q) \in Nat
  OBVIOUS
<1>2. IsFiniteSet(1..Len(q))
  BY <1>1, FS_Interval
<1>3. IsFiniteSet(I)
  BY <1>2, FS_Subset
<1>4. P \in Surjection(I, R)
  BY DEF Surjection
<1>5. IsFiniteSet(R)
  BY <1>3, <1>4, FS_Surjection
<1>6. ASSUME NEW T \in R PROVE IsFiniteSet(T)
  <2>1. PICK k \in I : T = P[k]
    OBVIOUS
  <2>2. k \in 1..Len(q) /\ T = Places(q, {k})
    BY <2>1
  <2> QED
    BY <2>2, PlacesAt
<1>7. Places(q, I) = UNION R
  BY DEF Places
<1> HIDE DEF R
<1>8. IsFiniteSet(Places(q, I))
  BY <1>5, <1>6, <1>7, FS_UNION
<1> QED
  BY <1>8, FS_CardinalityType

\* Blocks that are not the same count separately.
LEMMA PlacesSplit ==
  ASSUME NEW q \in Seq(Block), NEW I \in SUBSET (1..Len(q)), NEW J \in SUBSET (1..Len(q)),
         I \cap J = {}
  PROVE  Cardinality(Places(q, I \cup J)) = Cardinality(Places(q, I)) + Cardinality(Places(q, J))
<1>1. Places(q, I \cup J) = Places(q, I) \cup Places(q, J)
  BY DEF Places
<1>2. Places(q, I) \cap Places(q, J) = {}
  <2> SUFFICES ASSUME NEW p, p \in Places(q, I), p \in Places(q, J) PROVE FALSE
    OBVIOUS
  <2>1. PICK k \in I : \E i \in 1..Len(q[k].msgs) : p = <<k, i>>
    BY PlacesAre
  <2>2. PICK l \in J : \E i \in 1..Len(q[l].msgs) : p = <<l, i>>
    BY PlacesAre
  <2> QED
    BY <2>1, <2>2
<1>3. /\ IsFiniteSet(Places(q, I)) /\ Cardinality(Places(q, I)) \in Nat
      /\ IsFiniteSet(Places(q, J)) /\ Cardinality(Places(q, J)) \in Nat
  BY PlacesFinite
<1> DEFINE A == Places(q, I)  B == Places(q, J)
<1> HIDE DEF A, B
<1>4. IsFiniteSet(A) /\ IsFiniteSet(B) /\ Cardinality(A) \in Nat /\ Cardinality(B) \in Nat
  BY <1>3 DEF A, B
<1>5. Cardinality(A \cup B) = Cardinality(A) + Cardinality(B) - Cardinality(A \cap B)
  BY <1>4, FS_Union
<1>6. Cardinality(A \cap B) = 0
  <2>1. A \cap B = {}
    BY <1>2 DEF A, B
  <2> QED
    BY <2>1, FS_EmptySet
<1>7. Cardinality(A \cup B) = Cardinality(A) + Cardinality(B)
  BY <1>4, <1>5, <1>6
<1> QED
  BY <1>1, <1>7 DEF A, B

\* Blocks that are found again in another sequence, each in its own place, do
\* not hold more than those there.
LEMMA PlacesEmbed ==
  ASSUME NEW q \in Seq(Block), NEW I \in SUBSET (1..Len(q)),
         NEW Q \in Seq(Block), NEW J \in SUBSET (1..Len(Q)), NEW g \in [I -> J],
         \A k, l \in I : g[k] = g[l] => k = l,
         \A k \in I : Len(q[k].msgs) <= Len(Q[g[k]].msgs)
  PROVE  Cardinality(Places(q, I)) <= Cardinality(Places(Q, J))
<1> DEFINE A == Places(q, I)  B == Places(Q, J)
           f == [p \in A |-> <<g[p[1]], p[2]>>]
<1>1. ASSUME NEW p \in A
      PROVE  /\ p[1] \in I /\ p = <<p[1], p[2]>>
             /\ f[p] \in B
  <2>0. PICK k \in I : \E i \in 1..Len(q[k].msgs) : p = <<k, i>>
    BY PlacesAre
  <2>1. PICK i \in 1..Len(q[k].msgs) : p = <<k, i>>
    BY <2>0
  <2>2. g[k] \in J /\ f[p] = <<g[k], i>>
    BY <2>1
  <2>3. Len(q[k].msgs) \in Nat /\ Len(Q[g[k]].msgs) \in Nat /\ Len(q[k].msgs) <= Len(Q[g[k]].msgs)
    BY <2>2, PlacesAre
  <2>4. i \in 1..Len(Q[g[k]].msgs)
    BY <2>3
  <2>5. <<g[k], i>> \in B
    BY <2>2, <2>4, PlacesAre
  <2> QED
    BY <2>1, <2>2, <2>5
<1>2. ASSUME NEW p \in A, NEW r \in A, f[p] = f[r] PROVE p = r
  <2>1. /\ p[1] \in I /\ p = <<p[1], p[2]>> /\ r[1] \in I /\ r = <<r[1], r[2]>>
    BY <1>1
  <2>2. g[p[1]] = g[r[1]] /\ p[2] = r[2]
    BY <1>2
  <2> QED
    BY <2>1, <2>2
<1>3. f \in [A -> B]
  BY <1>1
<1>4. f \in Injection(A, B)
  BY <1>2, <1>3 DEF Injection, IsInjective
<1>5. IsFiniteSet(B)
  BY PlacesFinite
<1> HIDE DEF f, A, B
<1>6. Cardinality(A) <= Cardinality(B)
  BY <1>4, <1>5, FS_Injection
<1> QED
  BY <1>6 DEF A, B

LEMMA PlacesMono ==
  ASSUME NEW q \in Seq(Block), NEW J \in SUBSET (1..Len(q)), NEW I \in SUBSET J
  PROVE  Cardinality(Places(q, I)) <= Cardinality(Places(q, J))
<1>1. Places(q, I) \in SUBSET Places(q, J)
  BY DEF Places
<1>2. IsFiniteSet(Places(q, J))
  BY PlacesFinite
<1> QED
  BY <1>1, <1>2, FS_Subset

LEMMA TotalIs ==
  ASSUME NEW q \in Seq(Block)
  PROVE  TotalLen(q) = Cardinality(Places(q, 1..Len(q))) /\ TotalLen(q) \in Nat
<1>1. DOMAIN q = 1..Len(q)
  OBVIOUS
<1>2. TotalLen(q) = Cardinality(Places(q, 1..Len(q)))
  BY <1>1 DEF TotalLen
<1> QED
  BY <1>2, PlacesFinite

LEMMA TotalEmpty == TotalLen(<<>>) = 0
<1>1. <<>> \in Seq(Block) /\ Len(<<>>) = 0 /\ 1..0 = {}
  OBVIOUS
<1>2. TotalLen(<<>>) = Cardinality(Places(<<>>, {}))
  BY <1>1, TotalIs
<1>3. Places(<<>>, {}) = {}
  BY DEF Places
<1> QED
  BY <1>2, <1>3, FS_EmptySet

\* The blocks of some places with one more.
LEMMA PlacesWith ==
  ASSUME NEW q \in Seq(Block), NEW I \in SUBSET (1..Len(q)), NEW k \in 1..Len(q), k \notin I
  PROVE  /\ Cardinality(Places(q, I)) + Len(q[k].msgs) = Cardinality(Places(q, I \cup {k}))
         /\ Cardinality(Places(q, I)) + Len(q[k].msgs) <= TotalLen(q)
<1>1. {k} \in SUBSET (1..Len(q)) /\ I \cap {k} = {}
  OBVIOUS
<1>2. Cardinality(Places(q, I \cup {k})) = Cardinality(Places(q, I)) + Cardinality(Places(q, {k}))
  BY <1>1, PlacesSplit
<1>3. Cardinality(Places(q, {k})) = Len(q[k].msgs)
  BY PlacesAt
<1>4. I \cup {k} \in SUBSET (1..Len(q)) /\ 1..Len(q) \in SUBSET (1..Len(q))
  OBVIOUS
<1>5. Cardinality(Places(q, I \cup {k})) <= TotalLen(q)
  BY <1>4, PlacesMono, TotalIs
<1> QED
  BY <1>2, <1>3, <1>5

LEMMA TotalAppend ==
  ASSUME NEW q \in Seq(Block), NEW b \in Block
  PROVE  TotalLen(Append(q, b)) <= TotalLen(q) + Len(b.msgs)
<1> DEFINE Q == Append(q, b)  n == Len(q)
<1>1. /\ Q \in Seq(Block) /\ n \in Nat /\ Len(Q) = n + 1 /\ Q[n + 1] = b
      /\ \A i \in 1..n : Q[i] = q[i]
  BY AppendIs
<1>a. n = Len(q)
  OBVIOUS
<1> HIDE DEF Q, n
<1>2. /\ 1..n \in SUBSET (1..Len(Q)) /\ n + 1 \in 1..Len(Q) /\ n + 1 \notin 1..n
      /\ (1..n) \cup {n + 1} = 1..Len(Q) /\ 1..n \in SUBSET (1..Len(q))
  BY <1>1, <1>a
<1>3. TotalLen(Q) = Cardinality(Places(Q, 1..n)) + Len(b.msgs)
  <2>1. Cardinality(Places(Q, 1..n)) + Len(Q[n + 1].msgs)
          = Cardinality(Places(Q, (1..n) \cup {n + 1}))
    <3>1. PICK m : m = n + 1
      OBVIOUS
    <3>2. m \in 1..Len(Q) /\ m \notin 1..n /\ 1..n \in SUBSET (1..Len(Q))
      BY <1>2, <3>1
    <3>3. Cardinality(Places(Q, 1..n)) + Len(Q[m].msgs) = Cardinality(Places(Q, (1..n) \cup {m}))
      BY <1>1, <3>2, PlacesWith
    <3> QED
      BY <3>1, <3>3
  <2> QED
    BY <1>1, <1>2, <2>1, TotalIs
<1>4. Cardinality(Places(Q, 1..n)) <= TotalLen(q)
  <2> DEFINE g == [i \in 1..n |-> i]
  <2>1. g \in [1..n -> 1..n] /\ \A i \in 1..n : g[i] = i
    OBVIOUS
  <2>2. ASSUME NEW i \in 1..n PROVE Len(Q[i].msgs) <= Len(q[g[i]].msgs)
    <3>1. Q[i] = q[g[i]] /\ Len(q[i].msgs) \in Nat
      BY <1>1, <1>2, <2>1, PlacesAre
    <3> QED
      BY <2>1, <3>1
  <2> HIDE DEF g
  <2>3. \A i, j \in 1..n : g[i] = g[j] => i = j
    BY <2>1
  <2>4. Cardinality(Places(Q, 1..n)) <= Cardinality(Places(q, 1..n))
    BY <1>1, <1>2, <2>1, <2>2, <2>3, PlacesEmbed
  <2> QED
    BY <1>a, <2>4, TotalIs
<1>5. /\ TotalLen(q) \in Nat /\ Cardinality(Places(Q, 1..n)) \in Nat /\ Len(b.msgs) \in Nat
  <2>1. b.msgs \in Seq(1..Messages)
    BY DEF Block
  <2> QED
    BY <1>1, <1>2, <2>1, TotalIs, PlacesFinite
<1>6. TotalLen(Q) <= TotalLen(q) + Len(b.msgs)
  BY <1>3, <1>4, <1>5
<1> QED
  BY <1>6 DEF Q

\* What stays behind the first d blocks, and the last of these.
LEMMA TotalRest ==
  ASSUME NEW q \in Seq(Block), NEW d \in 1..Len(q), NEW Q \in Seq(Block), Len(Q) = Len(q) - d,
         \A k \in 1..Len(Q) : Q[k] = q[k + d] /\ k + d \in 1..Len(q)
  PROVE  TotalLen(Q) + Len(q[d].msgs) <= TotalLen(q)
<1> DEFINE J == d + 1..Len(q)  I == 1..Len(Q)  g == [k \in I |-> k + d]
<1>1. Len(q) \in Nat /\ Len(Q) \in Nat /\ d \in Nat
  OBVIOUS
<1>2. J \in SUBSET (1..Len(q)) /\ d \notin J /\ I \in SUBSET (1..Len(Q))
  BY <1>1
<1>3. g \in [I -> J] /\ \A k \in I : g[k] = k + d
  BY <1>1
<1>4. ASSUME NEW k \in I PROVE Len(Q[k].msgs) <= Len(q[g[k]].msgs)
  <2>1. Q[k] = q[g[k]]
    BY <1>3
  <2>2. Len(Q[k].msgs) \in Nat
    BY PlacesAre
  <2> QED
    BY <2>1, <2>2
<1> HIDE DEF g
<1>5. \A k, l \in I : g[k] = g[l] => k = l
  BY <1>1, <1>3
<1> HIDE DEF J
<1>6. Cardinality(Places(Q, I)) <= Cardinality(Places(q, J))
  BY <1>2, <1>3, <1>4, <1>5, PlacesEmbed
<1>7. Cardinality(Places(q, J)) + Len(q[d].msgs) <= TotalLen(q)
  BY <1>2, PlacesWith
<1>8. TotalLen(Q) = Cardinality(Places(Q, I))
  BY TotalIs
<1>9. /\ Cardinality(Places(q, J)) \in Nat /\ Cardinality(Places(Q, I)) \in Nat
      /\ TotalLen(q) \in Nat /\ Len(q[d].msgs) \in Nat
  <2>1. Cardinality(Places(q, J)) \in Nat /\ Cardinality(Places(Q, I)) \in Nat
    BY <1>2, PlacesFinite
  <2>2. Len(q[d].msgs) \in Nat
    BY PlacesAre
  <2> QED
    BY <2>1, <2>2, TotalIs
<1> QED
  BY <1>6, <1>7, <1>8, <1>9

-----------------------------------------------------------------------------
(* The window in messages. *)

\* What a message from the board tells of the block acknowledged last.
LEMMA HearLast ==
  ASSUME TypeOK, HandleMessage, NEW m, m = Head(toHost), NEW rseq, rseq = FullSeq(m.seq),
         ~Unexpected(rseq), NEW d \in Nat, rseq = seqs.receive + d
  PROVE  /\ seqs'.last_ack = (IF m.kind = "ack" /\ seqs.last_ack < rseq THEN rseq ELSE seqs.last_ack)
         /\ d \in 1..Len(sent) => last_len' = Len(sent[d].msgs)
         /\ d \notin 1..Len(sent) => last_len' = last_len
<1>1. seqs \in SqType /\ seqs.receive \in Nat /\ Len(sent) \in Nat /\ rseq \in Nat
  <2>1. seqs \in SqType /\ seqs.receive \in Nat /\ Len(sent) \in Nat
    BY DEF TypeOK, SqType, Blocks
  <2> QED
    BY <2>1
<1>2. CASE rseq = seqs.receive
  <2>1. last_len' = last_len /\ seqs' = WithAck(rseq, m, seqs)
    BY <1>2 DEF HandleMessage
  <2>2. d = 0
    BY <1>1, <1>2
  <2> QED
    BY <1>1, <2>1, <2>2 DEF WithAck, SqType
<1>3. CASE rseq # seqs.receive
  <2> DEFINE n == Acked(rseq)
             s == [seqs EXCEPT !.receive = rseq, !.send = IF n = rseq - seqs.receive THEN @ ELSE rseq]
  <2>1. UpdateReceiveSeq(rseq, m)
    BY <1>3 DEF HandleMessage
  <2>2. /\ seqs' = WithAck(rseq, m, s)
        /\ n = rseq - seqs.receive => last_len' = Len(sent[n].msgs)
        /\ n # rseq - seqs.receive => last_len' = last_len
    BY <2>1 DEF UpdateReceiveSeq
  <2>3. s \in SqType /\ s.last_ack = seqs.last_ack
    BY <1>1 DEF SqType
  <2>4. rseq - seqs.receive = d /\ d # 0
    BY <1>1, <1>3
  <2>5. /\ d <= Len(sent) => n = d
        /\ d > Len(sent) => n # d
    BY <1>1, <2>4 DEF Acked
  <2> HIDE DEF n, s
  <2>6. seqs'.last_ack = (IF m.kind = "ack" /\ seqs.last_ack < rseq THEN rseq ELSE seqs.last_ack)
    BY <2>2, <2>3 DEF WithAck, SqType
  <2> QED
    BY <1>1, <2>2, <2>4, <2>5, <2>6
<1> QED
  BY <1>2, <1>3

\* What is put in a block fits in the window.
LEMMA FillFits ==
  ASSUME TypeOK, Fill
  PROVE  \E b \in Block :
           /\ sent' = Append(sent, b) /\ Len(b.msgs) \in Nat /\ Len(b.msgs) <= BlockMax
           /\ seqs.send > seqs.receive =>
                Held(sent, last_len, seqs.last_ack, seqs.receive) + BlockMax <= RecvWindow
           /\ seqs'.last_ack = seqs.last_ack /\ seqs'.receive = seqs.receive /\ last_len' = last_len
<1>1. PICK n \in 1..Len(pending) :
        /\ n <= BlockMax
        /\ sent' = Append(sent, [seq |-> seqs.send, msgs |-> SubSeq(pending, 1, n)])
  BY DEF Fill
<1> DEFINE b == [seq |-> seqs.send, msgs |-> SubSeq(pending, 1, n)]
<1>2. b \in Block /\ Len(b.msgs) = n
  <2>1. pending \in Seq(1..Messages) /\ n \in 0..Len(pending) /\ seqs.send \in Nat
    BY DEF TypeOK
  <2> QED
    BY <2>1, FrontIs DEF Block
<1>3. ASSUME seqs.send > seqs.receive
      PROVE  Held(sent, last_len, seqs.last_ack, seqs.receive) + BlockMax <= RecvWindow
  <2>1. ~(TotalLen(sent) + BlockMax + (IF seqs.last_ack < seqs.receive THEN last_len ELSE 0)
            > RecvWindow)
    BY <1>3 DEF Fill, WindowFull
  <2>2. /\ TotalLen(sent) \in Nat /\ BlockMax \in Nat /\ RecvWindow \in Nat
        /\ (IF seqs.last_ack < seqs.receive THEN last_len ELSE 0) \in Nat
    BY TotalIs, SerialAssumption DEF TypeOK, Blocks
  <2> QED
    BY <2>1, <2>2 DEF Held
<1>4. seqs'.last_ack = seqs.last_ack /\ seqs'.receive = seqs.receive /\ last_len' = last_len
  <2>1. seqs' = [seqs EXCEPT !.send = @ + 1] /\ seqs \in SqType /\ last_len' = last_len
    BY DEF Fill, TypeOK, SqType
  <2> QED
    BY <2>1 DEF SqType
<1>5. n \in Nat
  OBVIOUS
<1> QED
  BY <1>1, <1>2, <1>3, <1>4, <1>5

LEMMA LoadTypes ==
  ASSUME TypeOK
  PROVE  /\ TotalLen(sent) \in Nat /\ BlockMax \in Nat /\ RecvWindow \in Nat
         /\ BlockMax + BlockMax <= RecvWindow
         /\ last_len \in Nat /\ seqs.last_ack \in Nat /\ seqs.receive \in Nat
         /\ Held(sent, last_len, seqs.last_ack, seqs.receive) \in Nat
         /\ sent \in Seq(Block) /\ Len(sent) \in Nat
         /\ \A k \in 1..Len(sent) : Len(sent[k].msgs) \in Nat
<1>1. sent \in Seq(Block) /\ last_len \in Nat /\ seqs.last_ack \in Nat /\ seqs.receive \in Nat
  BY DEF TypeOK, Blocks
<1>2. TotalLen(sent) \in Nat
  BY <1>1, TotalIs
<1>3. BlockMax \in Nat /\ RecvWindow \in Nat /\ BlockMax + BlockMax <= RecvWindow
  BY SerialAssumption
<1>4. Held(sent, last_len, seqs.last_ack, seqs.receive) \in Nat
  BY <1>1, <1>2 DEF Held
<1>5. \A k \in 1..Len(sent) : Len(sent[k].msgs) \in Nat
  BY <1>1, PlacesAre
<1> QED
  BY <1>1, <1>2, <1>3, <1>4, <1>5

\* What is kept never takes more than the board's buffer.
LEMMA StepLoad ==
  ASSUME TypeOK, WindowInv, LoadInv, [Next]_vars
  PROVE  LoadInv'
<1> USE DEF WindowInv
<1>0. /\ TotalLen(sent) \in Nat /\ BlockMax \in Nat /\ RecvWindow \in Nat
      /\ BlockMax + BlockMax <= RecvWindow
      /\ last_len \in Nat /\ seqs.last_ack \in Nat /\ seqs.receive \in Nat
      /\ Held(sent, last_len, seqs.last_ack, seqs.receive) \in Nat
      /\ sent \in Seq(Block) /\ Len(sent) \in Nat
      /\ \A k \in 1..Len(sent) : Len(sent[k].msgs) \in Nat
      /\ last_len <= BlockMax /\ \A k \in 1..Len(sent) : Len(sent[k].msgs) <= BlockMax
      /\ Held(sent, last_len, seqs.last_ack, seqs.receive) <= RecvWindow
  BY LoadTypes DEF LoadInv
<1>a. ASSUME UNCHANGED <<sent, last_len>>, seqs'.receive = seqs.receive,
             seqs'.last_ack = seqs.last_ack
      PROVE  LoadInv'
  BY <1>a DEF LoadInv
<1>1. CASE Fill
  <2>1. PICK b \in Block :
          /\ sent' = Append(sent, b) /\ Len(b.msgs) \in Nat /\ Len(b.msgs) <= BlockMax
          /\ seqs.send > seqs.receive =>
               Held(sent, last_len, seqs.last_ack, seqs.receive) + BlockMax <= RecvWindow
          /\ seqs'.last_ack = seqs.last_ack /\ seqs'.receive = seqs.receive /\ last_len' = last_len
    BY <1>1, FillFits
  <2>2. /\ Len(sent') = Len(sent) + 1 /\ \A k \in 1..Len(sent) : sent'[k] = sent[k]
        /\ sent'[Len(sent) + 1] = b
    BY <1>0, <2>1, AppendIs
  <2>3. ASSUME NEW k \in 1..Len(sent') PROVE Len(sent'[k].msgs) <= BlockMax
    <3>1. k \in 1..Len(sent) \/ k = Len(sent) + 1
      BY <1>0, <2>2
    <3> QED
      BY <1>0, <2>1, <2>2, <3>1
  <2>4. PICK T \in Nat, t \in Nat, h \in Nat :
          /\ T = TotalLen(sent') /\ t = TotalLen(sent)
          /\ h = (IF seqs.last_ack < seqs.receive THEN last_len ELSE 0)
    <3>1. sent' \in Seq(Block)
      BY <1>0, <2>1, AppendIs
    <3> QED
      BY <1>0, <3>1, TotalIs
  <2>5. T <= t + Len(b.msgs) /\ h <= BlockMax
    BY <1>0, <2>1, <2>4, TotalAppend
  <2>6. T + h <= RecvWindow
    <3>1. CASE seqs.send > seqs.receive
      <4>1. t + h + BlockMax <= RecvWindow
        BY <2>1, <2>4, <3>1 DEF Held
      <4> QED
        BY <1>0, <2>1, <2>4, <2>5, <4>1
    <3>2. CASE ~(seqs.send > seqs.receive)
      <4>1. Len(sent) = 0
        BY <1>0, <3>2, Numbers, WindowIs DEF SentInv
      <4>2. t = 0
        BY <1>0, <2>4, <4>1, TotalEmpty
      <4> QED
        BY <1>0, <2>1, <2>4, <2>5, <4>2
    <3> QED
      BY <3>1, <3>2
  <2> QED
    BY <1>0, <2>1, <2>3, <2>4, <2>6 DEF LoadInv, Held
<1>2. CASE HandleMessage
  <2> DEFINE m == Head(toHost)  rseq == FullSeq(m.seq)
  <2>1. CASE Unexpected(rseq)
    <3>1. UNCHANGED host
      BY <1>2, <2>1 DEF HandleMessage
    <3> QED
      BY <1>a, <3>1 DEF host
  <2>2. CASE ~Unexpected(rseq)
    <3>1. PICK d \in Nat :
            /\ rseq = seqs.receive + d /\ seqs'.receive = rseq
            /\ Acknowledges(d) \/ Connects(rseq)
            /\ d = rseq - seqs.receive
      BY <1>2, <2>2, HearSent
    <3>2. /\ seqs'.last_ack = (IF m.kind = "ack" /\ seqs.last_ack < rseq THEN rseq ELSE seqs.last_ack)
          /\ d \in 1..Len(sent) => last_len' = Len(sent[d].msgs)
          /\ d \notin 1..Len(sent) => last_len' = last_len
      BY <1>2, <2>2, <3>1, HearLast
    <3>3. sent' \in Seq(Block)
      BY StepTypes DEF TypeOK, Blocks
    <3> HIDE DEF rseq, m
    <3>4. seqs'.last_ack \in Nat /\ rseq \in Nat /\ seqs'.last_ack >= seqs.last_ack
      <4>1. rseq \in Nat
        BY <1>0, <3>1
      <4>2. PICK a, b \in Nat : a = seqs.last_ack /\ b = rseq
        BY <1>0, <4>1
      <4>3. seqs'.last_ack = a \/ (a < b /\ seqs'.last_ack = b)
        BY <3>2, <4>2
      <4> QED
        BY <4>1, <4>2, <4>3
    <3>5. last_len' \in Nat /\ last_len' <= BlockMax
      BY <1>0, <3>2
    <3>6. PICK h \in Nat : /\ h = (IF seqs'.last_ack < seqs'.receive THEN last_len' ELSE 0)
                           /\ h <= last_len'
      BY <3>5
    <3>7. CASE Connects(rseq)
      <4>1. sent' = <<>>
        BY <3>7 DEF Connects
      <4>2. TotalLen(sent') = 0 /\ Len(sent') = 0
        BY <4>1, TotalEmpty
      <4>3. TotalLen(sent') + h <= RecvWindow
        <5>1. h <= RecvWindow /\ 0 + h = h
          <6>1. PICK l \in Nat : l = last_len' /\ h <= l /\ l <= BlockMax
            BY <3>5, <3>6
          <6>2. BlockMax \in Nat /\ RecvWindow \in Nat /\ BlockMax + BlockMax <= RecvWindow
            BY <1>0
          <6> QED
            BY <6>1, <6>2
        <5> QED
          BY <4>2, <5>1
      <4>4. \A k \in 1..Len(sent') : Len(sent'[k].msgs) <= BlockMax
        BY <4>2
      <4> QED
        BY <3>5, <3>6, <4>3, <4>4 DEF LoadInv, Held
    <3>8. CASE Acknowledges(d)
      <4>1. /\ d \in 0..Len(sent) /\ Len(sent') = Len(sent) - d
            /\ \A k \in 1..Len(sent') : sent'[k] = sent[k + d] /\ k + d \in 1..Len(sent)
        BY <3>8 DEF Acknowledges
      <4>2. \A k \in 1..Len(sent') : Len(sent'[k].msgs) <= BlockMax
        BY <1>0, <4>1
      <4>3. CASE d = 0
        <5>1. Len(sent') = Len(sent) /\ \A k \in 1..Len(sent) : sent'[k] = sent[k]
          <6>1. \A k \in 1..Len(sent) : k + d = k
            BY <4>3
          <6> QED
            BY <1>0, <4>1, <4>3, <6>1
        <5>2. sent' = sent
          BY <1>0, <3>3, <5>1
        <5>3. rseq = seqs.receive /\ last_len' = last_len
          BY <1>0, <3>1, <3>2, <4>3
        <5>4. h <= (IF seqs.last_ack < seqs.receive THEN last_len ELSE 0)
          <6>1. h = (IF seqs'.last_ack < seqs.receive THEN last_len ELSE 0)
            BY <3>1, <3>6, <5>3
          <6>2. seqs'.last_ack < seqs.receive => seqs.last_ack < seqs.receive
            BY <1>0, <3>4
          <6> QED
            BY <1>0, <6>1, <6>2
        <5>5. TotalLen(sent) + h <= RecvWindow
          BY <1>0, <5>4 DEF Held
        <5> QED
          BY <3>5, <3>6, <4>2, <5>2, <5>5 DEF LoadInv, Held
      <4>4. CASE d # 0
        <5>1. d \in 1..Len(sent)
          BY <1>0, <4>1, <4>4
        <5>2. TotalLen(sent') + Len(sent[d].msgs) <= TotalLen(sent)
          BY <1>0, <3>3, <4>1, <5>1, TotalRest
        <5>3. TotalLen(sent') \in Nat
          BY <3>3, TotalIs
        <5>4. TotalLen(sent) <= RecvWindow
          BY <1>0 DEF Held
        <5>5. TotalLen(sent') + h <= RecvWindow
          BY <1>0, <3>2, <3>6, <5>1, <5>2, <5>3, <5>4
        <5> QED
          BY <3>5, <3>6, <4>2, <5>5 DEF LoadInv, Held
      <4> QED
        BY <4>3, <4>4
    <3> QED
      BY <3>1, <3>7, <3>8
  <2> QED
    BY <2>1, <2>2
<1>3. CASE RetransmitEvent
  <2>1. Retransmit
    BY <1>3 DEF RetransmitEvent, RetransmitOnNak, RetransmitOnTimeout
  <2>2. UNCHANGED <<sent, last_len>> /\ seqs'.receive = seqs.receive /\ seqs'.last_ack = seqs.last_ack
    <3>1. seqs' = [seqs EXCEPT !.ignore_nak = IgnoreNak, !.retransmit = seqs.send] /\ seqs \in SqType
      BY <2>1 DEF Retransmit, TypeOK, SqType
    <3> QED
      BY <2>1, <3>1 DEF Retransmit, SqType
  <2> QED
    BY <1>a, <2>2
<1>4. CASE Send \/ Pull \/ KickEvent \/ WaitForAck \/ WaitForMessages \/ WaitForClock
           \/ McuStart \/ McuFinish \/ McuReject \/ McuReport \/ LoseBlock \/ LoseAnswer
           \/ UNCHANGED vars
  <2>1. UNCHANGED <<seqs, sent, last_len>>
    BY <1>4 DEF Send, Pull, KickEvent, WaitForAck, WaitForMessages, WaitForClock, Write, McuStart,
                McuFinish, McuReject, McuReport, LoseBlock, LoseAnswer, vars, host
  <2> QED
    BY <1>a, <2>1
<1> QED
  BY <1>1, <1>2, <1>3, <1>4
  DEF Next, Host, Mcu, CommandEvent, Finished

\* The block that the board runs stays in the window until it is done.
LEMMA StepRun ==
  ASSUME TypeOK, WindowInv, RunInv, [Next]_vars
  PROVE  RunInv'
<1> USE DEF WindowInv
<1>0. /\ seqs.send \in Nat /\ seqs.receive \in Nat /\ Expected \in Nat /\ seqs.last_ack \in Nat
      /\ seqs.receive <= Expected /\ Len(sent) \in Nat /\ seqs.send = seqs.receive + Len(sent)
      /\ sent \in Seq(Block) /\ toHost \in Seq(SomeAnswer)
  <2>1. seqs.last_ack \in Nat
    BY DEF TypeOK
  <2> QED
    BY <2>1, Numbers, WireTypes, WindowIs DEF SentInv
<1>a. ASSUME UNCHANGED <<seqs, sent, last_len, mcu>>,
             \/ mcu.running = NoBlock
             \/ \A i \in 1..Len(toHost') : toHost'[i].kind = "ack" =>
                  \E j \in 1..Len(toHost) : toHost'[i] = toHost[j]
      PROVE  RunInv'
  <2>1. Expected' = Expected
    BY <1>a DEF Expected
  <2>2. ASSUME mcu.running # NoBlock, NEW i \in 1..Len(toHost'), toHost'[i].kind = "ack"
        PROVE  Number(seqs.receive, toHost'[i]) < Expected
    <3>1. PICK j \in 1..Len(toHost) : toHost'[i] = toHost[j]
      BY <1>a, <2>2
    <3> QED
      BY <2>2, <3>1 DEF RunInv
  <2> QED
    BY <1>a, <2>1, <2>2 DEF RunInv
<1>b. ASSUME NEW a \in SomeAnswer, toHost' = Append(toHost, a), a.kind = "data"
      PROVE  \A i \in 1..Len(toHost') : toHost'[i].kind = "ack" =>
               \E j \in 1..Len(toHost) : toHost'[i] = toHost[j]
  <2>1. /\ Len(toHost) \in Nat /\ Len(toHost') = Len(toHost) + 1
        /\ \A i \in 1..Len(toHost) : toHost'[i] = toHost[i]
        /\ toHost'[Len(toHost) + 1] = a
    BY <1>0, <1>b, AppendIs
  <2> TAKE i \in 1..Len(toHost')
  <2>2. i \in 1..Len(toHost) \/ i = Len(toHost) + 1
    BY <2>1
  <2> QED
    BY <1>b, <2>1, <2>2
<1>1. CASE Fill
  <2>1. PICK b \in Block : sent' = Append(sent, b)
    BY <1>1, FillDoes
  <2>2. /\ seqs'.receive = seqs.receive /\ seqs'.last_ack = seqs.last_ack
        /\ seqs'.send = seqs.send + 1 /\ UNCHANGED <<last_len, mcu, toHost>>
    <3>1. seqs' = [seqs EXCEPT !.send = @ + 1] /\ seqs \in SqType
      BY <1>1 DEF Fill, TypeOK, SqType
    <3> QED
      BY <1>1, <3>1 DEF Fill, board, SqType
  <2>3. Expected' = Expected
    BY <2>2 DEF Expected
  <2>4. ASSUME seqs.receive < Expected, Expected <= seqs.send
        PROVE  sent'[Expected - seqs.receive] = sent[Expected - seqs.receive]
    <3>1. PICK k \in Nat : k = Expected - seqs.receive /\ k \in 1..Len(sent)
      BY <1>0, <2>4
    <3>2. sent'[k] = sent[k]
      BY <1>0, <2>1, <3>1, AppendIs
    <3> QED
      BY <3>1, <3>2
  <2>5. Expected <= seqs.send => Expected <= seqs.send + 1
    BY <1>0
  <2> QED
    BY <2>2, <2>3, <2>4, <2>5 DEF RunInv
<1>2. CASE HandleMessage
  <2> DEFINE m == Head(toHost)  rseq == FullSeq(m.seq)
  <2>1. CASE Unexpected(rseq)
    <3>1. UNCHANGED <<host, mcu>> /\ toHost # <<>> /\ toHost' = Tail(toHost)
      BY <1>2, <2>1 DEF HandleMessage, board
    <3>2. \A i \in 1..Len(toHost') : toHost'[i] = toHost[i + 1] /\ i + 1 \in 1..Len(toHost)
      BY <1>0, <3>1, TailIs
    <3> QED
      BY <1>a, <3>1, <3>2 DEF host
  <2>2. CASE ~Unexpected(rseq)
    <3>1. PICK d \in Nat :
            /\ d = rseq - seqs.receive /\ rseq = seqs.receive + d
            /\ Expected' = Expected /\ Expected <= seqs'.send
            /\ seqs'.receive = rseq
            /\ Acknowledges(d) \/ Connects(rseq)
            /\ UNCHANGED mcu
            /\ \A i \in 1..Len(toHost') :
                 Number(rseq, toHost'[i]) = Number(seqs.receive, toHost[i + 1])
      BY <1>2, <2>2, HearSent
    <3>2. /\ m = toHost[1] /\ 1 \in 1..Len(toHost) /\ rseq \in Nat /\ rseq <= Expected
          /\ rseq = Number(seqs.receive, m)
          /\ \A i \in 1..Len(toHost') : toHost'[i] = toHost[i + 1] /\ i + 1 \in 1..Len(toHost)
      BY <1>2, HearIs
    <3>3. /\ seqs'.last_ack = (IF m.kind = "ack" /\ seqs.last_ack < rseq THEN rseq ELSE seqs.last_ack)
          /\ d \in 1..Len(sent) => last_len' = Len(sent[d].msgs)
          /\ d \notin 1..Len(sent) => last_len' = last_len
      BY <1>2, <2>2, <3>1, HearLast
    <3> HIDE DEF rseq, m
    <3>4. seqs'.last_ack <= Expected
      BY <3>2, <3>3 DEF RunInv
    <3>5. ASSUME mcu.running # NoBlock
          PROVE  /\ seqs'.last_ack < Expected
                 /\ \A i \in 1..Len(toHost') :
                      toHost'[i].kind = "ack" => Number(rseq, toHost'[i]) < Expected
                 /\ \/ rseq < Expected /\ mcu.running = sent'[Expected - rseq]
                    \/ rseq = Expected /\ last_len' = Len(mcu.running.msgs)
      <4>1. /\ Expected <= seqs.send /\ seqs.last_ack < Expected
            /\ \A i \in 1..Len(toHost) :
                 toHost[i].kind = "ack" => Number(seqs.receive, toHost[i]) < Expected
            /\ \/ seqs.receive < Expected /\ mcu.running = sent[Expected - seqs.receive]
               \/ seqs.receive = Expected /\ last_len = Len(mcu.running.msgs)
        BY <3>5 DEF RunInv
      <4>2. m.kind = "ack" => rseq < Expected
        BY <3>2, <4>1
      <4>3. seqs'.last_ack < Expected
        BY <3>3, <4>1, <4>2
      <4>4. ASSUME NEW i \in 1..Len(toHost'), toHost'[i].kind = "ack"
            PROVE  Number(rseq, toHost'[i]) < Expected
        BY <3>1, <3>2, <4>1, <4>4
      <4>5. Acknowledges(d)
        <5>1. ~(Expected > seqs.send)
          BY <1>0, <4>1
        <5> QED
          BY <3>1, <5>1 DEF Connects
      <4>6. /\ d \in 0..Len(sent)
            /\ \A k \in 1..Len(sent') : sent'[k] = sent[k + d] /\ k + d \in 1..Len(sent)
            /\ Len(sent') = Len(sent) - d
        BY <4>5 DEF Acknowledges
      <4>7. PICK R, e, l \in Nat : R = seqs.receive /\ e = Expected /\ l = Len(sent)
        BY <1>0
      <4>8. rseq = R + d /\ R + d <= e /\ d \in 0..l /\ e <= R + l
        BY <1>0, <3>1, <3>2, <4>1, <4>6, <4>7
      <4>9. CASE rseq < Expected
        <5>1. PICK k \in Nat : k = e - (R + d)
          BY <4>8
        <5>2. k \in 1..l - d /\ k + d = e - R /\ R < e /\ k = e - rseq
          <6>1. R + d < e /\ e <= R + l /\ d \in Nat
            BY <4>7, <4>8, <4>9
          <6>2. 1 <= k /\ k + d = e - R /\ k + d <= l /\ R < e
            BY <5>1, <6>1
          <6>3. k <= l - d
            BY <6>1, <6>2
          <6> QED
            BY <4>8, <5>1, <6>2, <6>3
        <5>3. sent'[k] = sent[k + d]
          BY <4>6, <4>7, <5>2
        <5>4. mcu.running = sent[e - R]
          BY <4>1, <4>7, <5>2
        <5>5. mcu.running = sent'[Expected - rseq]
          BY <4>7, <5>2, <5>3, <5>4
        <5> QED
          BY <4>3, <4>4, <4>9, <5>5
      <4>10. CASE rseq = Expected /\ d # 0
        <5>1. d \in 1..Len(sent) /\ e - R = d /\ R < e
          BY <4>7, <4>8, <4>10
        <5>2. mcu.running = sent[d]
          BY <4>1, <4>7, <5>1
        <5> QED
          BY <3>3, <4>3, <4>4, <4>10, <5>1, <5>2
      <4>11. CASE rseq = Expected /\ d = 0
        <5>1. seqs.receive = Expected /\ d \notin 1..Len(sent)
          BY <4>7, <4>8, <4>11
        <5>2. last_len' = last_len /\ last_len = Len(mcu.running.msgs)
          BY <1>0, <3>3, <4>1, <5>1
        <5> QED
          BY <4>3, <4>4, <4>11, <5>2
      <4> QED
        BY <3>2, <4>7, <4>8, <4>9, <4>10, <4>11
    <3> QED
      BY <3>1, <3>4, <3>5 DEF RunInv
  <2> QED
    BY <2>1, <2>2
<1>3. CASE McuStart
  <2>1. /\ Expected - seqs.receive + 1 \in 1..Len(sent)
        /\ Head(toMcu) = sent[Expected - seqs.receive + 1]
        /\ Expected < seqs.send /\ Expected' = Expected + 1
    BY <1>3, StartIs
  <2>2. UNCHANGED <<seqs, sent, last_len>>
    BY <1>3 DEF McuStart, host
  <2>3. PICK asked \in Seq(Queries) :
          /\ mcu' = [next |-> (mcu.next + 1) % SeqSize, running |-> Head(toMcu)]
          /\ toHost' = toHost \o [i \in 1..Len(asked) |->
                                    Answer("data", asked[i], (mcu.next + 1) % SeqSize)]
    BY <1>3, McuStartDoes
  <2>4. PICK R, e \in Nat : R = seqs.receive /\ e = Expected
    BY <1>0
  <2>5. R < e + 1 /\ (e + 1) - R = e - R + 1
    BY <1>0, <2>4
  <2>6. mcu'.running = sent'[Expected' - seqs'.receive] /\ seqs'.receive < Expected'
    BY <2>1, <2>2, <2>3, <2>4, <2>5
  <2>7. seqs'.last_ack < Expected' /\ Expected' <= seqs'.send
    <3>1. PICK a, s \in Nat : a = seqs.last_ack /\ s = seqs.send
      BY <1>0
    <3>2. a <= e /\ e < s
      BY <2>1, <2>4, <3>1 DEF RunInv
    <3>3. a < e + 1 /\ e + 1 <= s
      BY <3>2
    <3> QED
      BY <2>1, <2>2, <2>4, <3>1, <3>3
  <2>8. ASSUME NEW i \in 1..Len(toHost'), toHost'[i].kind = "ack"
        PROVE  Number(seqs.receive, toHost'[i]) < Expected + 1
    <3>1. PICK x \in 0..SeqSize - 1 : x = (mcu.next + 1) % SeqSize
      BY Numbers, Sizes
    <3> DEFINE w == [k \in 1..Len(asked) |-> Answer("data", asked[k], x)]
    <3>a. /\ w \in Seq(SomeAnswer) /\ Len(w) = Len(asked)
          /\ \A k \in 1..Len(w) :
               w[k] = [kind |-> "data", id |-> asked[k], seq |-> x] /\ asked[k] \in Queries
      BY AnswersTypes
    <3>b. toHost' = toHost \o w
      BY <2>3, <3>1
    <3> HIDE DEF w
    <3>2. /\ w \in Seq(SomeAnswer) /\ Len(w) = Len(asked)
          /\ \A k \in 1..Len(w) : w[k].kind = "data"
      <4>1. ASSUME NEW k \in 1..Len(w) PROVE w[k].kind = "data"
        <5>1. PICK a : a = w[k] /\ a = [kind |-> "data", id |-> asked[k], seq |-> x]
          BY <3>a
        <5>2. a.kind = "data"
          BY <5>1
        <5> QED
          BY <5>1, <5>2
      <4> QED
        BY <3>a, <4>1
    <3>3. PICK V : V = toHost \o w
      OBVIOUS
    <3>4. /\ \A k \in 1..Len(toHost) : V[k] = toHost[k]
          /\ \A k \in Len(toHost) + 1..Len(V) : V[k] = w[k - Len(toHost)] /\ k - Len(toHost) \in 1..Len(w)
          /\ Len(toHost) \in Nat
      BY <1>0, <3>2, <3>3, ConcatIs
    <3>5. toHost' = V
      BY <3>3, <3>b
    <3>6. i \in 1..Len(toHost) /\ toHost'[i] = toHost[i]
      <4>1. i \in Len(toHost) + 1..Len(V) => FALSE
        BY <2>8, <3>2, <3>4, <3>5
      <4> QED
        BY <3>4, <3>5, <4>1
    <3>7. PICK y \in Nat : y = Number(seqs.receive, toHost[i]) /\ y <= e
      <4>1. toHost[i] \in SomeAnswer
        BY <1>0, <3>6
      <4>2. Number(seqs.receive, toHost[i]) \in Nat
        <5>1. seqs.receive \in Int
          BY <1>0
        <5>2. Number(seqs.receive, toHost[i]) \in Int /\ seqs.receive <= Number(seqs.receive, toHost[i])
          BY <4>1, <5>1, NumberIs
        <5> QED
          BY <1>0, <5>2
      <4> QED
        BY <2>4, <3>6, <4>2 DEF AnswerInv, AnswersOk
    <3> QED
      BY <2>4, <3>6, <3>7
  <2> QED
    <3>1. seqs'.last_ack <= Expected'
      <4>1. seqs'.last_ack \in Nat /\ Expected' \in Nat
        BY <1>0, <2>1, <2>2
      <4> QED
        BY <2>7, <4>1
    <3>2. \A i \in 1..Len(toHost') :
            toHost'[i].kind = "ack" => Number(seqs'.receive, toHost'[i]) < Expected'
      BY <2>1, <2>2, <2>8
    <3> QED
      BY <2>6, <2>7, <3>1, <3>2 DEF RunInv
<1>4. CASE RetransmitEvent
  <2>1. Retransmit
    BY <1>4 DEF RetransmitEvent, RetransmitOnNak, RetransmitOnTimeout
  <2>2. /\ UNCHANGED <<sent, last_len, mcu, toHost>> /\ seqs'.receive = seqs.receive
        /\ seqs'.last_ack = seqs.last_ack /\ seqs'.send = seqs.send
    <3>1. seqs' = [seqs EXCEPT !.ignore_nak = IgnoreNak, !.retransmit = seqs.send] /\ seqs \in SqType
      BY <2>1 DEF Retransmit, TypeOK, SqType
    <3> QED
      BY <2>1, <3>1 DEF Retransmit, SqType, board
  <2>3. Expected' = Expected
    BY <2>2 DEF Expected
  <2> QED
    BY <2>2, <2>3 DEF RunInv
<1>5. CASE McuFinish
  <2>1. UNCHANGED <<seqs, sent, last_len>> /\ mcu'.running = NoBlock /\ mcu'.next = mcu.next
    BY <1>5 DEF McuFinish, host, TypeOK
  <2>2. Expected' = Expected
    BY <2>1 DEF Expected
  <2> QED
    BY <2>1, <2>2 DEF RunInv
<1>6. CASE McuReject \/ LoseBlock
  <2>1. UNCHANGED <<seqs, sent, last_len, mcu>> /\ mcu.running = NoBlock
    BY <1>6 DEF McuReject, LoseBlock, host, board
  <2> QED
    BY <1>a, <2>1
<1>7. CASE McuReport
  <2>1. /\ UNCHANGED <<seqs, sent, last_len, mcu>>
        /\ toHost' = Append(toHost, Answer("data", Report, mcu.next))
    BY <1>7 DEF McuReport, host, board
  <2>2. Answer("data", Report, mcu.next) \in SomeAnswer /\ Answer("data", Report, mcu.next).kind = "data"
    BY DEF Answer, SomeAnswer, TypeOK
  <2> QED
    BY <1>a, <1>b, <2>1, <2>2
<1>8. CASE LoseAnswer
  <2>1. UNCHANGED <<seqs, sent, last_len, mcu>> /\ toHost # <<>> /\ toHost' = Tail(toHost)
    BY <1>8 DEF LoseAnswer, host, board
  <2>2. \A i \in 1..Len(toHost') : toHost'[i] = toHost[i + 1] /\ i + 1 \in 1..Len(toHost)
    BY <1>0, <2>1, TailIs
  <2> QED
    BY <1>a, <2>1, <2>2
<1>9. CASE Send \/ Pull \/ KickEvent \/ WaitForAck \/ WaitForMessages \/ WaitForClock
           \/ UNCHANGED vars
  <2>1. UNCHANGED <<seqs, sent, last_len, mcu, toHost>>
    BY <1>9 DEF Send, Pull, KickEvent, WaitForAck, WaitForMessages, WaitForClock, Write,
                vars, host, board
  <2> QED
    BY <1>a, <2>1
<1> QED
  BY <1>1, <1>2, <1>3, <1>4, <1>5, <1>6, <1>7, <1>8, <1>9
  DEF Next, Host, Mcu, CommandEvent, Finished

\* Until something is retransmitted no block is on the way twice.
LEMMA StepFresh ==
  ASSUME TypeOK, WindowInv, OrderInv, RunInv, FreshInv, [Next]_vars
  PROVE  FreshInv'
<1> USE DEF WindowInv
<1>0. /\ seqs.send \in Nat /\ seqs.receive \in Nat /\ Expected \in Nat /\ seqs.retransmit \in Nat
      /\ seqs.receive <= Expected /\ 1 <= seqs.send /\ Len(sent) \in Nat
      /\ seqs.send = seqs.receive + Len(sent) /\ sent \in Seq(Block)
      /\ Wire \in Seq(Block) /\ Len(Wire) \in Nat /\ \A i \in 1..Len(Wire) : Wire[i].seq \in Nat
      /\ pending \in Seq(Nat) /\ next \in Nat
      /\ Ordered(delivered, pending, next, sent, Expected)
  <2>1. /\ seqs.send \in Nat /\ seqs.receive \in Nat /\ Expected \in Nat /\ seqs.retransmit \in Nat
        /\ seqs.receive <= Expected /\ 1 <= seqs.receive /\ seqs.receive <= seqs.send
    BY Numbers DEF TypeOK
  <2>2. 1 <= seqs.send
    BY <2>1
  <2> QED
    BY <2>1, <2>2, WireTypes, WindowIs, MessagesAreNumbers DEF SentInv, OrderInv
<1> DEFINE Late(i) == /\ Wire[i].msgs = <<1>> /\ 1 \notin ToSet(pending) /\ 1 < next
                      /\ mcu.running = NoBlock
<1>f. ASSUME seqs.retransmit = 0
      PROVE  /\ \A i, j \in 1..Len(Wire) : i < j => Wire[i].seq < Wire[j].seq
             /\ \A i \in 1..Len(Wire) :
                  /\ Wire[i].seq < Expected => Late(i)
                  /\ Wire[i].seq < seqs.receive => 1 \notin MessagesOf(sent)
  BY <1>f DEF FreshInv
<1>a. ASSUME UNCHANGED <<pending, next, sent>>, seqs'.receive = seqs.receive,
             seqs'.retransmit = seqs.retransmit, mcu'.next = mcu.next,
             mcu' = mcu \/ mcu'.running = NoBlock,
             \/ Wire' = Wire
             \/ /\ Len(Wire') = Len(Wire) - 1
                /\ \A i \in 1..Len(Wire') : Wire'[i] = Wire[i + 1] /\ i + 1 \in 1..Len(Wire)
      PROVE  FreshInv'
  <2>1. Expected' = Expected
    BY <1>a DEF Expected
  <2>2. PICK c \in {0, 1} :
          \A i \in 1..Len(Wire') : Wire'[i] = Wire[i + c] /\ i + c \in 1..Len(Wire) /\ i \in Nat
    <3>1. CASE Wire' = Wire
      <4>1. \A i \in 1..Len(Wire) : i + 0 = i /\ i \in Nat
        OBVIOUS
      <4> QED
        BY <3>1, <4>1
    <3>2. CASE Wire' # Wire
      BY <1>0, <1>a, <3>2
    <3> QED
      BY <3>1, <3>2
  <2>3. ASSUME seqs.retransmit = 0, NEW i \in 1..Len(Wire'), NEW j \in 1..Len(Wire'), i < j
        PROVE  Wire'[i].seq < Wire'[j].seq
    <3>1. i + c < j + c
      BY <2>2, <2>3
    <3> QED
      BY <1>f, <2>2, <2>3, <3>1
  <2>4. ASSUME seqs.retransmit = 0, NEW i \in 1..Len(Wire')
        PROVE  /\ Wire'[i].seq < Expected =>
                    /\ Wire'[i].msgs = <<1>> /\ 1 \notin ToSet(pending) /\ 1 < next
                    /\ mcu'.running = NoBlock
               /\ Wire'[i].seq < seqs.receive => 1 \notin MessagesOf(sent)
    BY <1>a, <1>f, <2>2, <2>4
  <2> QED
    BY <1>a, <2>1, <2>3, <2>4 DEF FreshInv
<1>1. CASE Send
  <2>1. /\ pending' = Append(pending, next) /\ next' = next + 1
        /\ UNCHANGED <<sent, seqs, mcu, toMcu, buf>>
    BY <1>1 DEF Send, board
  <2>2. Expected' = Expected /\ Wire' = Wire
    BY <2>1 DEF Expected, Wire
  <2>3. ToSet(pending') = ToSet(pending) \cup {next}
    <3>1. pending \in Seq(Nat) /\ next \in Nat
      BY <1>0
    <3>2. ToSet(Append(pending, next)) = ToSet(pending) \cup {next}
      BY <3>1, ToSetAppend
    <3> QED
      BY <2>1, <3>2
  <2>4. 1 \notin ToSet(pending) /\ 1 < next => 1 \notin ToSet(pending') /\ 1 < next'
    BY <1>0, <2>1, <2>3
  <2> QED
    BY <1>f, <2>1, <2>2, <2>4 DEF FreshInv
<1>2. CASE Fill
  <2>1. PICK n \in 1..Len(pending), b \in Block :
          /\ b.seq = seqs.send /\ b.msgs = SubSeq(pending, 1, n)
          /\ pending' = SubSeq(pending, n + 1, Len(pending))
          /\ sent' = Append(sent, b) /\ buf' = Append(buf, b)
    BY <1>2, FillDoes
  <2>2. /\ seqs'.receive = seqs.receive /\ seqs'.retransmit = seqs.retransmit
        /\ UNCHANGED <<next, mcu, toMcu>>
    <3>1. seqs' = [seqs EXCEPT !.send = @ + 1] /\ seqs \in SqType
      BY <1>2 DEF Fill, TypeOK, SqType
    <3> QED
      BY <1>2, <3>1 DEF Fill, SqType, board
  <2>3. Expected' = Expected
    BY <2>2 DEF Expected
  <2>4. Wire' = Append(Wire, b)
    <3>1. toMcu \in Seq(Block) /\ buf \in Seq(Block)
      BY DEF TypeOK, Blocks
    <3> QED
      BY <2>1, <2>2, <3>1 DEF Wire
  <2>5. /\ Len(Wire') = Len(Wire) + 1 /\ \A k \in 1..Len(Wire) : Wire'[k] = Wire[k]
        /\ Wire'[Len(Wire) + 1] = b
    BY <1>0, <2>4, AppendIs
  <2>6. ToSet(pending) = ToSet(b.msgs) \cup ToSet(pending')
    BY <1>0, <2>1, ToSetSplit
  <2>7. /\ Len(sent') = Len(sent) + 1 /\ \A k \in 1..Len(sent) : sent'[k] = sent[k]
        /\ sent'[Len(sent) + 1] = b
    BY <1>0, <2>1, AppendIs
  <2>8. ASSUME 1 \notin ToSet(pending), 1 \notin MessagesOf(sent) PROVE 1 \notin MessagesOf(sent')
    <3> SUFFICES ASSUME NEW k \in 1..Len(sent'), 1 \in ToSet(sent'[k].msgs) PROVE FALSE
      BY DEF MessagesOf
    <3>1. k \in 1..Len(sent) \/ k = Len(sent) + 1
      <4>1. PICK l \in Nat : l = Len(sent) /\ Len(sent') = l + 1
        BY <1>0, <2>7
      <4> QED
        BY <4>1
    <3>2. CASE k \in 1..Len(sent)
      BY <2>7, <2>8, <3>2 DEF MessagesOf
    <3>3. CASE k = Len(sent) + 1
      BY <2>6, <2>7, <2>8, <3>3
    <3> QED
      BY <3>1, <3>2, <3>3
  <2>9. ASSUME seqs.send < Expected
        PROVE  b.msgs = <<1>> /\ 1 \notin ToSet(pending') /\ 1 < next /\ mcu.running = NoBlock
    <3>1. next <= 2
      BY <1>0, <2>9 DEF ConnectInv
    <3>2. mcu.running = NoBlock
      BY <1>0, <2>9 DEF RunInv
    <3>3. ASSUME NEW a \in ToSet(pending) PROVE a = 1 /\ a < next
      <4>1. a < next
        BY <1>0 DEF Ordered, Below
      <4>2. a \in Nat /\ 1 <= a
        BY MessagesAreNumbers, SerialAssumption
      <4> QED
        BY <1>0, <3>1, <4>1, <4>2
    <3>4. ASSUME NEW i \in 1..Len(pending) PROVE pending[i] = 1
      BY <1>0, <3>3, ToSetIs
    <3>5. Len(pending) = 1
      <4>1. ASSUME Len(pending) >= 2 PROVE FALSE
        <5>1. 1 \in 1..Len(pending) /\ 2 \in 1..Len(pending)
          BY <1>0, <4>1
        <5>2. pending[1] < pending[2]
          BY <1>0, <5>1 DEF Ordered, Increasing
        <5> QED
          BY <3>4, <5>1, <5>2
      <4>2. PICK l \in Nat : l = Len(pending) /\ n \in 1..l
        BY <1>0
      <4>3. ~(l >= 2)
        BY <4>1, <4>2
      <4> QED
        BY <4>2, <4>3
    <3>6. pending = <<1>> /\ n = 1
      <4>1. pending \in Seq(Nat) /\ 1 \in 1..Len(pending)
        BY <1>0, <3>5
      <4>2. pending[1] = 1
        BY <3>4, <4>1
      <4> QED
        BY <3>5, <4>1, <4>2
    <3>7. b.msgs = <<1>> /\ pending' = <<>>
      <4>1. pending \in Seq(Nat) /\ n \in 0..Len(pending) /\ n = 1 /\ Len(pending) = 1 /\ pending[1] = 1
        BY <1>0, <3>5, <3>6
      <4>2. /\ b.msgs \in Seq(Nat) /\ Len(b.msgs) = n /\ \A i \in 1..n : b.msgs[i] = pending[i]
            /\ pending' \in Seq(Nat) /\ Len(pending') = Len(pending) - n
        BY <2>1, <4>1, FrontIs, RestIs
      <4>3. b.msgs \in Seq(Nat) /\ Len(b.msgs) = 1 /\ b.msgs[1] = 1
        BY <4>1, <4>2
      <4>4. b.msgs = <<1>>
        BY <4>3
      <4>5. pending' \in Seq(Nat) /\ Len(pending') = 0
        BY <4>1, <4>2
      <4>6. pending' = <<>>
        BY <4>5
      <4> QED
        BY <4>4, <4>6
    <3>8. 1 \in ToSet(pending) /\ ToSet(pending') = {}
      BY <3>6, <3>7 DEF ToSet
    <3> QED
      BY <3>2, <3>3, <3>7, <3>8
  <2>10. ASSUME seqs.retransmit = 0, NEW i \in 1..Len(Wire'), NEW j \in 1..Len(Wire'), i < j
         PROVE  Wire'[i].seq < Wire'[j].seq
    <3>1. i \in 1..Len(Wire) /\ (j \in 1..Len(Wire) \/ j = Len(Wire) + 1)
      BY <1>0, <2>5, <2>10
    <3>2. Wire[i].seq < seqs.send
      BY <3>1 DEF WireInv, InWindow
    <3> QED
      BY <1>f, <2>1, <2>5, <2>10, <3>1, <3>2
  <2>11. ASSUME seqs.retransmit = 0, NEW i \in 1..Len(Wire')
         PROVE  /\ Wire'[i].seq < Expected =>
                     /\ Wire'[i].msgs = <<1>> /\ 1 \notin ToSet(pending') /\ 1 < next
                     /\ mcu.running = NoBlock
                /\ Wire'[i].seq < seqs.receive => 1 \notin MessagesOf(sent')
    <3>1. CASE i \in 1..Len(Wire)
      <4>1. Wire'[i] = Wire[i] /\ Wire[i].seq \in Nat
        BY <1>0, <2>5, <3>1
      <4>2. Wire[i].seq < Expected => Late(i)
        BY <1>f, <2>11, <3>1
      <4>3. Wire[i].seq < seqs.receive => Wire[i].seq < Expected /\ 1 \notin MessagesOf(sent)
        BY <1>0, <1>f, <2>11, <3>1, <4>1
      <4> QED
        BY <2>6, <2>8, <4>1, <4>2, <4>3
    <3>2. CASE i = Len(Wire) + 1
      <4>1. Wire'[i] = b /\ ~(b.seq < seqs.receive)
        BY <1>0, <2>1, <2>5, <3>2
      <4> QED
        BY <2>1, <2>9, <4>1
    <3> QED
      BY <1>0, <2>5, <3>1, <3>2
  <2> QED
    BY <2>2, <2>3, <2>10, <2>11 DEF FreshInv
<1>3. CASE HandleMessage
  <2> DEFINE m == Head(toHost)  rseq == FullSeq(m.seq)
  <2>1. CASE Unexpected(rseq)
    <3>1. UNCHANGED <<host, mcu, toMcu>>
      BY <1>3, <2>1 DEF HandleMessage, board
    <3>2. Wire' = Wire /\ UNCHANGED <<pending, next, sent, seqs, mcu>>
      BY <3>1 DEF host, Wire
    <3> QED
      BY <1>a, <3>2
  <2>2. CASE ~Unexpected(rseq)
    <3>1. PICK d \in Nat :
            /\ rseq = seqs.receive + d /\ Expected' = Expected
            /\ seqs'.receive = rseq /\ HandleWindow(rseq)
            /\ Acknowledges(d) \/ Connects(rseq)
            /\ UNCHANGED <<next, pending, buf, mcu, toMcu>>
            /\ d = rseq - seqs.receive
      BY <1>3, <2>2, HearSent
    <3>2. rseq \in Nat /\ rseq <= Expected
      BY <1>3, HearIs
    <3> HIDE DEF rseq, m
    <3>3. Wire' = Wire /\ seqs'.retransmit = seqs.retransmit
      BY <3>1 DEF Wire, HandleWindow
    <3>4. ASSUME seqs.retransmit = 0, NEW i \in 1..Len(Wire), Wire[i].seq < rseq
          PROVE  1 \notin MessagesOf(sent')
      <4> SUFFICES ASSUME NEW k \in 1..Len(sent'), 1 \in ToSet(sent'[k].msgs) PROVE FALSE
        BY DEF MessagesOf
      <4>1. Acknowledges(d)
        BY <3>1 DEF Connects
      <4>2. k + d \in 1..Len(sent) /\ 1 \in ToSet(sent[k + d].msgs)
        BY <4>1 DEF Acknowledges
      <4>3. PICK s, R, l, K \in Nat :
              /\ s = Wire[i].seq /\ R = seqs.receive /\ l = Len(sent) /\ K = k + d /\ K > d
        <5>1. Wire[i].seq \in Nat /\ seqs.receive \in Nat /\ Len(sent) \in Nat
          BY <1>0
        <5>2. k \in Nat /\ 1 <= k
          OBVIOUS
        <5>3. k + d \in Nat /\ k + d > d
          BY <5>2
        <5> QED
          BY <5>1, <5>3
      <4>4. s < Expected
        BY <1>0, <3>2, <3>4, <4>3
      <4>5. Wire[i].msgs = <<1>> /\ 1 \in ToSet(<<1>>)
        BY <1>f, <3>4, <4>3, <4>4 DEF ToSet
      <4>6. 1 \in MessagesOf(sent)
        BY <4>2 DEF MessagesOf
      <4>7. s >= R
        BY <1>0, <1>f, <3>4, <4>3, <4>6
      <4>8. s < seqs.send /\ Wire[i] = sent[s - R + 1]
        BY <4>3, <4>7 DEF WireInv, InWindow
      <4>9. PICK j \in Nat : j = s - R + 1 /\ j \in 1..l /\ j < K
        <5>1. s < R + d /\ s < R + l
          BY <1>0, <3>1, <3>4, <4>3, <4>8
        <5>2. PICK j \in Nat : j = s - R + 1
          BY <4>7
        <5>3. 1 <= j /\ j <= d /\ j <= l
          BY <4>7, <5>1, <5>2
        <5>4. K > d
          BY <4>3
        <5> QED
          BY <5>2, <5>3, <5>4
      <4>10. 1 \in ToSet(sent[j].msgs)
        BY <4>5, <4>8, <4>9
      <4>11. Below(ToSet(sent[j].msgs), ToSet(sent[K].msgs))
        BY <1>0, <4>2, <4>3, <4>9 DEF Ordered
      <4> QED
        BY <4>2, <4>3, <4>10, <4>11 DEF Below
    <3> QED
      BY <1>f, <3>1, <3>3, <3>4 DEF FreshInv
  <2> QED
    BY <2>1, <2>2
<1>4. CASE McuStart
  <2>1. Head(toMcu).seq = Expected /\ Expected' = Expected + 1
    BY <1>4, StartIs
  <2>2. /\ toMcu # <<>> /\ toMcu' = Tail(toMcu) /\ UNCHANGED <<seqs, sent, buf>>
    BY <1>4 DEF McuStart, host
  <2>3. /\ Head(toMcu) = Wire[1] /\ 1 \in 1..Len(Wire) /\ Len(Wire') = Len(Wire) - 1
        /\ \A i \in 1..Len(Wire') : Wire'[i] = Wire[i + 1] /\ i + 1 \in 1..Len(Wire)
    BY <2>2, WireTail
  <2>4. ASSUME seqs.retransmit = 0, NEW i \in 1..Len(Wire')
        PROVE  ~(Wire'[i].seq < Expected + 1) /\ ~(Wire'[i].seq < seqs.receive)
    <3>1. 1 < i + 1
      OBVIOUS
    <3>2. Wire[1].seq < Wire[i + 1].seq
      BY <1>f, <2>3, <2>4, <3>1
    <3>3. PICK a \in Nat : a = Wire'[i].seq
      BY <1>0, <2>3
    <3>4. Expected < a
      BY <2>1, <2>3, <3>2, <3>3
    <3> QED
      BY <1>0, <3>3, <3>4
  <2>5. ASSUME seqs.retransmit = 0, NEW i \in 1..Len(Wire'), NEW j \in 1..Len(Wire'), i < j
        PROVE  Wire'[i].seq < Wire'[j].seq
    <3>1. i + 1 < j + 1
      BY <2>5
    <3> QED
      BY <1>f, <2>3, <2>5, <3>1
  <2> QED
    BY <2>1, <2>2, <2>4, <2>5 DEF FreshInv
<1>5. CASE RetransmitEvent
  <2>1. Retransmit
    BY <1>5 DEF RetransmitEvent, RetransmitOnNak, RetransmitOnTimeout
  <2>2. seqs'.retransmit = seqs.send
    BY <2>1, RetransmitDoes
  <2> QED
    BY <1>0, <2>2 DEF FreshInv
<1>6. CASE McuFinish \/ McuReport \/ LoseAnswer \/ Pull \/ KickEvent \/ UNCHANGED vars
  <2>1. /\ UNCHANGED <<pending, next, sent, seqs, toMcu, buf>> /\ mcu'.next = mcu.next
        /\ mcu' = mcu \/ mcu'.running = NoBlock
    BY <1>6 DEF McuFinish, McuReport, LoseAnswer, Pull, KickEvent, vars, host, board, TypeOK
  <2>2. Wire' = Wire
    BY <2>1 DEF Wire
  <2> QED
    BY <1>a, <2>1, <2>2
<1>7. CASE WaitForAck \/ WaitForMessages \/ WaitForClock
  <2>1. /\ toMcu' = toMcu \o buf /\ buf' = <<>> /\ UNCHANGED <<pending, next, sent, seqs, mcu>>
    BY <1>7 DEF WaitForAck, WaitForMessages, WaitForClock, Write, board
  <2>2. Wire' = Wire
    <3>1. PICK V \in Seq(Block) : V = toMcu \o buf
      BY ConcatIs DEF TypeOK, Blocks
    <3>2. V \o <<>> = V
      OBVIOUS
    <3> QED
      BY <2>1, <3>1, <3>2 DEF Wire
  <2> QED
    BY <1>a, <2>1, <2>2
<1>8. CASE McuReject \/ LoseBlock
  <2>1. UNCHANGED <<pending, next, sent, seqs, mcu, buf>> /\ toMcu # <<>> /\ toMcu' = Tail(toMcu)
    BY <1>8 DEF McuReject, LoseBlock, host, board
  <2>2. /\ Len(Wire') = Len(Wire) - 1
        /\ \A i \in 1..Len(Wire') : Wire'[i] = Wire[i + 1] /\ i + 1 \in 1..Len(Wire)
    BY <2>1, WireTail
  <2> QED
    BY <1>a, <2>1, <2>2
<1> QED
  BY <1>1, <1>2, <1>3, <1>4, <1>5, <1>6, <1>7, <1>8
  DEF Next, Host, Mcu, CommandEvent, Finished

\* The blocks on the way from the first that is not acknowledged are found in
\* the sent queue, each in its own place.
LEMMA LiveFits ==
  ASSUME TypeOK, WindowInv, FreshInv, seqs.retransmit = 0, NEW L,
         L = {i \in 1..Len(toMcu) : toMcu[i].seq >= seqs.receive},
         NEW J \in SUBSET (1..Len(sent)),
         \A i \in L : toMcu[i].seq - seqs.receive + 1 \in J
  PROVE  Cardinality(Places(toMcu, L)) <= Cardinality(Places(sent, J))
<1> DEFINE g == [i \in L |-> toMcu[i].seq - seqs.receive + 1]
<1>1. /\ toMcu \in Seq(Block) /\ buf \in Seq(Block) /\ sent \in Seq(Block) /\ L \in SUBSET (1..Len(toMcu))
      /\ seqs.receive \in Nat /\ Len(toMcu) \in Nat
  BY DEF TypeOK, Blocks
<1>2. ASSUME NEW i \in 1..Len(toMcu)
      PROVE  i \in 1..Len(Wire) /\ Wire[i] = toMcu[i] /\ toMcu[i].seq \in Nat
  <2>1. i \in 1..Len(toMcu \o buf) /\ (toMcu \o buf)[i] = toMcu[i]
    BY <1>1, ConcatIs
  <2> QED
    BY <2>1, WireTypes DEF Wire
<1>3. g \in [L -> J] /\ \A i \in L : g[i] = toMcu[i].seq - seqs.receive + 1
  OBVIOUS
<1> HIDE DEF g
<1>4. ASSUME NEW i \in L PROVE Len(toMcu[i].msgs) <= Len(sent[g[i]].msgs)
  <2>1. i \in 1..Len(toMcu) /\ toMcu[i].seq >= seqs.receive
    BY <1>1
  <2>2. toMcu[i] = sent[toMcu[i].seq - seqs.receive + 1]
    BY <1>2, <2>1 DEF WindowInv, WireInv, InWindow
  <2>3. Len(toMcu[i].msgs) \in Nat
    BY <1>1, PlacesAre
  <2> QED
    BY <1>3, <2>2, <2>3
<1>5. ASSUME NEW i \in L, NEW j \in L, i < j PROVE g[i] # g[j]
  <2>1. PICK a, b, r \in Nat : a = toMcu[i].seq /\ b = toMcu[j].seq /\ r = seqs.receive
    BY <1>1, <1>2
  <2>2. a < b
    BY <1>1, <1>2, <1>5, <2>1 DEF FreshInv
  <2>3. g[i] = a - r + 1 /\ g[j] = b - r + 1
    BY <1>3, <2>1
  <2> QED
    BY <2>2, <2>3
<1>6. \A i, j \in L : g[i] = g[j] => i = j
  <2> SUFFICES ASSUME NEW i \in L, NEW j \in L, g[i] = g[j] PROVE i = j
    OBVIOUS
  <2>1. i \in Nat /\ j \in Nat
    BY <1>1
  <2> QED
    BY <1>5, <2>1
<1> QED
  BY <1>1, <1>3, <1>4, <1>6, PlacesEmbed

\* The others have nothing but the identify query that was given up.
LEMMA GivenUpFits ==
  ASSUME TypeOK, WindowInv, FreshInv, seqs.retransmit = 0, NEW G,
         G = {i \in 1..Len(toMcu) : toMcu[i].seq < seqs.receive}
  PROVE  Cardinality(Places(toMcu, G)) <= Cardinality(GivenUp)
<1>1. /\ toMcu \in Seq(Block) /\ buf \in Seq(Block) /\ G \in SUBSET (1..Len(toMcu))
      /\ Len(toMcu) \in Nat /\ seqs.receive \in Nat /\ Expected \in Nat /\ seqs.receive <= Expected
  <2>1. toMcu \in Seq(Block) /\ buf \in Seq(Block) /\ Len(toMcu) \in Nat
    BY DEF TypeOK, Blocks
  <2>2. SentInv
    BY DEF WindowInv
  <2> QED
    BY <2>1, <2>2, Numbers
<1>2. ASSUME NEW i \in G PROVE toMcu[i].msgs = <<1>> /\ i \in GivenUp
  <2>1. i \in 1..Len(toMcu) /\ toMcu[i].seq < seqs.receive
    OBVIOUS
  <2>2. i \in 1..Len(Wire) /\ Wire[i] = toMcu[i] /\ toMcu[i].seq \in Nat
    <3>1. i \in 1..Len(toMcu \o buf) /\ (toMcu \o buf)[i] = toMcu[i]
      BY <1>1, <2>1, ConcatIs
    <3> QED
      BY <3>1, WireTypes DEF Wire
  <2>3. toMcu[i].seq < Expected
    BY <1>1, <2>1, <2>2
  <2>4. toMcu[i].msgs = <<1>> /\ 1 \notin MessagesOf(sent)
    BY <2>1, <2>2, <2>3 DEF FreshInv
  <2>5. 1 \in ToSet(<<1>>)
    BY DEF ToSet
  <2> QED
    BY <2>1, <2>4, <2>5 DEF GivenUp, SentMessages, MessagesOf
<1> DEFINE A == Places(toMcu, G)  f == [p \in A |-> p[1]]
<1>3. ASSUME NEW p \in A PROVE p[1] \in GivenUp /\ p = <<p[1], 1>>
  <2>1. PICK k \in G : \E i \in 1..Len(toMcu[k].msgs) : p = <<k, i>>
    BY <1>1, PlacesAre
  <2>2. PICK i \in 1..Len(toMcu[k].msgs) : p = <<k, i>>
    BY <2>1
  <2>3. toMcu[k].msgs = <<1>> /\ k \in GivenUp
    BY <1>2
  <2>4. i = 1
    BY <2>3
  <2> QED
    BY <2>2, <2>3, <2>4
<1>4. f \in [A -> GivenUp] /\ \A p \in A : f[p] = p[1]
  BY <1>3
<1> HIDE DEF f, A
<1>5. \A p, r \in A : f[p] = f[r] => p = r
  BY <1>3, <1>4
<1>6. f \in Injection(A, GivenUp)
  BY <1>4, <1>5 DEF Injection, IsInjective
<1>7. IsFiniteSet(GivenUp)
  <2>1. GivenUp \in SUBSET (1..Len(toMcu))
    BY DEF GivenUp
  <2>2. IsFiniteSet(1..Len(toMcu))
    BY <1>1, FS_Interval
  <2> QED
    BY <2>1, <2>2, FS_Subset
<1>8. Cardinality(A) <= Cardinality(GivenUp)
  BY <1>6, <1>7, FS_Injection
<1> QED
  BY <1>8 DEF A

LEMMA WindowFits ==
  ASSUME TypeOK, WindowInv, LoadInv, RunInv, FreshInv
  PROVE  WindowHolds
<1> SUFFICES ASSUME seqs.retransmit = 0
             PROVE  TotalLen(toMcu) + Len(mcu.running.msgs) <= RecvWindow + Cardinality(GivenUp)
  BY DEF WindowHolds
<1> DEFINE L == {i \in 1..Len(toMcu) : toMcu[i].seq >= seqs.receive}
           G == {i \in 1..Len(toMcu) : toMcu[i].seq < seqs.receive}
           run == Len(mcu.running.msgs)
<1>1. /\ toMcu \in Seq(Block) /\ sent \in Seq(Block) /\ Len(sent) \in Nat /\ buf \in Seq(Block)
      /\ seqs.receive \in Nat /\ Expected \in Nat /\ seqs.receive <= Expected /\ seqs.last_ack \in Nat
      /\ seqs.send = seqs.receive + Len(sent) /\ TotalLen(sent) \in Nat /\ RecvWindow \in Nat
      /\ last_len \in Nat
  <2>1. toMcu \in Seq(Block) /\ buf \in Seq(Block)
    BY DEF TypeOK, Blocks
  <2>2. SentInv
    BY DEF WindowInv
  <2>3. /\ seqs.receive \in Nat /\ seqs.send \in Nat /\ Expected \in Nat
        /\ seqs.receive <= Expected
    BY <2>2, Numbers
  <2>4. /\ sent \in Seq(Block) /\ Len(sent) \in Nat /\ seqs.last_ack \in Nat
        /\ TotalLen(sent) \in Nat /\ RecvWindow \in Nat /\ last_len \in Nat
    BY LoadTypes
  <2>5. seqs.send = seqs.receive + Len(sent)
    BY <2>2, <2>3, <2>4, WindowIs DEF SentInv
  <2> QED
    BY <2>1, <2>3, <2>4, <2>5
<1>2. ASSUME NEW i \in 1..Len(toMcu)
      PROVE  i \in 1..Len(Wire) /\ Wire[i] = toMcu[i] /\ toMcu[i].seq \in Nat
  <2>1. i \in 1..Len(toMcu \o buf) /\ (toMcu \o buf)[i] = toMcu[i]
    BY <1>1, ConcatIs
  <2> QED
    BY <2>1, WireTypes DEF Wire
<1>3. /\ L \cup G = 1..Len(toMcu) /\ L \cap G = {}
      /\ L \in SUBSET (1..Len(toMcu)) /\ G \in SUBSET (1..Len(toMcu))
  BY <1>1, <1>2
<1>4. run \in Nat
  <2>1. mcu.running \in Block
    BY DEF TypeOK
  <2>2. mcu.running.msgs \in Seq(1..Messages)
    BY <2>1 DEF Block
  <2> QED
    BY <2>2
<1>5. ASSUME NEW i \in L PROVE toMcu[i].seq - seqs.receive + 1 \in 1..Len(sent)
  <2>1. i \in 1..Len(toMcu) /\ toMcu[i].seq >= seqs.receive
    OBVIOUS
  <2>2. PICK a, r, l \in Nat : a = toMcu[i].seq /\ r = seqs.receive /\ l = Len(sent)
    BY <1>1, <1>2, <2>1
  <2>3. a < r + l
    BY <1>1, <1>2, <2>1, <2>2 DEF WindowInv, WireInv, InWindow
  <2>4. PICK k \in Nat : k = a - r + 1
    BY <2>1, <2>2
  <2>5. 1 <= k /\ k <= l /\ r <= a
    BY <2>1, <2>2, <2>3, <2>4
  <2> QED
    BY <2>2, <2>4, <2>5
<1>6. Cardinality(Places(toMcu, G)) <= Cardinality(GivenUp)
  BY GivenUpFits
<1>t. TotalLen(toMcu) = Cardinality(Places(toMcu, L)) + Cardinality(Places(toMcu, G))
  <2>1. Cardinality(Places(toMcu, L \cup G))
          = Cardinality(Places(toMcu, L)) + Cardinality(Places(toMcu, G))
    <3> HIDE DEF L, G
    <3> QED
      BY <1>1, <1>3, PlacesSplit
  <2> QED
    BY <1>1, <1>3, <2>1, TotalIs
<1>l. L = {i \in 1..Len(toMcu) : toMcu[i].seq >= seqs.receive}
  OBVIOUS
<1> HIDE DEF L, G, run
<1>7. Cardinality(Places(toMcu, L)) + run <= RecvWindow
  <2>1. Cardinality(Places(toMcu, L)) <= TotalLen(sent)
    <3>1. 1..Len(sent) \in SUBSET (1..Len(sent))
      OBVIOUS
    <3>2. Cardinality(Places(toMcu, L)) <= Cardinality(Places(sent, 1..Len(sent)))
      BY <1>5, <1>l, <3>1, LiveFits
    <3> QED
      BY <1>1, <3>2, TotalIs
  <2>2. TotalLen(sent) + (IF seqs.last_ack < seqs.receive THEN last_len ELSE 0) <= RecvWindow
    BY DEF LoadInv, Held
  <2>3. Cardinality(Places(toMcu, L)) \in Nat
    BY <1>1, <1>3, PlacesFinite
  <2>4. CASE mcu.running = NoBlock
    <3>1. run = 0
      BY <2>4 DEF NoBlock, run
    <3>2. TotalLen(sent) <= RecvWindow
      BY <1>1, <2>2
    <3> QED
      BY <1>1, <2>1, <2>3, <3>1, <3>2
  <2>5. CASE mcu.running # NoBlock /\ seqs.receive = Expected
    <3>1. seqs.last_ack < seqs.receive /\ last_len = run
      BY <1>1, <2>5 DEF RunInv, run
    <3>2. TotalLen(sent) + run <= RecvWindow
      BY <2>2, <3>1
    <3> QED
      BY <1>1, <1>4, <2>1, <2>3, <3>2
  <2>6. CASE mcu.running # NoBlock /\ seqs.receive # Expected
    <3>1. PICK r, e, l \in Nat : r = seqs.receive /\ e = Expected /\ l = Len(sent)
      BY <1>1
    <3>2. mcu.running = sent[e - r] /\ e <= seqs.send /\ r < e
      BY <2>6, <3>1 DEF RunInv
    <3>3. PICK k \in 1..Len(sent) : k = e - r
      BY <1>1, <3>1, <3>2
    <3> DEFINE J == (1..Len(sent)) \ {k}
    <3>4. J \in SUBSET (1..Len(sent)) /\ k \notin J
      OBVIOUS
    <3>5. ASSUME NEW i \in L PROVE toMcu[i].seq - seqs.receive + 1 \in J
      <4>1. PICK a \in Nat : a = toMcu[i].seq
        BY <1>2, <1>3
      <4>2. ~(a < e)
        BY <1>2, <1>3, <2>6, <3>1, <4>1 DEF FreshInv
      <4>3. a - r + 1 # k
        BY <3>1, <3>3, <4>2
      <4> QED
        BY <1>5, <3>1, <4>1, <4>3
    <3>6. Cardinality(Places(toMcu, L)) <= Cardinality(Places(sent, J))
      BY <1>l, <3>4, <3>5, LiveFits
    <3>7. Cardinality(Places(sent, J)) + Len(sent[k].msgs) <= TotalLen(sent)
      BY <1>1, <3>4, PlacesWith
    <3>8. Cardinality(Places(sent, J)) \in Nat
      BY <1>1, <3>4, PlacesFinite
    <3>9. run = Len(sent[k].msgs)
      BY <3>2, <3>3 DEF run
    <3>10. TotalLen(sent) <= RecvWindow
      BY <1>1, <2>2
    <3> HIDE DEF J
    <3> QED
      BY <1>1, <1>4, <2>3, <3>6, <3>7, <3>8, <3>9, <3>10
  <2> QED
    BY <2>4, <2>5, <2>6
<1>8. Cardinality(Places(toMcu, L)) \in Nat /\ Cardinality(Places(toMcu, G)) \in Nat
  BY <1>1, <1>3, PlacesFinite
<1>9. Cardinality(GivenUp) \in Nat
  <2>1. GivenUp \in SUBSET (1..Len(toMcu)) /\ Len(toMcu) \in Nat
    BY <1>1 DEF GivenUp
  <2>2. IsFiniteSet(1..Len(toMcu))
    BY <2>1, FS_Interval
  <2>3. IsFiniteSet(GivenUp)
    BY <2>1, <2>2, FS_Subset
  <2> QED
    BY <2>3, FS_CardinalityType
<1>10. TotalLen(toMcu) + run <= RecvWindow + Cardinality(GivenUp)
  BY <1>1, <1>4, <1>6, <1>7, <1>8, <1>9, <1>t
<1> QED
  BY <1>10 DEF run

-----------------------------------------------------------------------------
(* The theorems. *)

\* Every variable keeps its type.
THEOREM SerialTypes == Spec => []TypeOK
<1>1. Init => TypeOK
  BY InitTypes
<1>2. TypeOK /\ [Next]_vars => TypeOK'
  BY StepTypes
<1> QED
  BY <1>1, <1>2, PTL DEF Spec

LEMMA InitSerial == Init => SerialInv
<1> SUFFICES ASSUME Init PROVE SerialInv
  OBVIOUS
<1>1. TypeOK
  BY InitTypes
<1>2. /\ next = 1 /\ pending = <<>> /\ buf = <<>> /\ sent = <<>> /\ notify_queue = <<>>
      /\ receive_queue = <<>> /\ toMcu = <<>> /\ toHost = <<>> /\ delivered = <<>>
      /\ resent = {} /\ sampled = 0 /\ filling = FALSE
      /\ seqs.send = 1 /\ seqs.receive = 1 /\ seqs.retransmit = 0 /\ seqs.last_ack = 0
      /\ last_len = 0 /\ mcu.running = NoBlock
      /\ \A q \in Queries : heard[q] = <<>>
  BY DEF Init
<1>3. SentInv
  BY <1>2, Sizes DEF SentInv, Window
<1>4. WireInv
  <2>1. Len(Wire) = 0
    BY <1>2 DEF Wire
  <2> QED
    BY <2>1 DEF WireInv, Close
<1>5. AnswerInv
  BY <1>2 DEF AnswerInv, AnswersOk
<1>6. ConnectInv
  BY <1>2, SerialAssumption DEF ConnectInv
<1>7. ToSet(<<>>) = {} /\ Len(<<>>) = 0
  BY DEF ToSet
<1>8. OrderInv
  BY <1>2, <1>7 DEF OrderInv, Ordered, Increasing, Below
<1>9. KeptInv
  BY <1>2 DEF KeptInv, Kept
<1>10. NotifyInv
  BY <1>2 DEF NotifyInv
<1>11. DoneInv
  BY <1>2, <1>7 DEF DoneInv, IsDone, DataOk
<1>12. NoLateResponse
  BY <1>2 DEF NoLateResponse
<1>13. TimeInv
  BY <1>2 DEF TimeInv
<1>14. TellInv
  BY <1>2, SerialAssumption DEF TellInv
<1>15. LoadInv
  <2>1. TotalLen(sent) = 0 /\ Len(sent) = 0
    BY <1>2, TotalEmpty
  <2>2. Held(sent, last_len, seqs.last_ack, seqs.receive) = 0
    BY <1>2, <2>1 DEF Held
  <2> QED
    BY <1>2, <2>1, <2>2, SerialAssumption DEF LoadInv
<1>16. RunInv
  <2>1. Expected \in Nat
    BY <1>1, <1>3, Numbers
  <2> QED
    BY <1>2, <2>1 DEF RunInv
<1>17. FreshInv
  <2>1. Len(Wire) = 0
    BY <1>2 DEF Wire
  <2> QED
    BY <2>1 DEF FreshInv
<1> QED
  BY <1>1, <1>3, <1>4, <1>5, <1>6, <1>8, <1>9, <1>10, <1>11, <1>12, <1>13, <1>14, <1>15, <1>16,
     <1>17 DEF SerialInv, WindowInv

\* The invariant behind the theorems that follow is kept by every step.
THEOREM SerialInvariant == Spec => []SerialInv
<1>1. Init => SerialInv
  BY InitSerial
<1>2. SerialInv /\ [Next]_vars => SerialInv'
  <2> SUFFICES ASSUME SerialInv, [Next]_vars PROVE SerialInv'
    OBVIOUS
  <2>1. TypeOK'
    BY StepTypes DEF SerialInv
  <2>2. WindowInv'
    BY StepWindow DEF SerialInv
  <2>3. OrderInv' /\ KeptInv'
    BY StepOrder DEF SerialInv
  <2>4. NotifyInv'
    BY StepNotify DEF SerialInv
  <2>5. DoneInv' /\ NoLateResponse'
    BY StepDone DEF SerialInv
  <2>6. TimeInv'
    BY StepTime DEF SerialInv
  <2>7. TellInv'
    BY StepTell DEF SerialInv
  <2>8. LoadInv' /\ RunInv' /\ FreshInv'
    BY StepLoad, StepRun, StepFresh DEF SerialInv
  <2> QED
    BY <2>1, <2>2, <2>3, <2>4, <2>5, <2>6, <2>7, <2>8 DEF SerialInv
<1> QED
  BY <1>1, <1>2, PTL DEF Spec

\* The board runs every message at most once and in the order of sending,
\* however blocks and answers are lost and blocks sent again.
THEOREM SerialRunInOrder == Spec => []RunInOrder
<1>1. SerialInv => RunInOrder
  BY DEF SerialInv, OrderInv, Ordered, Increasing, RunInOrder
<1> QED
  BY <1>1, SerialInvariant, PTL

\* No message after the first is dropped before it has been run: it waits, is
\* kept for retransmission, or has been run.
THEOREM SerialNothingForgotten == Spec => []NothingForgotten
<1>1. SerialInv => NothingForgotten
  BY DEF SerialInv, KeptInv, Kept, MessagesOf, NothingForgotten, SentMessages
<1> QED
  BY <1>1, SerialInvariant, PTL

\* A sender is told that its command is done after the response, if there is
\* one.
THEOREM SerialNoLateResponse == Spec => []NoLateResponse
<1>1. SerialInv => NoLateResponse
  BY DEF SerialInv
<1> QED
  BY <1>1, SerialInvariant, PTL

\* Until something is retransmitted the board has room for all that is on the
\* way, but for an identify query that was given up (check_send_command).
THEOREM SerialWindowHolds == Spec => []WindowHolds
<1>1. SerialInv => WindowHolds
  BY WindowFits DEF SerialInv
<1> QED
  BY <1>1, SerialInvariant, PTL

\* The time given with a response is that of the one transmission of the block
\* of its query.
THEOREM SerialTimeIsOfItsBlock == Spec => TimeIsOfItsBlock
<1> DEFINE Told ==
      \A i \in Len(receive_queue) + 1..Len(receive_queue') :
        LET r == receive_queue'[i] IN
        r.kind = "data" /\ r.time # 0 /\ r.id # Report =>
          /\ r.time \notin resent
          /\ [id |-> r.id, seq |-> r.time] \in ToSet(notify_queue) \/ ToldEarly(r.id)
<1>1. SerialInv /\ [Next]_vars => [Told]_vars
  <2> SUFFICES ASSUME SerialInv, [Next]_vars PROVE Told
    OBVIOUS
  <2>0. /\ receive_queue \in Seq(NewsType) /\ Len(receive_queue) \in Nat
        /\ notify_queue \in Seq(NoteType) /\ seqs.retransmit \in Nat
    BY DEF SerialInv, TypeOK, NewsType, NoteType
  <2>1. CASE HandleMessage /\ ~Unexpected(FullSeq(Head(toHost).seq))
    <3> DEFINE m == Head(toHost)  rseq == FullSeq(m.seq)
    <3>q. \A q \in Queries : q \in Nat
      BY SerialAssumption
    <3>a. TypeOK /\ SentInv /\ AnswerInv /\ ConnectInv /\ NotifyInv /\ TimeInv
      BY DEF SerialInv, WindowInv
    <3>1. /\ m = toHost[1] /\ 1 \in 1..Len(toHost) /\ rseq = Number(seqs.receive, m)
          /\ rseq \in Nat
      BY <2>1, <3>a, HearIs
    <3>2. HandleWindow(rseq)
      BY <2>1, <3>a, HearSent
    <3>3. PICK n \in 0..Len(notify_queue), w \in Seq(NewsType), v \in Seq(NewsType) :
            HandleNews(rseq, m, n, w, v)
      BY <2>1, <3>a, HandleNewsDoes
    <3> HIDE DEF rseq, m
    <3>4. sampled' \in {0, rseq - 1}
      BY <3>2, <3>a DEF HandleWindow, TimeInv
    <3> DEFINE u == w \o v
    <3>5. /\ u \in Seq(NewsType) /\ Len(w) \in Nat
          /\ \A i \in 1..Len(w) : u[i] = w[i]
          /\ \A i \in Len(w) + 1..Len(u) : u[i] = v[i - Len(w)] /\ i - Len(w) \in 1..Len(v)
      BY ConcatIs
    <3>6. receive_queue' = receive_queue \o u
      BY <3>3 DEF HandleNews
    <3> HIDE DEF u
    <3>7. ASSUME NEW i \in Len(receive_queue) + 1..Len(receive_queue')
          PROVE  \E j \in 1..Len(u) : receive_queue'[i] = u[j]
      <4>1. PICK V : V = receive_queue \o u
        OBVIOUS
      <4>2. \A j \in Len(receive_queue) + 1..Len(V) :
              V[j] = u[j - Len(receive_queue)] /\ j - Len(receive_queue) \in 1..Len(u)
        BY <2>0, <3>5, <4>1, ConcatIs
      <4>3. receive_queue' = V
        BY <3>6, <4>1
      <4> QED
        BY <4>2, <4>3
    <3>8. ASSUME NEW j \in 1..Len(u), u[j].kind = "data", u[j].time # 0, u[j].id # Report
          PROVE  /\ u[j].time \notin resent
                 /\ \/ [id |-> u[j].id, seq |-> u[j].time] \in ToSet(notify_queue)
                    \/ ToldEarly(u[j].id)
      <4>1. CASE j \in 1..Len(w)
        BY <3>3, <3>5, <3>8, <4>1 DEF HandleNews
      <4>2. CASE j \notin 1..Len(w)
        <5>1. j \in Len(w) + 1..Len(u)
          BY <3>5, <4>2
        <5>2. u[j] = v[j - Len(w)] /\ j - Len(w) \in 1..Len(v)
          BY <3>5, <5>1
        <5>3. m.kind = "data"
          <6>1. m.kind = "ack" => v = <<>>
            BY <3>3 DEF HandleNews
          <6>2. m.kind # "ack"
            BY <5>2, <6>1
          <6>3. m \in SomeAnswer
            BY <2>1, <3>a, HearIs DEF m
          <6> QED
            BY <6>2, <6>3 DEF SomeAnswer
        <5>4. /\ Len(v) = 1 /\ v[1].id = m.id
              /\ v[1].time = (IF rseq > seqs.retransmit THEN sampled' ELSE 0)
          BY <3>3, <5>3 DEF HandleNews
        <5>5. u[j] = v[1]
          BY <5>2, <5>4
        <5>6. /\ u[j].id = m.id /\ u[j].time = rseq - 1 /\ rseq > seqs.retransmit
          BY <3>4, <3>8, <5>4, <5>5
        <5>7. ASSUME rseq - 1 \in resent PROVE FALSE
          <6>1. rseq - 1 < seqs.retransmit
            BY <3>a, <5>7 DEF TimeInv
          <6> QED
            BY <2>0, <3>1, <5>6, <6>1
        <5>8. ASSUME NEW k \in 1..Len(notify_queue), notify_queue[k].id = m.id
              PROVE  [id |-> m.id, seq |-> rseq - 1] \in ToSet(notify_queue)
          <6>1. notify_queue[k] \in NoteType
            BY <2>0
          <6>2. notify_queue[k].seq \in Nat /\ rseq = notify_queue[k].seq + 1
            BY <3>1, <3>a, <5>8, <6>1 DEF NotifyInv, NoteAnswers, NoteType
          <6>3. notify_queue[k] = [id |-> m.id, seq |-> rseq - 1]
            BY <3>1, <5>8, <6>1, <6>2 DEF NoteType
          <6> QED
            BY <2>0, <6>3, ToSetIs
        <5>9. m.id \in Queries /\ m.id < next /\ m.id \notin ToSet(pending)
          <6>1. m.id # Report /\ m \in SomeAnswer /\ m.id \in ToSet(delivered)
            BY <2>1, <3>1, <3>8, <3>a, <5>6, HearIs DEF AnswerInv, AnswersOk, m
          <6>2. Below(ToSet(delivered), ToSet(pending) \cup {next})
            BY DEF SerialInv, OrderInv, Ordered
          <6>3. m.id \in Queries
            BY <6>1 DEF SomeAnswer
          <6>4. m.id \in Nat
            BY <3>q, <6>3
          <6>5. m.id < next
            BY <6>1, <6>2 DEF Below
          <6>6. m.id \in ToSet(pending) => m.id < m.id
            BY <6>1, <6>2 DEF Below
          <6> QED
            BY <6>3, <6>4, <6>5, <6>6
        <5>10. ~IsDone(m.id, heard, receive_queue)
          BY <3>1, <5>9 DEF SerialInv, DoneInv, DoneOk
        <5>11. \/ \E k \in 1..Len(notify_queue) : notify_queue[k].id = m.id
               \/ ToldEarly(m.id)
          BY <5>9, <5>10 DEF SerialInv, TellInv, IsEarly, ToldEarly
        <5> QED
          BY <5>6, <5>7, <5>8, <5>11
      <4> QED
        BY <4>1, <4>2
    <3>9. ASSUME NEW i \in Len(receive_queue) + 1..Len(receive_queue'), NEW r,
                 r = receive_queue'[i], r.kind = "data", r.time # 0, r.id # Report
          PROVE  /\ r.time \notin resent
                 /\ [id |-> r.id, seq |-> r.time] \in ToSet(notify_queue) \/ ToldEarly(r.id)
      <4>1. PICK j \in 1..Len(u) : r = u[j]
        BY <3>7, <3>9
      <4> QED
        BY <3>8, <3>9, <4>1
    <3> QED
      BY <3>9
  <2>2. CASE ~(HandleMessage /\ ~Unexpected(FullSeq(Head(toHost).seq)))
    <3>1. \/ receive_queue' = receive_queue
          \/ receive_queue # <<>> /\ receive_queue' = Tail(receive_queue)
      BY <2>2 DEF Next, Host, Mcu, CommandEvent, RetransmitEvent, Finished, Send, Pull, KickEvent,
        Fill, WaitForAck, WaitForMessages, WaitForClock, Write, HandleMessage, RetransmitOnNak,
        RetransmitOnTimeout, Retransmit, McuStart, McuFinish, McuReject, McuReport, LoseBlock,
        LoseAnswer, vars, host
    <3>2. Len(receive_queue') \in Nat /\ Len(receive_queue') <= Len(receive_queue)
      BY <2>0, <3>1, TailIs
    <3>3. ASSUME NEW i \in Len(receive_queue) + 1..Len(receive_queue') PROVE FALSE
      BY <2>0, <3>2
    <3> QED
      BY <3>3
  <2> QED
    BY <2>1, <2>2
<1>2. TimeIsOfItsBlock <=> [][Told]_vars
  BY DEF TimeIsOfItsBlock
<1> QED
  BY <1>1, <1>2, SerialInvariant, PTL DEF Spec
=============================================================================
