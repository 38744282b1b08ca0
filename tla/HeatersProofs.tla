---------------------------- MODULE HeatersProofs ----------------------------
(***************************************************************************)
(* Proofs about the extruder heaters, for any extruders, limits and        *)
(* temperatures.  The lists are sequences from which elements are taken at *)
(* many places at once; what is left of them is said by PickedIs.          *)
(***************************************************************************)
EXTENDS Heaters, FiniteSetTheorems, TLAPS

\* While the printer runs, every heater under its target has a place.
ColdHasPlace == ~is_shutdown => \A e \in Extruders : Cold(e) => Heats(e)

\* There are never more places than may heat.
PlacesBounded == Len(active) <= MaxHeating

HeatersInv == TypeOK /\ ColdHasPlace /\ PlacesBounded /\ OffStaysOff

-----------------------------------------------------------------------------
(* Picking elements of a sequence. *)

\* The rank of a place among those that are picked is a numbering of them.
LEMMA RankNumbers ==
  ASSUME NEW n \in Nat, NEW I \in SUBSET (1..n)
  PROVE  LET rank(i) == Cardinality({j \in I : j <= i})
         IN  /\ Cardinality(I) \in 0..n
             /\ \A i \in I : rank(i) \in 1..Cardinality(I)
             /\ \A i, j \in I : i < j => rank(i) < rank(j)
             /\ \A k \in 1..Cardinality(I) : \E i \in I : rank(i) = k
<1> DEFINE upto(i) == {j \in I : j <= i}
           rank(i) == Cardinality(upto(i))
           f == [i \in I |-> rank(i)]
<1>1. IsFiniteSet(I) /\ Cardinality(I) \in 0..n
  <2>1. IsFiniteSet(1..n) /\ Cardinality(1..n) = n
    BY FS_Interval
  <2>2. IsFiniteSet(I) /\ Cardinality(I) <= n
    BY <2>1, FS_Subset
  <2>3. Cardinality(I) \in Nat
    BY <2>2, FS_CardinalityType
  <2> QED
    BY <2>2, <2>3
<1>2. ASSUME NEW i \in I PROVE IsFiniteSet(upto(i)) /\ rank(i) \in 1..Cardinality(I)
  <2>1. upto(i) \in SUBSET I /\ i \in upto(i)
    OBVIOUS
  <2> HIDE DEF upto
  <2>2. IsFiniteSet(upto(i)) /\ rank(i) <= Cardinality(I)
    BY <1>1, <2>1, FS_Subset
  <2>3. rank(i) \in Nat /\ rank(i) # 0
    BY <2>1, <2>2, FS_CardinalityType, FS_EmptySet
  <2> QED
    BY <1>1, <2>2, <2>3
<1>3. ASSUME NEW i \in I, NEW j \in I, i < j PROVE rank(i) < rank(j)
  <2>1. upto(i) \in SUBSET upto(j) /\ j \in upto(j) /\ j \notin upto(i)
    <3>1. i \in Nat /\ j \in Nat /\ \A k \in I : k \in Nat
      OBVIOUS
    <3>2. j \in upto(j) /\ j \notin upto(i)
      BY <1>3, <3>1
    <3>3. ASSUME NEW k \in upto(i) PROVE k \in upto(j)
      BY <1>3, <3>1
    <3> QED
      BY <3>2, <3>3
  <2>2. IsFiniteSet(upto(j)) /\ rank(i) \in Nat /\ rank(j) \in Nat
    BY <1>1, <1>2
  <2> HIDE DEF upto
  <2>3. rank(i) <= rank(j) /\ rank(i) # rank(j)
    BY <2>1, <2>2, FS_Subset
  <2> QED
    BY <2>2, <2>3
<1>4. \A k \in 1..Cardinality(I) : \E i \in I : rank(i) = k
  <2>1. f \in [I -> 1..Cardinality(I)]
    BY <1>2
  <2>2. \A i, j \in I : f[i] = f[j] => i = j
    <3>1. SUFFICES ASSUME NEW i \in I, NEW j \in I, i # j PROVE rank(i) # rank(j)
      OBVIOUS
    <3>2. i < j \/ j < i
      BY <3>1
    <3>3. rank(i) \in Nat /\ rank(j) \in Nat
      BY <1>1, <1>2
    <3> HIDE DEF rank
    <3> QED
      BY <1>3, <3>2, <3>3
  <2>3. IsFiniteSet(1..Cardinality(I)) /\ Cardinality(1..Cardinality(I)) = Cardinality(I)
    BY <1>1, FS_Interval
  <2> HIDE DEF f
  <2>4. f \in Injection(I, 1..Cardinality(I))
    BY <2>1, <2>2 DEF Injection, IsInjective
  <2>5. f \in Surjection(I, 1..Cardinality(I))
    BY <2>3, <2>4, FS_Injection
  <2> USE DEF f
  <2> QED
    BY <2>5 DEF Surjection
<1> QED
  BY <1>1, <1>2, <1>3, <1>4

\* What is picked are the elements at the places I, each of them, and no more.
LEMMA PickedIs ==
  ASSUME NEW D, NEW s \in Seq(D), NEW I \in SUBSET (1..Len(s))
  PROVE  /\ Picked(s, I) \in Seq(D)
         /\ Len(Picked(s, I)) = Cardinality(I) /\ Cardinality(I) \in 0..Len(s)
         /\ \A k \in 1..Len(Picked(s, I)) : \E i \in I : Picked(s, I)[k] = s[i]
         /\ \A i \in I : \E k \in 1..Len(Picked(s, I)) : Picked(s, I)[k] = s[i]
<1> DEFINE rank(i) == Cardinality({j \in I : j <= i})
           place(k) == CHOOSE i \in I : rank(i) = k
           p == [k \in 1..Cardinality(I) |-> s[place(k)]]
<1>1. Picked(s, I) = p
  BY DEF Picked
<1>2. /\ Cardinality(I) \in 0..Len(s)
      /\ \A i \in I : rank(i) \in 1..Cardinality(I)
      /\ \A i, j \in I : i < j => rank(i) < rank(j)
      /\ \A k \in 1..Cardinality(I) : \E i \in I : rank(i) = k
  <2>1. Len(s) \in Nat
    OBVIOUS
  <2> QED
    BY <2>1, RankNumbers
<1> HIDE DEF rank
<1>3. \A k \in 1..Cardinality(I) : place(k) \in I /\ rank(place(k)) = k
  BY <1>2
<1>4. \A i \in I : place(rank(i)) = i
  <2>1. SUFFICES ASSUME NEW i \in I, NEW j \in I, rank(i) = rank(j) PROVE i = j
    BY <1>2, <1>3
  <2> QED
    BY <1>2, <2>1
<1> HIDE DEF place
<1>5. p \in Seq(D) /\ Len(p) = Cardinality(I)
  <2>1. \A k \in 1..Cardinality(I) : s[place(k)] \in D
    <3>1. \A i \in I : s[i] \in D
      OBVIOUS
    <3> QED
      BY <1>3, <3>1
  <2> QED
    BY <1>2, <2>1
<1> QED
  BY <1>1, <1>2, <1>3, <1>4, <1>5

-----------------------------------------------------------------------------
(* The lists. *)

\* What list.remove leaves: the other extruders keep their places.
LEMMA RemoveFirstIs ==
  ASSUME TypeOK, NEW e \in Extruders
  PROVE  /\ RemoveFirst(e) \in Seq(Extruders)
         /\ Len(RemoveFirst(e)) <= Len(active)
         /\ \A d \in Extruders \ {e} :
              Heats(d) => \E k \in 1..Len(RemoveFirst(e)) : RemoveFirst(e)[k] = d
<1> DEFINE I == {i \in 1..Len(active) : active[i] = e => \E j \in 1..(i - 1) : active[j] = e}
<1>1. active \in Seq(Extruders)
  BY DEF TypeOK
<1>2. I \in SUBSET (1..Len(active)) /\ RemoveFirst(e) = Picked(active, I)
  BY DEF RemoveFirst
<1>3. \A i \in 1..Len(active) : active[i] # e => i \in I
  OBVIOUS
<1>4. Len(active) \in Nat
  BY <1>1
<1> HIDE DEF I
<1>5. /\ Picked(active, I) \in Seq(Extruders)
      /\ Len(Picked(active, I)) <= Len(active)
      /\ \A i \in I : \E k \in 1..Len(Picked(active, I)) : Picked(active, I)[k] = active[i]
  BY <1>1, <1>2, <1>4, PickedIs
<1> QED
  BY <1>2, <1>3, <1>5 DEF Heats

\* What is queued when an extruder has been turned off: requests for others.
LEMMA CancelIs ==
  ASSUME TypeOK, NEW e \in Extruders
  PROVE  LET left == Picked(pending, {i \in 1..Len(pending) : pending[i].heater # e})
         IN  /\ left \in Seq(Request)
             /\ \A k \in 1..Len(left) : left[k].heater # e /\ Queued(left[k].heater)
<1> DEFINE I == {i \in 1..Len(pending) : pending[i].heater # e}
<1>1. pending \in Seq(Request)
  BY DEF TypeOK
<1>2. I \in SUBSET (1..Len(pending))
  OBVIOUS
<1>3. \A i \in I : pending[i].heater # e /\ Queued(pending[i].heater)
  BY DEF Queued
<1> HIDE DEF I
<1>4. /\ Picked(pending, I) \in Seq(Request)
      /\ \A k \in 1..Len(Picked(pending, I)) : \E i \in I : Picked(pending, I)[k] = pending[i]
  BY <1>1, <1>2, PickedIs
<1>5. QED
  BY <1>3, <1>4 DEF I

\* The queue after a request: nothing is in it that was not, but the request.
LEMMA UpsertIs ==
  ASSUME TypeOK, NEW e \in Extruders, NEW t \in Nat
  PROVE  /\ Upsert(e, t) \in Seq(Request)
         /\ \A k \in 1..Len(Upsert(e, t)) : Upsert(e, t)[k].heater = e \/ Queued(Upsert(e, t)[k].heater)
<1> DEFINE request == [heater |-> e, temp |-> t]
<1>1. pending \in Seq(Request) /\ request \in Request
  BY DEF TypeOK, Request
<1>2. \A i \in 1..Len(pending) : Queued(pending[i].heater)
  BY DEF Queued
<1>3. CASE Queued(e)
  <2>1. Upsert(e, t) = [i \in 1..Len(pending) |-> IF pending[i].heater = e THEN request ELSE pending[i]]
    BY <1>3 DEF Upsert
  <2> HIDE DEF request
  <2>2. \A i \in 1..Len(pending) : pending[i] \in Request
    BY <1>1
  <2>3. Upsert(e, t) \in Seq(Request) /\ Len(Upsert(e, t)) = Len(pending)
    BY <1>1, <2>1, <2>2
  <2> USE DEF request
  <2> QED
    BY <1>2, <2>1, <2>3
<1>4. CASE ~Queued(e)
  <2>1. Upsert(e, t) = Append(pending, request)
    BY <1>4 DEF Upsert
  <2>2. /\ Append(pending, request) \in Seq(Request)
        /\ \A k \in 1..Len(Append(pending, request)) :
             Append(pending, request)[k] = (IF k = Len(pending) + 1 THEN request ELSE pending[k])
        /\ Len(Append(pending, request)) = Len(pending) + 1
    BY <1>1
  <2> QED
    BY <1>1, <1>2, <2>1, <2>2
<1> QED
  BY <1>3, <1>4

\* The extruders a tick leaves their place: the ones under their target.
LEMMA KeptIs ==
  ASSUME TypeOK
  PROVE  LET kept == Picked(active, {i \in 1..Len(active) : StillHeating(active[i])})
         IN  /\ kept \in Seq(Extruders)
             /\ Len(kept) <= Len(active)
             /\ \A e \in Extruders : Heats(e) /\ Cold(e) => \E k \in 1..Len(kept) : kept[k] = e
<1> DEFINE I == {i \in 1..Len(active) : StillHeating(active[i])}
<1>1. active \in Seq(Extruders) /\ Len(active) \in Nat
  BY DEF TypeOK
<1>2. I \in SUBSET (1..Len(active))
  OBVIOUS
<1>3. \A e \in Extruders : Heats(e) /\ Cold(e) => \E i \in I : active[i] = e
  BY DEF Heats, StillHeating
<1> HIDE DEF I
<1>4. /\ Picked(active, I) \in Seq(Extruders)
      /\ Len(Picked(active, I)) <= Len(active)
      /\ \A i \in I : \E k \in 1..Len(Picked(active, I)) : Picked(active, I)[k] = active[i]
  <2>1. /\ Picked(active, I) \in Seq(Extruders)
        /\ Len(Picked(active, I)) = Cardinality(I) /\ Cardinality(I) \in 0..Len(active)
        /\ \A i \in I : \E k \in 1..Len(Picked(active, I)) : Picked(active, I)[k] = active[i]
    BY <1>1, <1>2, PickedIs
  <2> QED
    BY <1>1, <2>1
<1>5. QED
  BY <1>3, <1>4 DEF I

\* A tick starts no more requests than there are, and than there are places for.
LEMMA StartedIs ==
  ASSUME TypeOK, NEW free \in Nat
  PROVE  Started(free) \in 0..Len(pending) /\ Started(free) <= free
<1> DEFINE tried == IF Len(pending) < free THEN Len(pending) ELSE free
           I == {i \in 1..tried : \A j \in 1..(i - 1) : InRange(pending[j].temp)}
<1>1. tried \in Nat /\ tried <= free /\ tried <= Len(pending)
  BY DEF TypeOK
<1>2. I \in SUBSET (1..tried) /\ Started(free) = Cardinality(I)
  BY DEF Started
<1>3. Len(pending) \in Nat
  BY DEF TypeOK
<1> HIDE DEF I, tried
<1>4. Cardinality(I) \in 0..tried
  BY <1>1, <1>2, RankNumbers
<1> QED
  BY <1>1, <1>2, <1>3, <1>4

-----------------------------------------------------------------------------
(* The steps, one lemma for each part of the invariant. *)

\* What the lists are after a tick, and the targets.
LEMMA TickIs ==
  ASSUME TypeOK, PlacesBounded, Tick
  PROVE  /\ active' \in Seq(Extruders) /\ pending' \in Seq(Request)
         /\ Len(active') <= MaxHeating
         /\ target' \in [Extruders -> Nat]
         /\ \A k \in 1..Len(pending') : Queued(pending'[k].heater)
         /\ \A e \in Extruders : Heats(e) /\ Cold(e) => \E k \in 1..Len(active') : active'[k] = e
         /\ \A e \in Extruders :
              target'[e] # target[e] => Queued(e) /\ \E k \in 1..Len(active') : active'[k] = e
<1> DEFINE kept == Picked(active, {i \in 1..Len(active) : StillHeating(active[i])})
           n == Started(MaxHeating - Len(kept))
           started == {i \in 1..n : InRange(pending[i].temp)}
           head == [i \in 1..n |-> pending[i].heater]
           chosen(e) == CHOOSE i \in started : pending[i].heater = e
<1>1. /\ active' = kept \o head
      /\ pending' = SubSeq(pending, n + 1, Len(pending))
      /\ target' = [e \in Extruders |-> IF \E i \in started : pending[i].heater = e
                                        THEN pending[chosen(e)].temp ELSE target[e]]
  BY DEF Tick
<1>2. /\ kept \in Seq(Extruders) /\ Len(kept) <= Len(active)
      /\ \A e \in Extruders : Heats(e) /\ Cold(e) => \E k \in 1..Len(kept) : kept[k] = e
  BY KeptIs
<1>3. Len(active) \in Nat /\ Len(pending) \in Nat /\ MaxHeating \in Nat
      /\ \A i \in 1..Len(pending) : pending[i] \in Request
  BY HeatersAssumption DEF TypeOK
<1> HIDE DEF kept
<1>4. MaxHeating - Len(kept) \in Nat
  BY <1>2, <1>3 DEF PlacesBounded
<1>5. n \in 0..Len(pending) /\ n <= MaxHeating - Len(kept)
  BY <1>4, StartedIs
<1> HIDE DEF n
<1>6. \A i \in 1..n : pending[i] \in Request /\ Queued(pending[i].heater)
  BY <1>3, <1>5 DEF Queued
<1>7. head \in Seq(Extruders) /\ Len(head) = n
  <2>1. \A i \in 1..n : pending[i].heater \in Extruders
    BY <1>6 DEF Request
  <2> QED
    BY <1>3, <1>5, <2>1
<1>8. \A i \in 1..n : head[i] = pending[i].heater
  OBVIOUS
<1> HIDE DEF head
<1>9. /\ kept \o head \in Seq(Extruders) /\ Len(kept \o head) = Len(kept) + n
      /\ \A k \in 1..Len(kept) : (kept \o head)[k] = kept[k]
      /\ \A i \in 1..n : (kept \o head)[Len(kept) + i] = head[i]
  BY <1>2, <1>7
<1>10. /\ SubSeq(pending, n + 1, Len(pending)) \in Seq(Request)
       /\ \A k \in 1..Len(SubSeq(pending, n + 1, Len(pending))) :
            /\ SubSeq(pending, n + 1, Len(pending))[k] = pending[n + k]
            /\ n + k \in 1..Len(pending)
  BY <1>3, <1>5 DEF TypeOK
<1>11. ASSUME NEW e \in Extruders, \E i \in started : pending[i].heater = e
       PROVE  /\ pending[chosen(e)].temp \in Nat /\ Queued(e)
              /\ \E k \in 1..Len(active') : active'[k] = e
  <2>1. chosen(e) \in started /\ pending[chosen(e)].heater = e
    BY <1>11
  <2> HIDE DEF chosen
  <2>2. chosen(e) \in 1..n /\ chosen(e) \in Nat
    BY <1>3, <1>5, <2>1
  <2>3. Len(kept) + chosen(e) \in 1..Len(active') /\ active'[Len(kept) + chosen(e)] = e
    BY <1>1, <1>2, <1>3, <1>5, <1>8, <1>9, <2>1, <2>2
  <2> QED
    BY <1>6, <2>1, <2>2, <2>3 DEF Request
<1> HIDE DEF chosen, started
<1>12. target' \in [Extruders -> Nat]
  BY <1>1, <1>11 DEF TypeOK
<1>13. \A k \in 1..Len(pending') : Queued(pending'[k].heater)
  BY <1>1, <1>10 DEF Queued
<1>14. ASSUME NEW e \in Extruders, Heats(e), Cold(e)
       PROVE  \E k \in 1..Len(active') : active'[k] = e
  <2>1. PICK k \in 1..Len(kept) : kept[k] = e
    BY <1>2, <1>14
  <2>2. k \in 1..Len(active') /\ active'[k] = e
    BY <1>1, <1>2, <1>5, <1>9, <2>1
  <2> QED
    BY <2>2
<1>15. Len(active') <= MaxHeating
  BY <1>1, <1>2, <1>3, <1>5, <1>9
<1>16. ASSUME NEW e \in Extruders, target'[e] # target[e]
       PROVE  Queued(e) /\ \E k \in 1..Len(active') : active'[k] = e
  <2>1. \E i \in started : pending[i].heater = e
    BY <1>1, <1>16
  <2> QED
    BY <1>11, <2>1
<1> QED
  BY <1>1, <1>9, <1>10, <1>12, <1>13, <1>14, <1>15, <1>16

\* What a command does that sets the temperature of a heater.
LEMMA SetTempIs ==
  ASSUME TypeOK, NEW e \in Extruders, NEW t \in Nat, SetTemp(e, t)
  PROVE  /\ target' \in [Extruders -> Nat] /\ asked' \in [Extruders -> Nat]
         /\ \A d \in Extruders \ {e} : target'[d] = target[d] /\ asked'[d] = asked[d]
         /\ \/ target'[e] = t /\ asked'[e] = t
            \/ ~InRange(t) /\ target'[e] = target[e] /\ asked'[e] = asked[e]
BY DEF TypeOK, SetTemp

\* The steps of Next, with the ones that turn all heaters off, and the ones that
\* change neither a list nor a target, taken together.
LEMMA StepCases ==
  ASSUME TypeOK, [Next]_vars
  PROVE  \/ \E e \in Extruders, t \in Requests, wait \in BOOLEAN :
              Adjust(e, t, wait) \/ Start(e, t, wait) \/ Enqueue(e, t, wait)
         \/ \E e \in Extruders : Cool(e)
         \/ AllOff /\ UNCHANGED temp
         \/ Tick
         \/ /\ UNCHANGED <<target, active, pending, asked>>
            /\ \/ UNCHANGED temp /\ (is_shutdown => is_shutdown')
               \/ /\ UNCHANGED is_shutdown
                  /\ \E e \in Extruders : Warm(e) \/ CoolDown(e)
<1>1. CASE Commands
  BY <1>1 DEF Commands, SetTemperature, TurnOff, RequestRestart
<1>2. CASE Command
  BY <1>2 DEF Command, Warmed, Look, Heated, Restart, heat
<1>3. CASE \E e \in Extruders : Plant(e)
  BY <1>3 DEF Plant, Warm, CoolDown
<1>4. CASE HeaterFault \/ Stop
  BY <1>4 DEF HeaterFault, Stop, ShutDown, heat
<1>5. CASE UNCHANGED vars
  BY <1>5 DEF vars, heat
<1> QED
  BY <1>1, <1>2, <1>3, <1>4, <1>5 DEF Next

LEMMA TypesStep ==
  ASSUME TypeOK, PlacesBounded, [Next]_vars
  PROVE  TypeOK'
<1>1. /\ temp' \in [Extruders -> Nat]
  <2>1. CASE \E e \in Extruders : Warm(e)
    BY <2>1 DEF Warm, TypeOK
  <2>2. CASE \E e \in Extruders : CoolDown(e)
    <3>1. PICK e \in Extruders : CoolDown(e)
      BY <2>2
    <3>2. temp[e] \in Nat /\ target[e] \in Nat /\ temp[e] > 0
      BY <3>1 DEF CoolDown, TypeOK
    <3> QED
      BY <3>1, <3>2 DEF CoolDown, TypeOK
  <2>3. CASE UNCHANGED temp
    BY <2>3 DEF TypeOK
  <2>4. Tick => UNCHANGED temp
    BY DEF Tick
  <2> QED
    BY <2>1, <2>2, <2>3, <2>4, StepCases DEF Adjust, Start, Enqueue, Cool
<1>2. /\ target' \in [Extruders -> Nat] /\ asked' \in [Extruders -> Nat]
      /\ active' \in Seq(Extruders) /\ pending' \in Seq(Request)
  <2>1. CASE \E e \in Extruders, t \in Requests, wait \in BOOLEAN : Adjust(e, t, wait)
    BY <2>1, SetTempIs, HeatersAssumption DEF Adjust, SetAndWait, TypeOK
  <2>2. CASE \E e \in Extruders, t \in Requests, wait \in BOOLEAN : Start(e, t, wait)
    <3>1. PICK e \in Extruders, t \in Requests, wait \in BOOLEAN : Start(e, t, wait)
      BY <2>2
    <3>2. Append(active, e) \in Seq(Extruders)
      BY DEF TypeOK
    <3> QED
      BY <3>1, <3>2, SetTempIs, HeatersAssumption DEF Start, SetAndWait, TypeOK
  <2>3. CASE \E e \in Extruders, t \in Requests, wait \in BOOLEAN : Enqueue(e, t, wait)
    <3>1. PICK e \in Extruders, t \in Requests, wait \in BOOLEAN : Enqueue(e, t, wait)
      BY <2>3
    <3>2. t \in Nat
      BY HeatersAssumption
    <3>3. [asked EXCEPT ![e] = t] \in [Extruders -> Nat]
      BY <3>2 DEF TypeOK
    <3> QED
      BY <3>1, <3>2, <3>3, UpsertIs DEF Enqueue, TypeOK
  <2>4. CASE \E e \in Extruders : Cool(e)
    BY <2>4, SetTempIs, RemoveFirstIs, CancelIs DEF Cool
  <2>5. CASE AllOff
    BY <2>5 DEF AllOff
  <2>6. CASE Tick
    BY <2>6, TickIs DEF Tick, TypeOK
  <2>7. CASE UNCHANGED <<target, active, pending, asked>>
    BY <2>7 DEF TypeOK
  <2> QED
    BY <2>1, <2>2, <2>3, <2>4, <2>5, <2>6, <2>7, StepCases
<1> DEFINE CommandTypes == at \in Places /\ who \in Extruders \cup {Nobody}
<1>3. CommandTypes'
  <2>1. \A place \in Places, e \in Extruders \cup {Nobody} :
          Waits_(place, e) \/ Ends \/ UNCHANGED command => CommandTypes'
    BY DEF TypeOK, Waits_, Ends, Places, command
  <2> HIDE DEF CommandTypes
  <2>2. CASE SetTemperature
    BY <2>1, <2>2 DEF SetTemperature, Adjust, Start, Enqueue, SetAndWait, Places
  <2>3. CASE (\E e \in Extruders : Cool(e)) \/ TurnOff \/ RequestRestart
    BY <2>1, <2>3 DEF Cool, TurnOff, RequestRestart, Places
  <2>4. CASE Warmed \/ Restart
    BY <2>1, <2>4 DEF Warmed, Restart, Places
  <2>5. CASE Look \/ Heated
    BY <2>1, <2>5 DEF Look, Heated, Places, TypeOK
  <2>6. CASE Tick
    BY <2>1, <2>6 DEF Tick, Places
  <2>7. CASE UNCHANGED command
    BY <2>1, <2>7 DEF Places
  <2> QED
    BY <2>2, <2>3, <2>4, <2>5, <2>6, <2>7
       DEF Next, Commands, Command, Plant, Warm, CoolDown, HeaterFault, Stop, ShutDown, vars
<1>4. ticking' \in BOOLEAN /\ is_shutdown' \in BOOLEAN
  <2>1. CASE Tick
    BY <2>1 DEF Tick, TypeOK
  <2>2. CASE ~Tick
    BY <2>2 DEF TypeOK, Next, Commands, SetTemperature, Adjust, Start, Enqueue, Cool, TurnOff,
         RequestRestart, Command, Warmed, Look, Heated, Restart, Plant, Warm, CoolDown,
         HeaterFault, Stop, ShutDown, vars
  <2> QED
    BY <2>1, <2>2
<1> QED
  BY <1>1, <1>2, <1>3, <1>4 DEF TypeOK

LEMMA PlacesStep ==
  ASSUME TypeOK, TypeOK', PlacesBounded, ColdHasPlace, [Next]_vars
  PROVE  PlacesBounded' /\ ColdHasPlace'
<1> USE DEF PlacesBounded, ColdHasPlace
<1>1. ASSUME NEW e \in Extruders, NEW t \in Requests, NEW wait \in BOOLEAN, Adjust(e, t, wait)
      PROVE  PlacesBounded' /\ ColdHasPlace'
  <2>1. \A d \in Extruders \ {e} : target'[d] = target[d]
    BY <1>1, SetTempIs, HeatersAssumption DEF Adjust, SetAndWait
  <2> QED
    BY <1>1, <2>1 DEF Adjust, Heats, Cold
<1>2. ASSUME NEW e \in Extruders, NEW t \in Requests, NEW wait \in BOOLEAN, Start(e, t, wait)
      PROVE  PlacesBounded' /\ ColdHasPlace'
  <2>1. /\ \A d \in Extruders \ {e} : target'[d] = target[d]
        /\ active' = Append(active, e) /\ UNCHANGED <<temp, is_shutdown>>
        /\ Len(active) < MaxHeating
    BY <1>2, SetTempIs, HeatersAssumption DEF Start, SetAndWait
  <2>2. /\ Len(active') = Len(active) + 1 /\ Len(active) \in Nat /\ MaxHeating \in Nat
        /\ active'[Len(active) + 1] = e
        /\ \A i \in 1..Len(active) : active'[i] = active[i]
    <3>1. active \in Seq(Extruders)
      BY DEF TypeOK
    <3> QED
      BY <2>1, <3>1, HeatersAssumption
  <2>3. \A d \in Extruders : Heats(d) \/ d = e => Heats(d)'
    BY <2>2 DEF Heats
  <2> QED
    BY <2>1, <2>2, <2>3 DEF Cold
<1>3. ASSUME NEW e \in Extruders, NEW t \in Requests, NEW wait \in BOOLEAN, Enqueue(e, t, wait)
      PROVE  PlacesBounded' /\ ColdHasPlace'
  BY <1>3 DEF Enqueue, Heats, Cold
<1>4. ASSUME NEW e \in Extruders, Cool(e)
      PROVE  PlacesBounded' /\ ColdHasPlace'
  <2>1. active' = RemoveFirst(e) /\ SetTemp(e, 0) /\ UNCHANGED <<temp, is_shutdown>>
    BY <1>4 DEF Cool
  <2>2. InRange(0)
    BY HeatersAssumption DEF InRange
  <2>3. target'[e] = 0 /\ \A d \in Extruders \ {e} : target'[d] = target[d]
    BY <2>1, <2>2, SetTempIs
  <2>4. ~Cold(e)'
    BY <2>1, <2>3 DEF Cold, TypeOK
  <2>5. \A d \in Extruders \ {e} : Heats(d) => Heats(d)'
    BY <2>1, RemoveFirstIs DEF Heats
  <2>6. Len(active') <= Len(active) /\ Len(active') \in Nat /\ Len(active) \in Nat /\ MaxHeating \in Nat
    <3>1. active \in Seq(Extruders) /\ active' \in Seq(Extruders)
      BY DEF TypeOK
    <3> QED
      BY <2>1, <3>1, RemoveFirstIs, HeatersAssumption
  <2> QED
    BY <2>1, <2>3, <2>4, <2>5, <2>6 DEF Cold
<1>5. CASE AllOff /\ UNCHANGED temp
  <2>1. \A e \in Extruders : ~Cold(e)'
    BY <1>5 DEF AllOff, Cold, TypeOK
  <2> QED
    BY <1>5, <2>1, HeatersAssumption DEF AllOff
<1>6. CASE Tick
  <2>1. \A e \in Extruders : Heats(e) /\ Cold(e) => Heats(e)'
    BY <1>6, TickIs DEF Heats
  <2>2. \A e \in Extruders : target'[e] = target[e] \/ Heats(e)'
    BY <1>6, TickIs DEF Heats
  <2>3. ~is_shutdown' => ~is_shutdown
    BY <1>6 DEF Tick
  <2> QED
    BY <1>6, <2>1, <2>2, <2>3, TickIs DEF Tick, Cold
<1>7. CASE /\ UNCHANGED <<target, active, pending, asked>>
           /\ UNCHANGED temp /\ (is_shutdown => is_shutdown')
  BY <1>7 DEF Heats, Cold
<1>8. CASE /\ UNCHANGED <<target, active, pending, asked, is_shutdown>>
           /\ \E e \in Extruders : Warm(e) \/ CoolDown(e)
  <2>1. ~is_shutdown => \A e \in Extruders : Cold(e)' => Cold(e)
    <3>1. ASSUME NEW d \in Extruders, NEW e \in Extruders, Warm(d), Cold(e)' PROVE Cold(e)
      BY <1>8, <3>1 DEF Warm, Cold, TypeOK
    <3>2. ASSUME NEW d \in Extruders, NEW e \in Extruders, CoolDown(d), Cold(e)', ~is_shutdown
          PROVE  Cold(e)
      <4>1. temp[d] \in Nat /\ target[d] \in Nat /\ temp[d] > target[d]
        BY <3>2 DEF CoolDown, TypeOK
      <4>2. temp' = [temp EXCEPT ![d] = temp[d] - 1]
        BY <3>2 DEF CoolDown
      <4>3. CASE e = d
        BY <1>8, <3>2, <4>1, <4>2, <4>3 DEF Cold, TypeOK
      <4>4. CASE e # d
        BY <1>8, <3>2, <4>2, <4>4 DEF Cold, TypeOK
      <4> QED
        BY <4>3, <4>4
    <3> QED
      BY <1>8, <3>1, <3>2
  <2> QED
    BY <1>8, <2>1 DEF Heats
<1> QED
  BY <1>1, <1>2, <1>3, <1>4, <1>5, <1>6, <1>7, <1>8, StepCases

LEMMA OffStep ==
  ASSUME TypeOK, PlacesBounded, OffStaysOff, [Next]_vars
  PROVE  OffStaysOff'
<1> USE DEF OffStaysOff
<1>1. ASSUME NEW e \in Extruders, NEW t \in Requests, NEW wait \in BOOLEAN,
             Adjust(e, t, wait) \/ Start(e, t, wait)
      PROVE  OffStaysOff'
  <2>1. SetTemp(e, t) /\ UNCHANGED pending /\ t > 0 /\ t \in Nat
    BY <1>1, HeatersAssumption DEF Adjust, Start, SetAndWait
  <2> QED
    BY <2>1, SetTempIs DEF Queued
<1>2. ASSUME NEW e \in Extruders, NEW t \in Requests, NEW wait \in BOOLEAN, Enqueue(e, t, wait)
      PROVE  OffStaysOff'
  <2>1. pending' = Upsert(e, t) /\ t > 0 /\ t \in Nat /\ UNCHANGED target
    BY <1>2, HeatersAssumption DEF Enqueue
  <2>2. asked'[e] = t /\ \A d \in Extruders \ {e} : asked'[d] = asked[d]
    BY <1>2 DEF Enqueue, TypeOK
  <2>3. \A d \in Extruders \ {e} : Queued(d)' => Queued(d)
    BY <2>1, UpsertIs DEF Queued
  <2> QED
    BY <2>1, <2>2, <2>3
<1>3. ASSUME NEW e \in Extruders, Cool(e)
      PROVE  OffStaysOff'
  <2>1. SetTemp(e, 0) /\ InRange(0)
    BY <1>3, HeatersAssumption DEF Cool, InRange
  <2>2. ~Queued(e)' /\ \A d \in Extruders : Queued(d)' => Queued(d)
    BY <1>3, CancelIs DEF Cool, Queued
  <2> QED
    BY <2>1, <2>2, SetTempIs
<1>4. CASE AllOff
  BY <1>4 DEF AllOff, Queued
<1>5. CASE Tick
  <2>1. UNCHANGED asked /\ \A e \in Extruders : target'[e] # target[e] => Queued(e)
    BY <1>5, TickIs DEF Tick
  <2>2. \A e \in Extruders : Queued(e)' => Queued(e)
    <3> SUFFICES ASSUME NEW e \in Extruders, NEW k \in 1..Len(pending'), pending'[k].heater = e
                 PROVE  Queued(e)
      BY DEF Queued
    <3> QED
      BY <1>5, TickIs
  <2> QED
    BY <2>1, <2>2
<1>6. CASE UNCHANGED <<target, active, pending, asked>>
  BY <1>6 DEF Queued
<1> QED
  BY <1>1, <1>2, <1>3, <1>4, <1>5, <1>6, StepCases

-----------------------------------------------------------------------------
(* The theorems. *)

\* The lists, the temperatures and the command have their types, every heater
\* under its target has one of the places, and there are no more than may heat.
THEOREM HeatersInvariant == Spec => []HeatersInv
<1>1. Init => HeatersInv
  <2>1. Init => TypeOK
    <3> SUFFICES ASSUME Init PROVE TypeOK
      OBVIOUS
    <3>1. /\ temp \in [Extruders -> Nat] /\ target \in [Extruders -> Nat]
          /\ asked \in [Extruders -> Nat]
      BY DEF Init
    <3>2. active \in Seq(Extruders) /\ pending \in Seq(Request)
      BY DEF Init
    <3> QED
      BY <3>1, <3>2 DEF Init, TypeOK, Places
  <2>2. Init => PlacesBounded /\ ColdHasPlace /\ OffStaysOff
    BY HeatersAssumption DEF Init, PlacesBounded, ColdHasPlace, OffStaysOff, Cold, Queued
  <2> QED
    BY <2>1, <2>2 DEF HeatersInv
<1>2. HeatersInv /\ [Next]_vars => HeatersInv'
  BY TypesStep, PlacesStep, OffStep DEF HeatersInv
<1> QED
  BY <1>1, <1>2, PTL DEF Spec

\* No two commands, ticks and changes of temperature make more extruders draw
\* full power than may heat.
THEOREM HeatersPowerBudget == Spec => []PowerBudget
<1>1. HeatersInv => PowerBudget
  <2> SUFFICES ASSUME HeatersInv, ~is_shutdown
               PROVE  Cardinality({e \in Extruders : Cold(e)}) <= MaxHeating
    BY DEF PowerBudget
  <2> DEFINE cold == {e \in Extruders : Cold(e)}
             places == {i \in 1..Len(active) : Cold(active[i])}
             f == [i \in places |-> active[i]]
  <2>1. active \in Seq(Extruders) /\ Len(active) \in Nat /\ Len(active) <= MaxHeating /\ MaxHeating \in Nat
    BY HeatersAssumption DEF HeatersInv, TypeOK, PlacesBounded
  <2>2. \A e \in cold : \E i \in places : active[i] = e
    BY DEF HeatersInv, ColdHasPlace, Heats
  <2>3. f \in [places -> cold]
    BY <2>1
  <2>4. IsFiniteSet(1..Len(active)) /\ Cardinality(1..Len(active)) = Len(active)
    <3>1. \A n \in Nat : IsFiniteSet(1..n) /\ Cardinality(1..n) = n
      BY FS_Interval
    <3> QED
      BY <2>1, <3>1
  <2>5. places \in SUBSET (1..Len(active))
    OBVIOUS
  <2>6. \A e \in cold : \E i \in places : f[i] = e
    BY <2>2
  <2> HIDE DEF places, cold, f
  <2>7. f \in Surjection(places, cold)
    BY <2>3, <2>6 DEF Surjection
  <2>8. IsFiniteSet(places) /\ Cardinality(places) <= Len(active)
    BY <2>4, <2>5, FS_Subset
  <2>9. IsFiniteSet(cold) /\ Cardinality(cold) <= Cardinality(places)
    BY <2>7, <2>8, FS_Surjection
  <2>10. Cardinality(cold) \in Nat /\ Cardinality(places) \in Nat
    BY <2>8, <2>9, FS_CardinalityType
  <2> QED
    BY <2>1, <2>8, <2>9, <2>10 DEF cold
<1> QED
  BY <1>1, HeatersInvariant, PTL

\* A heater turned off is not started again by what was queued for it.
THEOREM HeatersOffStaysOff == Spec => []OffStaysOff
<1>1. HeatersInv => OffStaysOff
  BY DEF HeatersInv
<1> QED
  BY <1>1, HeatersInvariant, PTL
=============================================================================
