------------------------------ MODULE Heaters ------------------------------
(***************************************************************************)
(* The extruder heaters of extras/heaters.py.  FlashForge lets only        *)
(* MaxHeating extruders heat up at a time: the others queue in             *)
(* pending_extruders until the timer of _check_heater_queue finds a place. *)
(* G-code commands run one at a time inside the G-code mutex and may wait  *)
(* there (M109); the timer, the plant and a shutdown go on meanwhile.      *)
(*                                                                         *)
(* A temperature is a level: each stands for the five degrees around one   *)
(* of the temperatures in use (INACTIVE_EXTRUDER_TEMP_DELTA and            *)
(* PID_SETTLE_DELTA), so "below target - 5" is "below target".  Level 0 is *)
(* ambient, target 0 is off, levels above MaxTemp are out of range.        *)
(***************************************************************************)
EXTENDS Integers, Sequences, FiniteSets

CONSTANTS
  Extruders,    \* the extruder heaters
  Nobody,       \* not an extruder
  MaxHeating,   \* MAX_HEATING_EXTRUDERS
  MaxTemp,      \* the level of max_temp
  Requests,     \* the temperatures that commands ask for
  MayStop       \* whether the printer may be shut down from outside

ASSUME HeatersAssumption ==
  /\ IsFiniteSet(Extruders) /\ Nobody \notin Extruders
  /\ MaxHeating \in Nat \ {0} /\ MaxTemp \in Nat
  /\ Requests \subseteq Nat /\ MayStop \in BOOLEAN

VARIABLES
  temp,         \* the temperature of each heater
  target,       \* Heater.target_temp
  active,       \* PrinterHeaters.active_heating_extruders
  pending,      \* PrinterHeaters.pending_extruders
  at,           \* where the command inside the mutex is
  who,          \* the extruder it waits for
  ticking,      \* whether the timer of the queue still runs
  is_shutdown,  \* Printer.in_shutdown_state
  asked         \* history: the last temperature asked for

heat == <<temp, target, active, pending>>
command == <<at, who>>
vars == <<heat, command, ticking, is_shutdown, asked>>

\* No command; in _wait_for_temperature; waiting to be made active; then
\* waiting for the temperature; and once more for the end of being active;
\* waiting for the moves to end before a restart.
Places == {"idle", "warming", "turn", "heating", "seat", "leaving"}
Waits == {"warming", "turn", "heating", "seat"}

Request == [heater : Extruders, temp : Nat]

TypeOK ==
  /\ temp \in [Extruders -> Nat] /\ target \in [Extruders -> Nat]
  /\ active \in Seq(Extruders) /\ pending \in Seq(Request)
  /\ at \in Places /\ who \in Extruders \cup {Nobody}
  /\ ticking \in BOOLEAN /\ is_shutdown \in BOOLEAN
  /\ asked \in [Extruders -> Nat]

\* A host process that has just become ready, with a cold printer.
Init ==
  /\ temp = [e \in Extruders |-> 0] /\ target = [e \in Extruders |-> 0]
  /\ active = <<>> /\ pending = <<>>
  /\ at = "idle" /\ who = Nobody
  /\ ticking = TRUE /\ is_shutdown = FALSE
  /\ asked = [e \in Extruders |-> 0]

\* The elements of a list at the places I, in their order.
Picked(s, I) ==
  LET rank(i) == Cardinality({j \in I : j <= i})
  IN  [k \in 1..Cardinality(I) |-> s[CHOOSE i \in I : rank(i) = k]]

Heats(e) == \E i \in 1..Len(active) : active[i] = e
Queued(e) == \E i \in 1..Len(pending) : pending[i].heater = e
Cold(e) == temp[e] < target[e]
InRange(t) == t <= MaxTemp

-----------------------------------------------------------------------------
(* M104 and M109: set_temperature.  Each is a command of its own. *)

Idle == at = "idle" /\ ~is_shutdown
Waits_(place, e) == at' = place /\ who' = e
Ends == at' = "idle" /\ who' = Nobody

\* set_temp: an error for a temperature out of range, and nothing is set.
SetTemp(e, t) ==
  IF InRange(t)
  THEN target' = [target EXCEPT ![e] = t] /\ asked' = [asked EXCEPT ![e] = t]
  ELSE UNCHANGED <<target, asked>>

\* Set the temperature of a heater that is active and, in M109, wait for it;
\* an error ends the command.
SetAndWait(e, t, wait) ==
  /\ SetTemp(e, t)
  /\ IF wait /\ InRange(t) THEN Waits_("warming", e) ELSE UNCHANGED command

\* The heater is active already: only its target changes.
Adjust(e, t, wait) ==
  /\ Idle /\ t > 0 /\ Heats(e)
  /\ SetAndWait(e, t, wait)
  /\ UNCHANGED <<temp, active, pending, ticking, is_shutdown>>

\* Mutant: the number of active extruders is not looked at.
StartAnyway(e, t, wait) ==
  /\ Idle /\ t > 0 /\ ~Heats(e)
  /\ active' = Append(active, e)
  /\ SetAndWait(e, t, wait)
  /\ UNCHANGED <<temp, pending, ticking, is_shutdown>>

\* There is a place: the heater is active at once, even if set_temp then fails.
\* A request of this heater that is still queued stays queued.
Start(e, t, wait) ==
  /\ Idle /\ t > 0 /\ ~Heats(e) /\ Len(active) < MaxHeating
  /\ active' = Append(active, e)
  /\ SetAndWait(e, t, wait)
  /\ UNCHANGED <<temp, pending, ticking, is_shutdown>>

\* _upsert_pending_heater: one entry for each heater, the range is not checked.
Upsert(e, t) ==
  LET request == [heater |-> e, temp |-> t]
  IN  IF Queued(e)
      THEN [i \in 1..Len(pending) |-> IF pending[i].heater = e THEN request ELSE pending[i]]
      ELSE Append(pending, request)

\* There is no place: queue the request and, in M109, wait for the turn.
Enqueue(e, t, wait) ==
  /\ Idle /\ t > 0 /\ ~Heats(e) /\ Len(active) >= MaxHeating
  /\ pending' = Upsert(e, t)
  /\ asked' = [asked EXCEPT ![e] = t]
  /\ IF wait THEN Waits_("turn", e) ELSE UNCHANGED command
  /\ UNCHANGED <<temp, target, active, ticking, is_shutdown>>

\* list.remove takes out the first of them.
RemoveFirst(e) ==
  Picked(active, {i \in 1..Len(active) : active[i] = e => \E j \in 1..(i - 1) : active[j] = e})

\* Mutant: what is queued for the heater stays queued.
CoolActiveOnly(e) ==
  /\ Idle
  /\ active' = RemoveFirst(e)
  /\ SetTemp(e, 0)
  /\ UNCHANGED <<temp, pending, command, ticking, is_shutdown>>

\* M104 S0: cancel what is active or queued for the heater.
Cool(e) ==
  /\ Idle
  /\ active' = RemoveFirst(e)
  /\ pending' = Picked(pending, {i \in 1..Len(pending) : pending[i].heater # e})
  /\ SetTemp(e, 0)
  /\ UNCHANGED <<temp, command, ticking, is_shutdown>>

AllOff ==
  /\ active' = <<>> /\ pending' = <<>>
  /\ target' = [e \in Extruders |-> 0] /\ asked' = [e \in Extruders |-> 0]

\* TURN_OFF_HEATERS, and the idle timeout's script.
TurnOff ==
  /\ Idle
  /\ AllOff
  /\ UNCHANGED <<temp, command, ticking, is_shutdown>>

\* RESTART: turn the heaters off, and wait for the moves to end.
RequestRestart ==
  /\ Idle
  /\ AllOff
  /\ Waits_("leaving", Nobody)
  /\ UNCHANGED <<temp, ticking, is_shutdown>>

\* The process ends and a new one starts.  In a shut down printer RESTART does
\* so at once, when it gets into the mutex.
Restart ==
  /\ at = "leaving" \/ (at = "idle" /\ is_shutdown)
  /\ AllOff
  /\ Ends
  /\ ticking' = TRUE /\ is_shutdown' = FALSE
  /\ UNCHANGED temp

-----------------------------------------------------------------------------
(* M109 in its loops. *)

\* _wait_for_temperature ends: the heater is settled, or the printer is shut
\* down.  (A settled heater may still be busy for the slope of its temperature.)
Settled(e) == is_shutdown \/ temp[e] = target[e]

Warmed ==
  /\ at = "warming" /\ Settled(who)
  /\ Ends
  /\ UNCHANGED <<heat, ticking, is_shutdown, asked>>

\* A look at the list of active heaters every 0.2 s, before its turn and after;
\* a tick may come, or two, before the next look.
Look ==
  /\ at \in {"turn", "seat"}
  /\ \/ /\ Heats(who)
        /\ \/ Settled(who) /\ Waits_("seat", who)
           \/ ~is_shutdown /\ Waits_("heating", who)
     \/ at = "turn" /\ ~Heats(who) /\ Waits_("turn", who)
     \/ at = "seat" /\ ~Heats(who) /\ Ends
  /\ UNCHANGED <<heat, ticking, is_shutdown, asked>>

Heated ==
  /\ at = "heating" /\ Settled(who)
  /\ Waits_("seat", who)
  /\ UNCHANGED <<heat, ticking, is_shutdown, asked>>

-----------------------------------------------------------------------------
(* The timer, once a second: _check_heater_queue. *)

\* Mutant: a heater that is warm keeps its place.
StillHeatingOrWarm(e) == temp[e] <= target[e]

StillHeating(e) == Cold(e)

\* How many requests a tick starts: none comes behind one that is out of range.
Started(free) ==
  LET tried == IF Len(pending) < free THEN Len(pending) ELSE free
  IN  Cardinality({i \in 1..tried : \A j \in 1..(i - 1) : InRange(pending[j].temp)})

\* Take from the lists what is warm, and start what there is a place for.  The
\* error of set_temp is not caught: it leaves the timer at NEVER and stops the
\* printer.
Tick ==
  /\ ticking
  /\ LET kept == Picked(active, {i \in 1..Len(active) : StillHeating(active[i])})
         n == Started(MaxHeating - Len(kept))
         started == {i \in 1..n : InRange(pending[i].temp)}
         failed == started # 1..n
     IN  /\ active' = kept \o [i \in 1..n |-> pending[i].heater]
         /\ pending' = SubSeq(pending, n + 1, Len(pending))
         /\ target' = [e \in Extruders |->
                         IF \E i \in started : pending[i].heater = e
                         THEN pending[CHOOSE i \in started : pending[i].heater = e].temp
                         ELSE target[e]]
         /\ ticking' = ~failed
         /\ is_shutdown' = (is_shutdown \/ failed)
  /\ UNCHANGED <<temp, command, asked>>

-----------------------------------------------------------------------------
(* The plant and the shutdown. *)

\* A heater under its target warms up, unless the printer is shut down.
Warm(e) ==
  /\ Cold(e) /\ ~is_shutdown
  /\ temp' = [temp EXCEPT ![e] = @ + 1]
  /\ UNCHANGED <<target, active, pending, command, ticking, is_shutdown, asked>>

\* Without power it cools down.  It does not cool under its target.
CoolDown(e) ==
  /\ temp[e] > (IF is_shutdown THEN 0 ELSE target[e])
  /\ temp' = [temp EXCEPT ![e] = @ - 1]
  /\ UNCHANGED <<target, active, pending, command, ticking, is_shutdown, asked>>

ShutDown ==
  /\ ~is_shutdown /\ is_shutdown' = TRUE
  /\ UNCHANGED <<heat, command, ticking, asked>>

\* verify_heater finds a heater that does not heat at the expected rate.
HeaterFault == (\E e \in Extruders : Cold(e)) /\ ShutDown

\* An emergency stop, an error of a board.
Stop == MayStop /\ ShutDown

SetTemperature ==
  \E e \in Extruders, t \in Requests, wait \in BOOLEAN :
    Adjust(e, t, wait) \/ Start(e, t, wait) \/ Enqueue(e, t, wait)

Commands == SetTemperature \/ (\E e \in Extruders : Cool(e)) \/ TurnOff \/ RequestRestart
Command == Warmed \/ Look \/ Heated \/ Restart
Plant(e) == Warm(e) \/ CoolDown(e)

Next == Commands \/ Command \/ Tick \/ (\E e \in Extruders : Plant(e)) \/ HeaterFault \/ Stop

Spec == Init /\ [][Next]_vars

\* The reactor runs every greenlet that is due and every timer; a heater that is
\* to heat gets warm, or is found not to.
FairSpec ==
  /\ Spec
  /\ WF_vars(Command) /\ WF_vars(Tick)
  /\ \A e \in Extruders : WF_vars(Warm(e) \/ (Cold(e) /\ HeaterFault)) /\ WF_vars(CoolDown(e))

-----------------------------------------------------------------------------
(* Properties. *)

\* No more than MaxHeating extruders are under their target, and so draw full
\* power, at any time: whatever the order of commands, ticks and warming up.
PowerBudget ==
  ~is_shutdown => Cardinality({e \in Extruders : Cold(e)}) <= MaxHeating

\* A heater that was last asked to be off is off and stays off: nothing that
\* was queued for it is left to be started by a later tick.
OffStaysOff == \A e \in Extruders : asked[e] = 0 => target[e] = 0 /\ ~Queued(e)

\* The place that an M109 waits for was given and taken back between two of its
\* looks: it is on neither list, and no tick puts it there again.
Missed == at = "turn" /\ ~Heats(who) /\ ~Queued(who)

\* A command that waits for a heater ends, or the printer is shut down, or the
\* command has missed its turn: then it waits for ever, and nothing else keeps a
\* command waiting.  (heaters.py:445-450 looks only at the list of active heaters.)
WaitEnds == at \in Waits ~> (at \notin Waits \/ is_shutdown \/ Missed)
=============================================================================
