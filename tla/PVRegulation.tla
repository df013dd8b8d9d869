------------------------------ MODULE PVRegulation ------------------------------
(***************************************************************************)
(* The PV controller (pv_core.py, pv_soc.py) in its loop: a tick looks at  *)
(* what the vehicle, the grid and the home battery do, picks an operating  *)
(* point, awaits the journal and submits the point; the station's offer    *)
(* changes what the next tick sees.  The economic STOP does not occur here *)
(* (PVEconomy).  State of charge is shown by its order among the           *)
(* thresholds, power in watts.                                             *)
(***************************************************************************)
EXTENDS Envelope

CONSTANTS
  Batteries,   \* whether there is a home battery: a set of BOOLEAN
  Flow,        \* what the battery takes and gives at most, in W
  Surpluses,   \* production less household, in W
  Vehicles,    \* what the vehicle draws at most, in W
  Deadband,    \* pv_grid_deadband_w
  Uptake,      \* pv_ev_uptake_threshold_pct
  Hold,        \* pv_startup_hold_cycles
  Increase,    \* pv_increase_interval_cycles
  Decrease,    \* pv_decrease_delay_cycles
  MaxOps       \* bound: changes of the world and faults

ASSUME LoopAssumption ==
  /\ Batteries \subseteq BOOLEAN /\ Surpluses \subseteq Int
  /\ {Flow, Deadband, Uptake, Hold, Increase, Decrease, MaxOps} \subseteq Nat
  /\ Vehicles \subseteq Nat

(* Without a positive point a tick ends before it decides (no_positive_modes). *)
ASSUME PositiveAssumption == Positive # {}

(* The reasons of an action (regulation_reason), and null is none of them. *)
Reasons == {"grid_import", "grid_exploration", "battery_balance", "grid_surplus",
            "soc_recharge", "soc_discharge", "balance_grid_import"}

ASSUME NullAssumption == None \notin Reasons

VARIABLES
  battery,  \* a home battery takes part
  world,    \* surplus, state of charge, vehicle
  station,  \* its offer, and whether it refuses to switch phases
  core,     \* Controller, without the event fields
  grid,     \* the held point, the one requested last, its status, retry
  tick,     \* the decision that awaits the journal
  ops,      \* the events counted by MaxOps
  age       \* history: resolved ticks since a rise and since a start that holds

vars == <<battery, world, station, core, grid, tick, ops, age>>

-----------------------------------------------------------------------------
(* What the tick measures: the battery covers what it can. *)

Clamp(x, low, high) == IF x < low THEN low ELSE IF x > high THEN high ELSE x

Draw == Least(station.offer.watts, world.vehicle)

Storage ==
  IF battery THEN Clamp(world.surplus - Draw, -Flow, Flow) ELSE 0

Import == Draw + Storage - world.surplus

-----------------------------------------------------------------------------
(* soc_policy over the thresholds of pv_soc.py, in their order *)

Soc == 0..5
StopBelow == 1
Lower == 2
Middle == 3
Upper == 5

Policy(soc, previous, surplus) ==
  CASE soc < StopBelow -> "STOP"
    [] soc >= Upper -> "FAST"
    [] soc \in StopBelow..Upper - 1 /\ previous = "STOP" ->
         IF soc > Middle /\ surplus THEN "BALANCE" ELSE "STOP"
    [] soc \in StopBelow..Upper - 1 /\ previous # "STOP" ->
         IF previous = "FAST" /\ soc < Middle THEN "BALANCE" ELSE previous

-----------------------------------------------------------------------------
(* Controller *)

NewCore == [mode |-> "STOP", startup |-> None, up |-> 0, down |-> None,
            reason |-> None]

(* Mutant of Sent: an accepted rise does not restart the interval. *)
SentGoesOn(k, point, previous) ==
  [k EXCEPT !.startup = IF point = Zero THEN None ELSE IF previous = Zero THEN 0 ELSE @,
            !.down = None, !.reason = None]

(* Controller.sent *)
Sent(k, point, previous) ==
  LET raised == point # Zero /\ (previous = None \/ point.watts > previous.watts)
  IN  [k EXCEPT !.startup = CASE point = Zero -> None
                              [] point # Zero /\ previous = Zero -> 0
                              [] OTHER -> @,
                !.up = IF raised THEN 0 ELSE @,
                !.down = None, !.reason = None]

(* Ordinary timing advances only when the response is resolved. *)
Timed(k) == [k EXCEPT !.up = Least(@ + 1, Increase),
                      !.startup = IF @ = None THEN None ELSE Least(@ + 1, Hold + 1)]

Settling(k) == k.startup # None /\ k.startup <= Hold

Phases(p) == IF p = Zero THEN None ELSE p.phases

(* The reading of the minimum point at which BALANCE gives up. *)
MinimumDischarge(k, c) ==
  /\ battery /\ k.mode = "BALANCE" /\ world.soc < Lower
  /\ c \notin {None, Zero} /\ c.phases = 1 /\ c.amps = 6
  /\ 1 \in Enabled /\ c \in PointsOf(1)
  /\ Storage < 0

Goal(point, reason) == [point |-> point, reason |-> reason]

(* FAST tries the next point unless the grid delivers. *)
FastIdeal(c) ==
  LET held == IF c = None THEN Zero ELSE c
      step == Navigate(Display(held), Phases(held), 1)
  IN  CASE Import > Deadband -> [watts |-> Draw - Import, reason |-> "grid_import"]
        [] Import <= Deadband ->
             [watts |-> IF step = None THEN held.watts ELSE step.watts,
              reason |-> "grid_exploration"]

BalanceIdeal == [watts |-> Draw + Storage, reason |-> "battery_balance"]
SurplusIdeal == [watts |-> Draw - Import, reason |-> "grid_surplus"]

(* Mutant of Ideal: what the vehicle draws already is not added. *)
IdealOfGrid(mode, c) ==
  CASE mode = "FAST" -> FastIdeal(c)
    [] mode = "BALANCE" -> BalanceIdeal
    [] mode = "SURPLUS" -> [watts |-> -Import, reason |-> "grid_surplus"]

Ideal(mode, c) ==
  CASE mode = "FAST" -> FastIdeal(c)
    [] mode = "BALANCE" -> BalanceIdeal
    [] mode = "SURPLUS" -> SurplusIdeal

(* BALANCE goes one step away from the battery at rest for its state of    *)
(* charge; a zero ideal may so become a start.                             *)
Biased(ideal, target) ==
  LET bias == IF world.soc < Lower THEN -1 ELSE IF world.soc > Middle THEN 1 ELSE 0
      basis == IF ideal.watts = 0 /\ bias > 0 THEN Zero ELSE target
      step == Navigate(Display(basis), Phases(basis), bias)
  IN  IF bias # 0 /\ (basis # Zero \/ (bias > 0 /\ ideal.watts = 0))
      THEN Goal(IF step = None THEN target ELSE step,
                IF bias < 0 THEN "soc_recharge" ELSE "soc_discharge")
      ELSE Goal(target, ideal.reason)

Corrected(goal, correction) ==
  IF Import > Deadband /\ correction.watts < goal.point.watts
  THEN Goal(correction, "balance_grid_import") ELSE goal

(* Sets of one member. *)
Goals(mode, c) ==
  LET targets == {[ideal |-> i, point |-> RegulationTarget(i.watts, c)] :
                    i \in {Ideal(mode, c)}}
  IN  IF mode # "BALANCE" THEN {Goal(t.point, t.ideal.reason) : t \in targets}
      ELSE {Corrected(g, correction) :
              g \in {Biased(t.ideal, t.point) : t \in targets},
              correction \in {RegulationTarget(Draw - Import, c)}}

(* A rise waits for the vehicle and the interval and then takes one step;  *)
(* a fall waits for its reason to last.                                    *)
Paced(k, c, goal) ==
  LET rest == [k EXCEPT !.down = None, !.reason = None]
      down == IF k.reason # goal.reason THEN 0 ELSE Least(k.down + 1, Decrease)
      waits == [k EXCEPT !.down = down, !.reason = goal.reason]
      step == Navigate(Display(c), c.phases, 1)
      Choice(core1, point) == [core |-> core1, point |-> point]
  IN  CASE c \notin {None, Zero} /\ goal.point.watts > c.watts ->
             Choice(rest, IF \/ 100 * Draw < c.watts * Uptake
                             \/ k.up < Increase \/ step = None
                          THEN c ELSE step)
        [] c # None /\ goal.point.watts < c.watts ->
             Choice(waits, IF down < Decrease THEN c ELSE goal.point)
        [] OTHER -> Choice(rest, goal.point)

(* Controller.decide, a set of one member.  A pending response and the     *)
(* hold of a start keep the point.                                         *)
Decisions(k, c, pending) ==
  LET mode == IF battery THEN Policy(world.soc, k.mode, world.surplus > 0)
              ELSE "SURPLUS"
      chosen == [k EXCEPT !.mode = mode]
      timed == Timed(chosen)
      held == IF c = None THEN Zero ELSE c
  IN  CASE mode = "STOP" -> {[core |-> chosen, point |-> Zero]}
        [] mode # "STOP" /\ pending -> {[core |-> chosen, point |-> held]}
        [] mode # "STOP" /\ ~pending ->
             IF Settling(timed) THEN {[core |-> timed, point |-> held]}
             ELSE IF MinimumDischarge(timed, c)
             THEN {[core |-> [timed EXCEPT !.mode = "STOP"], point |-> Zero]}
             ELSE {Paced(timed, c, goal) : goal \in Goals(mode, c)}

-----------------------------------------------------------------------------
(* The tick *)

Pending == grid.status \in {"busy", "uncertain"}
Spend == ops < MaxOps /\ ops' = ops + 1
Older(n) == Least(n + 1, Hold + Increase + 1)

(* tick up to the journal.  Once a request is on the wire the offer counts *)
(* as unknown.                                                             *)
Decide ==
  /\ tick = None
  /\ \E seen \in {grid.held} \cup (IF grid.status = "busy" THEN {None} ELSE {}) :
       \E d \in Decisions(core, seen, Pending) :
         /\ core' = d.core
         /\ tick' = [point |-> d.point, seen |-> seen]
  /\ age' = IF Pending THEN age
            ELSE [rise |-> Older(age.rise), start |-> Older(age.start)]
  /\ UNCHANGED <<battery, world, station, grid, ops>>

(* The journal refuses the write: a positive point is not submitted. *)
JournalFails ==
  /\ Spend
  /\ tick # None /\ tick.point # Zero
  /\ tick' = None
  /\ UNCHANGED <<battery, world, station, core, grid, age>>

(* A mandatory stop is all that does not wait for a retry. *)
Urgent == core.mode = "STOP"

(* The returns of submit. *)
Refrains ==
  \/ grid.status = "busy"
  \/ grid.status # "uncertain" /\ tick.point = tick.seen
  \/ grid.retry /\ ~Urgent
  \/ grid.status = "rejected" /\ tick.point = grid.requested
  \/ grid.status = "uncertain" /\ (~Urgent \/ tick.point = grid.requested)

Requests(p) == [grid EXCEPT !.requested = p, !.status = "busy", !.retry = FALSE]

Switches(p) ==
  p # Zero /\ station.offer # Zero /\ p.phases # station.offer.phases

Offers(p) == [offer |-> p, locked |-> station.locked \/ Switches(p)]

(* A request without an answer may have been carried out. *)
Afterwards ==
  {station} \cup (IF grid.status # "busy" \/ (station.locked /\ Switches(grid.requested))
                  THEN {} ELSE {Offers(grid.requested)})

(* A stop finds a positive request under way: a task that still reads the  *)
(* offer has not yet named it and goes on; else it is superseded, before   *)
(* the wire or on it.                                                      *)
Supersedes ==
  \/ UNCHANGED <<station, grid>>
  \/ /\ grid' = IF tick.seen = Zero THEN [grid EXCEPT !.status = "settled"]
                 ELSE Requests(Zero)
     /\ station' = station
  \/ /\ grid' = [Requests(Zero) EXCEPT !.held = None]
     /\ station' \in Afterwards

(* submit, with the offer as the decision saw it. *)
Submit ==
  /\ tick # None /\ tick' = None
  /\ \/ /\ Urgent /\ grid.status = "busy" /\ grid.requested # Zero
        /\ Supersedes
     \/ /\ ~(Urgent /\ grid.status = "busy" /\ grid.requested # Zero)
        /\ grid' = IF Refrains THEN grid ELSE Requests(tick.point)
        /\ station' = station
  /\ UNCHANGED <<battery, world, core, ops, age>>

-----------------------------------------------------------------------------
(* The answer of the station *)

(* The accepted point, with the point held before: Grid.reconcile reads    *)
(* the offer first, so that it is known.                                   *)
Takes(p, retry) ==
  /\ station' = Offers(p)
  /\ core' = Sent(core, p, station.offer)
  /\ grid' = [grid EXCEPT !.held = p, !.status = "settled", !.retry = retry]
  /\ age' = [rise |-> IF p.watts > station.offer.watts THEN 0 ELSE age.rise,
             start |-> CASE p = Zero -> Hold + 1
                         [] p # Zero /\ station.offer = Zero -> 0
                         [] OTHER -> age.start]
  /\ UNCHANGED <<battery, world, tick, ops>>

Known == [grid EXCEPT !.held = station.offer, !.status = "settled"]
Observes(g) == grid' = g /\ UNCHANGED <<battery, world, station, core, tick, age>>

Accepted ==
  /\ grid.status = "busy"
  /\ IF grid.requested = station.offer
     THEN Observes(Known) /\ UNCHANGED ops
     ELSE ~(station.locked /\ Switches(grid.requested)) /\ Takes(grid.requested, FALSE)

(* A phase switch during a lockout: the least point of the held series is  *)
(* offered until the retry.                                                *)
LockedOut ==
  /\ grid.status = "busy" /\ station.locked /\ Switches(grid.requested)
  /\ LET n == station.offer.phases
         temporary == IF n \in Enabled THEN Lowest(PointsOf(n)) ELSE Zero
     IN  IF temporary = station.offer
         THEN Observes([Known EXCEPT !.retry = TRUE]) /\ UNCHANGED ops
         ELSE Takes(temporary, TRUE)

(* A generic rejection: the same point is not submitted again. *)
Rejected ==
  /\ Spend
  /\ grid.status = "busy" /\ grid.requested # station.offer
  /\ Observes([Known EXCEPT !.status = "rejected"])

(* No answer: whether the point is offered is read later. *)
TimedOut ==
  /\ Spend
  /\ grid.status = "busy" /\ grid.requested # station.offer
  /\ station' \in Afterwards
  /\ grid' = [grid EXCEPT !.held = None, !.status = "uncertain"]
  /\ UNCHANGED <<battery, world, core, tick, age>>

Read ==
  /\ grid.status = "uncertain"
  /\ Observes(Known) /\ UNCHANGED ops

(* The lockout ends, and with it the time to the retry. *)
LockoutEnds ==
  /\ station.locked
  /\ station' = [station EXCEPT !.locked = FALSE]
  /\ grid' = [grid EXCEPT !.retry = FALSE]
  /\ UNCHANGED <<battery, world, core, tick, ops, age>>

(* Nothing is known, and nothing is under way. *)
NewGrid == [held |-> None, requested |-> None, status |-> "settled", retry |-> FALSE]

(* A new context, after a Start or a reconnection: a new Controller, which *)
(* does not know the offer; a decision of the old one is not submitted.    *)
NewContext ==
  /\ Spend
  /\ core' = NewCore /\ station' \in Afterwards
  /\ grid' = NewGrid /\ tick' = None
  /\ age' = [age EXCEPT !.start = Hold + 1]
  /\ UNCHANGED <<battery, world>>

Changes ==
  /\ Spend
  /\ \/ \E s \in Surpluses : world' = [world EXCEPT !.surplus = s]
     \/ \E v \in Vehicles : world' = [world EXCEPT !.vehicle = v]
     \/ battery /\ \E soc \in Soc : world' = [world EXCEPT !.soc = soc]
  /\ world' # world
  /\ UNCHANGED <<battery, station, core, grid, tick, age>>

-----------------------------------------------------------------------------

Init ==
  /\ battery \in Batteries
  /\ world \in [surplus: Surpluses, soc: IF battery THEN Soc ELSE {Middle}, vehicle: Vehicles]
  /\ station = [offer |-> Zero, locked |-> FALSE]
  /\ core = NewCore
  /\ grid = [NewGrid EXCEPT !.held = Zero]
  /\ tick = None /\ ops = 0 /\ age = [rise |-> Increase, start |-> Hold + 1]

Answers == Accepted \/ LockedOut \/ Read

Next == Decide \/ Submit \/ JournalFails \/ Answers \/ Rejected \/ TimedOut
        \/ LockoutEnds \/ NewContext \/ Changes

Spec == Init /\ [][Next]_vars

(* The timer fires again and again and a tick ends, the station answers, a *)
(* lockout ends.                                                           *)
FairSpec ==
  /\ Spec /\ []<>(tick # None) /\ []<>(tick = None)
  /\ WF_vars(Answers) /\ WF_vars(LockoutEnds)

-----------------------------------------------------------------------------
(* Properties *)

(* A positive offer that is known is changed to another one only after the *)
(* hold of the last accepted start, unless a stop or a new context has     *)
(* ended that hold; a rise is one step, a full interval of resolved ticks  *)
(* after the last one that was accepted, whatever happened in between      *)
(* (Controller.decide, Controller.sent).                                   *)
Proposes == grid.status # "busy" /\ grid'.status = "busy"
Alters == Proposes /\ grid.held \notin {None, Zero} /\ grid'.requested # Zero

Cadence ==
  [][Alters =>
       /\ age'.start > Hold
       /\ grid'.requested.watts > grid.held.watts =>
            /\ grid'.requested = Navigate(Display(grid.held), grid.held.phases, 1)
            /\ age'.rise >= Increase]_vars

(* A decision that did not know the offer is about to take the known one   *)
(* away, although nothing asks for a stop.                                 *)
Overtaken ==
  /\ tick # None /\ grid.held \notin {None, Zero}
  /\ tick.seen = None /\ tick.point = Zero /\ ~Urgent

(* The station refused a fall for no reason that a retry could wait for. *)
FallRefused ==
  grid.status = "rejected" /\ grid.requested.watts < station.offer.watts

(* In a world that no longer changes, control by surplus and the balance   *)
(* of the battery do not chase their own effect across ranges, lockouts,   *)
(* waits and lost answers: the offer comes to rest, and what it imports is *)
(* less than the step to the next lower one, unless the station refused    *)
(* that fall, which is not submitted again.  A decision that an answer     *)
(* overtakes again and again is excepted (Controller.decide, submit,       *)
(* Envelope.regulation_target).                                            *)
Balanced == core.mode \in {"SURPLUS", "BALANCE"}

Fits ==
  LET lower == Navigate(Display(station.offer), Phases(station.offer), -1)
  IN  lower = None \/ Import < station.offer.watts - lower.watts

Settles ==
  \/ []<>(~Balanced) \/ []<>Overtaken
  \/ <>[](Fits \/ FallRefused) /\ <>[][station'.offer = station.offer]_vars

=============================================================================
