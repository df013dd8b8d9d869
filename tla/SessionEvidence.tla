--------------------------- MODULE SessionEvidence ---------------------------
(***************************************************************************)
(* Charging sessions as they are observed: the transaction lifecycle and   *)
(* its energy (session.py), the evidence of idleness (store.py), and the   *)
(* handlers that feed them (ocpp.py).                                      *)
(*                                                                         *)
(* The station has the truth: a plug, transactions, an energy counter that *)
(* shows the time.  It reports over a connection that ends and comes back; *)
(* reports are repeated, held back or lost, a reading may be nonsense, the *)
(* station boots, and the manager stops between an event and its save.     *)
(***************************************************************************)
EXTENDS Integers, Sequences

CONSTANTS
  MaxTime,       \* bound: the clock of the station
  MaxOps,        \* bound: faults
  MaxQueue,      \* bound: reports on their way
  BOUNDARY_AGE,  \* a reading this old still belongs to a start or an end
  None           \* no session, no time, no reading

ASSUME BoundsAssumption == MaxTime \in Nat \ {0} /\ MaxOps \in Nat
                           /\ MaxQueue \in Nat \ {0} /\ BOUNDARY_AGE \in Nat

VARIABLES
  truth,   \* the station: clock, plug, transactions, counters
  queue,   \* its reports, in order
  link,    \* generation of State: connection, registration, epoch
  state,   \* session, closed_transactions, observations, idle_barrier
  saved,   \* the stored document
  ops      \* faults so far

vars == <<truth, queue, link, state, saved, ops>>

-----------------------------------------------------------------------------
(* Types *)

Time == 0..MaxTime
Ids == 1..MaxTime
Offsets == {0, 2 * BOUNDARY_AGE}
Generation == Nat \X Nat  \* connection, incarnation
Maybe(S) == S \cup {None}
Stream == {"transaction", "parent"}
Reading == [value: Maybe(Nat), at: Time]
Session == [id: Ids, start: Maybe(Time), updated: Time, ended: Maybe(Time), seq: Nat,
            gen: Maybe(Generation), stream: Maybe(Stream), startMeter: Maybe(Nat),
            current: Maybe(Nat), at: Maybe(Time), atGen: Maybe(Generation),
            reported: Maybe(Time), endMeter: Maybe(Nat), invalid: BOOLEAN,
            linked: Maybe(Generation), energy: Maybe(Nat)]
Observation(V) == [value: Maybe(V), at: Time, gen: Generation]
Document == [session: Maybe(Session), closed: SUBSET Ids]
Report == [kind: {"boot"}]
          \cup [kind: {"status"}, at: Time, value: {"available", "occupied"}]
          \cup [kind: {"meter"}, reading: Reading]
          \cup [kind: {"Started", "Updated", "Ended"}, id: Ids, at: Time, seq: Nat,
                charging: Maybe({"charging", "idle"}), reading: Maybe(Reading)]
Valued == Nat \cup {"available", "occupied", "charging", "idle"}
ASSUME NoneAssumption ==
  None \notin Int \cup Stream \cup Valued \cup Generation \cup Reading \cup Session
             \cup Observation(Valued)

TypeOK ==
  /\ truth \in [now: Time, plug: {"available", "occupied"}, active: Maybe(Ids),
                begun: [Ids -> Maybe(Time)], seq: Nat, offset: Offsets, plugged: Time]
  /\ queue \in Seq(Report)
  /\ link \in [up: BOOLEAN, gen: Generation, registered: Maybe(Generation), epoch: Time]
  /\ state \in [session: Maybe(Session), closed: SUBSET Ids, barrier: Maybe(Time),
                connector: Maybe(Observation({"available", "occupied"})),
                charging: Maybe(Observation({"charging", "idle"})), parent: Maybe(Observation(Nat))]
  /\ saved \in Document /\ ops \in 0..MaxOps

Blank == [session |-> None, closed |-> {}, barrier |-> None,
          connector |-> None, charging |-> None, parent |-> None]
Offline == [up |-> FALSE, gen |-> <<0, 0>>, registered |-> None, epoch |-> 0]

\* the device is of the make whose meters may be linked; the meter of the EVSE
\* shows the same as that of the transaction, or something else; a vehicle is there
Init ==
  /\ \E offset \in Offsets :
       truth = [now |-> 0, plug |-> "occupied", active |-> None,
                begun |-> [i \in Ids |-> None], seq |-> 0, offset |-> offset, plugged |-> 0]
  /\ queue = <<>> /\ link = Offline /\ state = Blank
  /\ saved = [session |-> None, closed |-> {}] /\ ops = 0

Fault == ops < MaxOps /\ ops' = ops + 1

-----------------------------------------------------------------------------
(* State: observations and idleness *)

Live(gen) == link.up /\ gen = link.gen
Value(o) == IF o # None /\ Live(o.gen) THEN o.value ELSE None

Same(o) == o # None /\ o.gen = link.gen
Observable(o, v, at) ==
  link.up /\ at >= link.epoch /\ (Same(o) => at >= o.at /\ ~(at = o.at /\ v = o.value))
Observe(o, v, at) ==
  IF Observable(o, v, at)
  THEN [value |-> IF Same(o) /\ at = o.at THEN None ELSE v, at |-> at, gen |-> link.gen]
  ELSE o

Over(s) == s = None \/ s.ended # None
AuthenticIdle(st) ==
  /\ Value(st.charging) = "idle" /\ (st.barrier # None => st.charging.at > st.barrier)
  /\ Over(st.session) /\ Value(st.connector) \in {"available", "occupied"}
\* charging_value: what is shown as the state of charging
ChargingValue(st) ==
  IF st.charging # None /\ Live(st.charging.gen) /\ (st.charging.value = "idle" => AuthenticIdle(st))
  THEN Value(st.charging)
  ELSE IF link.registered # None /\ Live(link.registered)
          /\ Value(st.connector) = "available" /\ Over(st.session)
  THEN "idle" ELSE None

\* mutant of Barred: what was known of idleness outlasts its end
BarredNever(barrier, at) == barrier
\* invalidate_idle
Barred(barrier, at) == IF barrier # None /\ barrier > at THEN barrier ELSE at

-----------------------------------------------------------------------------
(* Sessions *)

ViewActive(st) == /\ st.session # None /\ st.session.ended = None
                  /\ link.up /\ st.session.gen = link.gen

\* event(): the guards, then the new or continued session
Known(st, e) == st.session # None /\ st.session.id = e.id
\* mutant of Heard: reports from before the connection count
HeardOld(st, e) ==
  /\ link.up /\ e.id \notin st.closed
  /\ IF Known(st, e)
     THEN st.session.ended = None /\ e.seq > st.session.seq /\ e.at >= st.session.updated
     ELSE e.kind # "Ended" /\ (st.session # None => e.at > st.session.updated)
Heard(st, e) ==
  /\ link.up /\ e.at >= link.epoch /\ e.id \notin st.closed
  /\ IF Known(st, e)
     THEN st.session.ended = None /\ e.seq > st.session.seq /\ e.at >= st.session.updated
     ELSE e.kind # "Ended" /\ (st.session # None => e.at > st.session.updated)

NewSession(e) ==
  [id |-> e.id, start |-> IF e.kind = "Started" THEN e.at ELSE None, updated |-> e.at,
   ended |-> None, seq |-> e.seq, gen |-> link.gen, stream |-> None, startMeter |-> None,
   current |-> None, at |-> None, atGen |-> None, reported |-> None, endMeter |-> None,
   invalid |-> FALSE, linked |-> None, energy |-> None]
\* calculate_energy
Energy(s, meter) == [s EXCEPT !.energy = IF s.startMeter # None /\ meter # None /\ ~s.invalid
                                         THEN meter - s.startMeter ELSE None]
Continued(s, e) ==
  [s EXCEPT !.updated = e.at, !.seq = e.seq, !.gen = link.gen,
            !.linked = IF s.gen = link.gen THEN @ ELSE None]
Ended(s, e) ==
  LET end == IF s.at = e.at /\ s.atGen = link.gen /\ ~s.invalid THEN s.current ELSE None
  IN Energy([s EXCEPT !.ended = e.at, !.endMeter = end], end)

EventState(st, e) ==
  LET s == IF Known(st, e) THEN Continued(st.session, e) ELSE NewSession(e)
      replaced == IF ~Known(st, e) /\ st.session # None THEN {st.session.id} ELSE {}
  IN [st EXCEPT !.session = IF e.kind = "Ended" THEN Ended(s, e) ELSE s,
                !.closed = @ \cup replaced \cup IF e.kind = "Ended" THEN {e.id} ELSE {},
                !.barrier = IF Known(st, e) THEN @ ELSE Barred(@, e.at)]

\* linked_energy: the meter of the EVSE is that of the transaction, proved by a
\* sample of both; the link holds for one generation
Linkable(s) == link.registered # None /\ Live(link.registered) /\ s.stream = "transaction"
Linked(st, s, stream, r) ==
  IF ~Linkable(s) THEN s
  ELSE IF stream = "parent" /\ s.linked = link.gen THEN s
  ELSE IF /\ r.value # None /\ s.atGen = link.gen /\ ~s.invalid
          /\ IF stream = "parent" THEN s.at = r.at /\ s.current = r.value
             ELSE /\ st.parent # None /\ Live(st.parent.gen)
                  /\ st.parent.at = r.at /\ st.parent.value = r.value
  THEN [s EXCEPT !.linked = link.gen] ELSE s
\* mutant of MayJoin: any meter of the station joins
MayJoinAlways(s) == TRUE
MayJoin(s) == Linkable(s) /\ s.linked = link.gen

\* meter(): whether a reading concerns the session
Concerns(s, r, boundary) ==
  /\ s # None /\ link.up /\ s.gen = link.gen /\ r.at >= link.epoch
  /\ IF boundary THEN s.updated - r.at \in 0..BOUNDARY_AGE
     ELSE s.ended = None /\ (s.start # None => r.at >= s.start)
\* a reading that goes back, or contradicts one of the same time, spoils the energy
Spoils(s, r) == r.value = None \/ (s.current # None
                  /\ (r.value < s.current \/ (s.reported = r.at /\ r.value # s.current)))
\* mutant of Taken: a reading that goes back counts
TakenAgain(s, r, boundary) ==
  IF r.value = None THEN [s EXCEPT !.invalid = TRUE, !.reported = r.at,
                                   !.endMeter = IF s.ended # None THEN None ELSE @]
  ELSE [s EXCEPT !.startMeter = IF boundary /\ s.start = s.updated /\ s.ended = None /\ s.reported = None
                                THEN r.value ELSE @,
                 !.current = r.value, !.at = r.at, !.atGen = link.gen, !.reported = r.at,
                 !.endMeter = IF s.ended # None /\ ~s.invalid THEN r.value ELSE @]
Taken(s, r, boundary) ==
  IF Spoils(s, r) THEN [s EXCEPT !.invalid = TRUE, !.reported = r.at,
                                 !.endMeter = IF s.ended # None THEN None ELSE @]
  ELSE [s EXCEPT !.startMeter = IF boundary /\ s.start = s.updated /\ s.ended = None /\ s.reported = None
                                THEN r.value ELSE @,
                 !.current = r.value, !.at = r.at, !.atGen = link.gen, !.reported = r.at,
                 !.endMeter = IF s.ended # None /\ ~s.invalid THEN r.value ELSE @]
Metered(st, r, boundary, stream) ==
  LET s == st.session
      joined == IF s.stream \in {None, stream} THEN s ELSE Linked(st, s, stream, r)
      own == [joined EXCEPT !.stream = IF joined.stream = None THEN stream ELSE @]
      taken == Taken(own, r, boundary)
      counted == Energy(taken, IF taken.ended # None THEN taken.endMeter ELSE taken.current)
  IN IF s.stream \notin {None, stream} /\ ~MayJoin(joined) THEN st
     ELSE IF own.reported # None /\ r.at < own.reported THEN [st EXCEPT !.session = own]
     ELSE [st EXCEPT !.session = IF stream = "transaction" THEN Linked(st, counted, "transaction", r)
                                 ELSE counted]
Meter(st, r, boundary, stream) ==
  IF Concerns(st.session, r, boundary) THEN Metered(st, r, boundary, stream) ELSE st

-----------------------------------------------------------------------------
(* Handlers *)

Receives(kinds) == link.up /\ queue # <<>> /\ Head(queue).kind \in kinds
\* a report is handled once, or is sent again later
Handled == queue' \in {Tail(queue)} \cup IF "id" \in DOMAIN Head(queue)
                                         THEN {Append(Tail(queue), Head(queue))} ELSE {}

TransactionEvent ==
  LET e == Head(queue)
      known == EventState(state, e)
      observed == IF e.charging = None THEN known ELSE [known EXCEPT !.charging = Observe(@, e.charging, e.at)]
  IN /\ Receives({"Started", "Updated", "Ended"}) /\ Handled /\ UNCHANGED ops
     /\ state' = IF ~Heard(state, e) THEN state
                 ELSE IF e.reading = None \/ e.reading.at > e.at THEN observed
                 ELSE Meter(observed, e.reading, e.kind # "Updated", "transaction")
     /\ UNCHANGED <<truth, link, saved>>

MeterValues ==
  LET r == Head(queue).reading IN
     /\ Receives({"meter"}) /\ Handled /\ UNCHANGED ops
     /\ state' = IF Observable(state.parent, r.value, r.at)
                 THEN Meter([state EXCEPT !.parent = Observe(@, r.value, r.at)], r, FALSE, "parent")
                 ELSE state
     /\ UNCHANGED <<truth, link, saved>>

StatusNotification ==
  LET m == Head(queue)
      connector == Observe(state.connector, m.value, m.at)
  IN /\ Receives({"status"}) /\ Handled /\ UNCHANGED ops
     /\ state' = [state EXCEPT !.connector = connector,
                    !.barrier = IF Observable(state.connector, m.value, m.at)
                                   /\ Value(state.connector) = "available" /\ Value(connector) # "available"
                                THEN Barred(@, m.at) ELSE @]
     /\ UNCHANGED <<truth, link, saved>>

\* State.reset
Reset(gen, registered) ==
  /\ link' = [up |-> TRUE, gen |-> gen, registered |-> registered, epoch |-> truth.now]
  /\ state' = [state EXCEPT !.barrier = None]
Status == [kind |-> "status", at |-> truth.now, value |-> truth.plug]
\* boot(); the station then reports its connector
Boot ==
  /\ Receives({"boot"}) /\ queue' = Append(Tail(queue), Status)
  /\ LET gen == <<link.gen[1], link.gen[2] + 1>> IN Reset(gen, gen)
  /\ UNCHANGED <<truth, saved, ops>>

\* the station connects and boots or not; it may send what is not yet answered
Connect ==
  /\ ~link.up /\ Reset(<<link.gen[1] + 1, 0>>, link.registered)
  /\ \E old \in {queue, <<>>}, boot \in {<<>>, <<[kind |-> "boot"]>>} : queue' = old \o boot
  /\ UNCHANGED <<truth, saved, ops>>
Disconnect ==
  /\ link.up /\ Fault /\ link' = [link EXCEPT !.up = FALSE, !.epoch = truth.now]
  /\ state' = [state EXCEPT !.barrier = None]
  /\ UNCHANGED <<truth, queue, saved>>

\* document, some time after a change; stored only while a restart may follow
Save ==
  /\ ops < MaxOps
  /\ saved' = [session |-> state.session, closed |-> state.closed] /\ saved' # saved
  /\ UNCHANGED <<truth, queue, link, state, ops>>
\* the manager ends and is started again: load()
Restart ==
  /\ Fault /\ link' = Offline
  /\ state' = [Blank EXCEPT !.closed = saved.closed,
                 !.session = IF saved.session = None THEN None ELSE [saved.session EXCEPT !.gen = None]]
  /\ UNCHANGED <<truth, queue, saved>>

-----------------------------------------------------------------------------
(* The station *)

\* reports of what happens without a connection are marked offline and ignored
Tick(reports) ==
  /\ truth.now < MaxTime /\ Len(queue) < MaxQueue
  /\ queue' = IF link.up THEN queue \o reports ELSE queue
  /\ UNCHANGED <<link, state, saved>>
Now == truth.now + 1
Sample(at) == [value |-> at, at |-> at]

Plug(value) ==
  /\ truth.active = None /\ truth.plug # value
  /\ truth' = [truth EXCEPT !.now = Now, !.plug = value, !.plugged = Now]
  /\ Tick(<<[kind |-> "status", at |-> Now, value |-> value]>>) /\ UNCHANGED ops

Event(kind, id, seq, charging, reading) ==
  [kind |-> kind, id |-> id, at |-> Now, seq |-> seq, charging |-> charging, reading |-> reading]
\* a reading of this time, or one that is too old
Boundary == {Sample(t) : t \in {Now, Now - BOUNDARY_AGE - 1} \cap Nat}

Starts ==
  /\ truth.active = None /\ truth.plug = "occupied"
  /\ \E id \in Ids :
       /\ truth.begun[id] = None /\ \A j \in Ids : j < id => truth.begun[j] # None
       /\ truth' = [truth EXCEPT !.now = Now, !.active = id, !.begun[id] = Now, !.seq = 0]
       /\ \E r \in Boundary : Tick(<<Event("Started", id, 0, "charging", r)>>)
  /\ UNCHANGED ops
Updates ==
  /\ link.up /\ truth.active # None
  /\ truth' = [truth EXCEPT !.now = Now, !.seq = @ + 1]
  /\ \/ Tick(<<Event("Updated", truth.active, truth.seq + 1, "charging", Sample(Now))>>) /\ UNCHANGED ops
     \/ \E v \in {None, 0} : Fault /\
          Tick(<<Event("Updated", truth.active, truth.seq + 1, "charging", [value |-> v, at |-> Now])>>)
Ends ==
  /\ truth.active # None
  /\ truth' = [truth EXCEPT !.now = Now, !.active = None, !.seq = @ + 1]
  /\ \/ \E r \in Boundary : Tick(<<Event("Ended", truth.active, truth.seq + 1, "idle", r)>>)
     \/ Tick(<<Event("Ended", truth.active, truth.seq + 1, None, None)>>)
  /\ UNCHANGED ops
\* the meter of the EVSE, with the time of the last event or later; only while a
\* transaction is active, for its readings concern no other session
Meters ==
  /\ link.up /\ truth.active # None
  /\ \E at \in {truth.now, Now} :
       /\ truth' = [truth EXCEPT !.now = at]
       /\ Tick(<<[kind |-> "meter", reading |-> [value |-> at + truth.offset, at |-> at]]>>)
  /\ UNCHANGED ops
\* a transaction may end unreported while the station boots
StationBoots ==
  /\ link.up /\ Fault /\ Tick(<<[kind |-> "boot"]>>)
  /\ \E active \in {truth.active, None} : truth' = [truth EXCEPT !.now = Now, !.active = active]

Handlers == TransactionEvent \/ MeterValues \/ StatusNotification \/ Boot \/ Save
World == \/ Connect \/ Disconnect \/ Restart \/ \E v \in {"available", "occupied"} : Plug(v)
         \/ Starts \/ Updates \/ Ends \/ Meters \/ StationBoots
Next == Handlers \/ World
Spec == Init /\ [][Next]_vars

-----------------------------------------------------------------------------
(* Properties *)

\* When no report is on its way, a session shown as active is the transaction
\* that the station really has.
ActiveIsTrue ==
  queue = <<>> /\ ViewActive(state) => truth.active = state.session.id

\* When no report is on its way, charging is only shown as idle if the station
\* has no transaction, and with a vehicle at the plug only by a report that is
\* no older than the vehicle's arrival.
IdleIsTrue ==
  link.up /\ queue = <<>> /\ ChargingValue(state) = "idle" =>
    truth.active = None /\ (truth.plug = "occupied" => state.charging.at >= truth.plugged)

\* The energy of a session is what its own counter counted since it began, up
\* to the last reading or, once it ended, to its end; at most readings of the
\* age allowed at the boundaries are missing or too much.
EnergyTrue ==
  LET s == state.session IN
  s # None /\ s.energy # None =>
    s.energy - ((IF s.ended # None THEN s.ended ELSE s.at) - truth.begun[s.id])
      \in -BOUNDARY_AGE..BOUNDARY_AGE
=============================================================================
