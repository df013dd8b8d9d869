--------------------------- MODULE BatteryReserve ---------------------------
(***************************************************************************)
(* Ownership of the home battery's discharge reserve while NETZ charges    *)
(* (battery.py), driven by one coordinating task (grid_battery.py).        *)
(*                                                                         *)
(* The task raises the reserve, follows profile and state of charge, and   *)
(* gives the original value back, with a journal in the store for crashes. *)
(* It awaits the store and the number service; meanwhile users change the  *)
(* reserve, calls land late or never, and the process may end.  Between    *)
(* two awaits nothing else runs: while the task is in a Straight step, all *)
(* other actions wait.                                                     *)
(***************************************************************************)
EXTENDS Integers, FiniteSets

CONSTANTS
  Low, High, Step,  \* range and step of the reserve entity
  UserLevels,       \* values users set
  Wishes,           \* values of the setting min_soc
  Socs,             \* states of charge
  Features,         \* which users and faults the environment has
  MaxOps,           \* bound: events of users and environment
  None              \* no value, no record

Levels == Low..High
AllFeatures == {"user", "wish", "soc", "scene", "mapping", "unreadable",
                "refused", "lost", "stray", "crash"}

ASSUME RangeAssumption == Low \in Nat /\ High \in Nat /\ Low <= High /\ Step \in Nat \ {0}
ASSUME InputsAssumption ==
  UserLevels \subseteq Levels /\ Wishes \subseteq Nat /\ Wishes # {} /\ Socs \subseteq Nat
ASSUME BoundsAssumption == MaxOps \in Nat /\ Features \subseteq AllFeatures

VARIABLES
  entity,  \* the reserve in Home Assistant, and whether it is readable
  soc,     \* the state of charge read, or None
  wish,    \* Settings min_soc
  scene,   \* what station and settings say about the charging
  mapped,  \* the options name both entities
  disk,    \* the journal in the store
  own,     \* the fields of BatteryReserve
  dirty,   \* GridBattery.dirty
  alarm,   \* the active message "battery:reserve"
  task,    \* the coordinating task
  flight,  \* values of service calls that have neither landed nor got lost
  past,    \* history: what users set, what of it the program overrides
  ops      \* events so far, against MaxOps

world == <<soc, wish, scene, mapped>>
vars == <<entity, world, disk, own, dirty, alarm, task, flight, past, ops>>

-----------------------------------------------------------------------------
(* Types *)

Record == [original: Levels, temporary: Levels, pending: Levels \cup {None},
           asked: Nat \cup {None}, superseded: SUBSET Levels]
Journal == Record \cup {None}
ASSUME NoneAssumption == None \notin Nat \cup Record
Status == {"idle", "active", "preserved", "confirmation_pending",
           "write_unconfirmed", "external_change", "restored", "unchanged", "error"}
Own == [record: Journal, status: Status, session: BOOLEAN, failed: BOOLEAN,
        recovering: BOOLEAN, configured: BOOLEAN,
        reason: {"none", "timeout", "failure"}]  \* diagnostics["reason"]
Straight == {"loop", "sense", "update", "known", "rest", "dispatch", "after"}
Awaiting == {"load", "save", "write"}
Task == [pc: Straight \cup Awaiting \cup {"off", "done"},
         for: {"start", "remap", "cycle"},
         then: {"known", "active", "external", "dropped", "dispatch", "restored", "after"},
         requested: Nat \cup {None}, current: Levels \cup {None},
         target: Levels \cup {None}]

\* no evidence; all that makes a released session charge; the same without the
\* release; neither end nor charging; session_over; Local, no permission or PV
Scenes == {"unknown", "charging", "unreleased", "paused", "over", "away"}

TypeOK ==
  /\ entity \in [value: Levels, readable: BOOLEAN]
  /\ soc \in Socs \cup {None} /\ wish \in Wishes /\ mapped \in BOOLEAN
  /\ scene \in Scenes
  /\ disk \in Journal /\ own \in Own
  /\ dirty \in BOOLEAN /\ alarm \in BOOLEAN
  /\ task \in Task /\ flight \subseteq Levels
  /\ past \in [base: Levels, ours: BOOLEAN, raced: BOOLEAN, touched: BOOLEAN]
  /\ ops \in 0..MaxOps

Fresh == [record |-> None, status |-> "idle", session |-> FALSE, failed |-> FALSE,
          recovering |-> FALSE, configured |-> mapped, reason |-> "none"]
Idle == [pc |-> "done", for |-> "cycle", then |-> "after", requested |-> None,
         current |-> None, target |-> None]

Init ==
  /\ entity \in [value: UserLevels, readable: {TRUE}]
  /\ soc \in Socs /\ wish \in Wishes /\ scene = "unknown" /\ mapped = TRUE
  /\ disk = None /\ own = Fresh
  /\ dirty = FALSE /\ alarm = FALSE
  /\ task = Idle /\ flight = {}
  /\ past = [base |-> entity.value, ours |-> FALSE, raced |-> FALSE, touched |-> FALSE]
  /\ ops = 0

-----------------------------------------------------------------------------
(* The values *)

Lesser(a, b) == IF a <= b THEN a ELSE b
Greater(a, b) == IF a >= b THEN a ELSE b

\* mutant: the maximum of the entity does not bound the request
PlannedUnbounded(requested, original) ==
  LET bounded == Lesser(requested, soc)
  IN Greater(original, Low + ((bounded - Low) \div Step) * Step)

\* BatteryReserve.plan with readable entities
Planned(requested, original) ==
  LET bounded == Lesser(Lesser(requested, soc), High)
  IN Greater(original, Low + ((bounded - Low) \div Step) * Step)
CanPlan == soc # None /\ own.configured

Targets(r) == {r.temporary} \cup ({r.pending} \ {None}) \cup r.superseded
\* BatteryReserve.write: the values a write may replace
Replaceable(r) == {r.original} \cup Targets(r)

\* BatteryReserve.preview
Preview ==
  IF \/ ~own.configured \/ own.recovering \/ own.failed \/ ~entity.readable \/ soc = None
     \/ /\ own.record # None
        /\ \/ own.record.pending # None \/ own.status \notin {"active", "preserved"}
           \/ entity.value # own.record.temporary
  THEN None
  ELSE Planned(wish, IF own.record = None THEN entity.value ELSE own.record.original)

Running == task.pc \notin {"off", "done"}
Yielded == task.pc \notin Straight
\* GridBattery.changed and the while loop of the task it creates
Woken == [task EXCEPT !.pc = IF @ = "done" THEN "loop" ELSE @]
Watching == task.pc # "off" /\ ~(Running /\ task.for = "start")

-----------------------------------------------------------------------------
(* The coordinating task *)

Goes(pc) == task' = [task EXCEPT !.pc = pc]
Saves(then) == task' = [task EXCEPT !.pc = "save", !.then = then]
Writes(target, then) == task' = [task EXCEPT !.pc = "dispatch", !.target = target, !.then = then]
Fails == own' = [own EXCEPT !.status = "error", !.reason = "failure"] /\ Goes("after")
OnlyTask == UNCHANGED <<entity, world, disk, dirty, alarm, flight, past, ops>>

\* GridBattery.start, after the journal was read
Load ==
  /\ task.pc = "load"
  /\ own' = [own EXCEPT !.record = disk, !.recovering = disk # None]
  /\ IF disk # None /\ ~own.configured
     THEN task' = [task EXCEPT !.pc = "update", !.requested = None] /\ UNCHANGED dirty
     ELSE task' = [task EXCEPT !.pc = "loop", !.for = "cycle"] /\ dirty' = TRUE
  /\ UNCHANGED <<entity, world, disk, alarm, flight, past, ops>>

Iterate ==
  /\ task.pc = "loop" /\ dirty
  /\ dirty' = FALSE
  /\ IF mapped # own.configured
     THEN /\ own' = [own EXCEPT !.recovering = FALSE]
          /\ task' = [task EXCEPT !.pc = "update", !.for = "remap", !.requested = None]
          /\ past' = [past EXCEPT !.touched = FALSE]
     ELSE Goes("sense") /\ UNCHANGED <<own, past>>
  /\ UNCHANGED <<entity, world, disk, alarm, flight, ops>>

Finish == task.pc = "loop" /\ ~dirty /\ task' = Idle /\ UNCHANGED own /\ OnlyTask

Charging == scene = "charging" \/ (scene = "unreleased" /\ own.record # None)
\* resume(): the journal is adopted
Resumed ==
  LET target == IF own.record.pending # None THEN own.record.pending ELSE own.record.temporary
  IN [own EXCEPT !.recovering = FALSE, !.session = TRUE,
                 !.status = IF entity.readable /\ entity.value = target
                            THEN "preserved" ELSE "write_unconfirmed"]

\* mutant: only charging ends the recovery
HoldTooLong ==
  /\ task.pc = "sense" /\ own.recovering /\ ~Charging
  /\ Goes("loop") /\ UNCHANGED own /\ OnlyTask

Hold ==
  /\ task.pc = "sense" /\ own.recovering /\ scene \in {"unknown", "paused"}
  /\ Goes("loop") /\ UNCHANGED own /\ OnlyTask

Evaluate ==
  /\ task.pc = "sense" /\ ~(own.recovering /\ scene \in {"unknown", "paused"})
  /\ own' = IF own.recovering THEN Resumed ELSE own
  /\ task' = [task EXCEPT !.pc = "update", !.for = "cycle",
                          !.requested = IF Charging THEN wish ELSE None]
  /\ OnlyTask

\* the end of an update: back to load, to the mapping or to the cycle
After ==
  /\ task.pc = "after"
  /\ \/ /\ task.for = "start"
        /\ dirty' = TRUE /\ task' = [task EXCEPT !.pc = "loop", !.for = "cycle"]
        /\ UNCHANGED <<own, alarm, past>>
     \/ /\ task.for = "remap" /\ own.record # None
        /\ task' = [task EXCEPT !.pc = "loop", !.for = "cycle"]
        /\ UNCHANGED <<own, alarm, dirty, past>>
     \/ /\ task.for = "remap" /\ own.record = None
        /\ own' = [own EXCEPT !.configured = mapped, !.session = FALSE]
        /\ past' = [past EXCEPT !.touched = FALSE]
        /\ task' = [task EXCEPT !.pc = "sense", !.for = "cycle"]
        /\ UNCHANGED <<alarm, dirty>>
     \/ /\ task.for = "cycle"
        /\ alarm' = \/ own.status = "error"
                    \/ (own.status = "write_unconfirmed" /\ own.reason = "timeout")
        /\ Goes("loop")
        /\ UNCHANGED <<own, dirty, past>>
  /\ UNCHANGED <<entity, world, disk, flight, ops>>

-----------------------------------------------------------------------------
(* BatteryReserve.update *)

Settled(o, status) == [o EXCEPT !.status = status, !.reason = "none"]  \* transition()
Forgotten(o) == [o EXCEPT !.record = None, !.failed = FALSE, !.recovering = FALSE]
R == own.record
Asked == IF own.recovering THEN None ELSE task.requested
Cur == task.current

Updating == task.pc = "update"
\* the reserve is read once; what follows uses the value, however old
Reads(pc) == task' = [task EXCEPT !.pc = pc, !.requested = Asked, !.current = entity.value]

NoJournal ==
  /\ Updating /\ R = None
  /\ task' = [task EXCEPT !.pc = "rest", !.requested = Asked]
  /\ UNCHANGED own /\ OnlyTask

Unreadable ==
  /\ Updating /\ R # None /\ ~entity.readable
  /\ Fails /\ OnlyTask

\* a restore that failed is not tried again before the entity returns
StillFailed ==
  Asked = None /\ own.failed /\ entity.value # R.original
  /\ entity.value \in {R.temporary} \cup R.superseded
WaitsForEntity ==
  /\ Updating /\ R # None /\ entity.readable /\ StillFailed
  /\ Reads("after") /\ UNCHANGED own /\ OnlyTask

Journaled == Updating /\ R # None /\ entity.readable /\ ~StillFailed
NothingPending ==
  /\ Journaled /\ R.pending = None
  /\ Reads("known") /\ UNCHANGED own /\ OnlyTask

ReadsAndSaves(then) ==
  task' = [task EXCEPT !.pc = "save", !.then = then, !.requested = Asked,
                       !.current = entity.value]
LateConfirmed ==
  /\ Journaled /\ R.pending = entity.value
  /\ own' = Settled([own EXCEPT !.record.temporary = R.pending, !.record.pending = None,
                                !.record.asked = None], "active")
  /\ ReadsAndSaves("known") /\ OnlyTask

Older == entity.value \in {R.temporary} \cup R.superseded
ChangedWhilePending ==
  /\ Journaled /\ R.pending \notin {None, entity.value} /\ ~Older
  /\ own' = [Forgotten(own) EXCEPT !.status = "external_change"]
  /\ ReadsAndSaves("external") /\ OnlyTask

StaysPending == Asked # None /\ (Asked = R.asked \/ entity.value # R.temporary)
KeepsPending ==
  /\ Journaled /\ R.pending \notin {None, entity.value} /\ Older /\ StaysPending
  /\ Reads("after") /\ UNCHANGED own /\ OnlyTask
Supersedes ==
  /\ Journaled /\ R.pending \notin {None, entity.value} /\ Older /\ ~StaysPending
  /\ own' = [own EXCEPT !.record.superseded = @ \cup {R.pending}, !.record.pending = None,
                        !.record.asked = None]
  /\ ReadsAndSaves("active") /\ OnlyTask

\* the journal names no pending value any more
Known == task.pc = "known"
Recovers == task.requested # None /\ Cur = R.temporary
            /\ own.status \in {"error", "write_unconfirmed"}
Adopted == IF Recovers THEN Settled(own, "active") ELSE own

Reverted ==
  /\ Known /\ Cur = R.original /\ task.requested # None
  /\ own' = Adopted /\ Goes("after") /\ OnlyTask
Drops ==
  /\ Known /\ ~(Cur = R.original /\ task.requested # None) /\ Cur # R.temporary
  /\ own' = [Forgotten(own) EXCEPT
               !.status = IF Cur # R.original THEN "external_change" ELSE @]
  /\ task' = [task EXCEPT !.pc = "save", !.then = "dropped",
                          !.target = IF Cur = R.original THEN Cur ELSE None]
  /\ OnlyTask
Follows ==
  /\ Known /\ Cur = R.temporary /\ Cur # R.original /\ task.requested # None
  /\ own' = Adopted /\ Goes("rest") /\ OnlyTask
GivesUp ==
  /\ Known /\ Cur = R.temporary /\ task.requested = None /\ own.failed
  /\ Goes("after") /\ UNCHANGED own /\ OnlyTask
Restores ==
  /\ Known /\ Cur = R.temporary /\ task.requested = None /\ ~own.failed
  /\ \/ Cur # R.original /\ own' = [own EXCEPT !.failed = TRUE]
        /\ Writes(R.original, "restored")
     \/ Cur = R.original /\ own' = Forgotten(own) /\ Saves("restored")
  /\ OnlyTask

Rest == task.pc = "rest"
Refrains ==
  /\ Rest
  /\ \/ task.requested = None
     \/ R # None /\ own.status \notin {"active", "preserved"}
     \/ R = None /\ (~own.configured \/ (own.session /\ own.status # "unchanged"))
  /\ own' = [own EXCEPT !.session = @ /\ task.requested # None]
  /\ past' = [past EXCEPT !.touched = @ /\ task.requested # None]
  /\ Goes("after")
  /\ UNCHANGED <<entity, world, disk, dirty, alarm, flight, ops>>

\* An external write of a value that a journal names cannot be told from an own
\* one, and one that races a call is not ordered with it (both named limits in
\* docs/grid-profile.md): the history does not attribute what follows.
Named(v) == \E r \in {disk, R} \ {None} : v \in Targets(r)
Unattributed == [past EXCEPT !.raced = TRUE, !.touched = FALSE]
Adjusts ==
  /\ Rest /\ task.requested # None /\ R # None /\ own.status \in {"active", "preserved"}
  /\ LET planned == Planned(task.requested, R.original)
     IN \/ ~CanPlan /\ Fails /\ UNCHANGED past
        \/ /\ CanPlan /\ planned = R.temporary
           /\ Goes("after") /\ UNCHANGED <<own, past>>
        \/ /\ CanPlan /\ planned # R.temporary
           /\ own' = [own EXCEPT !.record.pending = planned,
                                 !.record.asked = task.requested]
           /\ past' = IF planned = entity.value THEN Unattributed ELSE past
           /\ Saves("dispatch")
  /\ UNCHANGED <<entity, world, disk, dirty, alarm, flight, ops>>

\* one attempt per charging episode, errors included
CannotRaise == ~entity.readable \/ (task.requested > entity.value /\ soc = None)
Raised == IF task.requested <= entity.value THEN entity.value
          ELSE Planned(task.requested, entity.value)
\* mutant: the journal is stored after the write
TakesOverUnsaved ==
  /\ Rest /\ task.requested # None /\ R = None /\ own.configured
  /\ ~own.session \/ own.status = "unchanged"
  /\ ~CannotRaise /\ Raised > entity.value
  /\ own' = [own EXCEPT !.session = TRUE,
                        !.record = [original |-> entity.value, temporary |-> Raised,
                                    pending |-> None, asked |-> None, superseded |-> {}]]
  /\ Writes(Raised, "after") /\ OnlyTask

TakesOver ==
  /\ Rest /\ task.requested # None /\ R = None /\ own.configured
  /\ ~own.session \/ own.status = "unchanged"
  /\ LET mine == [own EXCEPT !.session = TRUE]
     IN IF CannotRaise
        THEN own' = [mine EXCEPT !.status = "error", !.reason = "failure"] /\ Goes("after")
        ELSE IF Raised = entity.value
        THEN own' = [mine EXCEPT !.status = "unchanged"] /\ Goes("after")
        ELSE /\ own' = [mine EXCEPT !.record =
                         [original |-> entity.value, temporary |-> Raised, pending |-> None,
                          asked |-> None, superseded |-> {}]]
             /\ Saves("dispatch")
  /\ OnlyTask

-----------------------------------------------------------------------------
(* The store and the number service *)

\* Without "stray", a call lands while the journal waits for its value, or never.
Awaits(journal) == IF journal = None THEN {}
                   ELSE {journal.original, journal.temporary, journal.pending} \ {None}
Remaining(journal) == IF "stray" \in Features THEN flight ELSE flight \cap Awaits(journal)

\* the save has ended: the journal is in the store
Saved ==
  /\ task.pc = "save" /\ disk' = own.record
  /\ CASE task.then = "known" -> Goes("known") /\ UNCHANGED <<own, past>>
       [] task.then = "active" ->
            /\ own' = IF task.requested # None THEN Settled(own, "active") ELSE own
            /\ Goes("known") /\ UNCHANGED past
       [] task.then = "external" ->
            /\ own' = [own EXCEPT !.session = @ /\ task.requested # None]
            /\ past' = [past EXCEPT !.touched = @ /\ task.requested # None]
            /\ Goes("after")
       [] task.then = "dropped" ->
            /\ own' = IF task.requested = None /\ task.target # None
                      THEN Settled(own, "restored") ELSE own
            /\ Goes("rest") /\ UNCHANGED past
       [] task.then = "restored" ->
            own' = Settled(own, "restored") /\ Goes("rest") /\ UNCHANGED past
       [] task.then = "dispatch" ->
            /\ Writes(IF R.pending = None THEN R.temporary ELSE R.pending, "after")
            /\ UNCHANGED <<own, past>>
       [] task.then = "after" -> Goes("after") /\ UNCHANGED <<own, past>>
  /\ flight' = Remaining(own.record)
  /\ UNCHANGED <<entity, world, dirty, alarm, ops>>

\* write_confirmed up to its await: the call goes out, unless write() refuses
\* mutant: the reserve is not compared again before the call
WritableBlind == entity.readable
Writable == entity.readable /\ entity.value \in Replaceable(R)
Dispatch ==
  /\ task.pc = "dispatch" /\ Writable
  /\ own' = [own EXCEPT !.status = "confirmation_pending"]
  /\ flight' = flight \cup {task.target} /\ Goes("write")
  /\ UNCHANGED <<entity, world, disk, dirty, alarm, past, ops>>
Refuse == task.pc = "dispatch" /\ ~Writable /\ Fails /\ OnlyTask

\* what follows the confirmation
Accepted ==
  IF task.then = "restored"
  THEN own' = Forgotten(own) /\ Saves("restored")
  ELSE IF R.pending = None
  THEN own' = Settled(own, "active") /\ Goes("after")
  ELSE /\ own' = IF R.pending = R.original
                 THEN [Settled(own, "unchanged") EXCEPT !.record = None]
                 ELSE Settled([own EXCEPT !.record.temporary = R.pending, !.record.asked = None,
                                          !.record.pending = None], "active")
       /\ Saves("after")
Matches == entity.readable /\ entity.value = task.target
Confirmed == task.pc = "write" /\ Matches /\ Accepted /\ OnlyTask

\* mutant: a restore that is not confirmed ends the ownership too
TimedOutForgets ==
  /\ task.pc = "write" /\ ~Matches
  /\ own' = [Forgotten(own) EXCEPT !.status = "write_unconfirmed", !.reason = "timeout"]
  /\ Saves("after") /\ OnlyTask
\* CONFIRMATION_TIMEOUT: the call may still land
TimedOut ==
  /\ task.pc = "write" /\ ~Matches
  /\ own' = [own EXCEPT !.status = "write_unconfirmed", !.reason = "timeout"]
  /\ Goes("after") /\ OnlyTask
CallRefused ==
  /\ task.pc = "write" /\ "refused" \in Features /\ ops < MaxOps
  /\ ops' = ops + 1 /\ flight' = flight \ {task.target} /\ Fails
  /\ UNCHANGED <<entity, world, disk, dirty, alarm, past>>

-----------------------------------------------------------------------------
(* Users, entities, station, process *)

\* mutant: what changes while the task runs does not make it run again
ChangesIfIdle == dirty' = (dirty \/ task.pc = "done")
                 /\ task' = IF Watching THEN Woken ELSE task
Changes == dirty' = (dirty \/ Watching)
           /\ task' = IF Watching THEN Woken ELSE task
May(feature) == feature \in Features /\ Yielded /\ ops < MaxOps /\ ops' = ops + 1

\* the journal in force: in memory, or in the store while the process is down
J == IF task.pc \in {"off", "load"} THEN disk ELSE R

\* A charging episode starts with the takeover or a journal to be resumed and
\* ends with the charging or the mapping: session and recovering tell it.
Episode == own.session \/ own.recovering \/ task.pc \in {"off", "load"}

UserSets(v) ==
  /\ May("user") /\ entity.readable /\ v # entity.value
  /\ entity' = [entity EXCEPT !.value = v]
  /\ past' = IF Named(v) THEN [Unattributed EXCEPT !.ours = FALSE]
             ELSE [base |-> v, ours |-> FALSE, raced |-> flight # {},
                   touched |-> IF J = None THEN past.touched
                               ELSE Episode /\ v # J.original]
  /\ Changes /\ UNCHANGED <<world, disk, own, alarm, flight>>

Land(v) ==
  /\ Yielded /\ v \in Remaining(J) /\ entity.readable
  /\ flight' = flight \ {v} /\ entity' = [entity EXCEPT !.value = v]
  /\ past' = [past EXCEPT !.ours = v # past.base /\ ~past.raced, !.touched = FALSE]
  /\ Changes /\ UNCHANGED <<world, disk, own, alarm, ops>>
Lose(v) ==
  /\ Yielded /\ v \in flight /\ "lost" \in Features
  /\ flight' = flight \ {v}
  /\ UNCHANGED <<entity, world, disk, own, dirty, alarm, task, past, ops>>

\* GridBattery.input_changed
LosesReading ==
  /\ May("unreadable") /\ entity.readable
  /\ entity' = [entity EXCEPT !.readable = FALSE]
  /\ Changes /\ UNCHANGED <<world, disk, own, alarm, flight, past>>
RegainsReading ==
  /\ Yielded /\ ~entity.readable
  /\ entity' = [entity EXCEPT !.readable = TRUE]
  /\ own' = IF Watching THEN [own EXCEPT !.failed = FALSE] ELSE own
  /\ Changes /\ UNCHANGED <<world, disk, alarm, flight, past, ops>>
SocChanges(s) ==
  /\ May("soc") /\ s # soc /\ soc' = s
  /\ own' = IF Watching /\ soc = None THEN [own EXCEPT !.failed = FALSE] ELSE own
  /\ Changes /\ UNCHANGED <<entity, wish, scene, mapped, disk, alarm, flight, past>>

WishChanges(w) ==
  /\ May("wish") /\ w # wish /\ wish' = w
  /\ Changes /\ UNCHANGED <<entity, soc, scene, mapped, disk, own, alarm, flight, past>>
SceneChanges(s) ==
  /\ May("scene") /\ s # scene /\ scene' = s
  /\ Changes /\ UNCHANGED <<entity, soc, wish, mapped, disk, own, alarm, flight, past>>

\* options_updated
Remap ==
  /\ May("mapping") /\ mapped' = ~mapped
  /\ Changes /\ UNCHANGED <<entity, soc, wish, scene, disk, own, alarm, flight, past>>

\* The process ends, in a save before or after the store has it.  A call in
\* flight has landed by the time the entities are back, or is lost.
Crash ==
  /\ May("crash") /\ task.pc # "off"
  /\ task' = [Idle EXCEPT !.pc = "off"] /\ dirty' = FALSE /\ alarm' = FALSE
  /\ own' = Fresh /\ scene' = "unknown"
  /\ disk' \in {disk} \cup (IF task.pc = "save" THEN {own.record} ELSE {})
  /\ flight' = Remaining(disk')
  /\ past' = [past EXCEPT !.touched = FALSE]
  /\ UNCHANGED <<entity, soc, wish, mapped>>
Start ==
  /\ task.pc = "off"
  /\ task' = [Idle EXCEPT !.pc = "load", !.for = "start"] /\ own' = Fresh
  /\ OnlyTask

-----------------------------------------------------------------------------
(* Next-state relation and fairness *)

TaskStep ==
  \/ Load \/ Iterate \/ Finish \/ Hold \/ Evaluate \/ After
  \/ NoJournal \/ Unreadable \/ WaitsForEntity \/ NothingPending \/ LateConfirmed
  \/ ChangedWhilePending \/ KeepsPending \/ Supersedes
  \/ Reverted \/ Drops \/ Follows \/ GivesUp \/ Restores
  \/ Refrains \/ Adjusts \/ TakesOver
  \/ Saved \/ Dispatch \/ Refuse \/ Confirmed \/ TimedOut \/ Start
World ==
  \/ \E v \in UserLevels : UserSets(v)
  \/ \E v \in Levels : Land(v) \/ Lose(v)
  \/ LosesReading \/ RegainsReading \/ Remap \/ Crash \/ CallRefused
  \/ \E s \in Socs \cup {None} : SocChanges(s)
  \/ \E w \in Wishes : WishChanges(w)
  \/ \E s \in Scenes : SceneChanges(s)
Next == TaskStep \/ World

\* The event loop resumes the task; saves end, and the wait for a confirmation
\* ends at its timeout at the latest.
Fairness == WF_vars(TaskStep) /\ \A v \in Levels : WF_vars(Land(v) \/ Lose(v))
Spec == Init /\ [][Next]_vars /\ Fairness

-----------------------------------------------------------------------------
(* Properties *)

\* Crash and late calls included, an override that the reserve shows has a
\* journal in the store, and it names the value the user had set.
OriginalKept ==
  past.ours => disk # None /\ disk.original = past.base

\* Whatever changed while an update awaited the store or a confirmation, the
\* task comes to rest with the override that profile and state of charge call
\* for and that the preview shows (a fall back to the original that is only
\* confirmed late is kept for the episode).
Followed ==
  /\ task.pc = "done" /\ Charging /\ own.record # None /\ own.configured = mapped
  /\ Preview # None /\ own.record.temporary # own.record.original
  => own.record.temporary = Preview

\* A value the user has set since the takeover is not written over, and in this
\* charging episode the reserve is not taken over again.
ExternalWins == [][task.pc = "dispatch" /\ task'.pc = "write" => ~past.touched]_vars

\* The journal in the store and the reserve follow the contract of ownership.
Contract == INSTANCE ReserveContract WITH
  value <- entity.value, ours <- past.ours, NoLevel <- None,
  held <- IF disk = None THEN None ELSE disk.original
KeepsContract == Contract!Spec

\* Once charging has ended for good and the entity is readable, the reserve is
\* given back, or a trouble is shown, or a failed restore waits for the entity.
Ended == /\ task.pc # "off" /\ entity.readable /\ own.configured = mapped
         /\ scene \in {"over", "away"}
Released == <>[]Ended => []<>(own.record = None \/ alarm \/ own.failed)
=============================================================================
