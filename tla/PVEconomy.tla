------------------------------ MODULE PVEconomy ------------------------------
(***************************************************************************)
(* The economic STOP of the PV profiles (pv.py, pv_economics.py).          *)
(*                                                                         *)
(* A tick accounts the energy that charging imports from the grid.  Beyond *)
(* a budget it stops the transaction, durably, until the evidence for a    *)
(* restart is complete and the station has accepted the restarted offer.   *)
(* The tick awaits the journal before it plans and before it proposes;     *)
(* checkpoints and an operator's Stop queue at the same journal lock; the  *)
(* proposals run as tasks of Grid over the serialized calls of the         *)
(* adapter.  One action is one stretch between two awaits.  The power      *)
(* arithmetic is left open: a tick sees any inputs and, where the budget   *)
(* does not decide, any point.                                             *)
(***************************************************************************)
EXTENDS Integers, Sequences, SequencesExt

CONSTANTS
  PVProfiles,  \* the profiles regulated by this tick
  MaxAmps,     \* offers are 0..MaxAmps
  Limit,       \* costly intervals that exhaust the budget
  Dwell,       \* cheap intervals that make up the 15 seconds of a reset
  MaxTx,       \* bound: transactions of the station
  MaxOps,      \* bound: faults, and events other than Start and Begins
  Unverified,  \* whether a completed write may fail its verification
  None         \* "null": no point, no task, no record, no restart token

Point == 0..MaxAmps
Tx == 1..MaxTx
NoTx == 0

ASSUME ProfilesAssumption == "NETZ" \notin PVProfiles /\ PVProfiles # {}
ASSUME BoundsAssumption ==
  /\ {MaxAmps, Limit, Dwell, MaxTx} \subseteq Nat \ {0} /\ MaxOps \in Nat
ASSUME SwitchAssumption == Unverified \in BOOLEAN
ASSUME NoneAssumption == None \notin Point

VARIABLES
  setting,  \* charging profile, release, and whether a Stop awaits its save
  car,      \* the station: its transaction, the next one, its offer
  known,    \* Grid.transaction: the transaction seen in this generation
  budget,   \* PV.budget
  ended,    \* ended_transaction
  restart,  \* pending_restart
  problem,  \* input_problem; "inputs" stands for control_unavailable, too
  disk,     \* the journal's document
  saved,    \* last_saved
  journal,  \* waiters of journal_lock in order; the head holds it
  tick,     \* the regulation tick
  grid,     \* the fields and the task of Grid that carry PV points
  ops,      \* the events counted by MaxOps
  owed      \* history: the transaction whose STOP the journal has confirmed
            \* and nothing has lifted since

economy == <<budget, ended, restart, problem>>
store == <<disk, saved>>
vars == <<setting, car, known, economy, store, journal, tick, grid, ops, owed>>

-----------------------------------------------------------------------------
(* Types *)

Budget == [scope: Tx \cup {NoTx}, wh: 0..Limit, stopped: BOOLEAN, reset: BOOLEAN,
           costly: BOOLEAN, low: 0..Dwell + 1]
Record == [scope: Tx \cup {NoTx}, wh: 0..Limit, stopped: BOOLEAN, reset: BOOLEAN,
           ended: Tx \cup {NoTx}]
Profile == PVProfiles \cup {"NETZ"}
Token == [profile: Profile, scope: Tx, same: BOOLEAN]
Waiter == [who: {"tick", "checkpoint", "stop"}, token: Token \cup {None},
           record: Record \cup {None}]
Problem == {"none", "inputs", "journal_write_failed", "economic_scope_unreconciled"}
Task == [pc: {"read", "send", "set", "check"}, point: Point \cup {None},
         tx: Tx, live: BOOLEAN, allow: BOOLEAN, before: BOOLEAN]

(* One type invariant for the whole state. *)
TypeOK ==
  /\ setting \in [profile: Profile, released: BOOLEAN, stopping: BOOLEAN]
  /\ car \in [tx: Tx \cup {NoTx}, next: 1..MaxTx + 1, offer: Point]
  /\ known \in Tx \cup {NoTx}
  /\ budget \in Budget /\ ended \in Tx \cup {NoTx} /\ restart \in BOOLEAN
  /\ problem \in Problem /\ disk \in Record /\ saved \in Record
  /\ journal \in Seq(Waiter)
  /\ tick \in [pc: {"idle", "plan", "soc", "wire"}, live: BOOLEAN,
               point: Point, current: Point \cup {None}, urgent: BOOLEAN]
  /\ grid \in [task: Task \cup {None}, stray: Task \cup {None},
               held: Point \cup {None}, uncertain: BOOLEAN,
               requested: Point \cup {None},
               rejected: BOOLEAN,
               retry: {"none", "later", "due"}]
  /\ ops \in 0..MaxOps /\ owed \in Tx \cup {NoTx}

-----------------------------------------------------------------------------
(* The budget *)

NewBudget == [scope |-> NoTx, wh |-> 0, stopped |-> FALSE, reset |-> FALSE,
              costly |-> FALSE, low |-> 0]

(* Budget.interrupt: no credit and no charge across a gap. *)
Interrupt(b) == [b EXCEPT !.costly = FALSE, !.low = 0]

(* Budget.saved with the fields of _persist. *)
Saved(b, e) == [scope |-> b.scope, wh |-> b.wh, stopped |-> b.stopped,
                reset |-> b.reset, ended |-> e]

(* Mutant of Restore: only a STOP whose energy is exhausted is restored. *)
RestoreEnergyOnly(r) == [NewBudget EXCEPT !.scope = r.scope, !.wh = r.wh,
                                          !.stopped = r.wh >= Limit]

(* Budget.restore: a reset is not trusted across downtime. *)
Restore(r) == [NewBudget EXCEPT !.scope = r.scope, !.wh = r.wh,
                                !.stopped = r.stopped]

(* Budget.bind takes a new scope only from none, or from one proven ended. *)
Rebinds(b) == b.scope = NoTx \/ b.scope = ended
Bind(b, tx) == IF Rebinds(b) THEN [NewBudget EXCEPT !.scope = tx] ELSE b

(* Budget.sample, then Budget.exhaust.  The interval since the last sample *)
(* costs what that sample imported, if the vehicle charged at both ends.   *)
Account(b, high, active) ==
  LET wh == IF b.costly /\ active /\ b.wh < Limit THEN b.wh + 1 ELSE b.wh
      low == IF high THEN 0 ELSE IF b.low > Dwell THEN b.low ELSE b.low + 1
      rests == low > Dwell
      used == IF rests THEN 0 ELSE wh
      full == used >= Limit
  IN  [b EXCEPT !.wh = used, !.low = low, !.costly = high /\ active,
                !.stopped = @ \/ full, !.reset = (rests \/ (@ /\ ~high)) /\ ~full]

Active(s) == s.profile \in PVProfiles /\ s.released     \* regulation_active

Spend == ops < MaxOps /\ ops' = ops + 1

-----------------------------------------------------------------------------
(* Grid: launching and superseding proposals *)

NewTask(point, allow, tx) ==
  [pc |-> "read", point |-> point, tx |-> tx, live |-> TRUE, allow |-> allow,
   before |-> FALSE]

(* Grid.invalidate: the epoch moves on; a running task is not interrupted. *)
Invalidate(g) ==
  [g EXCEPT !.task = IF @ = None THEN None ELSE [@ EXCEPT !.live = FALSE],
            !.retry = "none"]

(* Mutant of Launch: a task without a transaction. *)
LaunchAnyway(g, point, allow, tx) ==
  IF g.task # None /\ g.task.live THEN g
  ELSE [g EXCEPT !.task = NewTask(point, allow, tx), !.retry = "none"]

(* Grid.launch, for a point or, with None, to confirm only.  A request of  *)
(* an older task keeps the adapter until it is answered.                   *)
Launch(g, point, allow, tx) ==
  IF tx = NoTx \/ (g.task # None /\ g.task.live) THEN g
  ELSE [g EXCEPT !.task = NewTask(point, allow, tx), !.retry = "none",
                 !.stray = IF g.task # None /\ g.stray = None /\ g.task.pc # "send"
                           THEN g.task ELSE @]

(* Grid.changed and Grid.edited: without a PV release the offer is zero.   *)
Moved(g, s, tx, allow) ==
  LET fenced == [Invalidate(g) EXCEPT !.rejected = @ /\ tx # NoTx]
  IN  IF Active(s) THEN fenced ELSE Launch(fenced, 0, allow, tx)

(* Mutant of Current: an uncertain offer is taken for the held one. *)
CurrentHeld(g) == g.held

(* Grid.current_point, unless a proposal may have superseded it. *)
Current(g) == IF g.uncertain THEN None ELSE g.held

(* PV.submit *)
Supersedes(g, urgent) ==
  urgent /\ g.task # None /\ g.requested # None /\ g.requested > 0

Submit(g0, point, current, urgent) ==
  LET g == IF Supersedes(g0, urgent) THEN Invalidate(g0) ELSE g0
  IN  IF \/ g.task # None /\ g.task.live
         \/ current = point /\ ~g.uncertain
         \/ g.retry = "later" /\ ~urgent
         \/ g.rejected /\ g.retry = "none" /\ g.requested = point
      THEN g
      ELSE IF g.uncertain /\ (~urgent \/ g.requested = point)
      THEN Launch(g, None, FALSE, known)
      ELSE Launch(g, point, TRUE, known)

-----------------------------------------------------------------------------
(* The journal *)

Waits(who, token) == [who |-> who, token |-> token, record |-> None]

(* _persist under the lock: the live state, and never one queued earlier. *)
Capture ==
  /\ journal # <<>> /\ Head(journal).record = None
  /\ journal' = [journal EXCEPT ![1].record = Saved(budget, ended)]
  /\ UNCHANGED <<setting, car, known, economy, store, tick, grid, ops, owed>>

Holds(who) == journal # <<>> /\ Head(journal).who = who /\ Head(journal).record # None

(* The store answers the head.  An unchanged record is not written, unless *)
(* with the first persist of a tick the planning day has changed.          *)
Persisted(ok) ==
  LET record == Head(journal).record
  IN  IF ok
      THEN /\ disk' = IF record = saved THEN disk ELSE record
           /\ saved' = record /\ UNCHANGED ops
      ELSE /\ record # saved \/ (tick.pc = "plan" /\ Head(journal).who = "tick")
           /\ disk' \in {disk} \cup (IF Unverified THEN {record} ELSE {})
           /\ Spend /\ UNCHANGED saved

Confirms(ok) ==
  LET record == Head(journal).record
  IN  IF ok /\ record.stopped /\ budget.stopped /\ record.scope = budget.scope
      THEN record.scope ELSE owed

(* save_checkpoint and checkpoint_failed: an unrecorded restart is undone, *)
(* unless the STOP, the scope or the context is a newer one.               *)
Checkpointed(ok) ==
  LET token == Head(journal).token
      undo == /\ token # None /\ token.same /\ token.scope = budget.scope
              /\ Active(setting) /\ setting.profile = token.profile
              /\ ~budget.stopped
      restored == IF undo THEN [budget EXCEPT !.stopped = TRUE, !.reset = FALSE]
                  ELSE budget
  IN  /\ Holds("checkpoint") /\ Persisted(ok)
      /\ journal' = Tail(journal) /\ owed' = Confirms(ok)
      /\ budget' = IF ok THEN budget ELSE Interrupt(restored)
      /\ problem' = IF ok THEN problem ELSE "journal_write_failed"
      /\ UNCHANGED <<setting, car, known, ended, restart, tick, grid>>

(* The end of operator_stop. *)
Stopped(ok) ==
  /\ Holds("stop") /\ Persisted(ok)
  /\ journal' = Tail(journal) /\ owed' = Confirms(ok)
  /\ UNCHANGED <<setting, car, known, economy, tick, grid>>

(* A new Budget object, generation or transaction: none of them returns,   *)
(* so that no restart token in the queue ever matches again.               *)
Renewed(q) ==
  [i \in DOMAIN q |-> IF q[i].token = None THEN q[i]
                      ELSE [q[i] EXCEPT !.token.same = FALSE]]

-----------------------------------------------------------------------------
(* The regulation tick *)

Idle == [pc |-> "idle", live |-> FALSE, point |-> 0, current |-> None,
         urgent |-> FALSE]
Fenced(t) == [t EXCEPT !.live = FALSE]
Valid(t) == t.live /\ known # NoTx        \* Grid.valid

(* fire and the begin of tick, up to its first persist. *)
Fire ==
  /\ tick.pc = "idle" /\ setting.profile \in PVProfiles
  /\ tick' = [Idle EXCEPT !.pc = "plan", !.live = TRUE]
  /\ journal' = Append(journal, Waits("tick", None))
  /\ UNCHANGED <<setting, car, known, economy, store, grid, ops, owed>>

Planned(ok) == Holds("tick") /\ tick.pc = "plan" /\ Persisted(ok)
Shown(ok, otherwise) == IF ok THEN otherwise ELSE "journal_write_failed"
AfterPlan(ok) == IF ok THEN budget ELSE Interrupt(budget)

TickEnds ==
  /\ tick' = Idle /\ journal' = Tail(journal)
  /\ UNCHANGED <<setting, car, known, ended, restart, grid>>

(* No target, no release, or no station under control. *)
PlanOnly(ok) ==
  /\ Planned(ok)
  /\ \/ problem' = Shown(ok, "inputs")
     \/ ~Active(setting) /\ problem' = Shown(ok, "none")
  /\ budget' = IF problem' = "none" THEN budget ELSE Interrupt(budget)
  /\ owed' = Confirms(ok)
  /\ TickEnds

Regulates(ok) == Planned(ok) /\ Active(setting) /\ Valid(tick)

(* The vehicle's or a grid reading is missing, before or after the binding. *)
InputsMissing(ok) ==
  /\ Regulates(ok)
  /\ \/ budget' = Interrupt(budget) /\ owed' = Confirms(ok)
     \/ /\ Rebinds(budget)
        /\ budget' = Bind(budget, known) /\ owed' = NoTx
  /\ problem' = "inputs"
  /\ TickEnds

Unreconciled(ok) ==
  /\ Regulates(ok)
  /\ ~Rebinds(budget) /\ budget.scope # known
  /\ budget' = Interrupt(budget) /\ problem' = "economic_scope_unreconciled"
  /\ owed' = Confirms(ok)
  /\ TickEnds

Proposes(pc, point, urgent) ==
  /\ tick' = [tick EXCEPT !.pc = pc, !.point = point, !.urgent = urgent,
                          !.current = Current(grid)]
  /\ journal' = Append(Tail(journal), Waits("tick", None))
  /\ UNCHANGED <<setting, car, known, ended, grid>>

(* The battery is below the lower bound: STOP, before any accounting. *)
SocStop(ok) ==
  /\ Regulates(ok)
  /\ budget' = Interrupt(budget) /\ problem' = Shown(ok, problem)
  /\ owed' = Confirms(ok) /\ UNCHANGED restart
  /\ Proposes("soc", 0, TRUE)

(* Budget.restart_reason *)
Restarts(b, ev, evidence) ==
  b.stopped /\ b.reset /\ Current(grid) = 0 /\ ~ev /\ evidence

(* Controller.decide, under the economic STOP and an unresolved response.  *)
Decisions(stopped) ==
  LET zero == [point |-> 0, urgent |-> TRUE]
      held == IF Current(grid) = None THEN 0 ELSE Current(grid)
      pending == grid.task # None \/ grid.uncertain
  IN  IF stopped THEN {zero}
      ELSE {[point |-> p, urgent |-> FALSE] : p \in IF pending THEN {held} ELSE Point}

(* A reading that was unavailable since the last tick (observed,           *)
(* ev_observed) has interrupted the accounting: "gap".                     *)
Decide(ok) ==
  /\ Regulates(ok)
  /\ \E gap, high, ev, evidence, soc \in BOOLEAN :
       LET before == IF gap THEN Interrupt(budget) ELSE AfterPlan(ok)
           b == Account(Bind(before, known), high, ev)
           restarts == Restarts(b, ev, evidence /\ ~soc)
       IN  /\ b.scope = known /\ budget' = b
           /\ evidence => restarts
           /\ gap => before # AfterPlan(ok)
           /\ restart' = (restart \/ restarts)
           /\ \E d \in Decisions(soc \/ (b.stopped /\ ~restarts)) :
                Proposes("wire", d.point, d.urgent)
  /\ problem' = Shown(ok, problem)
  /\ owed' = IF Rebinds(budget) THEN NoTx ELSE Confirms(ok)

(* After the persist that precedes the wire: a failed one inhibits         *)
(* positive points, never zero.                                            *)
Proposed(ok, pc, proceed, shown) ==
  /\ Holds("tick") /\ tick.pc = pc /\ Persisted(ok)
  /\ problem' = Shown(ok, shown) /\ budget' = AfterPlan(ok)
  /\ grid' = IF proceed THEN Submit(grid, tick.point, tick.current, tick.urgent)
             ELSE grid
  /\ restart' = (restart /\ ~(proceed /\ tick.urgent))
  /\ tick' = Idle /\ journal' = Tail(journal) /\ owed' = Confirms(ok)
  /\ UNCHANGED <<setting, car, known, ended>>

SocStopped(ok) == Proposed(ok, "soc", Valid(tick), problem)
Wired(ok) ==
  Proposed(ok, "wire",
           (ok \/ tick.point = 0) /\ Valid(tick) /\ Active(setting), "none")

-----------------------------------------------------------------------------
(* The proposal of a point: Grid.reconcile and the answers of the station *)

task == grid.task
TaskEnds == grid' = [grid EXCEPT !.task = None]
Elsewhere == UNCHANGED <<setting, known, ended, problem, store, tick>>
Aside == Elsewhere /\ UNCHANGED <<car, budget, restart, journal, owed>>

(* What follows the first read, which found an offer or nothing. *)
AfterRead(g) ==
  LET wanted == IF task.point = None THEN g.requested ELSE task.point
      found == [g EXCEPT !.requested = wanted]
  IN  IF g.held = None /\ ~task.allow
      THEN [g EXCEPT !.task = None, !.rejected = FALSE]
      ELSE IF wanted = None THEN [g EXCEPT !.task = None]
      ELSE IF g.held = wanted /\ ~g.uncertain
      THEN [found EXCEPT !.task = None, !.rejected = FALSE, !.retry = "none"]
      ELSE IF task.point = None THEN [found EXCEPT !.task = None]
      ELSE [found EXCEPT !.task.pc = "send", !.rejected = FALSE]

Reading(pc) == task # None /\ task.pc = pc /\ grid.stray = None

(* read_point: an answer for a superseded task says nothing. *)
Seen(g) == IF task.live THEN [g EXCEPT !.held = car.offer, !.uncertain = FALSE]
           ELSE g

ReadAnswered ==
  /\ Reading("read")
  /\ \/ grid' = (IF task.live THEN AfterRead(Seen(grid))
                 ELSE [grid EXCEPT !.task = None]) /\ UNCHANGED ops
     \/ /\ Spend
        /\ grid' = IF task.live THEN AfterRead(grid) ELSE [grid EXCEPT !.task = None]
     \/ /\ Spend
        /\ grid' = [grid EXCEPT !.task = None, !.rejected = @ /\ ~task.live]
  /\ Aside

(* dispatch_point's guard on the wire. *)
Send ==
  /\ Reading("send")
  /\ grid' = IF task.live /\ (task.point > 0 => Active(setting))
             THEN [grid EXCEPT !.task.pc = "set", !.task.before = grid.uncertain,
                               !.uncertain = TRUE]
             ELSE [grid EXCEPT !.task = None]
  /\ Aside /\ UNCHANGED ops

(* The station applies a profile to the transaction it names only. *)
Applied(t) == IF t.tx = car.tx THEN [car EXCEPT !.offer = t.point] ELSE car

(* PV.accepted: an accepted positive point completes the restart. *)
Accepted ==
  /\ Reading("set")
  /\ task.tx = car.tx /\ car' = Applied(task)
  /\ IF ~task.live
     THEN grid' = [grid EXCEPT !.task = None] /\ UNCHANGED <<budget, restart, journal, owed>>
     ELSE /\ grid' = [grid EXCEPT !.task.pc = "check"]
          /\ IF task.point > 0 /\ restart
             THEN /\ budget' = [budget EXCEPT !.stopped = FALSE, !.reset = FALSE]
                  /\ restart' = FALSE /\ owed' = NoTx
                  /\ journal' = Append(journal, Waits("checkpoint",
                       [profile |-> setting.profile, scope |-> budget.scope, same |-> TRUE]))
             ELSE UNCHANGED <<budget, restart, journal, owed>>
  /\ Elsewhere /\ UNCHANGED ops

(* An atomic rejection, with a time for the next attempt or without one. *)
Rejected ==
  /\ Reading("set") /\ Spend
  /\ \E retry \in {"none", "later"} :
       grid' = [grid EXCEPT !.task = None, !.uncertain = task.before,
                            !.rejected = @ \/ task.live,
                            !.retry = IF task.live THEN retry ELSE @]
  /\ Aside

TimedOut ==
  /\ Reading("set") /\ Spend
  /\ car' \in {car, Applied(task)}
  /\ TaskEnds
  /\ Elsewhere /\ UNCHANGED <<budget, restart, journal, owed>>

(* The read after an accepted point: it may fail, or show another offer. *)
CheckAnswered ==
  /\ Reading("check")
  /\ \/ grid' = [Seen(grid) EXCEPT !.task = None] /\ UNCHANGED ops
     \/ Spend /\ TaskEnds
  /\ Aside

(* The answer, or none, to the request of a task that was replaced. *)
StrayAnswered ==
  /\ grid.stray # None
  /\ car' \in {car} \cup (IF grid.stray.pc = "set" THEN {Applied(grid.stray)} ELSE {})
  /\ \E uncertain \in {grid.uncertain} \cup
         (IF grid.stray.pc = "set" /\ car' = car THEN {grid.stray.before} ELSE {}) :
       grid' = [grid EXCEPT !.stray = None, !.uncertain = uncertain]
  /\ Elsewhere /\ UNCHANGED <<budget, restart, journal, owed, ops>>

(* The retry timer; with a PV release it only lets the next tick propose. *)
RetryDue ==
  /\ grid.retry = "later"
  /\ grid' = IF Active(setting) THEN [grid EXCEPT !.retry = "due"]
             ELSE Launch([grid EXCEPT !.retry = "due"], 0, TRUE, known)
  /\ Aside /\ UNCHANGED ops

-----------------------------------------------------------------------------
(* Users *)

(* PV.lifecycle in a new context, with what Grid does in it. *)
NewContext(b) == restart' = FALSE /\ budget' = Interrupt(b) /\ tick' = Fenced(tick)

Start ==
  /\ setting.profile \in PVProfiles /\ ~setting.released /\ ~setting.stopping
  /\ setting' = [setting EXCEPT !.released = TRUE]
  /\ grid' = Moved(grid, setting', known, TRUE)
  /\ NewContext(budget)
  /\ UNCHANGED <<car, known, ended, problem, store, journal, ops, owed>>

(* stop_release: first the release, then its save, then operator_stop. *)
Stop ==
  /\ Spend
  /\ setting.released
  /\ setting' = [setting EXCEPT !.released = FALSE, !.stopping = TRUE]
  /\ grid' = Moved(grid, setting', known, TRUE)
  /\ NewContext(budget)
  /\ UNCHANGED <<car, known, ended, problem, store, journal, owed>>

StopStored ==
  /\ setting.stopping
  /\ setting' = [setting EXCEPT !.stopping = FALSE]
  /\ budget' = NewBudget /\ owed' = NoTx
  /\ journal' = Append(Renewed(journal), Waits("stop", None))
  /\ UNCHANGED <<car, known, ended, restart, problem, store, tick, grid, ops>>

StopNotStored ==
  /\ Spend
  /\ setting.stopping
  /\ setting' = [setting EXCEPT !.stopping = FALSE]
  /\ UNCHANGED <<car, known, economy, store, journal, tick, grid, owed>>

(* A change of profile retires the release; leaving PV closes the scope. *)
SetProfile(p) ==
  /\ Spend
  /\ p # setting.profile /\ ~setting.stopping
  /\ setting' = [setting EXCEPT !.profile = p, !.released = FALSE]
  /\ grid' = Moved([grid EXCEPT !.requested = None], setting', known, TRUE)
  /\ IF p = "NETZ"
     THEN /\ NewContext(NewBudget) /\ owed' = NoTx
          /\ journal' = Append(Renewed(journal), Waits("checkpoint", None))
     ELSE NewContext(budget) /\ UNCHANGED <<journal, owed>>
  /\ UNCHANGED <<car, known, ended, problem, store>>

-----------------------------------------------------------------------------
(* The station, the network, the process *)

(* The transaction Grid sees changes: Grid.changed and PV.lifecycle. *)
Sees(tx) ==
  /\ known' = tx
  /\ grid' = [Moved(grid, setting, tx, FALSE) EXCEPT !.held = None]
  /\ NewContext(budget)

(* A transaction begins at whatever the station offers it. *)
Begins ==
  /\ car.tx = NoTx /\ car.next <= MaxTx
  /\ \E offer \in Point :
       car' = [car EXCEPT !.tx = car.next, !.next = @ + 1, !.offer = offer]
  /\ Sees(car'.tx) /\ journal' = Renewed(journal)
  /\ UNCHANGED <<setting, ended, problem, store, ops, owed>>

(* Its end is reported, also after a reconnect that did not show it yet. *)
Ends ==
  /\ Spend
  /\ car.tx # NoTx
  /\ car' = [car EXCEPT !.tx = NoTx, !.offer = 0]
  /\ Sees(NoTx)
  /\ ended' = car.tx
  /\ journal' = Append(Renewed(journal), Waits("checkpoint", None))
  /\ UNCHANGED <<setting, problem, store, owed>>

(* The connection is lost and there is a new one; the transaction is not   *)
(* known in it, and the outcome of a request under way never becomes known.*)
Requests == {t \in {grid.task, grid.stray} : t # None /\ t.pc = "set"}
Outstanding == IF grid.stray = None THEN Requests ELSE Requests \ {grid.task}

LinkLost ==
  /\ Spend
  /\ known' = NoTx
  /\ car' \in {car} \cup {Applied(t) : t \in Outstanding}
  /\ grid' = [Moved(grid, setting, NoTx, FALSE)
                EXCEPT !.held = None, !.task = None, !.stray = None]
  /\ NewContext(budget) /\ journal' = Renewed(journal)
  /\ UNCHANGED <<setting, ended, problem, store, owed>>

Reported ==
  /\ known = NoTx /\ car.tx # NoTx
  /\ Sees(car.tx) /\ journal' = Renewed(journal)
  /\ UNCHANGED <<setting, car, ended, problem, store, ops, owed>>

(* It ended without a connection, and no report of that ever arrives. *)
EndsUnseen ==
  /\ Spend
  /\ known = NoTx /\ car.tx # NoTx
  /\ car' = [car EXCEPT !.tx = NoTx, !.offer = 0]
  /\ UNCHANGED <<setting, known, economy, store, journal, tick, grid, owed>>

NewGrid == [task |-> None, stray |-> None, held |-> None, uncertain |-> FALSE,
            requested |-> None, rejected |-> FALSE, retry |-> "none"]

(* The process ends and starts again: PV.start.  A write under way may     *)
(* have reached the disk; the release does not survive.                    *)
Restart ==
  /\ Spend
  /\ disk' \in {disk} \cup (IF journal = <<>> THEN {}
                            ELSE {Head(journal).record} \ {None})
  /\ saved' = disk' /\ budget' = Restore(disk') /\ ended' = disk'.ended
  /\ setting' = [setting EXCEPT !.released = FALSE, !.stopping = FALSE]
  /\ known' = NoTx
  /\ car' \in {car} \cup {Applied(t) : t \in Outstanding}
  /\ grid' = NewGrid /\ tick' = Idle /\ journal' = <<>>
  /\ restart' = FALSE /\ problem' = "none"
  /\ UNCHANGED owed

-----------------------------------------------------------------------------

Init ==
  /\ setting \in [profile: Profile, released: {FALSE}, stopping: {FALSE}]
  /\ car = [tx |-> NoTx, next |-> 1, offer |-> 0]
  /\ known = NoTx
  /\ budget = NewBudget /\ ended = NoTx /\ restart = FALSE /\ problem = "none"
  /\ disk = Saved(NewBudget, NoTx) /\ saved = disk
  /\ journal = <<>> /\ tick = Idle /\ grid = NewGrid
  /\ ops = 0 /\ owed = NoTx

Users == Start \/ Stop \/ \E p \in Profile : SetProfile(p)

Environment ==
  \/ Begins \/ Ends \/ LinkLost \/ Reported \/ EndsUnseen \/ Restart
  \/ StopNotStored

Ticks(ok) ==
  \/ PlanOnly(ok) \/ InputsMissing(ok) \/ Unreconciled(ok) \/ SocStop(ok)
  \/ Decide(ok) \/ SocStopped(ok) \/ Wired(ok)

Stored(ok) == Ticks(ok) \/ Checkpointed(ok) \/ Stopped(ok)

Answers == ReadAnswered \/ Accepted \/ Rejected \/ TimedOut \/ CheckAnswered

Next ==
  \/ Users \/ Environment
  \/ Fire \/ Capture \/ StopStored \/ \E ok \in BOOLEAN : Stored(ok)
  \/ Send \/ Answers \/ StrayAnswered \/ RetryDue

Spec == Init /\ [][Next]_vars

-----------------------------------------------------------------------------
(* Properties *)

(* An economic STOP that the journal has confirmed stays, in memory and on *)
(* disk, through crashes, late checkpoints, failed writes and changes of   *)
(* profile, until a restart is accepted, an operator stops, PV is left, or *)
(* the transaction is proven ended.                                        *)
StopKept ==
  owed # NoTx => /\ budget.scope = owed /\ budget.stopped
                 /\ disk.scope = owed /\ disk.stopped

(* A restart is prepared only while the station really offers zero to the  *)
(* stopped transaction, whatever proposals were lost before                *)
(* (Budget.restart_reason, Grid.point_uncertain).                          *)
RestartEarned ==
  [][restart' /\ ~restart =>
       budget'.stopped /\ budget'.scope = car.tx /\ car.offer = 0]_vars

=============================================================================
