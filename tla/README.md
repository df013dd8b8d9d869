# Wallbox Manager in TLA+

This directory is a verification development for the Home Assistant
integration `custom_components/wallbox_manager`. The integration speaks OCPP
2.1 with one charging station and decides, for one connector, whether and how
strongly a car may charge. Everything in it runs in one asyncio event loop:
there are no threads to interleave, but almost every operation awaits storage
or the station, and other handlers run at every await. The models therefore
take *one stretch of code between two awaits* as one action.

Paths below are relative to `src/`; `cc/` stands for
`custom_components/wallbox_manager/`.

## 1. Inventory

| component (source) | state it keeps | operations | what makes it correct |
|---|---|---|---|
| Settings document (`cc/settings.py`) | `values`, `profiles` (the stored copy), `lock`, `timing_lease`, `approval_error` | `set`, `_approve_release`, `approve_equivalent_grid`, `edit_timing`, `expire_timing_edit`, `step_power`, `initialize_power`, `save_runtime`, `_save`, `persist` | memory and disk agree unless a warning is shown; a revoked release never comes back; drafts are lost only where the user may lose them |
| Charge release and actions (`cc/grid.py` 132-371, 607-850; `cc/button.py`) | `epoch`, `action_generation`, `action_lock`, `schedule_timer`, `attempted_edit_revision`, `last_authority` | `explicit_action`, `action`, `stop_release`, `release_changed`, `changed`, `schedule`, `persist_release_loss` | a release is on only because of a Start pressed for this profile in this context; runs end; actions are answered |
| NETZ dispatch (`cc/grid.py` 706-1187) | `task`, `task_epoch`, `requested`, `acknowledged`, `confirmed`, `point_uncertain`, `allow_issue`, `status`, `reason`, `outcome_epoch`, `retry_deadline` | `launch`, `reconcile`, `read_point`, `dispatch_point`, `retry`, `committed`, `edited` | no positive offer is sent without a release; a point is shown as applied only if the station offers it; a stale task changes nothing a newer one decided |
| Control commands (`cc/control.py`) | one `Intent` per variable | `request`, `run`, `confirm` | a later request wins; an answer of an older generation confirms nothing |
| OCPP listener and adapter (`cc/ocpp.py`) | connection, generation, initialization, pending requests | boot, read, request with DISPATCH guard, close | requests are serialized; nothing of an old connection reaches the state |
| Observations (`cc/store.py`) | observations with generation and time | `put`, `current`, `publish`, idle invalidation | only the current generation is current; order is kept |
| Sessions and meter (`cc/session.py`, `cc/meter.py`) | the session, its boundaries, sequence number | transaction events, meter values | one session per transaction, never reopened |
| Battery reserve (`cc/battery.py`, `cc/grid_battery.py`) | ownership record, original and written value | acquire, write, confirm, release, recover | the user's original value is restored exactly once, and never over an external change |
| Operating points (`cc/grid_point.py`) | none | `envelope`, `resolve`, `interim`, `navigate` | the point is executable, within caps, and the nearest in the chosen direction |
| PV (`cc/pv.py`, `cc/pv_core.py`, `cc/pv_soc.py`, `cc/pv_plan.py`, `cc/pv_economics.py`) | controller state, budget, journal | tick, submit, accepted, checkpoint | waits and hysteresis; a budget is spent once, also over a restart |
| Messages (`cc/messages.py`) | active messages | set, clear | one message per identity and generation |
| Entry lifecycle (`cc/__init__.py`), config flow, migrations, entities, frontend | - | setup, unload, `options_updated` | adapters and one-shot conversions |

How they interact: entities and the dashboard card call `Settings.set`,
`Grid.explicit_action`/`action` and `Control.request`. Settings notifies Grid
through watchers (`release_changed`, `edited`, `committed`, `schedule`). The
OCPP adapter writes observations to the store, whose watchers call
`Grid.changed` and `Grid.phase_changed`. Grid spawns `reconcile` on the
adapter, which reads and writes the station; before a write reaches the wire,
a guard passed in `DISPATCH` looks at the state again. PV submits points
through the same `reconcile`. Battery and session react to the same
observations.

Where the difficulty lies:

* *The document is replaced, not updated.* `_save` copies the document, awaits
  storage and then makes the copy the document. Stop, a profile change, the end
  of a run and the loss of authority do not wait for the lock; they change the
  old document at once. What they changed is undone by the swap and has to be
  restored by something later.
* *Epochs.* `invalidate` supersedes older intents and cancels the timers; each
  caller has to arm the schedule again, and each await has to be followed by a
  comparison with the epoch captured before it.
* *Storage fails in two ways*: nothing written, or written and not verified.
* *Deadlines* race writes in flight: the end of a run, the end of the edit
  window, the planned start.
* *The station* answers late, not at all, or for an older connection.

`PROJECT.json` lists these hazards at their lines.

## 2. Plan

In order of importance. A module is written so that it can be proved about as
well as checked: parameters are CONSTANTS with named assumptions, there is one
action per handler, and no RECURSIVE operator.

1. `ChargeRelease` - settings document, lock, release, schedule. **Done.**
   Next: an abstract `ReleaseContract` (off; granted for a profile; revoked)
   that it implements.
2. `GridDispatch` - `reconcile` and its successors against a station that
   holds an offer: the uncertain chain, lockout with interim point, retry,
   reconnects, the serialized calls of the adapter. **Done for NETZ**, with
   `GridDispatchProofs`: types, `StaleTaskSilent`, `ShownIsOffered`,
   `ConfirmedIsDone` and `EndReported`. Next: an abstract contract (the
   station's offer follows the intent or trouble is shown).
3. `BatteryReserve` implementing `ReserveContract`, with crashes and external
   changes. **Done**, with the proofs of all its safety properties: it
   implements the contract, writes over no user and follows what is called for.
4. `ControlCommand` - intents, joins, confirmation, timeouts, with the calls,
   the inventory and the observations they rest on. **Done**, with the proofs
   of all its invariants, of `NoStaleWrite` and of `LastWriteAgrees`.
5. `SessionEvidence` - sessions, energy and idleness against a station that
   has the truth. **Done**, with the proofs of all its invariants.
6. `PVEconomy` - budget, economic STOP, journal and restart, with the awaits
   of the tick and the proposals of PV points; `PVRegulation` - hysteresis,
   waits and ramps in a loop with vehicle, grid and battery. **Done**, with the
   proofs of all properties of `PVEconomy` and of `Cadence`.
7. `Envelope` - points and maps to points, against reference statements.
   **Done**, with the proofs of `resolve` and `navigate` in
   `PVRegulationProofs`.
8. `TimingEditor` - the browser editors with owner, lease and window on top of
   the document of `ChargeRelease`. **Done**, with `TimingEditorProofs`: types,
   `Fenced` and `OverInTime`.
9. `EntryLifecycle` - two instances over one store when an entry is reloaded
   during a save, and options that change during one.
10. `NetzControl`, which composes release, dispatch and the adapter;
    `ActiveMessages` last.

Theorem planned, beside those proved: the refinement of a `ReleaseContract`.

## 3. ChargeRelease

### State

| variable | code |
|---|---|
| `values`, `disk`, `storageError` | `Settings.values`, the profile store, the message `settings:storage` |
| `holder`, `queue` | who holds `Settings.lock`, with the document it saves and whether this is its first write or the one that takes it back; the tasks awaiting the lock, in order |
| `click` | the explicit action a card has sent, with the context the card displays (`charge_action_revision`) |
| `act` | the action inside `Grid.action_lock` |
| `epoch`, `generation`, `context`, `remote` | `Grid.epoch`, `action_generation` (with the runtime it belongs to), station generation and transaction, `manager_ready` |
| `timer`, `attempted` | deadlines the one `schedule_timer` is armed with, `attempted_edit_revision` |
| `now`, `ops` | wall clock; the count of outside events, a bound |
| `granted`, `revoked` | history only: the profile the last accepted Start was pressed for, and whether something revoked it since |

A document (`Doc`) keeps profile, release, schedule (`grid_request`), edit
window, power, delay, duration, what was approved of these, and the draft and
timing revisions.

### Actions

| action | code |
|---|---|
| `Send`, `Stop`, `StartOrApply`, `Press` | the card's service call; `explicit_action` without and with the lock; the generic button |
| `SetPower`, `SetDelay`, `SetDuration`, `SetProfile` | `Settings.set` up to the lock |
| `Acquire`, `AcquireApproval`, `AcquirePV` | the part of `_set`, `save_runtime`, `persist_release_loss`, `approve_equivalent_grid`, `expire_timing_edit`, `_approve_release` and the PV Start between lock and storage |
| `PlainStored`, `ExpireStored`, `ApprovalStored`, `PVStored`, `...NotStored`, `Superseded`, `...Undone` | what follows the answer of the store, the second write included |
| `Fire` | `elapsed` of `Grid.schedule` |
| `Observe`, `TakeControl`, `LoseAuthority` | `Grid.changed` |
| `ReevaluatePending` | `Grid.reevaluate_pending` |
| `TaskEnds` | the dispatch task that `_action` awaits has ended, however |
| `Restart` | the process ends, during a write or not, and starts again |

### Abstractions

* Every draft is valid and positive; power is a member of a small set. The
  numbers' validation and `initialize_power`/`step_power` are left out, as are
  the settings that never concern the release.
* Whether a new power draft resolves to the approved operating point depends on
  the station; `EquivalentOrNot` leaves it open.
* PV profiles are collapsed to profiles other than `NETZ`; `pv.operator_stop`
  after a Stop is left out.
* Hardware permission (`ChargingEnabled`) is not part of the context.
* The edit window is that of the Text service (15 seconds from the write); the
  browser editors with their leases are the module `TimingEditor`.
* Other handlers may run between asking for a free lock and getting it; the
  code takes a free lock at once. Clicks may arrive arbitrarily late. Both only
  add behaviours.
* `invalidate` followed at once by `invalidate` bumps the epoch once.
* `persist` refusing while Home Assistant stops is one of the ways a write
  fails.
* The reload of the entry with a write in flight is not modelled; `Restart` is
  the end of the process.

### Runs

| run | question | result |
|---|---|---|
| `release_runs` | One card and the generic button, delays 0 and 1, duration 1 or none, two profiles, three events, three instants, no faults; with fairness | `SettledRelease`, `ActionsAnswered`, `RunEnds` hold (330 thousand states) |
| `release_faults` | Two cards, all other features and faults, four events | `TypeOK`, `GrantedProfile`, `Durable`, `NoStaleGrant`, `RollbackOnlyLive` hold (2.7 million states) |
| `release_authority` | power edits and loss of authority | violates `SettledRelease` |

*Bounds.* `MaxOps` counts what users and environment do; what the system does in
answer is not bounded. Each hazard needs at most four such events: a Start, the
event it races, the write that hides the race, and one fault. Two profiles are
enough to select another one, two powers to have a draft, one time unit each
for delay, duration and window to have every order of their ends. Two cards
make clicks with different contexts meet. The features divide the faults
between the runs: the liveness run has none that would need unbounded retries,
the fault run has all faults and no generic button, for the reason given
under "Findings".

*Deadlock.* Users owe nothing and the clock is bounded, so a run may stop;
`CHECK_DEADLOCK FALSE` is set for this reason, and that nobody waits for ever
is `ActionsAnswered`.

*Fairness.* The event loop eventually runs a ready task, storage eventually
answers (well or badly), the awaited dispatch task ends (requests have
timeouts) and time passes: weak fairness of the handlers, of the store's
answers taken together, and of `Tick`. Users and environment have none.

### Findings

* `release_authority`: a power draft is being stored when authority is lost.
  `changed` switches the release off in the old document; the store's answer
  makes the copy the document, in which it is on; `persist_release_loss` then
  gets the lock, sees a release that is on and does nothing. Stop does not have
  this flaw: `save_runtime` writes unconditionally.

TLC showed two more:

* `stop_release` evaluates its fields before `save_runtime` waits for the lock,
  `grid_timing_revision` among them. A time edit that is stored in between is
  followed by its own predecessor's revision. What follows from it is in
  section 10.
* Without a run of its own: the generic button, pressed in a PV profile, waits for the lock without a
  check. A change to NETZ that holds the lock is then followed by a release in
  NETZ without a schedule, which `GrantedProfile` excludes.

### Proofs (`ChargeReleaseProofs`)

For every value of the constants that satisfies the named assumptions:

* `TypeCorrect`: `Spec => []TypeOK`. The type invariant is not inductive: the
  answer of the store continues an action `act`, and nothing in the types says
  that the action is still there. `IndType` adds `OneTask`: at most one task
  that is queued or holds the lock works for the action, and none does once the
  action waits for its dispatch.
* `GrantedProfileHolds`: without the generic button,
  `Spec => []GrantedProfile`. The inductive invariant `IndGrant` adds that an
  approval that is being stored, and has not been superseded, is for the
  profile and the context of the click (`HeldProfile`, `HeldContext`), and that
  a plain save carries a release only if the document in memory had it when it
  was granted (`HeldRelease`).
* `NoStaleGrantHolds`: without the generic button, `Spec => NoStaleGrant`, from
  the same invariant.

  The assumption `"button" \notin Features` of these two is needed: with the
  generic button TLC finds the second of the behaviours above.
* `DurableHolds`: `Spec => []Durable`, with every user and fault. `Durable` is
  inductive together with the types. `StepKinds` first reduces every step to
  one of four: it changes no more than the release of the document in memory
  (`InMemory`), begins a save (`Begins`), is an answer of the store or a
  restart. An answer leaves in memory what it stored, saves on under the same
  lock (`TakesBack`) or announces the failure (`StoreKinds`).
* `RollbackOnlyLiveHolds`: `Spec => RollbackOnlyLive`, from the same lemmas and
  the invariant `Edits`: an edit window, in memory or in what is being saved,
  belongs to the revision of the times it was opened for, and a rollback that
  is being saved was asked for by the window that is open. Nobody can write the
  times while the rollback holds the lock; what can change meanwhile is only
  the release.
* `SettledReleaseHolds`: `Spec => []SettledRelease` where neither authority is
  lost nor storage fails, with the generic button. The invariant `IndEnd` says
  where the end of a revoked release is: if the document in memory is released
  after a revocation, an ending task (a Stop, a change to another profile) waits
  for the lock, or the save under way is of a document that is off; if a save
  under way would bring the release back, an ending task waits behind it, or it
  is the save of a Start, which was overtaken and takes itself back or becomes
  the last accepted one (`Ending`). `Restoring` says which saves can turn on
  what was off. Both hypotheses are needed. With a loss of authority
  `release_authority` shows the counterexample; with failing storage TLC shows
  that a save of something else brings the release back, and the save of the
  Stop behind it then fails: the release stays on with the warning shown.

Only model-checked: the liveness properties, which are beyond the proof system
as far as they rest on fairness.

## 4. GridDispatch

A release that is on, or off, still has to become the operating point that the
station offers. `Grid.reconcile` reads the offer, decides what is wanted,
proposes it and reads again; every step awaits the station. Intents do not wait
for it: each supersedes the running task by moving `epoch` and spawns another.

### State

| variable | code |
|---|---|
| `doc` | `charge_release`, `Grid.phase` (waiting, active, expired), and the point the approved power resolves to |
| `seen` | what is observed of the current generation: link, authority, transaction, phases, permission, capability |
| `station` | the offer and the transaction the station really has, and the transactions that are over |
| `grid` | `epoch`, `task_epoch` (`latest`), `allow_issue`, `known_transaction`, `last_authority`, `requested`, the held observation (`confirmed` with transaction and generation), `point_uncertain` as a sequence of proposals, oldest first (`uncertain`), `status`, whether `reason` is "interim_readback_failure", whether `outcome_epoch` is the current epoch (`outcome`), the retry timer, the business timer, and the tasks whose turn has come (`ready`) |
| `act`, `storing` | the Start or Apply whose save is under way; the save of a stop |
| `calls`, `sent`, `inbox` | tasks at the call lock, whether the head's request is written, the requests on their way |
| `ops` | events of users and environment, a bound |
| `grid.decided` | history only: the phase the reported outcome was decided in |

A task keeps what its stack frame keeps: epoch, transaction, the phase it was
launched in, the point wanted, the point held, and the await it stands at.

### Actions

| action | code |
|---|---|
| `Start`, `Apply` | `_action` up to the save |
| `ActionStored`, `ActionSuperseded`, `ActionUndone`, `ActionFailed` | what follows the save: `edited`, `committed`, the second save of `_approve_release`, the error paths |
| `Stop`, `StopAgain`, `ReleaseStored`, `ReleaseNotStored` | `explicit_action("stop")`, `stop_release`, the announcement by `save_runtime` |
| `CommitEquivalent` | `approve_equivalent_grid` with `committed` |
| `StartDue`, `EndDue`, `DeadlineFires`, `RetryFires` | the clock passing `start_at` or `end_at`; `elapsed` of `schedule`; `intent_callback` |
| `PermissionSeen`, `AuthoritySeen`, `CapabilitySeen`, `TxStart`, `TxEnd`, `TxSeen`, `PhaseSeen` | the store's watchers: `permission_changed`, `changed`, `phase_changed` |
| `Disconnect`, `Register` | `Adapter.close` with the reset of the store; a new connection with its boot, or a boot on the old one |
| `RunTask` | `reconcile` from one await to the next, by the await the task stands at: `StartTask`, `AfterRead`, `AfterSet`, `AfterInterim`, `AfterCheck`, `AfterConfirm`, `NoAnswer`; `Finish` is `settled` |
| `Send` | `Adapter._send` with the `DISPATCH` guard, once the call lock is free |
| `StationHandles`, `CallTimesOut` | the station's answer; the end of the response timeout |

### Abstractions

* NETZ only: PV submits points through the same `reconcile`; that path is part
  of `PVEconomy`.
* The document's writes are those of `ChargeRelease`. Here a Start or Apply
  that is being saved and the save of a stop exclude each other, as the lock
  does, and `Begin` is not taken while a stop is being saved.
* An approved power resolves to one of `Points` whatever the running phases;
  the interim point is any point on the held phases, or zero.
* Tasks become ready and get the call lock in order (asyncio's queues); an
  answer is delivered and handled in one step.
* The offer changes only by proposals and by a new transaction. Local control
  at the station, which may change it under Local authority, is left out; so
  is a control command repeated by the user, which makes `changed` run again.
* Disconnection and registration: what is pending at the adapter is cancelled,
  what is on the wire may be carried out or lost. The boot follows a new
  connection at once.
* Of `reason` only one value is told from the others, "interim_readback_failure".
  `acknowledged`, the messages and the polls of other variables are left out.
* After a superseded Apply `_approve_release` switches the release off and
  saves again. In between, a positive point may be confirmed without a release;
  `ConfirmedIsDone` exempts this moment by name.

### Properties

* `ShownIsOffered`: while no proposal is uncertain, the point shown as applied
  is the one the station offers.
* `ConfirmedIsDone`: status "confirmed" means that the station offers what was
  requested, that nothing under way will change it, and that a positive point
  has its release.
* `StaleTaskSilent`: a task whose intent is superseded changes neither status,
  requested point, confirmation, outcome, retry nor right to propose, which
  belong to a newer one. The reason shown with the status it may change in one
  case, which the property names (findings below).
* `PlannedStartRenewed`: a decision taken before the planned start does not
  outlive it.
* `EndReported`: a task that ends while it is current has reported.
* `StopReached`: with the release off the station does not go on offering
  current once nothing more is to happen, unless trouble is shown.

### Runs

| run | question | result |
|---|---|---|
| `dispatch_intents` | users, deadlines, permission, authority and capability against the tasks; two currents on the same phases | `TypeOK`, `ConfirmedIsDone`, `PlannedStartRenewed` hold (2.9 million states) |
| `dispatch_faults` | lost connections, boots, timeouts, unreadable offers, lockouts, failed saves; points on one and three phases | `ShownIsOffered`, `EndReported`, `StopReached`, `StaleTaskSilent` hold (2.3 million states) |
| `dispatch_permission` | permission withdrawn and given back | violates `StopReached` |

*Bounds.* `MaxOps` is 3: a transaction or Start, the event that overtakes its
task, and one more. Everything the system does in answer is unbounded (tasks,
retries, proposals). One transaction suffices for the races within one, and its
end and reappearance after a reconnection are included. Two points, on
different phases, make a lockout and its interim point possible; two on the
same phases make a superseded point differ. The features divide the events:
together they exceed what TLC can enumerate.

*Deadlock.* As in `ChargeRelease`, the bounded environment may simply stop.

*Fairness.* None is assumed: `StopReached` and `EndReported` are stated over
states in which nothing is left to happen.

### Findings

* `dispatch_permission`: `permission_changed` invalidates and launches nothing,
  in either direction. A zero that is on its way when the permission is
  withdrawn is superseded; when the permission comes back the station still
  offers its current with the release off, until some other observation
  changes.

TLC showed five more that have no run of their own:

* When the readback after an accepted interim point fails, `reconcile` sets
  `reason` to "interim_readback_failure" before it looks whether the task is
  still current (grid.py:1109-1115; `valid` comes at 1129). A superseded task so
  changes the reason of a newer intent. Within the bounds of `dispatch_faults`
  the newer status is then "waiting", after a reconnection, and the reason stays
  with it until the next status. Without the exemption `StaleTaskSilent` is
  violated.
* An Apply moves the epoch before it saves. If the task that was to bring the
  pause before a planned start ends during the save, `committed` sees no task
  and an unchanged start, and keeps the point as it is: the car charges until
  the planned start.
* `changed` forgets the known transaction with the connection, so that after a
  reconnection the same transaction counts as new and `allow_issue` is set.
  Without a readback the approved positive point is then proposed.
* With "accepted_unconfirmed" every observation starts a task that only
  confirms (`phase_changed`, grid.py:472-476). A planned start that falls due
  while it runs is joined to it (grid.py:716-717). The task ends without a
  proposal (grid.py:1051-1052), and as it was launched when `start_at` had
  passed already, `settled` sees no change of the business phase and launches
  nothing: the planned start is swallowed. `PlannedStartRenewed` therefore is
  checked without lost and unreadable answers, with which such a status arises.
* A Stop invalidates before `stop_release` looks whether there is anything to
  stop (grid.py:238-245). A second Stop, pressed while the zero of the first is
  on its way, supersedes that zero; `stop_release` then returns early, as the
  release is off and nothing is requested (grid.py:352-357), and nothing new is
  launched. `StopReached` does not hold with the feature "again".

### Proofs (`GridDispatchProofs`)

For any points, own offers, transactions, features and bounds, from the
assumptions of the module (`Points` and `Own` are offers, `None` is none of
the transactions, points and saves):

* `TypeCorrect`: `Spec => []TypeOK`.
* `StaleTaskSilentHolds`: `Spec => StaleTaskSilent`, the action property, with
  its exemption of the reason.
* `ShownIsOfferedHolds`: `Spec => []ShownIsOffered`.
* `ConfirmedIsDoneHolds`: `Spec => []ConfirmedIsDone`.
* `EndReportedHolds`: `Spec => []EndReported`.
* `StopReachedHolds`: `Spec => []StopReached`, if the features contain neither
  "permission" nor "again". Both supersede a zero that is on its way and launch
  nothing in its place (findings above); with every other feature, faults and
  timeouts included, a stop is reached or shown as trouble.

The runs need their bounds: with all features together, or with more tasks than
three events can make, only the proofs speak. The inductive invariant has four
parts.

`Base` is `TypeOK` with three relations. `Tasks`: a task lives once, at the call
lock or among the ready ones, and no two live tasks have the same epoch; none is ahead
of `task_epoch`. `OnWire`: only the request of the call that holds the lock is
still awaited. `Known`: what is known of the transaction is true, and the held
observation is of this connection and of a transaction that has begun.

`Doubt` is what `ShownIsOffered` needs. An answer shortens the chain of
uncertain proposals (`Answered`): acceptance drops what is older than its
proposal, a rejection is marked, and the rejected ones at the end are dropped.
That an empty chain means no doubt follows only when a proposal that may still
change the offer, or did so behind the held observation, has an entry that no
answer on its way can take away (`Sure`, `Doubted`), when an answer settles the
entry of its own task, which is not yet rejected and is the last one while its
request is out (`OwnEntry`), and when an offer read by the current task is still
true as it is about to be stored (`Fresh`).

`Intent` is what the other two need. `Aimed`: what the current task wants is
still approved and permitted, and only such a task is refused by the guard as
one whose time has run out. `Done`: "confirmed" with the outcome of the current
epoch means that the station has the point, that no proposal is on its way, and
that a positive point has its release. `Reported`: with no task left, the status
says how the last one ended.

`Halt` is what `StopReached` needs. `Halting`: with the release off and no save
under way, while the station can be reached, a task of the current epoch goes
on, a retry is armed, or the status says how the last one ended. It rests on the
release being on whenever a change of the power or of the times is still current
(`Steered`), or an end is due that no other change undoes (`Expiring`): these
steps may find nothing to launch.

A step has one of a few effects, whatever its handler: the epoch moves and
perhaps a task is spawned (`MoveEffect`), nothing moves (`SameEffect`), the
connection is cut (`Cut`), a task has its turn (`Turning`: a stale task, one
that awaits again, one that ends, the stop of a missing readback), or the wire
acts. `StepEffects` shows this once per handler, and the second and third parts
are proved from the effects. The fourth is proved handler by handler, as it
turns on what the effects leave open: whether a task is spawned at all, and with
which status or retry one ends. Two features of the model make it possible: a
superseded task cannot return to the current epoch, and the call lock is first
in, first out.

Only model-checked: `PlannedStartRenewed`, which does not hold for every value of
`Features` (above).

## 5. BatteryReserve and ReserveContract

While NETZ charges, the reserve of the home battery is raised so that the car
is not charged from the battery. The reserve is a number entity of another
integration: whoever writes it, the program included, leaves no trace of who
it was. One task of the coordinator does everything, with a journal in a
store.

### State

| variable | code |
|---|---|
| `entity`, `soc`, `wish` | state of the reserve entity, of the state-of-charge entity, the setting `min_soc` |
| `scene` | what `GridBattery.update` reads from station and settings: no evidence, charging, charging without the release, paused, over, or a reason to stop (Local, no permission, a PV profile) |
| `mapped` | the entry's options name both entities |
| `disk`, `own` | the journal in the store; the fields of `BatteryReserve` |
| `dirty`, `task`, `alarm` | `GridBattery.dirty`; the task with its place in `update` and the locals that live over an await; the message `battery:reserve` |
| `flight` | service calls that have neither landed nor got lost |
| `past` | history only: the value a user (or the installation) set last, whether what shows is an override of the program, whether a user's write raced a call, whether a user has changed the value since the takeover |

### Actions

| action | code |
|---|---|
| `Load`, `Iterate`, `Hold`, `Evaluate`, `After`, `Finish` | `GridBattery.start` and `update`: mapping, recovery, evaluation, message, loop |
| `NoJournal` to `Supersedes` | `BatteryReserve.update` up to the point where no pending value is left |
| `Reverted`, `Drops`, `Follows`, `GivesUp`, `Restores` | what the reserve shows against original and temporary value |
| `Refrains`, `Adjusts`, `TakesOver` | the rest of `update`: one takeover per episode, changed plans |
| `Dispatch`, `Refuse`, `Confirmed`, `TimedOut`, `CallRefused` | `write` and `write_confirmed` |
| `Saved` | the end of each save and what follows it |
| `UserSets`, `Land`, `Lose`, `LosesReading`, `RegainsReading`, `SocChanges`, `WishChanges`, `SceneChanges`, `Remap` | the world, with `input_changed` and `changed` |
| `Crash`, `Start` | the process ends, in a save before or after the store has it, and starts |

### Abstractions

* Both entities are mapped or neither is; a mapping that names another reserve
  entity is left out, and with it a journal that names an old one.
* An integer range stands for the reserve; `Planned` is the arithmetic of
  `plan` on it. The entity's range is valid and covers what users set.
* Saves succeed: the store reports no failed write to this caller.
* An external write of a value that the journal names cannot be told from an
  own one, and one that races a call is not ordered with it; both limits are
  named in `docs/grid-profile.md`, and the history attributes nothing to the
  program after them, also where the journal comes to name a value only after
  the user has set it.
* A charging episode is what `session` and `recovering` make it: it starts with
  the takeover or with a journal to be resumed, and ends with the charging or
  with a changed mapping. What users set between a mapping that changed before
  the journal was resumed and the next takeover belongs to no episode.
* Without the feature `"stray"` a call lands while the journal still names its
  value, or never. See the limits below.

### Properties

* `OriginalKept`: while an override shows, the stored journal names the value
  it replaced.
* `Followed`: the task comes to rest with the value the preview shows.
* `ExternalWins`: no call goes out once a user has changed the value in an
  episode, and the episode does not take over again.
* `Released`: once charging is over for good the journal is gone, the message
  shows, or a failed restore waits for the entity.
* `KeepsContract`: the journal and the reserve implement `ReserveContract`, an
  abstract specification with four actions: a user sets the value, the original
  is noted, the value is overridden while it is noted, it is forgotten while no
  override shows. The mapping forgets the task, the calls and the process.

### Run, bounds, fairness

`reserve_ownership` (1.6 million states): all features but `"stray"`, five
events. Five is what a changed wish, a user, a lost call, a crash and the end
of charging take together. The reserve ranges over 0 to 4 with steps of two, users set
1, 2 and 3, wishes and state of charge exceed the range: rounding, clamping by state of charge and the maximum of the entity all matter.
Fairness: the event loop resumes the task, which waits at most for a save or
for the ten seconds of a confirmation; a call lands or is lost. Deadlock is not
checked since the bounded environment may stop.

### Proofs

`BatteryReserveProofs` proves, for every range and step of the reserve, every
value users set, and any number of events:

* `TypeCorrect`. The types hold only together with `Aware`: where the task
  stands in the middle of an update, at a save that goes on with the journal,
  or at a write, there is a journal in memory. Each action has a lemma (`...Type`)
  that says what it does to the journal, the status and the place of the task
  and that the state stays typed; the other proofs use these lemmas only and
  never look into the records again.
* `OriginalIsKept`, by the invariant `Consistent`. What a journal says of the
  reserve (`Tells`) is said of the one in memory and the one in the store:
  an override that shows is its temporary or its pending value, the user's
  value is its original or none that it names, and while it has a pending or
  superseded value no call for its temporary value is under way (`Safe`, or
  else that call would land after the journal has moved on). `Attributed`
  relates the history to the calls in flight: all of them are awaited by the
  stored journal, whose original is then the user's value. `Placed` relates the
  two journals: they differ only in a save, and `Saving` says by what follows
  the save in which way. `Saving` for `"dispatch"` is what makes a crash
  between the save and the call harmless.
* `ContractIsKept`, from the same invariant: a save or a crash is `Hold`,
  `Forget` or a stutter of `ReserveContract`, a user's write is `UserSets`, a
  call that lands is `Override`, and all else is a stutter.
* `ExternalWinsHolds`, by the invariant `Heeded`: a value the user has set in
  the episode is not among those the journal names, `write` replaces only
  these, and without a journal the episode is still marked (`session`) or the
  update that clears the mark is at its end (`Ends`).

* `FollowedHolds`, by the invariant `Current`: while nothing has changed since
  the iteration began (`~dirty`), the journal fits what the preview shows when
  the task is back in its loop, and within an update the evaluation is carried
  across the awaits (`Steady`). `Asks`: what the update asks for is still the
  profile's value, and with a journal it asks for it whenever the charging calls
  for one. `Stands`: the reserve is the
  value that was read, what is saved and then written is planned from both, and
  where the update ends the journal fits. An update for a changed mapping ends
  with the mapping still not taken over or starts the evaluation. What overtakes
  an update sets `dirty`, and `Steady` then says nothing until the next
  iteration, which is why the task cannot rest before it.

`OriginalIsKept` and `ContractIsKept` have the hypothesis that no call strays,
that is, lands after the journal stopped waiting for it: the last limit below
breaks them otherwise. `ExternalWinsHolds` and `FollowedHolds` need no
hypothesis. An earlier
version of the history was refuted on the way, in runs longer than the
bound of `reserve_ownership`: a plan may come to name the value a user has just
set, and a mapping that changes before a recovered journal was resumed ends the
episode. Both are stated above as abstractions.

`Released` is model-checked only: it is a liveness property.

### Limits of the code that TLC shows, without a run of their own

* After a restart whose mapping changed before the station was known again, the
  journal is not resumed and no session is marked. If it cannot be given back
  (the entity is unreadable or the call is not confirmed) and the mapping
  returns, a value a user sets then is taken over in the charging that goes on.
* A restore that timed out leaves `failed_restore` set. If charging resumes,
  `update` finds the temporary value, sets the status to active and so clears
  the message; when that charging ends, nothing is restored and nothing is
  shown until the entity was unavailable once.
* A user who returns the reserve to its original while an adjustment is being
  saved is overwritten: the comparison before the call accepts the original.
* A call that lands after the journal has been given up leaves an override
  that nothing will take back.

## 6. ControlCommand

`ControlAuthority` and `ChargingEnabled` are written by explicit commands. A
command is an intent; its task waits for the call lock of the adapter, passes a
guard just before the request is written, awaits the answer and then needs
evidence that the value is in effect: an event or a readback that is no older
than the dispatch.

### State

| variable | code |
|---|---|
| `intents` | `Control.intents`, with the time of the dispatch |
| `calls` | tasks at `Adapter.call_lock`, the head holding it: writes, confirming reads, the report request, initial reads, polls |
| `boots` | the tasks `initialize` and `poll_permission`: stage, report, what is left to read |
| `link`, `obs` | connection, generation, epoch, registration and inventory (`writable`); `State.observations` |
| `station`, `inbox` | what the station has and lets write, the requests it works off in order |
| `answers`, `notices` | two channels back: answers, and what the station sends of its own. The station queues its own calls, and the task that awaits an answer resumes later than a handler runs: each may overtake the other |
| `now` | synchronized clocks; it moves when a value changes and at a dispatch |
| `since` | history only: the values the station had since the last dispatch |

### Actions

| action | code |
|---|---|
| `Command`, `Repeat` | `Control.request`: answered at once, joined, read again, or spawned |
| `Send`, `Refused` | `Adapter._send` with the guard of `Control.execute` |
| `WriteAnswered`, `ReadAnswered`, `LateAnswer`, `TimedOut` | what follows the answer or its absence in `execute`, `confirm`, `read`, `initialize` |
| `Boot`, `Initialize`, `ReportAnswered`, `Report`, `Inventory`, `NoInventory`, `InitialRead`, `Poll` | registration, base report and reads |
| `Event` | `notify_event` with `State.observe` and `Control.observed` |
| `Connect`, `Disconnect` | `Listener.accept`, `Adapter.close`, `State.reset` with `Control.invalidate` |
| `CarriesOut`, `Tells`, `ReportsBase`, `LocalChange`, `StationBoots` | the station: it may refuse, accept without effect, be operated locally with or without a notification, boot with another inventory |

Left out: the reason texts of an outcome (a timeout of the confirming read that
comes after an event has confirmed still replaces the text), authentication,
and reads of variables that only describe the station.

### Properties

* `ConfirmedTrue`: what is shown as confirmed was in effect after the command
  went out.
* `LastWriteAgrees`, of a step: when a command is shown as confirmed, and it or
  the one it replaces went out, the last write of its variable that the station
  has still to carry out is no opposite one. A command that replaces an opposite
  one which may still take effect is answered by a write of its own.
* `HeldIsTrue`: when everything has arrived, what is held is what the station
  has, if it notified its last change, or nothing.
* `NoStaleWrite`: no write for a replaced intent, an earlier connection or a
  variable outside the inventory of this boot.
* `Answered`: every command is eventually answered.

### Run, bounds, fairness

`control_commands` (719 thousand states): stations with either variable, all
features, three events, two calls at a time (those that the system adds itself
included). Two opposite commands and one fault or local change are the races
the code handles; the first connection is free. The two variables share code
but no state; a station that has both only interleaves them, so that each
station of the run has one. Fairness: callbacks run, the station works off its
requests, a call without an answer times out; users, polls and faults have
none.

### Proofs

`ControlCommandProofs` proves, for all stations, features and bounds, without a
hypothesis beyond the module's assumptions:

* `TypeCorrect`. `TypeOK` is inductive only together with `Meant`: what the
  station sends of its own carries a value, and a report request is answered
  with an outcome.
* `NoStaleWriteHolds`, by `CallsInvariant`. The guard before a write compares
  the intent's generation with that of the link and looks at the inventory, but
  a call is known by its number only. So the proof has to know that
  no two waiting calls have the same number (`Distinct`), that a write which
  still waits belongs to an intent that was not yet decided, or was replaced
  (`Undecided`), and that boot tasks belong to one connection (`Booting`). New
  numbers are free because only finitely many are taken.
* `ConfirmedTrueHolds`, by `Invariant`: observations, answers and notices carry
  times that are not ahead of the clock and agree with each other (`Dated`);
  whatever is on its way of a read or a write that succeeded was dispatched to
  the station as it is now connected (`Matched`); and each value that is on its
  way, or held, with a time not before the dispatch of the intent is among those
  the station had `since` then (`Witnessed`).

`TypeCorrect` has one lemma per action. A second set of lemmas (`CallsStep`,
`StepEffects`) says what a step does to the calls, the clock and the channels,
and the invariants are proved from these alone.

* `HeldIsTrueHolds`, by `Knowledge`. "When everything has arrived" is not
  inductive: a station whose channels overtake each other is wrongly known most
  of the time. `Truthful` says what holds then: whatever is wrong in what is held,
  in an event or in an answer that will be accepted has a later event of the last
  change behind it, or is older than what is held (`Overtaken`); of two
  observations with one time neither is kept. `Recent` bounds the times of calls,
  events and observations by the epoch and the clock. The model's `None` must not
  be an observation, which `NoneAssumption` says.
* `LastWriteAgreesHolds`, by `WritesInvariant`. `Serial`: one call is under way at
  a time, its request is the last in the inbox, and no answer has the number of
  a request that is still there; so when a write is answered, nothing is left to
  be carried out. `Newest`: the last write of a variable in the inbox is that of
  its newest command, if that went out, and there is none once it was answered.

`Answered` is a liveness property and stays with TLC.

### Limits of the code that TLC shows, without a run of their own

* *The command before the last.* A write times out and is still to be carried
  out. Somebody operates the station and its value is observed. The same command
  again is then answered at once (the value is held, and the old command is not
  an opposite one). Somebody operates the station back, which is observed too,
  and the opposite command is given: control.py:164-169 looks at the command it
  replaces only, which is confirmed and was never dispatched, so it is confirmed
  without a write, and the first write then undoes it. "An opposite in-flight
  write may still take effect: send corrective intent" (control.py:190) is kept for
  the command that is replaced, not for those before. TLC finds it in six events
  when `LastWriteAgrees` is read as a property of every confirmed state; as a
  property of the step it holds, and says which confirmation is safe. The event of
  the late write is still observed (`HeldIsTrue`), only the command stays shown as
  confirmed.

## 7. SessionEvidence

What is known of a charging session is inferred from reports. The model has
the truth beside it: a station with a plug, transactions and counters, so that
the properties can say whether what is shown is right.

### State

| variable | code |
|---|---|
| `truth` | the station: clock, plug, transaction, when each began, sequence number, and whether the meter of the EVSE shows the same as that of the transaction. The true counter shows the time |
| `queue` | reports on their way, in order; a transaction event may be sent again |
| `link` | generation (connection and incarnation), `registered_generation`, epoch |
| `state` | `session`, `closed_transactions`, the observations of connector, charging and parent meter, `idle_barrier` |
| `saved` | the stored document |

### Actions

| action | code |
|---|---|
| `TransactionEvent` | `transaction_event` with `event`, `observe`, `meter` at a boundary or not |
| `MeterValues` | `meter_values` with `observe`, `meter`, `linked_energy` |
| `StatusNotification` | `status_notification` with `observe_connector` |
| `Boot`, `Connect`, `Disconnect` | registration, `State.reset` |
| `Save`, `Restart` | `save_session`, delayed; `load` |
| `Plug`, `Starts`, `Updates`, `Ends`, `Meters`, `StationBoots` | the station. Without a connection its events are marked offline and ignored; a boot may end a transaction without a report; a reading may be nonsense or go back |

Left out: power, sessions of other connectors (all reports are of the bound
one), documents of earlier versions, and a counter that resets exactly between
the start and the first reading, which nothing can detect.

### Properties

* `ActiveIsTrue`: when no report is on its way, an active session is the
  transaction the station has.
* `IdleIsTrue`: idleness is only shown if the station has no transaction, and
  with a vehicle at the plug only from a report since it arrived.
* `EnergyTrue`: the energy of a session is what its counter counted since it
  began, up to the age that the code allows a reading at a boundary.

### Run and bounds

`session_evidence` (2.5 million states): four instants, one fault, two reports
on their way. Four instants hold a transaction, its end, an arrival and the
next start; the fault is one of a lost connection, a restart, a boot, a
nonsense reading. A boundary age of one makes readings of the age allowed and
older ones differ. No fairness: the properties are about states in which all
reports have arrived.

### Proofs (`SessionEvidenceProofs`)

All invariants of the run are theorems: for every length of time, any number of
faults, of transactions and of reports on their way, and any boundary age. The
`ASSUME`s say only that the bounds are numbers and that `None` is no value. Each
writer has an effect lemma which says what becomes of queue, session,
observations and truth; the invariants are proved from these, in four stages, each
an inductive invariant over the one before.

* `Metering` (`TypeCorrect`, `EnergyTrueHolds`): types, and `Counted`. Each
  report says what the counter showed at its time, or nonsense; a session, live or
  stored, has the right counter at its start, or none, and its energy is that of
  the last reading it took (`MeterTrue`). The meter of the EVSE enters by
  `ParentTrue`: it differs from the true one by the offset, so a session may only
  be joined with it where a reading shows that they agree.
* `InOrder`: what was said of one transaction has times and sequence numbers that
  agree, and none in the future or in the time of another (`Ordered`). This is
  what makes it right that an event is heard by its sequence number within a session
  and by its time across sessions.
* `Telling` (`ActiveIsTrueHolds`). By itself `ActiveIsTrue` says nothing while a
  report is on its way. The invariant says that whoever would take a transaction
  for active that is over will be told: a later end of it is behind in the queue
  (`Awaits`), or the event will not be heard (`Outdated`). It holds from the
  registration on; before, the epoch of the connection keeps old events out.
  `Book` adds that the closed transactions are those that ended, also in what is
  stored, `Latest` that an event of this moment tells what is.
* `Idling` (`IdleIsTrueHolds`). Idleness is shown by three things together: an
  observation, the connector and the barrier. The invariant follows each of
  them and the reports that will change it: since an idleness no transaction
  began, and a plug that is free became so later (`IdleSaid`); a transaction that began is
  known or on its way (`Announced`); and where an idleness is or will be known and
  the plug was used since, the news of that is either worked in or behind
  (`Arrived`, with `Gone` and `Back`). That a vehicle came after an idleness is
  seen from an occupied report that follows a free one, in the state or in the
  queue, which is why the order of the status reports has to be known
  (`Statuses`, `Behind`, `Plugs`).

The stages were checked by TLC on the instance of the run and, as far as it got,
on larger ones before they were proved.

## 8. PVEconomy

With a PV profile a tick every few seconds (`regulation_interval`, five unless
set) chooses the point. It also accounts the energy that charging imports from
the grid: beyond a budget it stops the transaction ("economic STOP") until the
evidence for a restart is complete. The STOP is durable. The tick awaits the
journal twice, before it plans and before it proposes; an operator's Stop,
checkpoints and the proposals of `Grid` run between.

### State

| variable | code |
|---|---|
| `setting` | profile, release, and whether a Stop still awaits the save of the document |
| `car`, `known` | the station's transaction and offer; `Grid.transaction` |
| `budget`, `ended`, `restart`, `problem` | `PV.budget` with energy in costly intervals and the rest period in cheap ones; `ended_transaction`, `pending_restart`, `input_problem` |
| `disk`, `saved`, `journal` | the stored record, `last_saved`, those waiting for `journal_lock` (the head holds it, with the record it captured) |
| `tick` | the await the tick stands at, whether its context still counts, the point it decided |
| `grid` | the task that carries a point and one that was superseded while its request was under way (`stray`), the held observation, `point_uncertain`, `requested`, `atomic_rejected`, the retry |
| `ops` | faults and events of users, a bound |
| `owed` | history only: the transaction whose STOP the journal has confirmed and nothing has lifted |

### Actions

| action | code |
|---|---|
| `Fire`, `PlanOnly`, `InputsMissing`, `Unreconciled`, `SocStop`, `Decide` | `fire`, `tick` up to the first persist, and each way it goes on after it |
| `SocStopped`, `Wired` | `tick` after the second persist, with `submit` |
| `Capture`, `Checkpointed`, `Stopped` | `_persist` taking the live state once it has the lock; `save_checkpoint` with `checkpoint_failed`; the end of `operator_stop` |
| `ReadAnswered`, `Send`, `Accepted`, `Rejected`, `TimedOut`, `CheckAnswered`, `StrayAnswered`, `RetryDue` | `Grid.reconcile`, `dispatch_point`, `retry` for a PV point, and `PV.accepted` |
| `Start`, `Stop`, `StopStored`, `StopNotStored`, `SetProfile` | the user, with `Grid.edited`, `PV.lifecycle`, `operator_stop` |
| `Begins`, `Ends`, `LinkLost`, `Reported`, `EndsUnseen`, `Restart` | `Grid.changed` with `PV.lifecycle`; the end of the process with `PV.start` |

Unchanged records are not written: `_persist` compares with `last_saved`. A
write fails unwritten or, with `Unverified`, after it has reached the disk.

### Abstractions

* Inputs are chosen when they are evaluated; an input that was missing between
  two ticks (`observed`, `ev_observed`) is the choice `gap` of `Decide`.
* The power arithmetic is left open: where neither budget nor state of charge
  decide, any point may be proposed. `PVRegulation` has the arithmetic.
* Authority and permission belong to the known transaction: without them there
  is none. A lockout of the phases is part of `GridDispatch` and `PVRegulation`.
* The planning day, the daily target, the cause and the identity of the station
  in the record, its migration and `close` are left out.
* Whether the context of a restart that is being checkpointed is still the same
  (generation, transaction, budget object) is one bit of its token; none of the
  three ever returns.

### Properties

* `StopKept`: a STOP that the journal has confirmed stays in memory and on disk
  through crashes, late checkpoints, failed writes, reconnections and changes of
  profile, until a restart is accepted, an operator stops, PV is left or the
  transaction is proven ended.
* `RestartEarned`: a restart is prepared only while the station really offers
  zero to the stopped transaction, whatever proposals were lost before.

### Run and bounds

| run | question | result |
|---|---|---|
| `pv_economy` | two alike PV profiles and NETZ, two transactions, two faults or user events, answers of any duration | `TypeOK`, `StopKept`, `RestartEarned` hold (2.1 million states) |

`MaxOps` counts faults, stops and changes of profile; Starts, the beginning of
transactions and everything the system does are free. Two of them are a fault
during the reaction to another event. Two transactions make the scope of a
budget differ from the transaction at hand. One costly interval exhausts the
budget and one cheap one resets it, so that both happen between any two other
events. Offers are zero or positive.

No fairness is assumed. That a STOP reaches the station is not among the
properties: it holds only if every proposal has ended before the next tick, and
a request may take ten seconds, two intervals. See below. Deadlock is not
checked since the bounded environment may stop.

### Limits of the code that TLC shows, without a run of their own

* Answers slower than the interval: every tick that finds the zero of its
  predecessor still reading the offer invalidates it, because `requested` is
  still the earlier positive point (`submit`, pv.py:833-835). While that lasts
  the STOP never reaches the station.
* A STOP that is decided while a positive proposal is in its first read does not
  supersede it, since `requested` is older than the proposal; the positive point
  goes out and the next tick brings the zero.
* `ended_transaction` holds one transaction only. If another one begins and ends
  before a tick could bind, the scope of the first is never proven ended, and
  "economic_scope_unreconciled" stays.
* `_persist` compares with what it saved last, not with what a failed write may
  have left: after a write that was not verified and one that failed, the record
  without the STOP may be on disk. `pv_economy` has `Unverified = FALSE` for this
  reason.
* If the save of a Stop fails, `operator_stop` is not called and the budget keeps
  its STOP.
* A tick that finds a response unresolved keeps the point it knows, and zero if
  it knows none (pv_core.py:67, pv.py:596). If the response is resolved while the
  tick awaits the journal (pv.py:803-806), `submit` sends this zero: the offer
  drops for no reason, although `docs/pv-v3-implementation.md` says that an
  unresolved change "cannot stack another ordinary point".

### Proofs (`PVEconomyProofs`)

All three properties of the run are proved for any profiles, offers, limits,
numbers of transactions and bounds, from the four assumptions of the module:

* `TypeCorrect`: `Spec => []TypeOK`. Alone it is not inductive; the invariant is
  `Typed`, of three parts. `Pilot` types the user's setting, the tick and the
  counter. `Ledger` types budget, journal and store, with what makes the journal
  a lock (`Orderly`: only the head has captured a record) and with what the
  handlers presuppose (a restart is prepared for a budget with a scope only, a
  tick that stops has neither release nor restart). `Offers` is about the grid:
  what is known of the transaction is true (`known` is none or the station's),
  and `Consistent` says what the observation of the offer is worth. A task past
  its first read has a point (`Aimed`); while a request that was superseded is
  out, the newer task waits at its read; a request on its way is covered by
  `uncertain` (`Asked`); and an offer that is held and not uncertain is the one
  the station has.
* `RestartIsEarned`: `Spec => RestartEarned`, the action property, from `Typed`.
  The last clause of `Consistent` carries it: the tick looks at the offer it
  holds, and the theorem says that it is the station's.
* `StopIsKept`: `Spec => []StopKept` where `Unverified = FALSE`. The invariant
  adds `Secured`: the store holds what was saved last, and while a STOP is owed,
  the budget, the store and every record that has been captured and not yet been
  written hold it too. Each step is first reduced to what it does to budget and
  journal (`StoreEffect`: nothing, a capture, a write, a restored record). The
  hypothesis is needed: with `Unverified` the limit of `_persist` named
  above breaks the property, as TLC shows.

Two theorems hold with `Unverified` too, so that a write that failed after it
reached the disk can lose a STOP but not invent a restart.

## 9. Envelope and PVRegulation

`Envelope` has the operating points of a station as operators: what its
diagnostics and the user's limits allow, and `resolve`, `on_phase`, `interim`,
`navigate`, `regulation_target`. `PVRegulation` lets the controller work on
them in a loop: a tick sees what the vehicle, the grid and the battery do,
awaits the journal and submits what it decided; what it changes is what the next
tick sees.

### State

| variable | code |
|---|---|
| `battery`, `world` | whether the mapping names a battery; production less household, state of charge (its order among the thresholds of `pv_soc.py`), what the vehicle draws at most |
| `station` | its offer; whether it refuses a switch of phases for the moment |
| `core` | `Controller`: mode, `startup`, `up_cycles`, `down_cycles`, `down_reason` |
| `grid` | of `Grid`: the held point (none if it is not known), the point requested last, its status (settled, busy while a task is on, uncertain after an answer that did not come, rejected), a retry that is not due |
| `tick` | the decision that awaits the journal, with the offer it saw (`current` of `PV.tick`) |
| `ops` | events of the world and faults, a bound |
| `age` | history only: resolved ticks since the last accepted rise and start |

### Actions

| action | code |
|---|---|
| `Decide` | `PV.tick` up to the journal, with `soc_policy` and `Controller.decide` |
| `JournalFails` | the journal refuses the write: a positive point is not submitted |
| `Submit` | `PV.submit`: its returns (`Refrains`), the latch on the point of a generic rejection among them, the proposal (`Requests`), and the STOP that supersedes a positive proposal (`Supersedes`) |
| `Accepted`, `LockedOut`, `Rejected`, `TimedOut`, `Read`, `LockoutEnds` | the answer that `Grid.reconcile` gets, with `PV.accepted` and `Controller.sent`; the interim point of a lockout; the later readback; the retry |
| `NewContext` | `PV.lifecycle` after a Start or a reconnection: a new `Controller` |
| `Changes` | sun, household, vehicle, state of charge |

### Abstractions

* A tick has two steps, since the station may answer, or fail to, while it awaits
  the journal. There is no economic STOP and the journal keeps no content:
  `PVEconomy` has both.
* A reconciliation is one step from its request to its answer. Whether its task
  still reads, waits for the wire or is on it shows only when a STOP supersedes
  it, and there all three cases are possible.
* Meters are exact and at once: the battery takes or gives what it can of the
  difference, the grid the rest. Missing and implausible inputs are left out.
* State of charge changes as an event, not by charging.
* Waits are constants of two or one instead of ten, three and three cycles.

### Properties

* `Cadence`: a positive offer that is known is changed to another positive
  one only after the hold of the last accepted start, unless a stop or a new
  context has ended that hold; a rise is one step and comes a full
  interval of resolved ticks after the last accepted one. It relates the
  request to what happened since, rejections, timeouts, lockouts and
  reconnections included. A start or rise whose answer is lost is not an
  accepted one, as in the code: `Controller.sent` is not called when a later
  readback shows the point, so a start that was carried out unseen has no hold.
* `Settles`: in a world that no longer changes, control by surplus and the
  balance of the battery do not chase their own effect: the offer comes to rest,
  and what is imported then is less than the step to the next lower point. FAST
  is excluded, since it explores by design. Two things the code does are
  excepted by name; without either exception TLC finds the property violated.
  - `FallRefused`: after a rejection without a retry the same point is never
    submitted again (pv.py:851-852). In an unchanging world the goal stays the
    same, so that one refused fall leaves the offer too high, and importing, for
    as long as the world does not change.
  - `Overtaken`: the proposal of the last tick is resolved while a decision that
    did not know the offer awaits the journal; its zero is then submitted (section
    8). If this happens again and again, the offer switches on and off for ever.

The map functions are compared with reference statements by the assumptions of
`MCPVRegulation`, over all powers that can be entered, in steps of 100 W to
beyond the top: `ResolvesInDirection`, `ResolvesSeries`, `InterimObeys`,
`NavigatesMonotonically`. TLC evaluates them before the run.

### Run, bounds, fairness

`pv_regulation` (517 thousand states). The station has one phase at 6 to 18 A in
steps of two and three phases at 6 and 8 A, the latter limited by a cap between
two steps: the ranges overlap, so that a fall passes from one series to the
other. Surpluses lie below every point, between points, in the overlap and
beyond it; the vehicle draws nothing, less than some points, or any point. Two
events are a fault during the reaction to a change.

Fairness: the timer fires again and again and a tick ends again and again
(`[]<>(tick # None)` and `[]<>(tick = None)`; a tick is always possible and the
journal answers), requests are answered, a lockout ends. Nothing says that the
journal is faster than the station.

The battery of the run can deliver more than one step (`Flow`). With one that
cannot, BALANCE above the middle threshold steps up, imports, falls back and
steps up again for ever: `Settles` fails, and no document promises otherwise.

### Proofs

`PVRegulationProofs`, for every station (`Diagnostics`, `Modes`), limit
(`Caps`), hold, interval, delay, deadband and set of worlds. Assumed are the
ranges of these constants, that null is neither a number nor the name of a
reason, and `PositiveAssumption`: there is a positive point, without which a
tick ends before it decides (`no_positive_modes`).

* The maps of `Envelope` choose the first point of a set under a pair of
  numbers, and `CHOOSE` says something only if there is one. `LeastPair` is that
  fact: as no key lies below some bound, a least one exists, which rests on
  the well-foundedness of the natural numbers. The highest power of a station
  (`Ceiling`) is the bound where a key is negated. From it follow what
  `Lowest`, `Highest` and the four other choices return.
* `ResolveObeys` and `NavigateSteps` are what the first and the last assumption
  of `MCPVRegulation` say of one station, in displayed powers, for every one.
  `TargetType`: `regulation_target` returns a legal point, a positive one
  while charging. `ResolvesSeries` and `InterimObeys` are left to TLC, and so is
  that a step passes over no point in undisplayed watts.
* `RegulationInvariant`: `Regular` is inductive. Beside the types it says that
  `up_cycles` is at most the resolved ticks since the last accepted rise, and
  `startup` at most those since the last accepted start, or null when that hold
  is over (`Paceful`). Without it nothing relates the counters, which
  rejections, readbacks and reconnections leave, reset or replace, to the time
  that passes. A third part, `Awaited`, is about the decision that awaits the
  journal: if it names a positive point other than the one it saw, then nothing is
  under way and what it saw is still what is held; if it takes a charging offer to
  zero, it is a STOP. The type part makes every offer a point that station and user
  allow, the interim point of a lockout included.
* `CadenceHolds` is `Cadence`. `DecisionForm` goes through the branches of
  `decide`: only the last one, `Paced`, names another positive point, after the
  hold is checked; one that is higher comes from its first case alone, since in
  the others the power of the goal is not above that of the held point.
* `EndsByStopHolds`: however little power is left, zero is requested against a
  known charging offer only by a STOP of the controller, or by a decision that
  is `Overtaken`: it did not know the offer. A decision that saw the offer charge
  cannot be for zero unless it is urgent, and it stays urgent while it awaits the
  journal. No run checks it.

`Settles` is a liveness property and stays with TLC; it also depends on the
numbers of the run, as said above.

## 10. TimingEditor

While a run is on, a browser that edits start delay or duration owns them. The
revision of the times is its fence, a lease in memory its sign of life, and
after the lease, or after the edit, drafts have 15 seconds to be applied. Card,
Text entities, Start, Apply, Stop and the deadline timer all meet at
`Settings.lock` and at the one document.

### State

| Variable | In the code |
|---|---|
| `values` | `Settings.values`: `charge_release`, the revision of `grid_request`, `grid_timing_edit`, the drafts and approved times (both fields as one value), the revisions of approval and times |
| `lease` | `Settings.timing_lease` |
| `holder` | who holds `Settings.lock` and waits for storage, with the copy of the document and the lease that `_save` works on, whether a Stop came meanwhile, whether it is the second write |
| `queue` | the coroutines that wait for the lock, in order |
| `timer`, `attempted` | `Grid.schedule_timer` when armed for an edit, `attempted_edit_revision` |
| `cards` | `timingQueue` of each card: its revision, and its request with the answer |
| `due`, `fenced` | history: the time until the times count as abandoned, counted from the last sign of life; the queues whose view of the times somebody else has overtaken (what a queue saved itself, and the state its acknowledgement shows, is in its view) |
| `kept`, `twice` | history, for the two limits below: the last edit whose end storage refused to save; up to which revision revisions may occur twice, which never decreases |

Times are held as what is left of them, so that no clock needs a bound: `Tick`
lets a unit pass for all of them, the copies that storage works on included.

### Actions

| Action | In the code |
|---|---|
| `Begin`, `Update`, `Renew`, `End` | `beginTiming`, `queueTiming`, the heartbeat, `endTiming` of the card |
| `Arrives`, `Answered` | the service call reaches the lock; its answer and the state that acknowledges it reach the card |
| `SetText`, `SetPower`, `Start`, `Apply`, `Stop` | the other writers; Stop changes the document at once and queues its save |
| `EditRejected`, `Renewed`, `EditSaves` | `edit_timing` under the lock, `recover_timing_editor` in front of it |
| `SettingSaves`, `ApprovalSaves`, `StopSaves` | `_set`, `_approve_release`, `save_runtime` up to storage |
| `ExpiryEnds`, `ExpirySaves` | `expire_timing_edit`: nothing to do or the editor abandoned; the rollback |
| `...Stored`, `NotStored` | the rest of each after storage has answered |
| `Fires` | `elapsed` of `Grid.schedule` |

### Abstractions

* The end of a run by its duration, a change of profile, the loss of authority
  and a restart are in `ChargeRelease`. The power always equals the approved
  one, so that an Apply is about the times; a power draft stands for all saves
  that do not concern the editor.
* The owner of an edit is a queue. A card that focuses again after a failure
  makes a new queue with a new owner: here it is another member of `Queues`.
* A card sees the document when it sends; a view that is behind is a request
  that arrives late.
* A draft that a validation rejects, a wrong role and an empty owner change
  nothing and are left out.

### Properties

| Property | Says | Mutant |
|---|---|---|
| `Fenced` | whatever changed the times since a browser took them into view, its requests are refused, however late they arrive | recovery of an abandoned edit keeps the revision |
| `OverInTime` | only the last sign of life decides when an edit is over: an editor that was silent for a lease does not go on, and no draft is discarded before the grace period has passed as well, however long saves took and whatever else was saved | every save renews the lease |
| `EditEnds` | an edit of a run comes to an end although its browser is gone | the lease of an editor is not watched |
| `TypeOK` | types; an active edit has no deadline of its own and an inactive one has | an abandoned edit stays active |

`OverInTime` looks at the same clock from both sides. The history `due` counts
from the start of the save for what the lease promises, which is what "Slow
storage cannot grant a fresh lease" asks for.

### Run, bounds, fairness

`timing_editor`: two queues, all users, storage that may be slow and may fail,
four events, under fairness; all four hold (965 thousand states).

*Bounds.* A lease of two units and a grace period of one: a heartbeat may come
in time, late, or within the grace period, and a save may outlast either.
`MaxOps` counts what users do and failures of storage; answers, deadlines, turns
and time are unbounded. Four events are an edit, the writer who overtakes it, a
request on its way and one disturbance. Two times are enough to have a draft.

*Fairness.* The event loop gives the lock on, storage answers well or badly,
timers fire and time passes: weak fairness of each. Nothing is assumed of
browsers and users.

*Deadlock.* It is checked, but time passes in every state: that everybody waits
for the lock would show as a violation of `EditEnds`.

### Limits of the code that TLC shows, without a run of their own

* *A revision that occurs twice.* A card has sent `begin` with revision 1, a Text
  write waits for the lock. Stop reads revision 1 and waits behind it. The Text
  write is stored with revision 2, the save of the Stop puts 1 back
  (grid.py:366), and the late `begin` is accepted. With one more step of the card
  the late request is an `update`, which overwrites the text written last. Every
  other writer of the revision reads it under the lock. Without `twice` in
  `Fenced` TLC finds this in ten steps. Requests of such a revision are exempt in
  `Fenced` and, when they go on with an edit, in `OverInTime`.
* *A Stop that cannot be saved.* A power draft is being stored when Stop comes.
  The store's answer makes the copy the document, in which the release is on.
  Then the save of the Stop fails: the release stays on, and the deadlines of
  the run and of its edit, which the Stop has disarmed, are not armed until some
  other event calls `schedule`. The failure itself is shown. `EditEnds` exempts
  it by `kept`.
* *A rollback that cannot be saved* is attempted once for its revision and not
  again, as docs/live-netz-timing-and-status.md says; the drafts then stay until
  somebody touches them or the run ends. `kept` covers this, too.

### Proofs (`TimingEditorProofs`)

For any queues, times and features, any lease and any grace period not longer
than the lease, without a bound on saves or on what waits for the lock. Assumed
are the `ASSUME`s of `TimingEditor`, nothing else.

* `TypeCorrect`: types. Each writer has an effect lemma that says in flat
  equations what becomes of document, lease, save, queue and cards; the other
  proofs use these and not the actions.
* `FencedHolds`: by itself `Fenced` is not inductive; it follows from the
  invariant `Fence`, which consists of three parts. `Typed`. `Knows`: every
  revision that a card or a waiting request carries has occurred, and that of a
  fenced queue is old - overtaken, or at most `twice`. `Holding`: what storage
  works on is one revision ahead of the document, or at the same one, except for
  a Stop. Revisions then only grow, up to a Stop, and `twice` covers what a Stop
  takes back: an old request cannot carry the document's revision, and
  `EditRejected` is the only turn left to it.
* `OverInTimeHolds`: from `Fence` and `Timely`. `Timely` relates edit, lease and
  `due`, both in the document and in what is being saved: an edit carries the
  document's revision, an active one has its own lease, and lease or deadline
  count down to exactly where `due` does. For a save under way the relation is
  with what will be left when it is over (`Promised`), which is how slow storage
  enters: `age` is taken off the promise when the save lands.

Both invariants were checked by TLC before they were proved, with four events
completely and with six as far as it got. The proofs do not get through with a
`fenced` that marks the browser which saved, nor with a `twice` that a second
Stop may lower: in runs longer than the bound, two Stops would make `Fenced`
false. History and exemption were corrected accordingly.

Only checked by TLC: `EditEnds`, which is liveness.

## 11. Not modelled

Left for the plan of section 2: reload of an entry during a save and options
that change during one, the active messages, and the composition of release and
dispatch. Left out for good: the config flow, the entity platforms and the
rendering of the frontend (presentation; their calls are the user actions of the
models), the meter normalizer (pure parsing), the migrations
(one-shot conversions before anything runs) and the floating-point arithmetic of
the PV planner, which a tick sees only as a target that is there or not.
