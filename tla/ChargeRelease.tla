--------------------------- MODULE ChargeRelease ---------------------------
(***************************************************************************)
(* The charge release of one connector: the settings document that holds   *)
(* it, the asyncio lock under which every durable write of the document    *)
(* is made, the Start/Apply/Stop entry points, the business deadlines that *)
(* end a run, and the events that revoke it (settings.py, grid.py).        *)
(*                                                                         *)
(* One action is one stretch of code between two awaits.  A write takes    *)
(* the lock, copies the document, waits for storage and then replaces the  *)
(* document in memory by its copy; Stop, a profile change, the end of a    *)
(* run and the loss of authority do not wait for the lock: they change the *)
(* document in memory at once and queue their own write.                   *)
(***************************************************************************)
EXTENDS Integers, Sequences

CONSTANTS
  Profiles,    \* the charging profiles
  NETZ,        \* the one with a schedule of its own; the others are PV profiles
  Powers,      \* the power drafts, all of them valid and positive
  Delays,      \* the start delays a draft may hold
  Durations,   \* the durations a draft may hold, beside None: no end
  Grace,       \* length of the window in which a time draft can be applied
  Cards,       \* the dashboards that send explicit Start, Apply and Stop
  Features,    \* which users and faults the environment has
  MaxOps,      \* bound: events of the users and of the environment
  MaxTime,     \* bound: the last instant of the wall clock
  None         \* "null": no request, no window, no job, no action

AllFeatures == {"button", "power", "times", "profile", "equivalent",
                "observe", "loss", "storage", "restart"}

ASSUME ProfilesAssumption == NETZ \in Profiles /\ None \notin Profiles
ASSUME TimesAssumption == /\ Delays \subseteq Nat /\ 0 \in Delays
                          /\ Durations \subseteq Nat /\ Grace \in Nat
ASSUME BoundsAssumption == MaxOps \in Nat /\ MaxTime \in Nat
ASSUME FeaturesAssumption == Features \subseteq AllFeatures
ASSUME CardsAssumption == "button" \notin Cards

VARIABLES
  values,       \* Settings.values: the document in memory
  disk,         \* the document in the profile store
  storageError, \* the message "settings:storage" is shown
  holder,       \* who holds Settings.lock and what it is saving
  queue,        \* the tasks waiting for Settings.lock, first come first served
  click,        \* the explicit action each card has sent and not had answered
  act,          \* the action that holds Grid.action_lock
  epoch,        \* Grid.epoch: invalidates older positive intents
  generation,   \* Grid.action_generation, and the runtime it belongs to
  context,      \* station generation, transaction: changed by observations
  remote,       \* WBM has control authority
  timer,        \* deadlines Grid.schedule_timer will fire at (the earliest)
  attempted,    \* Grid.attempted_edit_revision
  now,          \* the wall clock
  ops,          \* events so far, against MaxOps
  granted,      \* history: the profile the last accepted Start was pressed for
  revoked       \* history: that Start has been revoked since

docVars == <<values, disk, storageError>>
lockVars == <<holder, queue>>
fenceVars == <<epoch, generation, context, remote>>
timeVars == <<timer, attempted, now>>
history == <<granted, revoked>>
vars == <<docVars, lockVars, click, act, fenceVars, timeVars, ops, history>>

-----------------------------------------------------------------------------
(* Types *)

Approved == [power: Powers, delay: Delays, duration: Durations \cup {None},
             rev: Nat]
Request == [rev: Nat, start: Nat, end: Nat \cup {None}]
Edit == [rev: Nat, sched: Nat, expires: Nat]
Doc == [profile: Profiles, release: BOOLEAN, request: Request \cup {None},
        edit: Edit \cup {None}, power: Powers, delay: Delays,
        duration: Durations \cup {None}, approved: Approved,
        drev: Nat, trev: Nat]
Ctx == [generation: Nat, context: Nat, remote: BOOLEAN, profile: Profiles,
        release: BOOLEAN, drev: Nat, arev: Nat]
Click == [kind: {"start", "apply", "stop"}, ctx: Ctx]
Act == [by: Cards \cup {"button"}, kind: {"start", "apply", "stop"}, ctx: Ctx,
        previous: Request \cup {None}, stage: {"lock", "task"}]

(* A task that waits for Settings.lock, or holds it. *)
Job ==
  [kind: {"power"}, power: Powers] \cup
  [kind: {"delay"}, delay: Delays] \cup
  [kind: {"duration"}, duration: Durations \cup {None}] \cup
  [kind: {"profile"}, profile: Profiles] \cup
  [kind: {"equivalent", "loss", "approve", "pv"}] \cup
  [kind: {"stop"}, trev: Nat, button: BOOLEAN] \cup
  [kind: {"expire"}, rev: Nat, sched: Nat]
Holder == [job: Job, doc: Doc, stage: {"save", "undo"}, epoch: Nat,
           prev: Approved]

(* "null" is not itself an action, a document or a save. *)
ASSUME NoneAssumption == None \notin Act \cup Doc \cup Holder

(* One type invariant for the whole state. *)
TypeOK ==
  /\ values \in Doc /\ disk \in Doc /\ storageError \in BOOLEAN
  /\ holder \in Holder \cup {None} /\ queue \in Seq(Job)
  /\ click \in [Cards -> Click \cup {None}] /\ act \in Act \cup {None}
  /\ epoch \in Nat /\ generation \in Nat /\ context \in Nat /\ remote \in BOOLEAN
  /\ timer \in SUBSET Nat /\ attempted \in Nat \cup {None}
  /\ now \in Nat /\ ops \in Nat
  /\ granted \in Profiles \cup {None} /\ revoked \in BOOLEAN

-----------------------------------------------------------------------------
(* The document *)

(* Grid.phase: where the accepted schedule stands. *)
Phase(v) ==
  IF v.request = None THEN "active"
  ELSE IF v.request.end # None /\ now >= v.request.end THEN "expired"
  ELSE IF now < v.request.start THEN "waiting" ELSE "active"

(* Mutant of BusinessDeadline: the end is armed when unset. *)
BusinessDeadlineUnset(v) ==
  IF Phase(v) = "waiting" THEN {v.request.start} ELSE {v.request.end}

(* The instants at which the business schedule changes phase. *)
BusinessDeadline(v) ==
  CASE Phase(v) = "expired" -> {now}
    [] Phase(v) = "waiting" -> {v.request.start}
    [] OTHER -> {v.request.end} \ {None}

(* The instant a window of time edits ends, unless its rollback was tried. *)
EditDeadline(v, tried) ==
  IF v.edit # None /\ v.edit.sched = v.request.rev /\ v.edit.rev # tried
  THEN {v.edit.expires} ELSE {}

(* Grid.schedule: what the one schedule timer is armed with. *)
Deadlines(v, tried) ==
  IF v.request = None \/ ~v.release \/ v.profile # NETZ THEN {}
  ELSE BusinessDeadline(v) \cup EditDeadline(v, tried)

Off(v) == [v EXCEPT !.release = FALSE, !.request = None, !.edit = None]

TimesPending(v) ==
  v.delay # v.approved.delay \/ v.duration # v.approved.duration

(* Settings.approval_attributes: "grid_set_required". *)
SetRequired(v) == TimesPending(v) \/ v.power # v.approved.power

Approve(v) ==
  [v EXCEPT !.approved = [power |-> v.power, delay |-> v.delay,
                          duration |-> v.duration, rev |-> v.approved.rev + 1]]

Schedule(v) ==
  [rev |-> v.approved.rev, start |-> now + v.delay,
   end |-> IF v.duration = None THEN None ELSE now + v.delay + v.duration]

(* Settings.edit_window_values for a time draft set by the Text service. *)
EditWindow(v) ==
  [v EXCEPT !.edit =
     IF v.release /\ v.request # None /\ TimesPending(v)
     THEN [rev |-> v.trev, sched |-> v.request.rev, expires |-> now + Grace]
     ELSE None]

(* Settings.equivalent_grid_draft: a new power draft may resolve to the    *)
(* operating point already approved; only the station's state can tell.    *)
Equivalent(v) ==
  v.power # v.approved.power /\ ~TimesPending(v)

EquivalentOrNot(v) == {v} \cup (IF Equivalent(v) THEN {Approve(v)} ELSE {})

(* The context a dashboard's click carries, Grid.action_revision. *)
ActionRevision ==
  [generation |-> generation, context |-> context, remote |-> remote,
   profile |-> values.profile, release |-> values.release,
   drev |-> values.drev, arev |-> values.approved.rev]

(* Grid.action_state: what the one button means now. *)
CurrentAction ==
  IF ~values.release THEN "start"
  ELSE IF values.profile = NETZ /\ SetRequired(values) THEN "apply" ELSE "stop"

-----------------------------------------------------------------------------
(* Effects shared by the handlers *)

(* The bound on what users and environment do; a feature may be left out. *)
Spend == ops < MaxOps /\ ops' = ops + 1
Enabled(feature) == feature \in Features /\ Spend

(* Mutant of Invalidate: the timers are cancelled and not armed again. *)
InvalidateOnly(v) == epoch' = epoch + 1 /\ timer' = {}

(* Grid.invalidate followed by Grid.schedule. *)
Invalidate(v) == epoch' = epoch + 1 /\ timer' = Deadlines(v, attempted)

(* Grid.release_changed. *)
ReleaseChanged(v) == generation' = generation + 1 /\ Invalidate(v)

(* Mutant of StopRelease: off in memory, nothing queued. *)
StopReleaseUnsaved(q, button) ==
  /\ values' = Off(values)
  /\ ReleaseChanged(Off(values))
  /\ queue' = q /\ revoked' = TRUE

(* Grid.stop_release of a release that is on: at once in memory, then a    *)
(* save queued behind q.  The revision it will write is read now.          *)
StopRelease(q, button) ==
  /\ values' = Off(values)
  /\ ReleaseChanged(Off(values))
  /\ queue' = Append(q, [kind |-> "stop", trev |-> values.trev,
                         button |-> button])
  /\ revoked' = TRUE

(* Grid._action when the approval is refused or cannot be stored. *)
ApprovalFailed(q) ==
  \/ /\ ~values.release
     /\ ReleaseChanged(values) /\ act' = None /\ queue' = q
     /\ UNCHANGED <<values, revoked>>
  \/ /\ values.release /\ Phase(values) = "expired"
     /\ StopRelease(q, TRUE)
     /\ act' = [act EXCEPT !.kind = "stop"]
  \/ /\ values.release /\ Phase(values) # "expired"
     /\ timer' = Deadlines(values, attempted) /\ act' = None /\ queue' = q
     /\ UNCHANGED <<values, generation, epoch, revoked>>

-----------------------------------------------------------------------------
(* Users *)

(* A dashboard sends an explicit action with the context it displays. *)
Send(c, kind) ==
  /\ Spend
  /\ click[c] = None
  /\ click' = [click EXCEPT ![c] = [kind |-> kind, ctx |-> ActionRevision]]
  /\ UNCHANGED <<docVars, lockVars, act, fenceVars, timeVars, history>>

(* Another task asks for Settings.lock. *)
Ask(job) ==
  /\ queue' = Append(queue, job)
  /\ UNCHANGED <<docVars, holder, click, act, fenceVars, timeVars, history>>

SetPower(p) == Enabled("power") /\ Ask([kind |-> "power", power |-> p])
SetDelay(d) == Enabled("times") /\ Ask([kind |-> "delay", delay |-> d])
SetDuration(d) == Enabled("times") /\ Ask([kind |-> "duration", duration |-> d])

(* Settings.set of the charging profile: the release ends before the lock. *)
SetProfile(p) ==
  /\ Enabled("profile")
  /\ queue' = Append(queue, [kind |-> "profile", profile |-> p])
  /\ IF p # values.profile
     THEN /\ values' = [values EXCEPT !.release = FALSE]
          /\ ReleaseChanged([values EXCEPT !.release = FALSE])
          /\ revoked' = TRUE
     ELSE UNCHANGED <<values, generation, epoch, timer, revoked>>
  /\ UNCHANGED <<disk, storageError, holder, click, act, context, remote,
                 attempted, now, granted>>

(* Grid.explicit_action("stop"): it waits for no other action.  With nothing *)
(* to stop it still fences what is under way.                                *)
Stop(c) ==
  /\ click[c] # None /\ click[c].kind = "stop"
  /\ click' = [click EXCEPT ![c] = None]
  /\ \/ /\ click[c].ctx # ActionRevision
        /\ UNCHANGED <<values, queue, generation, epoch, timer, revoked>>
     \/ /\ click[c].ctx = ActionRevision
        /\ values.release \/ values.request # None
        /\ StopRelease(queue, FALSE)
     \/ /\ click[c].ctx = ActionRevision
        /\ ~values.release /\ values.request = None
        /\ generation' = generation + 1 /\ epoch' = epoch + 1 /\ timer' = {}
        /\ revoked' = TRUE
        /\ UNCHANGED <<values, queue>>
  /\ UNCHANGED <<disk, storageError, holder, act, context, remote, attempted,
                 now, ops, granted>>

(* Grid._action, up to the point where it waits for Settings.lock.  A NETZ *)
(* action first makes older intents invalid; a PV Start does not.          *)
Begin(by, kind, ctx) ==
  /\ act' = [by |-> by, kind |-> kind, ctx |-> ctx,
             previous |-> values.request, stage |-> "lock"]
  /\ \/ /\ kind = "stop"
        /\ StopRelease(queue, TRUE)
     \/ /\ kind # "stop" /\ values.profile = NETZ
        /\ Invalidate(values)
        /\ queue' = Append(queue, [kind |-> "approve"])
        /\ UNCHANGED <<values, generation, revoked>>
     \/ /\ kind # "stop" /\ values.profile # NETZ
        /\ queue' = Append(queue, [kind |-> "pv"])
        /\ UNCHANGED <<values, generation, epoch, timer, revoked>>

(* Grid.explicit_action("start" or "apply") gets Grid.action_lock. *)
StartOrApply(c) ==
  /\ click[c] # None /\ click[c].kind # "stop"
  /\ act = None
  /\ click' = [click EXCEPT ![c] = None]
  /\ IF /\ click[c].ctx = ActionRevision /\ click[c].kind = CurrentAction
        /\ ~(values.release /\ Phase(values) = "expired")
        /\ values.profile = NETZ \/ remote
     THEN Begin(c, click[c].kind, click[c].ctx)
     ELSE UNCHANGED <<act, values, queue, generation, epoch, timer, revoked>>
  /\ UNCHANGED <<disk, storageError, holder, context, remote, attempted, now,
                 ops, granted>>

(* Grid.action: the generic button means whatever is possible now. *)
Press ==
  /\ Enabled("button")
  /\ act = None
  /\ IF values.release /\ Phase(values) = "expired"
     THEN Begin("button", "stop", ActionRevision)
     ELSE /\ CurrentAction = "start" => values.profile = NETZ \/ remote
          /\ Begin("button", CurrentAction, ActionRevision)
  /\ UNCHANGED <<disk, storageError, holder, click, context, remote,
                 attempted, now, granted>>

-----------------------------------------------------------------------------
(* Environment *)

(* Grid.changed, but for authority: a new station generation, a reconnect, *)
(* another transaction.                                                    *)
Observe ==
  /\ Enabled("observe")
  /\ context' = context + 1
  /\ Invalidate(values)
  /\ UNCHANGED <<docVars, lockVars, click, act, generation, remote, attempted,
                 now, history>>

TakeControl ==
  /\ Spend
  /\ ~remote /\ remote' = TRUE
  /\ Invalidate(values)
  /\ UNCHANGED <<docVars, lockVars, click, act, generation, context, attempted,
                 now, history>>

(* Grid.changed when the station reports Local after Remote. *)
LoseAuthority ==
  /\ Enabled("loss")
  /\ remote /\ remote' = FALSE
  /\ IF values.release
     THEN /\ values' = Off(values)
          /\ queue' = Append(queue, [kind |-> "loss"])
          /\ revoked' = TRUE
     ELSE UNCHANGED <<values, queue, revoked>>
  /\ Invalidate(values')
  /\ UNCHANGED <<disk, storageError, holder, click, act, generation, context,
                 attempted, now, granted>>

(* Grid.reevaluate_pending, when a dispatch settles or a phase is observed. *)
ReevaluatePending ==
  Enabled("equivalent") /\ Ask([kind |-> "equivalent"])

(* The process ends, possibly during a write of the store, and starts again: *)
(* Settings.__init__ never restores a release.                               *)
Restart ==
  /\ Enabled("restart")
  /\ disk' \in {disk} \cup (IF holder = None THEN {} ELSE {holder.doc})
  /\ values' = Off(disk')
  /\ holder' = None /\ queue' = <<>> /\ act' = None
  /\ generation' = generation + 1 /\ epoch' = epoch + 1 /\ timer' = {}
  /\ attempted' = None /\ remote' = FALSE /\ storageError' = FALSE
  /\ revoked' = TRUE
  /\ UNCHANGED <<click, context, now, granted>>

Tick ==
  /\ now < MaxTime /\ now' = now + 1
  /\ UNCHANGED <<docVars, lockVars, click, act, fenceVars, timer, attempted, ops,
                 history>>

-----------------------------------------------------------------------------
(* The business deadline: Grid.schedule's elapsed() *)

Fire ==
  /\ \E d \in timer : d <= now
  /\ \/ /\ Phase(values) = "expired"
        /\ StopRelease(queue, FALSE)
        /\ UNCHANGED attempted
     \/ /\ Phase(values) # "expired"
        /\ \E d \in EditDeadline(values, attempted) : d <= now
        /\ attempted' = values.edit.rev
        /\ timer' = Deadlines(values, values.edit.rev)
        /\ queue' = Append(queue, [kind |-> "expire", rev |-> values.edit.rev,
                                   sched |-> values.edit.sched])
        /\ UNCHANGED <<values, generation, epoch, revoked>>
     \/ /\ Phase(values) # "expired"
        /\ \A d \in EditDeadline(values, attempted) : d > now
        /\ timer' = Deadlines(values, attempted)
        /\ UNCHANGED <<values, queue, generation, epoch, attempted, revoked>>
  /\ UNCHANGED <<disk, storageError, holder, click, act, context, remote, now,
                 ops, granted>>

-----------------------------------------------------------------------------
(* Under Settings.lock: what each task saves, if anything *)

Same == {None}

Candidates(job) ==
  CASE job.kind = "power" ->
         IF job.power = values.power THEN Same
         ELSE EquivalentOrNot([values EXCEPT !.power = job.power,
                                             !.drev = @ + 1])
    [] job.kind = "delay" ->
         IF job.delay = values.delay THEN Same
         ELSE EquivalentOrNot(EditWindow(
                [values EXCEPT !.delay = job.delay, !.drev = @ + 1,
                               !.trev = @ + 1]))
    [] job.kind = "duration" ->
         IF job.duration = values.duration THEN Same
         ELSE EquivalentOrNot(EditWindow(
                [values EXCEPT !.duration = job.duration, !.drev = @ + 1,
                               !.trev = @ + 1]))
    [] job.kind = "profile" ->
         IF job.profile = values.profile THEN Same
         ELSE {[Off(values) EXCEPT !.profile = job.profile, !.trev = @ + 1]}
    [] job.kind = "equivalent" ->
         Same \cup (IF Equivalent(values) THEN {Approve(values)} ELSE {})
    [] job.kind = "loss" ->
         IF values.release THEN Same ELSE {Off(values)}
    [] job.kind = "stop" ->
         {[Off(values) EXCEPT !.trev = job.trev]}
    [] job.kind = "expire" ->
         IF /\ values.release /\ values.edit # None /\ values.request # None
            /\ values.edit.rev = job.rev /\ values.edit.sched = job.sched
            /\ values.request.rev = job.sched /\ values.edit.expires <= now
            /\ Phase(values) # "expired"
         THEN {[values EXCEPT !.delay = values.approved.delay,
                              !.duration = values.approved.duration,
                              !.drev = @ + 1, !.trev = @ + 1, !.edit = None]}
         ELSE Same
    [] OTHER -> {}

Hold(doc) ==
  holder' = [job |-> Head(queue), doc |-> doc, stage |-> "save",
             epoch |-> epoch, prev |-> values.approved]

(* The first waiter gets the lock and starts to save, or finds nothing to do. *)
Acquire ==
  /\ holder = None /\ queue # <<>>
  /\ Head(queue).kind \notin {"approve", "pv"}
  /\ queue' = Tail(queue)
  /\ \E d \in Candidates(Head(queue)) :
       IF d = None THEN /\ holder' = None
                        /\ IF Head(queue).kind = "expire"
                           THEN timer' = Deadlines(values, attempted)
                           ELSE UNCHANGED timer
                   ELSE Hold(d) /\ UNCHANGED timer
  /\ UNCHANGED <<docVars, click, act, fenceVars, attempted, now, ops, history>>

(* Mutant of Validated: the click is not validated again under the lock. *)
ValidatedBefore == TRUE

(* The check explicit_action makes again once the lock is held. *)
Validated ==
  act.by = "button" \/ (act.ctx = ActionRevision /\ act.kind = CurrentAction)

(* The schedule after an Apply: as it was, or moved by the times that changed. *)
AppliedRequest(a) ==
  IF ~(values.release /\ TimesPending(values)) THEN values.request
  ELSE IF values.request = None \/ values.delay # values.approved.delay
  THEN Schedule(a)
  ELSE [values.request EXCEPT
          !.rev = a.approved.rev,
          !.end = IF values.duration = None THEN None
                  ELSE values.request.start + values.duration]

(* Settings._approve_release: the document an approval will save. *)
Approval(start) ==
  LET a == Approve(values)
      request == IF start THEN Schedule(a) ELSE AppliedRequest(a)
      doc == [a EXCEPT !.release = start \/ values.release,
                       !.request = request, !.edit = None, !.trev = @ + 1]
      over == request # None /\ request.end # None /\ request.end <= now
  IN  IF over THEN [doc EXCEPT !.release = FALSE, !.request = None] ELSE doc

ApprovalCurrent ==
  /\ Validated /\ values.profile = NETZ
  /\ act.kind = "apply" => /\ values.release
                           /\ values.request = act.previous
                           /\ Phase(values) # "expired"

AcquireApproval ==
  /\ holder = None /\ queue # <<>> /\ Head(queue).kind = "approve"
  /\ \/ /\ act.kind = "apply" /\ ~SetRequired(values)
        /\ act' = [act EXCEPT !.stage = "task"]
        /\ Invalidate(values) /\ queue' = Tail(queue)
        /\ UNCHANGED <<holder, values, generation, revoked>>
     \/ /\ act.kind = "start" \/ SetRequired(values)
        /\ ApprovalCurrent
        /\ Hold(Approval(act.kind = "start")) /\ queue' = Tail(queue)
        /\ UNCHANGED <<values, act, generation, epoch, timer, revoked>>
     \/ /\ act.kind = "start" \/ SetRequired(values)
        /\ ~ApprovalCurrent
        /\ ApprovalFailed(Tail(queue))
        /\ UNCHANGED holder
  /\ UNCHANGED <<disk, storageError, click, context, remote, attempted, now, ops,
                 granted>>

AcquirePV ==
  /\ holder = None /\ queue # <<>> /\ Head(queue).kind = "pv"
  /\ queue' = Tail(queue)
  /\ IF Validated THEN /\ Hold([values EXCEPT !.release = TRUE])
                       /\ UNCHANGED act
                  ELSE act' = None /\ UNCHANGED holder
  /\ UNCHANGED <<docVars, click, fenceVars, timeVars, ops, history>>

-----------------------------------------------------------------------------
(* Storage answers: Settings._save and what follows it *)

Stored == disk' = holder.doc /\ storageError' = FALSE

(* Mutant of NotStored: the failure is not announced. *)
NotStoredSilent ==
  /\ Enabled("storage")
  /\ disk' \in {disk, holder.doc} /\ UNCHANGED storageError

(* persist raised: nothing was written, or the write could not be verified. *)
NotStored ==
  /\ Enabled("storage")
  /\ disk' \in {disk, holder.doc} /\ storageError' = TRUE

Saving(kinds, stage) ==
  holder # None /\ holder.job.kind \in kinds /\ holder.stage = stage

PlainKinds == {"power", "delay", "duration", "profile", "equivalent", "loss",
               "stop"}

(* Mutant of ButtonGoesOn: the button's stop never returns. *)
ButtonStays == act' = act

(* A stop of the generic button still waits for the dispatch. *)
ButtonGoesOn ==
  act' = IF holder.job.kind = "stop" /\ holder.job.button
         THEN [act EXCEPT !.stage = "task"] ELSE act

PlainStored ==
  LET kind == holder.job.kind
      fenced == \/ kind \in {"profile", "stop"}
                \/ holder.doc.approved # values.approved
  IN
  /\ Saving(PlainKinds, "save")
  /\ Stored /\ values' = holder.doc /\ holder' = None
  /\ generation' = IF kind = "stop" THEN generation + 1 ELSE generation
  /\ epoch' = IF fenced THEN epoch + 1 ELSE epoch
  /\ timer' = IF fenced \/ kind \in {"delay", "duration"}
              THEN Deadlines(holder.doc, attempted) ELSE timer
  /\ ButtonGoesOn
  /\ UNCHANGED <<queue, click, context, remote, attempted, now, ops, history>>

PlainNotStored ==
  /\ Saving(PlainKinds, "save")
  /\ NotStored /\ holder' = None
  /\ ButtonGoesOn
  /\ UNCHANGED <<values, queue, click, fenceVars, timeVars, history>>

(* Mutant of ExpireStored: no look at the run that may have ended meanwhile. *)
ExpireStoredBlindly ==
  /\ Saving({"expire"}, "save")
  /\ Stored /\ values' = holder.doc /\ holder' = None
  /\ timer' = Deadlines(holder.doc, attempted)
  /\ UNCHANGED <<queue, click, act, fenceVars, attempted, now, ops, history>>

(* Settings.expire_timing_edit: a run that ended during the write keeps its *)
(* drafts and stays off.                                                    *)
ExpireStored ==
  /\ Saving({"expire"}, "save")
  /\ Stored
  /\ IF ~values.release \/ Phase(values) = "expired"
     THEN /\ values' = Off(values)
          /\ ReleaseChanged(Off(values))
          /\ holder' = [holder EXCEPT !.stage = "undo", !.doc = Off(values)]
          /\ revoked' = TRUE
     ELSE /\ values' = holder.doc
          /\ timer' = Deadlines(holder.doc, attempted)
          /\ holder' = None
          /\ UNCHANGED <<generation, epoch, revoked>>
  /\ UNCHANGED <<queue, click, act, context, remote, attempted, now, ops, granted>>

ExpireUndone ==
  /\ Saving({"expire"}, "undo")
  /\ Stored /\ values' = holder.doc /\ holder' = None
  /\ timer' = Deadlines(holder.doc, attempted)
  /\ UNCHANGED <<queue, click, act, fenceVars, attempted, now, ops, history>>

ExpireNotStored ==
  /\ Saving({"expire"}, "save") \/ Saving({"expire"}, "undo")
  /\ NotStored /\ holder' = None
  /\ timer' = Deadlines(values, attempted)
  /\ UNCHANGED <<values, queue, click, act, fenceVars, attempted, now, history>>

StartKinds == {"approve", "pv"}

(* Mutant of StillCurrent: the epoch is not compared after the write. *)
AlwaysCurrent == TRUE

(* Nothing has superseded the action since it took the lock. *)
StillCurrent == epoch = holder.epoch

(* The approval is durable and current: Grid.edited or Grid.committed. *)
ApprovalStored ==
  /\ Saving({"approve"}, "save") /\ StillCurrent
  /\ Stored /\ values' = holder.doc /\ holder' = None
  /\ Invalidate(holder.doc)
  /\ act' = [act EXCEPT !.stage = "task"]
  /\ IF act.kind = "start" THEN granted' = act.ctx.profile /\ revoked' = FALSE
                           ELSE UNCHANGED history
  /\ UNCHANGED <<queue, click, generation, context, remote, attempted, now, ops>>

PVStored ==
  /\ Saving({"pv"}, "save") /\ StillCurrent
  /\ Stored /\ values' = holder.doc /\ holder' = None
  /\ ReleaseChanged(holder.doc)
  /\ act' = None
  /\ granted' = act.ctx.profile /\ revoked' = FALSE
  /\ UNCHANGED <<queue, click, context, remote, attempted, now, ops>>

(* Superseded during the write: take the release back and save that too. *)
Superseded ==
  LET off == [holder.doc EXCEPT !.release = FALSE]
      undo == IF holder.job.kind = "pv" THEN off
              ELSE [Off(holder.doc) EXCEPT !.approved = holder.prev]
  IN
  /\ Saving(StartKinds, "save") /\ ~StillCurrent
  /\ Stored /\ values' = off
  /\ holder' = [holder EXCEPT !.stage = "undo", !.doc = undo]
  /\ UNCHANGED <<queue, click, act, fenceVars, timeVars, ops, history>>

SupersededUndone ==
  /\ Saving(StartKinds, "undo")
  /\ Stored /\ values' = holder.doc /\ holder' = None
  /\ ReleaseChanged(holder.doc) /\ act' = None
  /\ UNCHANGED <<queue, click, context, remote, attempted, now, ops, history>>

ApprovalNotStored ==
  /\ Saving({"approve"}, "save") \/ Saving({"approve"}, "undo")
  /\ NotStored /\ holder' = None
  /\ ApprovalFailed(queue)
  /\ UNCHANGED <<click, context, remote, attempted, now, granted>>

PVNotStored ==
  /\ Saving({"pv"}, "save") \/ Saving({"pv"}, "undo")
  /\ NotStored /\ holder' = None /\ act' = None
  /\ UNCHANGED <<values, queue, click, fenceVars, timeVars, history>>

(* The dispatch task the action waited for has ended. *)
TaskEnds ==
  /\ act # None /\ act.stage = "task"
  /\ act' = None
  /\ UNCHANGED <<docVars, lockVars, click, fenceVars, timeVars, ops, history>>

-----------------------------------------------------------------------------
(* The specification *)

(* A stored document, as it is loaded and migrated: nothing is released and *)
(* the draft is what was last approved.                                     *)
Init ==
  /\ \E profile \in Profiles, power \in Powers, delay \in Delays,
        duration \in Durations \cup {None} :
       values = [profile |-> profile, release |-> FALSE, request |-> None,
                 edit |-> None, power |-> power, delay |-> delay,
                 duration |-> duration,
                 approved |-> [power |-> power, delay |-> delay,
                               duration |-> duration, rev |-> 0],
                 drev |-> 0, trev |-> 0]
  /\ disk = values /\ storageError = FALSE
  /\ holder = None /\ queue = <<>>
  /\ click = [c \in Cards |-> None] /\ act = None
  /\ epoch = 0 /\ generation = 0 /\ context = 0 /\ remote = TRUE
  /\ timer = {} /\ attempted = None /\ now = 0 /\ ops = 0
  /\ granted = None /\ revoked = TRUE

Users ==
  \/ \E c \in Cards, kind \in {"start", "apply", "stop"} : Send(c, kind)
  \/ Press
  \/ \E p \in Powers : SetPower(p)
  \/ \E d \in Delays : SetDelay(d)
  \/ \E d \in Durations \cup {None} : SetDuration(d)
  \/ \E p \in Profiles : SetProfile(p)

Environment ==
  Observe \/ TakeControl \/ LoseAuthority \/ ReevaluatePending \/ Restart

Handlers ==
  \/ \E c \in Cards : Stop(c) \/ StartOrApply(c)
  \/ Acquire \/ AcquireApproval \/ AcquirePV
  \/ Fire \/ TaskEnds

StoreAnswers ==
  \/ PlainStored \/ PlainNotStored
  \/ ExpireStored \/ ExpireUndone \/ ExpireNotStored
  \/ ApprovalStored \/ PVStored \/ Superseded \/ SupersededUndone
  \/ ApprovalNotStored \/ PVNotStored

Next == Users \/ Environment \/ Tick \/ Handlers \/ StoreAnswers

Spec == Init /\ [][Next]_vars

(* The event loop runs whatever is ready and storage answers; users and    *)
(* environment owe nothing.                                                *)
Fairness ==
  /\ \A c \in Cards : WF_vars(Stop(c)) /\ WF_vars(StartOrApply(c))
  /\ WF_vars(Acquire) /\ WF_vars(AcquireApproval) /\ WF_vars(AcquirePV)
  /\ WF_vars(Fire) /\ WF_vars(TaskEnds) /\ WF_vars(Tick)
  /\ WF_vars(StoreAnswers)

FairSpec == Spec /\ Fairness

-----------------------------------------------------------------------------
(* Properties *)

Idle == holder = None /\ queue = <<>>

(* A release that is on was granted by a Start pressed for the profile that *)
(* is selected, whatever saves, profile changes and failures came between   *)
(* the press and the write (WBM-RELEASE-02, _approve_release, PV Start).    *)
GrantedProfile == values.release => granted = values.profile

(* Once every pending write is done, the release is on only if nothing has  *)
(* revoked the last Start: a save of something else that was under way when *)
(* Stop, a profile change or the end of the run came does not bring it back *)
(* for good (WBM-TIME-23, the document swap of _save).                      *)
SettledRelease == Idle /\ values.release => ~revoked

(* What is not on disk was announced: with the lock free and no storage     *)
(* warning shown, the configuration in memory is the stored one, also after *)
(* an approval was taken back or a write could not be verified (_save).     *)
Config(v) == [v EXCEPT !.release = FALSE, !.request = None, !.edit = None]
Durable == holder = None /\ ~storageError => Config(values) = Config(disk)

(* The save of a Start turns the release on only while the context of the   *)
(* click is still the system's: no Stop, edit, profile change, reconnect or *)
(* loss of authority came since the operator saw it (WBM-ACTION-SAFE-03).   *)
NoStaleGrant ==
  [][ /\ holder # None /\ holder.job.kind \in StartKinds
      /\ ~values.release /\ values'.release
      => act.ctx = ActionRevision ]_vars

(* The end of an edit window discards the time drafts of that window only,  *)
(* and only of a run that still lives: drafts of an ended run and newer     *)
(* writes are kept (WBM-TIME-18, WBM-TIME-21, expire_timing_edit).          *)
RollbackOnlyLive ==
  [][ /\ ExpireStored
      /\ <<values'.delay, values'.duration>> # <<values.delay, values.duration>>
      => /\ values.release /\ Phase(values) # "expired"
         /\ values.trev = holder.job.rev ]_vars

(* Every explicit action is answered and every action gives its lock back:  *)
(* action_lock and Settings.lock never wait for each other.                 *)
ActionsAnswered ==
  /\ \A c \in Cards : click[c] # None ~> click[c] = None
  /\ act # None ~> act = None

(* A run whose end has passed is ended, with or without a vehicle, even if  *)
(* its timer was cancelled and armed again by other events (Grid.schedule). *)
RunEnds ==
  values.release /\ Phase(values) = "expired"
    ~> ~(values.release /\ Phase(values) = "expired")

=============================================================================
