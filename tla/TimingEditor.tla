------------------------------ MODULE TimingEditor ------------------------------
(***************************************************************************)
(* The editors of start delay and duration (settings.py edit_timing and    *)
(* what belongs to it, Grid.schedule, the queue of the dashboard card).    *)
(*                                                                         *)
(* While a run is on, a browser that edits the times owns them under a     *)
(* lease.  A lease that is not renewed, and an edit that has ended, is     *)
(* followed by a grace period; then drafts nobody applied are discarded.   *)
(* A revision fences browsers whose view of the times is old.  All of this *)
(* goes through the one lock and the one document of Settings, which a     *)
(* Stop changes without the lock.  Deadlines are held as the time left.    *)
(***************************************************************************)
EXTENDS Integers, Sequences

CONSTANTS
  Queues,    \* the edit queues of the cards: the owners of edits
  Times,     \* drafts of start delay and duration, both in one
  Initial,   \* the times that are approved at first
  Lease,     \* EDITOR_LEASE_SECONDS
  Grace,     \* the 15 seconds after an edit
  Features,  \* what users and storage do beside editing
  MaxOps,    \* bound: what users and storage do
  None       \* "null"

AllFeatures == {"text", "power", "start", "apply", "stop", "storage"}

ASSUME PeriodsAssumption == Grace \in Nat \ {0} /\ Lease \in Nat \ {0} /\ Grace <= Lease
ASSUME InitialAssumption == Initial \in Times
ASSUME FeaturesAssumption == Features \subseteq AllFeatures /\ MaxOps \in Nat

VARIABLES
  values,     \* Settings.values, as far as the times are concerned
  lease,      \* timing_lease
  holder,     \* the task that holds Settings.lock while storage works
  queue,      \* the tasks that wait for the lock, in order
  timer,      \* the edit deadline that schedule_timer is armed with
  attempted,  \* attempted_edit_revision
  cards,      \* each queue of a card, with its request under way
  ops,        \* the events counted by MaxOps
  due,        \* history: time left until the times count as abandoned
  fenced,     \* history: queues whose view of the times was overtaken
  kept,       \* history: the last edit whose end storage refused to save
  twice       \* history: up to which revision a Stop let revisions repeat

server == <<values, lease, holder, queue, timer, attempted>>
marks == <<kept, twice>>
vars == <<server, cards, ops, due, fenced, marks>>

-----------------------------------------------------------------------------
(* Types *)

Revision == Nat
Edit ==
  [owner: Queues, active: {TRUE}, revision: Revision, schedule: Nat, left: {None}]
  \cup [owner: Queues \cup {None}, active: {FALSE}, revision: Revision,
        schedule: Nat, left: 0..Grace]
Doc == [release: BOOLEAN, request: Nat \cup {None}, edit: Edit \cup {None},
        draft: Times, approved: Times, arev: Nat, trev: Revision]
LeaseRecord == [owner: Queues, revision: Revision, left: -Grace..Lease]
ASSUME NoneAssumption == None \notin Queues \cup Times \cup Int \cup LeaseRecord
Verbs == {"begin", "update", "renew", "end"}
Job ==
  [kind: {"edit"}, by: Queues, verb: Verbs, rev: Revision, value: Times]
  \cup [kind: {"text"}, value: Times] \cup [kind: {"power", "start"}]
  \cup [kind: {"apply"}, request: Nat \cup {None}]
  \cup [kind: {"stop"}, trev: Revision]
  \cup [kind: {"expire"}, revision: Revision, schedule: Nat]

(* One type invariant for the whole state. *)
TypeOK ==
  /\ values \in Doc /\ lease \in LeaseRecord \cup {None}
  /\ holder = None \/
       holder \in [job: Job, doc: Doc, lease: LeaseRecord \cup {None},
                   age: 0..Lease + Grace, superseded: BOOLEAN, again: BOOLEAN]
  /\ queue \in Seq(Job)
  /\ timer \in [left: 0..Lease, revision: Revision, schedule: Nat] \cup {None}
  /\ attempted \in Revision \cup {None}
  /\ cards \in [Queues -> [st: {"new", "open", "ended", "dead"}, rev: Revision,
                           flight: {"no", "sent", "queued", "ok", "failed"},
                           verb: Verbs, value: Times]]
  /\ ops \in 0..MaxOps /\ due \in 0..Lease + Grace /\ fenced \subseteq Queues
  /\ kept \in Revision \cup {None} /\ twice \in Revision

-----------------------------------------------------------------------------
(* Edits, leases and their deadlines *)

Pending(d) == d.draft # d.approved

(* Settings.timing_edit_deadline *)
Deadline(d, l) ==
  CASE d.edit = None -> None
    [] d.edit # None /\ ~d.edit.active -> d.edit.left
    [] d.edit # None /\ d.edit.active ->
         IF l # None /\ l.owner = d.edit.owner /\ l.revision = d.edit.revision
         THEN l.left ELSE None

(* Settings.edit_window_values *)
Windowed(d, owner, active) ==
  [d EXCEPT !.edit =
     IF d.release /\ d.request # None /\ (active \/ Pending(d))
     THEN [owner |-> owner, active |-> active, revision |-> d.trev,
           schedule |-> d.request, left |-> IF active THEN None ELSE Grace]
     ELSE None]

(* Whether recover_timing_editor has something to do. *)
Abandoned(d, l) ==
  d.edit # None /\ d.edit.active /\ Deadline(d, l) # None /\ Deadline(d, l) <= 0

AtLeastZero(n) == IF n < 0 THEN 0 ELSE n

(* Mutant of Recovered: the revision stays. *)
RecoveredUnfenced(d, l) ==
  IF ~Abandoned(d, l) THEN d
  ELSE [d EXCEPT !.edit =
          IF Pending(d)
          THEN [d.edit EXCEPT !.owner = None, !.active = FALSE,
                              !.left = AtLeastZero(l.left + Grace)]
          ELSE None]

(* Mutant of Recovered: the abandoned edit stays active. *)
RecoveredActive(d, l) ==
  IF ~Abandoned(d, l) THEN d
  ELSE [d EXCEPT !.trev = @ + 1,
                 !.edit = IF Pending(d)
                          THEN [d.edit EXCEPT !.revision = d.trev + 1,
                                              !.left = AtLeastZero(l.left + Grace)]
                          ELSE None]

(* The document after recover_timing_editor; the grace period counts from  *)
(* the end of the lease.                                                   *)
Recovered(d, l) ==
  IF ~Abandoned(d, l) THEN d
  ELSE [d EXCEPT !.trev = @ + 1,
                 !.edit = IF Pending(d)
                          THEN [d.edit EXCEPT !.owner = None, !.active = FALSE,
                                              !.revision = d.trev + 1,
                                              !.left = AtLeastZero(l.left + Grace)]
                          ELSE None]

RecoveredLease(d, l) == IF Abandoned(d, l) THEN None ELSE l

(* Mutant of LeaseOf: every save of an editor's document renews its lease. *)
LeaseOfAny(d, l) ==
  IF d.edit = None \/ ~d.edit.active THEN None
  ELSE [owner |-> d.edit.owner, revision |-> d.edit.revision, left |-> Lease]

(* Settings._save: a lease is dated before storage, and kept by a write    *)
(* that does not concern the editor.                                       *)
LeaseOf(d, l) ==
  CASE d.edit = None \/ ~d.edit.active -> None
    [] d.edit # None /\ d.edit.active ->
         IF l # None /\ l.owner = d.edit.owner /\ l.revision = d.edit.revision THEN l
         ELSE [owner |-> d.edit.owner, revision |-> d.edit.revision, left |-> Lease]

(* Mutant of Armed: an editor's lease is not watched. *)
ArmedForGrace(d, l, tried) ==
  LET left == Deadline(d, l)
      edit == d.edit
  IN  IF /\ d.release /\ d.request # None /\ edit # None /\ left # None
         /\ edit.schedule = d.request /\ edit.revision # tried /\ ~edit.active
      THEN [left |-> AtLeastZero(left), revision |-> edit.revision,
            schedule |-> edit.schedule]
      ELSE None

(* Grid.schedule, as far as edits are concerned. *)
Armed(d, l, tried) ==
  LET left == Deadline(d, l)
      edit == d.edit
  IN  IF /\ d.release /\ d.request # None /\ edit # None /\ left # None
         /\ edit.schedule = d.request /\ edit.revision # tried
      THEN [left |-> AtLeastZero(left), revision |-> edit.revision,
            schedule |-> edit.schedule]
      ELSE None

Spend == ops < MaxOps /\ ops' = ops + 1

-----------------------------------------------------------------------------
(* The cards *)

Sends(q, verb, value, st, rev) ==
  /\ cards[q].flight = "no"
  /\ cards' = [cards EXCEPT ![q] = [st |-> st, rev |-> rev, flight |-> "sent",
                                    verb |-> verb, value |-> value]]
  /\ UNCHANGED <<server, due, marks>>

(* beginTiming: the inputs show the document; a queue that has ended is    *)
(* used again unless the revision moved on.                                *)
Begin(q) ==
  /\ Spend
  /\ cards[q].st = "new" \/ (cards[q].st = "ended" /\ cards[q].rev = values.trev)
  /\ Sends(q, "begin", values.draft, "open", values.trev)
  /\ fenced' = fenced \ {q}

InView(q) == cards[q].st = "open" /\ cards[q].rev = values.trev

Update(q) ==
  /\ Spend
  /\ InView(q)
  /\ \E value \in Times \ {values.draft} : Sends(q, "update", value, "open", cards[q].rev)
  /\ UNCHANGED fenced

(* The heartbeat of scheduleTimingRenewal. *)
Renew(q) ==
  /\ Spend
  /\ InView(q) /\ values.edit # None /\ values.edit.active /\ values.edit.owner = q
  /\ Sends(q, "renew", values.draft, "open", cards[q].rev)
  /\ UNCHANGED fenced

End(q) ==
  /\ Spend
  /\ InView(q)
  /\ Sends(q, "end", values.draft, "ended", cards[q].rev)
  /\ UNCHANGED fenced

(* The request reaches the lock. *)
Arrives(q) ==
  /\ cards[q].flight = "sent"
  /\ cards' = [cards EXCEPT ![q].flight = "queued"]
  /\ queue' = Append(queue, [kind |-> "edit", by |-> q, verb |-> cards[q].verb,
                             rev |-> cards[q].rev, value |-> cards[q].value])
  /\ UNCHANGED <<values, lease, holder, timer, attempted, ops, due, fenced, marks>>

(* A failed request ends the queue; an edit is acknowledged by the state   *)
(* of the next revision, which is then in view.                            *)
Answered(q) ==
  /\ \/ cards[q].flight = "failed"
        /\ cards' = [cards EXCEPT ![q].flight = "no", ![q].st = "dead"]
        /\ UNCHANGED fenced
     \/ cards[q].flight = "ok" /\ cards[q].verb = "renew"
        /\ cards' = [cards EXCEPT ![q].flight = "no"]
        /\ UNCHANGED fenced
     \/ cards[q].flight = "ok" /\ cards[q].verb # "renew" /\ values.trev > cards[q].rev
        /\ cards' = [cards EXCEPT ![q].flight = "no", ![q].rev = @ + 1]
        /\ fenced' = IF values.trev = cards[q].rev + 1 THEN fenced \ {q} ELSE fenced
  /\ UNCHANGED <<server, ops, due, marks>>

-----------------------------------------------------------------------------
(* Users without an editor *)

Waits(job) ==
  /\ queue' = Append(queue, job)
  /\ UNCHANGED <<values, lease, attempted, cards, due, fenced, marks>>

(* Text.set_value; a power draft; the card's Start and Apply, of which     *)
(* Grid.action_lock admits one.                                            *)
SetText ==
  /\ Spend
  /\ "text" \in Features
  /\ \E value \in Times : Waits([kind |-> "text", value |-> value])
  /\ UNCHANGED <<holder, timer>>

SetPower ==
  /\ Spend
  /\ "power" \in Features
  /\ Waits([kind |-> "power"])
  /\ UNCHANGED <<holder, timer>>

Approvals == {"start", "apply"}
Approving ==
  \/ holder # None /\ holder.job.kind \in Approvals
  \/ \E i \in DOMAIN queue : queue[i].kind \in Approvals

Start ==
  /\ Spend
  /\ "start" \in Features /\ ~Approving /\ ~values.release
  /\ Waits([kind |-> "start"])
  /\ timer' = Armed(values, lease, attempted) /\ UNCHANGED holder

Apply ==
  /\ Spend
  /\ "apply" \in Features /\ ~Approving /\ values.release /\ Pending(values)
  /\ Waits([kind |-> "apply", request |-> values.request])
  /\ timer' = Armed(values, lease, attempted) /\ UNCHANGED holder

(* explicit_action("stop") and stop_release: the document changes at once, *)
(* the save of it waits.  The revision is read before the wait.            *)
Retired(d) == [d EXCEPT !.release = FALSE, !.request = None, !.edit = None]

Stop ==
  /\ Spend
  /\ "stop" \in Features /\ (values.release \/ Approving)
  /\ holder' = IF holder = None THEN None ELSE [holder EXCEPT !.superseded = TRUE]
  /\ IF values.release \/ values.request # None
     THEN /\ values' = Retired(values)
          /\ queue' = Append(queue, [kind |-> "stop", trev |-> values.trev])
     ELSE UNCHANGED <<values, queue>>
  /\ timer' = Armed(values', lease, attempted)
  /\ UNCHANGED <<lease, attempted, cards, due, fenced, marks>>

-----------------------------------------------------------------------------
(* The lock is free: its next task looks at the document *)

Free == holder = None /\ queue # <<>>
job == Head(queue)

(* What q saved is in its view and in nobody else's. *)
Fences(q) == fenced' = Queues \ {q}
Replies(q, answer) == cards' = [cards EXCEPT ![q].flight = answer]

(* _save with a copy of the document. *)
Saves(doc, l) ==
  holder' = [job |-> job, doc |-> doc, lease |-> LeaseOf(doc, l), age |-> 0,
             superseded |-> FALSE, again |-> FALSE]

(* recover_timing_editor in front of an edit. *)
Recovers ==
  /\ values' = Recovered(values, lease) /\ lease' = RecoveredLease(values, lease)
  /\ IF Abandoned(values, lease)
     THEN timer' = Armed(values', lease', attempted) /\ Fences(None)
     ELSE UNCHANGED <<timer, fenced>>

Current(d) ==
  /\ job.rev = d.trev
  /\ \/ job.verb = "begin" \/ d.edit = None
     \/ d.edit # None /\ d.edit.active /\ d.edit.owner = job.by

Renewable(d) == d.edit # None /\ d.edit.active /\ Deadline(d, lease) # None

Turn == Free /\ queue' = Tail(queue) /\ UNCHANGED <<attempted, ops, marks>>
EditTurn == Turn /\ job.kind = "edit"

EditRejected ==
  LET d == Recovered(values, lease)
  IN  /\ EditTurn
      /\ ~Current(d) \/ (job.verb = "renew" /\ ~Renewable(d))
      /\ Recovers /\ Replies(job.by, "failed")
      /\ UNCHANGED <<holder, due>>

Renewed ==
  /\ EditTurn /\ job.verb = "renew"
  /\ ~Abandoned(values, lease) /\ Current(values) /\ Renewable(values)
  /\ lease' = [owner |-> job.by, revision |-> job.rev, left |-> Lease]
  /\ timer' = Armed(values, lease', attempted)
  /\ due' = Lease + Grace
  /\ Replies(job.by, "ok")
  /\ UNCHANGED <<values, holder, fenced>>

(* begin, update and end; an unchanged value is not written. *)
EditSaves ==
  LET d == Recovered(values, lease)
      next == [d EXCEPT !.trev = @ + 1]
      doc == IF job.verb = "update"
             THEN Windowed([next EXCEPT !.draft = job.value], job.by, TRUE)
             ELSE Windowed(next, job.by, job.verb = "begin")
  IN  /\ EditTurn /\ job.verb # "renew" /\ Current(d)
      /\ Recovers
      /\ IF job.verb = "update" /\ job.value = d.draft
         THEN Replies(job.by, "ok") /\ UNCHANGED holder
         ELSE Saves(doc, lease') /\ UNCHANGED cards
      /\ UNCHANGED due

(* _set for a Text entity, and for the power. *)
SettingSaves ==
  /\ Turn /\ job.kind \in {"text", "power"}
  /\ IF job.kind = "text"
     THEN IF job.value = values.draft THEN UNCHANGED holder
          ELSE Saves(Windowed([values EXCEPT !.draft = job.value, !.trev = @ + 1],
                              None, FALSE), lease)
     ELSE Saves(values, lease)
  /\ UNCHANGED <<values, lease, timer, cards, due, fenced, marks>>

(* _approve_release: Start and Apply take the drafts over; Apply lets the  *)
(* schedule have the new revision. *)
Approved(d) ==
  [d EXCEPT !.approved = d.draft, !.arev = @ + 1, !.release = TRUE,
            !.request = d.arev + 1, !.edit = None, !.trev = @ + 1]

ApprovalSaves ==
  /\ Turn /\ job.kind \in Approvals
  /\ IF \/ job.kind = "start" /\ ~values.release
        \/ job.kind = "apply" /\ values.release /\ values.request = job.request
             /\ Pending(values)
     THEN Saves(Approved(values), lease) /\ UNCHANGED timer
     ELSE timer' = Armed(values, lease, attempted) /\ UNCHANGED holder
  /\ UNCHANGED <<values, lease, cards, due, fenced, marks>>

(* save_runtime: the revision that stop_release has read. *)
StopSaves ==
  /\ Turn /\ job.kind = "stop"
  /\ Saves([Retired(values) EXCEPT !.trev = job.trev], lease)
  /\ UNCHANGED <<values, lease, timer, cards, due, fenced, marks>>

(* expire_timing_edit looks again. *)
Overdue ==
  /\ values.release /\ values.edit # None /\ values.request # None
  /\ values.edit.revision = job.revision /\ values.edit.schedule = job.schedule
  /\ values.request = job.schedule
  /\ Deadline(values, lease) # None /\ Deadline(values, lease) <= 0

Rollback(d) ==
  [d EXCEPT !.draft = d.approved, !.trev = @ + 1, !.edit = None]

ExpiryEnds ==
  /\ Turn /\ job.kind = "expire" /\ (Overdue => values.edit.active)
  /\ values' = (IF Overdue THEN Recovered(values, lease) ELSE values)
  /\ lease' = (IF Overdue THEN RecoveredLease(values, lease) ELSE lease)
  /\ timer' = Armed(values', lease', attempted)
  /\ IF values' # values THEN Fences(None) ELSE UNCHANGED fenced
  /\ UNCHANGED <<holder, cards, due>>

ExpirySaves ==
  /\ Turn /\ job.kind = "expire" /\ Overdue /\ ~values.edit.active
  /\ Saves(Rollback(values), lease)
  /\ UNCHANGED <<values, lease, timer, cards, due, fenced, marks>>

-----------------------------------------------------------------------------
(* Storage has answered *)

Done == holder' = None /\ UNCHANGED <<queue, attempted, ops, marks>>
Lands == values' = holder.doc /\ lease' = holder.lease
Arms == timer' = Armed(values', lease', attempted)
Dated(period) == due' = AtLeastZero(period - holder.age)

EditStored ==
  /\ holder # None /\ holder.job.kind = "edit"
  /\ Lands /\ Arms /\ Done
  /\ Fences(holder.job.by) /\ Replies(holder.job.by, "ok")
  /\ Dated(IF holder.job.verb = "end" THEN Grace ELSE Lease + Grace)

SettingStored ==
  /\ holder # None /\ holder.job.kind \in {"text", "power"}
  /\ Lands /\ Done
  /\ IF holder.job.kind = "text" THEN Arms /\ Dated(Grace) /\ Fences(None)
     ELSE UNCHANGED <<timer, due, fenced>>
  /\ UNCHANGED cards

(* Second writes: an approval that a Stop overtook, a rollback of a run    *)
(* that a Stop ended. *)
Again(doc) ==
  /\ holder' = [holder EXCEPT !.doc = doc, !.lease = LeaseOf(doc, holder.lease),
                              !.again = TRUE]
  /\ UNCHANGED <<queue, attempted, ops, marks>>

ApprovalStored ==
  /\ holder # None /\ holder.job.kind \in Approvals /\ ~holder.again
  /\ lease' = holder.lease
  /\ IF holder.superseded
     THEN /\ values' = [holder.doc EXCEPT !.release = FALSE]
          /\ Again([Retired(values') EXCEPT !.approved = values.approved,
                                            !.arev = values.arev])
     ELSE values' = holder.doc /\ Done
  /\ Arms /\ Fences(None)
  /\ UNCHANGED <<cards, due>>

ExpiryStored ==
  /\ holder # None /\ holder.job.kind = "expire" /\ ~holder.again
  /\ lease' = holder.lease
  /\ IF values.release
     THEN values' = holder.doc /\ Done /\ Fences(None)
     ELSE values' = Retired(values) /\ Again(values') /\ UNCHANGED fenced
  /\ Arms
  /\ UNCHANGED <<cards, due>>

StopStored ==
  /\ holder # None /\ holder.job.kind = "stop"
  /\ Lands /\ Arms /\ holder' = None
  /\ twice' = IF holder.doc.trev < values.trev /\ twice < values.trev THEN values.trev ELSE twice
  /\ UNCHANGED <<queue, attempted, ops, cards, due, fenced, kept>>

AgainStored ==
  /\ holder # None /\ holder.again
  /\ Lands /\ Arms /\ Done
  /\ UNCHANGED <<cards, due, fenced, marks>>

NotStored ==
  /\ ops < MaxOps /\ ops' = ops + 1
  /\ "storage" \in Features /\ holder # None
  /\ holder' = None
  /\ timer' = IF holder.job.kind \in Approvals \cup {"expire"}
              THEN Armed(values, lease, attempted) ELSE timer
  /\ IF holder.job.kind = "edit" THEN Replies(holder.job.by, "failed")
     ELSE UNCHANGED cards
  /\ kept' = IF holder.job.kind \in {"expire", "stop"} /\ values.edit # None
             THEN values.edit.revision ELSE kept
  /\ UNCHANGED <<values, lease, queue, attempted, due, fenced, twice>>

-----------------------------------------------------------------------------
(* Time *)

(* elapsed of Grid.schedule: a revision is attempted once. *)
Fires ==
  /\ timer # None /\ timer.left = 0
  /\ attempted' = timer.revision
  /\ timer' = Armed(values, lease, attempted')
  /\ queue' = Append(queue, [kind |-> "expire", revision |-> timer.revision,
                             schedule |-> timer.schedule])
  /\ UNCHANGED <<values, lease, holder, cards, ops, due, fenced, marks>>

Aged(d) ==
  IF d.edit = None \/ d.edit.active THEN d
  ELSE [d EXCEPT !.edit.left = AtLeastZero(@ - 1)]
AgedLease(l) ==
  IF l = None \/ l.left = -Grace THEN l ELSE [l EXCEPT !.left = @ - 1]

Tick ==
  /\ values' = Aged(values) /\ lease' = AgedLease(lease)
  /\ holder' = IF holder = None THEN None
               ELSE [holder EXCEPT !.doc = Aged(@), !.lease = AgedLease(@),
                                   !.age = IF @ = Lease + Grace THEN @ ELSE @ + 1]
  /\ timer' = IF timer = None THEN None ELSE [timer EXCEPT !.left = AtLeastZero(@ - 1)]
  /\ due' = AtLeastZero(due - 1)
  /\ UNCHANGED <<queue, attempted, cards, ops, fenced, marks>>

-----------------------------------------------------------------------------

(* Off, or a run that has just been started. *)
Init ==
  /\ \E on \in BOOLEAN :
       values = [release |-> on, request |-> IF on THEN 1 ELSE None, edit |-> None,
                 draft |-> Initial, approved |-> Initial, arev |-> 1, trev |-> 1]
  /\ lease = None /\ holder = None /\ queue = <<>> /\ timer = None
  /\ attempted = None
  /\ cards = [q \in Queues |-> [st |-> "new", rev |-> 0, flight |-> "no",
                                verb |-> "begin", value |-> values.draft]]
  /\ ops = 0 /\ due = 0 /\ fenced = {} /\ kept = None /\ twice = 0

Cards ==
  \E q \in Queues : Begin(q) \/ Update(q) \/ Renew(q) \/ End(q) \/ Arrives(q) \/ Answered(q)

Users == SetText \/ SetPower \/ Start \/ Apply \/ Stop

Turns ==
  \/ EditRejected \/ Renewed \/ EditSaves \/ SettingSaves \/ ApprovalSaves
  \/ StopSaves \/ ExpiryEnds \/ ExpirySaves

Stored ==
  \/ EditStored \/ SettingStored \/ ApprovalStored \/ ExpiryStored \/ StopStored
  \/ AgainStored

Next == Cards \/ Users \/ Turns \/ Stored \/ NotStored \/ Fires \/ Tick

Spec == Init /\ [][Next]_vars

(* The lock is given on, storage answers, deadlines fire, time passes. *)
FairSpec ==
  /\ Spec /\ WF_vars(Turns) /\ WF_vars(Stored \/ NotStored) /\ WF_vars(Fires)
  /\ WF_vars(Tick)

-----------------------------------------------------------------------------
(* Properties *)

EditAnswered(answer) ==
  Free /\ holder' = None /\ job.kind = "edit" /\ cards'[job.by].flight = answer

(* What anybody else did to the times since a browser took them into view  *)
(* fences its requests: none of them changes or prolongs anything, however *)
(* late it arrives (live-netz-timing-and-status.md, "fences stale browser  *)
(* callbacks"; Settings.edit_timing).  Exempt are revisions that occur     *)
(* twice since a Stop, which reads the revision before the lock, put an    *)
(* older one back.                                                         *)
Fenced ==
  [][Free /\ queue' = Tail(queue) /\ job.kind = "edit" /\ job.by \in fenced
       /\ job.rev > twice
       => EditAnswered("failed")]_vars

(* Only the last sign of life decides when an edit is over, however long   *)
(* saves took and whatever else was saved: an editor that was silent for a *)
(* lease cannot go on, and no draft is discarded before the grace period   *)
(* is over, too (Settings._save "Slow storage cannot grant a fresh lease", *)
(* recover_timing_editor, expire_timing_edit, Grid.schedule).  A request   *)
(* of a revision that occurs twice is exempt as it is in Fenced.           *)
GoesOn ==
  /\ Free /\ queue' = Tail(queue) /\ job.kind = "edit" /\ job.verb # "begin" /\ job.rev > twice
  /\ values.edit # None /\ values.edit.active /\ ~EditAnswered("failed")
RollsBack == holder = None /\ holder' # None /\ holder'.job.kind = "expire"

OverInTime == [][(GoesOn => due > Grace) /\ (RollsBack => due = 0)]_vars

(* An edit of a run does not stay for ever, whatever became of the browser *)
(* that began it: the drafts are applied, discarded or end with the run,   *)
(* unless storage refused to save that: it is not tried again              *)
(* (Settings.expire_timing_edit, Grid.schedule, Grid.stop_release).        *)
EditEnds ==
  values.release /\ values.edit # None ~>
    ~values.release \/ values.edit = None \/ values.edit.revision = kept

=============================================================================
