---------------------------- MODULE GridDispatch ----------------------------
(***************************************************************************)
(* From the charge release to the wire: the reconciliation tasks by which  *)
(* a NETZ release becomes the operating point the station offers (grid.py),*)
(* over the serialized calls of the adapter (ocpp.py).                     *)
(*                                                                         *)
(* A task reads the point the station offers, decides the point that is    *)
(* wanted, proposes it and reads again.  It awaits an answer at each step, *)
(* while users, deadlines, the station and the network go on; whatever     *)
(* makes its intent old moves grid.epoch, and a newer task is spawned      *)
(* without waiting for the old one.  One action is one stretch between two *)
(* awaits.  The document's own writes are those of ChargeRelease; here     *)
(* only their outcome matters.                                             *)
(***************************************************************************)
EXTENDS Integers, Sequences, SequencesExt

CONSTANTS
  Points,       \* the positive operating points a power draft resolves to
  Own,          \* the offers the station makes of its own accord
  Transactions, \* the station's transactions, each of which happens once
  Features,     \* which users and faults the environment has
  MaxOps,       \* bound: events of users and environment
  None          \* "null": no point, no transaction, no action

AllFeatures == {"apply", "equivalent", "again", "storage", "deadline",
                "permission", "authority", "network", "boot", "timeout",
                "unreadable", "lockout", "capability"}

Zero == [amps |-> 0, phases |-> 0]           \* Point(0, None, 0)
Offer == Points \cup {[amps |-> 0, phases |-> p.phases] : p \in Points}

ASSUME PointsAssumption ==
  Points \subseteq [amps: Nat \ {0}, phases: 1..3] /\ None \notin Points
ASSUME OwnAssumption == Own \subseteq Offer
ASSUME TransactionsAssumption == None \notin Transactions
ASSUME BoundsAssumption == MaxOps \in Nat
ASSUME FeaturesAssumption == Features \subseteq AllFeatures

VARIABLES
  doc,     \* charge_release, Grid.phase, and the point the approval resolves to
  seen,    \* what the manager has observed of the station's generation
  station, \* the offer and the transaction the station really has
  grid,    \* the fields of Grid, and the spawned tasks whose turn has not come
  act,     \* the Start or Apply whose save is under way
  storing, \* the save of a stop is pending
  calls,   \* tasks at the adapter's call lock; the head holds it
  sent,    \* the head's request is on the wire
  inbox,   \* requests on their way to the station, answered in order
  ops      \* events so far, against MaxOps

user == <<act, storing>>
wire == <<calls, sent, inbox>>
vars == <<doc, seen, station, grid, user, wire, ops>>

-----------------------------------------------------------------------------
(* Types *)

Wanted == Points \cup {Zero}
Refusal == {"rejected", "PhaseSwitchLockout", "ReenableLockout"}
Outcome == {"none", "read", "accepted", "timeout", "refused"} \cup Refusal

Doc == [release: BOOLEAN, phase: {"waiting", "active", "expired"}, approved: Points]
Seen == [link: BOOLEAN, gen: Nat, authority: {"remote", "local", "unknown"},
         tx: Transactions \cup {None}, phases: 0..3, enabled: BOOLEAN,
         capable: BOOLEAN]
Station == [offer: Offer, tx: Transactions \cup {None}, past: SUBSET Transactions]
Confirmed == [point: Offer, tx: Transactions, gen: Nat]
Proposal == [epoch: Nat, rejected: BOOLEAN]
Task == [epoch: Nat, tx: Transactions \cup {None}, confirmOnly: BOOLEAN,
         began: {"waiting", "active", "expired"},
         decided: {"waiting", "active", "expired"},
         pc: {"start", "read", "set", "rotation", "confirm", "interim", "check"},
         want: Wanted, held: Offer \cup {None}, got: Outcome,
         found: Offer \cup {None}]
Grid == [epoch: Nat, latest: Nat, allow: BOOLEAN,
         known: Transactions \cup {None}, last: {"remote", "local", "unknown"},
         requested: Wanted \cup {None}, decided: {"waiting", "active", "expired"},
         confirmed: Confirmed \cup {None}, uncertain: Seq(Proposal),
         status: {"waiting", "pending", "confirmed", "accepted_unconfirmed",
                  "unconfirmed", "rejected", "phase_lockout_pending",
                  "communication_failure", "unsupported"},
         reason: {"other", "interim_readback_failure"}, outcome: BOOLEAN,
         retry: BOOLEAN, timer: {"none", "start", "end"}, ready: Seq(Task)]
Act == [kind: {"start", "delayed", "power", "both", "shift", "extend", "over", "undo"},
        epoch: Nat, point: Points, equivalent: BOOLEAN, retry: BOOLEAN]
ASSUME NoneAssumption == None \notin Act
Msg == [kind: {"read", "rotation", "set"}, point: Wanted,
        tx: Transactions \cup {None}, live: BOOLEAN]

(* One type invariant for the whole state. *)
TypeOK ==
  /\ doc \in Doc /\ seen \in Seen /\ station \in Station /\ grid \in Grid
  /\ act \in Act \cup {None} /\ storing \in BOOLEAN
  /\ calls \in Seq(Task) /\ sent \in BOOLEAN /\ inbox \in Seq(Msg)
  /\ ops \in 0..MaxOps

-----------------------------------------------------------------------------
(* What the manager may do and knows *)

Spend == ops < MaxOps /\ ops' = ops + 1
Enabled(feature) == feature \in Features /\ Spend

(* Grid.eligible *)
Eligible(s) == s.link /\ s.authority = "remote" /\ s.tx # None

(* Mutant of Valid: the epoch is not compared. *)
ValidInScope(t) == Eligible(seen) /\ t.tx = seen.tx

(* Grid.valid, for the intent a task was spawned for. *)
Valid(t) == t.epoch = grid.epoch /\ Eligible(seen) /\ t.tx = seen.tx

Live(g) == ToSet(g.ready) \cup ToSet(calls)

(* Grid.task is not done. *)
Busy(g) == \E t \in Live(g) : t.epoch = g.latest

(* Grid.current_point: the held observation, while its scope lasts. *)
CurrentPoint(g) ==
  IF /\ g.confirmed # None /\ seen.link
     /\ g.confirmed.gen = seen.gen /\ g.confirmed.tx = seen.tx
     /\ g.confirmed.point.phases = seen.phases
  THEN g.confirmed.point ELSE None

(* reconcile's "matches"; zero leaves the phases to the station. *)
Matches(offer, want) ==
  offer # None /\ offer.amps = want.amps /\ want.phases \in {0, offer.phases}

-----------------------------------------------------------------------------
(* Effects the handlers share: each maps the Grid fields *)

(* Grid.schedule: the next business deadline. *)
Schedule(g, d) ==
  [g EXCEPT !.timer = IF ~d.release THEN "none"
                      ELSE IF d.phase = "waiting" THEN "start" ELSE "end"]

(* Grid.invalidate, and the schedule that follows it. *)
Invalidate(g, d) ==
  Schedule([g EXCEPT !.epoch = @ + 1, !.outcome = FALSE, !.retry = FALSE], d)

(* Grid.launch, which joins the task of the same epoch when there is one. *)
Launch(g, s, d, confirmOnly) ==
  IF ~Eligible(s) \/ (g.latest = g.epoch /\ Busy(g)) THEN g
  ELSE [g EXCEPT !.latest = g.epoch, !.retry = FALSE,
          !.ready = Append(@, [epoch |-> g.epoch, tx |-> s.tx,
                               confirmOnly |-> confirmOnly, began |-> d.phase,
                               decided |-> d.phase, pc |-> "start",
                               want |-> Zero, held |-> None, got |-> "none",
                               found |-> None])]

(* Grid.changed once the fingerprint differs; fresh is a new generation. *)
Changed(g, s, d, fresh) ==
  LET known == IF fresh THEN None ELSE g.known
      new == s.tx # None /\ s.tx # known
      g1 == Invalidate(
              [g EXCEPT !.known = IF new THEN s.tx ELSE known,
                        !.allow = IF new THEN d.release ELSE @ /\ ~fresh,
                        !.last = IF s.authority = "unknown" THEN @ ELSE s.authority],
              d)
      stale == ~s.link \/ (g.confirmed # None /\ g.confirmed.gen # s.gen)
  IN IF Eligible(s) THEN Launch(g1, s, d, FALSE)
     ELSE [g1 EXCEPT !.status = "waiting", !.reason = "other",
                     !.confirmed = IF stale THEN None ELSE @]

(* Grid.release_changed *)
ReleaseChanged(g, s, d) ==
  Changed([g EXCEPT !.allow = TRUE], s, d, FALSE)

(* Grid.edited: an explicit new intent. *)
Edited(g, s, d) ==
  LET g1 == Invalidate([g EXCEPT !.allow = TRUE, !.requested = None], d)
  IN IF Eligible(s)
     THEN Launch([g1 EXCEPT !.status = "pending", !.reason = "other"], s, d, FALSE)
     ELSE g1

(* Grid.committed for an intent that leaves the point as it is. *)
Kept(g, s, d, retry) == [Invalidate(g, d) EXCEPT !.retry = retry /\ Eligible(s)]

(* Grid.equivalent: the draft resolves to the confirmed approved point. *)
Equivalent(g, draft) ==
  /\ g.requested = doc.approved /\ draft = doc.approved
  /\ CurrentPoint(g) # None /\ g.uncertain = <<>> /\ ~Busy(g)

Released(d) == [d EXCEPT !.release = FALSE, !.phase = "active"]

(* Mutant of StopRelease: nothing is dispatched before the save. *)
StopReleaseLater(g) ==
  /\ doc' = Released(doc)
  /\ grid' = Invalidate(g, Released(doc))
  /\ storing' = TRUE

(* Grid.stop_release of a release that is on; the save comes later. *)
StopRelease(g) ==
  /\ doc' = Released(doc)
  /\ grid' = ReleaseChanged(g, seen, Released(doc))
  /\ storing' = TRUE

-----------------------------------------------------------------------------
(* Users: Start, Apply and Stop.  An Apply changes the power, moves the    *)
(* start (shift), does both, moves the end (extend), or moves it into the  *)
(* past (over).                                                            *)

(* Grid._action up to the save: older intents end, the deadline stays. *)
Begin(kind, p) ==
  /\ Spend
  /\ act = None /\ ~storing
  /\ grid' = Invalidate(grid, doc)
  /\ act' = [kind |-> kind, epoch |-> grid.epoch + 1, point |-> p,
             equivalent |-> Equivalent(grid, p), retry |-> grid.retry]
  /\ UNCHANGED <<doc, seen, station, storing, wire>>

Start == \E p \in Points :
  /\ ~doc.release
  /\ \/ Begin("start", p)
     \/ "deadline" \in Features /\ Begin("delayed", p)

Apply ==
  /\ "apply" \in Features /\ doc.release /\ doc.phase # "expired"
  /\ \/ \E p \in Points : Begin("power", p)
     \/ "deadline" \in Features /\ \E p \in Points : Begin("both", p)
     \/ "deadline" \in Features
        /\ \E kind \in {"shift", "extend", "over"} : Begin(kind, doc.approved)

(* Grid._action once the save succeeded: edited, or committed. *)
ActionStored ==
  /\ act # None /\ act.kind # "undo" /\ act.epoch = grid.epoch
  /\ LET d == CASE act.kind = "start" -> [release |-> TRUE, phase |-> "active",
                                          approved |-> act.point]
                [] act.kind = "delayed" -> [release |-> TRUE, phase |-> "waiting",
                                            approved |-> act.point]
                [] act.kind \in {"shift", "both"} ->
                     [doc EXCEPT !.phase = "waiting", !.approved = act.point]
                [] act.kind = "extend" /\ doc.phase = "expired" ->
                     [doc EXCEPT !.phase = "active"]
                [] act.kind = "over" -> Released(doc)
                [] OTHER -> [doc EXCEPT !.approved = act.point]
     IN /\ doc' = d
        /\ grid' = IF \/ act.kind = "extend" /\ ~Busy(grid)
                      \/ /\ act.kind \in {"power", "both"} /\ act.equivalent
                         /\ Equivalent(grid, act.point)
                   THEN Kept(grid, seen, d, act.retry)
                   ELSE Edited(grid, seen, d)
  /\ act' = None
  /\ UNCHANGED <<seen, station, storing, wire, ops>>

(* Settings._approve_release finds its intent superseded after the save:   *)
(* the release is off at once and a second save undoes the approval.       *)
ActionSuperseded ==
  /\ act # None /\ act.kind # "undo" /\ act.epoch # grid.epoch
  /\ doc' = [doc EXCEPT !.release = FALSE]
  /\ act' = [act EXCEPT !.kind = "undo"]
  /\ UNCHANGED <<seen, station, grid, storing, wire, ops>>

ActionUndone ==
  /\ act # None /\ act.kind = "undo"
  /\ doc' = Released(doc)
  /\ grid' = ReleaseChanged(grid, seen, doc')
  /\ act' = None
  /\ UNCHANGED <<seen, station, storing, wire, ops>>

(* The save fails: the old approval stands, or the run ended meanwhile. *)
ActionFailed ==
  /\ Enabled("storage")
  /\ act # None /\ act.kind # "undo"
  /\ act' = None
  /\ \/ /\ ~doc.release
        /\ grid' = ReleaseChanged(grid, seen, doc)
        /\ UNCHANGED <<doc, storing>>
     \/ /\ doc.release /\ doc.phase = "expired"
        /\ StopRelease(grid)
     \/ /\ doc.release /\ doc.phase # "expired"
        /\ grid' = [Schedule(grid, doc) EXCEPT
                      !.retry = @ \/ (act.retry /\ Eligible(seen))]
        /\ UNCHANGED <<doc, storing>>
  /\ UNCHANGED <<seen, station, wire>>

(* Grid.explicit_action("stop"): it waits for no save and no task. *)
Stop ==
  /\ Spend
  /\ doc.release
  /\ StopRelease(grid)
  /\ UNCHANGED <<seen, station, act, wire>>

(* Stop with nothing to stop: it only supersedes what is under way. *)
StopAgain ==
  /\ Enabled("again")
  /\ ~doc.release
  /\ grid' = [Invalidate(grid, doc) EXCEPT !.timer = "none"]
  /\ UNCHANGED <<doc, seen, station, user, wire>>

(* The save of a stop announces the release again, unless it failed. *)
ReleaseStored ==
  /\ storing /\ act = None /\ storing' = FALSE
  /\ grid' = ReleaseChanged(grid, seen, doc)
  /\ UNCHANGED <<doc, seen, station, act, wire, ops>>

ReleaseNotStored ==
  /\ Enabled("storage")
  /\ storing /\ act = None /\ storing' = FALSE
  /\ UNCHANGED <<doc, seen, station, grid, act, wire>>

(* Settings.approve_equivalent_grid commits a draft on its own. *)
CommitEquivalent ==
  /\ Enabled("equivalent")
  /\ seen.link /\ act = None /\ grid.requested = doc.approved
  /\ grid' = IF Equivalent(grid, doc.approved)
             THEN Kept(grid, seen, doc, grid.retry)
             ELSE Edited(grid, seen, doc)
  /\ UNCHANGED <<doc, seen, station, user, wire>>

-----------------------------------------------------------------------------
(* Deadlines *)

StartDue ==
  /\ doc.release /\ doc.phase = "waiting"
  /\ doc' = [doc EXCEPT !.phase = "active"]
  /\ UNCHANGED <<seen, station, grid, user, wire, ops>>

EndDue ==
  /\ Enabled("deadline")
  /\ doc.release /\ doc.phase = "active"
  /\ doc' = [doc EXCEPT !.phase = "expired"]
  /\ UNCHANGED <<seen, station, grid, user, wire>>

(* Grid.schedule's "elapsed" *)
DeadlineFires ==
  /\ \/ grid.timer = "start" /\ doc.phase # "waiting"
     \/ grid.timer = "end" /\ doc.phase = "expired"
  /\ IF doc.phase = "expired"
     THEN StopRelease([grid EXCEPT !.timer = "none"])
     ELSE /\ grid' = Schedule(Launch(grid, seen, doc, FALSE), doc)
          /\ UNCHANGED <<doc, storing>>
  /\ UNCHANGED <<seen, station, act, wire, ops>>

(* Grid.retry's timer: a lockout's delay has passed. *)
RetryFires ==
  /\ grid.retry
  /\ grid' = Launch([grid EXCEPT !.retry = FALSE], seen, doc, FALSE)
  /\ UNCHANGED <<doc, seen, station, user, wire, ops>>

-----------------------------------------------------------------------------
(* The station and its observations *)

(* Grid.permission_changed *)
PermissionSeen(enabled) ==
  /\ seen.link /\ enabled # seen.enabled
  /\ IF enabled /\ "permission" \notin Features THEN ops' = ops ELSE Enabled("permission")
  /\ seen' = [seen EXCEPT !.enabled = enabled]
  /\ grid' = IF enabled THEN grid ELSE Invalidate(grid, doc)
  /\ UNCHANGED <<doc, station, user, wire>>

(* An observation that ends in Grid.changed. *)
Observe(s) ==
  /\ seen' = s
  /\ grid' = Changed(grid, s, doc, FALSE)
  /\ UNCHANGED <<doc, user, wire>>

(* The first report of a generation is free. *)
AuthoritySeen(authority) ==
  /\ seen.link /\ authority # seen.authority
  /\ IF seen.authority = "unknown" /\ authority = "remote" THEN ops' = ops
     ELSE Enabled("authority")
  /\ LET lost == doc.release /\ grid.last = "remote" /\ authority = "local"
         d == IF lost THEN Released(doc) ELSE doc
         s == [seen EXCEPT !.authority = authority]
     IN /\ doc' = d
        /\ seen' = s
        /\ grid' = Changed(grid, s, d, FALSE)
  /\ UNCHANGED <<station, user, wire>>

CapabilitySeen ==
  /\ Enabled("capability")
  /\ seen.link
  /\ station' = station
  /\ Observe([seen EXCEPT !.capable = ~@])

(* A transaction begins with an offer of the station's own. *)
TxStart == \E tx \in Transactions \ station.past, offer \in Own :
  /\ Spend
  /\ seen.link /\ station.tx = None
  /\ station' = [offer |-> offer, tx |-> tx, past |-> station.past \cup {tx}]
  /\ Observe([seen EXCEPT !.tx = tx])

TxEnd ==
  /\ Spend
  /\ station.tx # None
  /\ station' = [station EXCEPT !.tx = None]
  /\ IF seen.tx = None THEN UNCHANGED <<doc, seen, grid, user, wire>>
     ELSE Observe([seen EXCEPT !.tx = None])

(* A transaction that outlived the connection is reported again. *)
TxSeen ==
  /\ seen.link /\ seen.tx = None /\ station.tx # None
  /\ UNCHANGED <<station, ops>>
  /\ Observe([seen EXCEPT !.tx = station.tx])

(* Grid.phase_changed: the new phases can clarify an unconfirmed result. *)
PhasesSeen(g, s) ==
  IF g.status = "accepted_unconfirmed" THEN Launch(g, s, doc, TRUE) ELSE g

PhaseSeen ==
  /\ seen.link /\ seen.phases # station.offer.phases
  /\ seen' = [seen EXCEPT !.phases = station.offer.phases]
  /\ grid' = PhasesSeen(grid, seen')
  /\ UNCHANGED <<doc, station, user, wire, ops>>

(* What is observed of a generation that has only begun. *)
Unseen(link, gen) ==
  [link |-> link, gen |-> gen, authority |-> "unknown", tx |-> None, phases |-> 0,
   enabled |-> FALSE, capable |-> seen.capable]

(* Mutant of Carried: a point without phases is taken as it is written. *)
CarriedAsIs(offer, point) == point

(* The point the station offers once it has carried out a proposal. *)
Carried(offer, point) ==
  [amps |-> point.amps,
   phases |-> IF point.phases = 0 THEN offer.phases ELSE point.phases]

(* Adapter.close: every task of the adapter is cancelled; a request on its *)
(* way is lost, or still carried out.                                      *)
Disconnect ==
  /\ Enabled("network")
  /\ seen.link
  /\ seen' = Unseen(FALSE, seen.gen)
  /\ grid' = [Changed(grid, seen', doc, FALSE) EXCEPT !.ready = <<>>]
  /\ calls' = <<>> /\ sent' = FALSE /\ inbox' = <<>>
  /\ \/ station' = station
     \/ \E i \in DOMAIN inbox : inbox[i].kind = "set" /\ inbox[i].tx = station.tx
          /\ station' = [station EXCEPT !.offer = Carried(@, inbox[i].point)]
  /\ UNCHANGED <<doc, user>>

(* A registration, over a new connection or after a boot on the old one.   *)
Register ==
  /\ seen.link => Enabled("boot")
  /\ ~seen.link => ops' = ops
  /\ seen' = Unseen(TRUE, seen.gen + 1)
  /\ grid' = Changed(grid, seen', doc, TRUE)
  /\ inbox' \in {inbox, <<>>}
  /\ UNCHANGED <<doc, station, user, calls, sent>>

-----------------------------------------------------------------------------
(* A reconciliation, from answer to answer *)

(* Mutant of Finish: a change of the business phase goes unnoticed. *)
FinishOnce(g, t) == g

(* Grid.launch's "settled": a decision of an earlier phase is renewed. *)
Finish(g, t) ==
  IF g.latest = t.epoch /\ Valid(t) /\ doc.phase # t.began
  THEN Launch(g, seen, doc, FALSE) ELSE g

End(g, t) == grid' = Finish(g, t) /\ calls' = calls /\ UNCHANGED <<doc, storing>>

(* An end that reports the outcome of the current epoch, with its reason: *)
(* only the one that a superseded task may write is told from the others. *)
ReportWith(g, t, status, reason) ==
  End([g EXCEPT !.status = status, !.reason = reason, !.outcome = TRUE,
                !.decided = t.decided], t)

Report(g, t, status) == ReportWith(g, t, status, "other")

(* The task awaits its next answer. *)
Await(g, t, pc) ==
  grid' = g /\ calls' = Append(calls, [t EXCEPT !.pc = pc, !.got = "none", !.found = None])
  /\ UNCHANGED <<doc, storing>>

(* A recognized lockout: the intent is kept and tried again later. *)
LockedOut(g, t, status, reason) ==
  ReportWith([g EXCEPT !.allow = TRUE, !.retry = TRUE], t, status, reason)

(* Grid.read_point: the observation an answer yields, or None. *)
Reading(t) ==
  IF Valid(t) /\ t.found # None /\ t.found.phases = seen.phases THEN t.found ELSE None

Noted(g, t) ==
  IF Reading(t) = None THEN g
  ELSE [g EXCEPT !.uncertain = <<>>,
                 !.confirmed = [point |-> t.found, tx |-> t.tx, gen |-> seen.gen]]

(* dispatch_point: an accepted proposal makes earlier ones history; a       *)
(* rejected one is taken back, with the rejected ones that are then on top. *)
LastOf(chain, epoch) ==
  LET at == {i \in DOMAIN chain : chain[i].epoch = epoch}
  IN IF at = {} THEN 0 ELSE CHOOSE i \in at : \A j \in at : j <= i

(* Mutant of Answered: a rejection ends all doubt. *)
AnsweredAll(chain, epoch, got) == IF got \in Refusal THEN <<>> ELSE chain

Answered(chain, epoch, got) ==
  LET i == LastOf(chain, epoch)
      marked == [chain EXCEPT ![i].rejected = TRUE]
      kept == {j \in DOMAIN marked : ~marked[j].rejected}
  IN IF i = 0 \/ got \notin Refusal \cup {"accepted"} THEN chain
     ELSE IF got = "accepted" THEN SubSeq(chain, i, Len(chain))
     ELSE IF kept = {} THEN <<>>
     ELSE SubSeq(marked, 1, CHOOSE j \in kept : \A k \in kept : k <= j)

(* The first steps: an expired run ends here, and the point that is wanted *)
(* is fixed by the business phase of this moment.                          *)
StartTask(g, t) ==
  LET positive == doc.phase = "active" /\ doc.release /\ seen.enabled
  IN IF ~Valid(t) THEN End(g, t)
     ELSE IF doc.phase = "expired" /\ doc.release
     THEN StopRelease(g) /\ calls' = calls
     ELSE IF positive /\ ~seen.capable THEN Report(g, [t EXCEPT !.decided = doc.phase], "unsupported")
     ELSE Await(g, [t EXCEPT !.decided = doc.phase,
                             !.want = IF positive THEN doc.approved ELSE Zero], "read")

(* With the offer read: nothing to do, nothing known, or a proposal. *)
AfterRead(g, t) ==
  LET g1 == Noted(g, t)
      held == IF Reading(t) # None THEN Reading(t) ELSE CurrentPoint(g1)
      g2 == [g1 EXCEPT !.requested = t.want]
  IN IF ~Valid(t) THEN End(g, t)
     ELSE IF held = None /\ ~g.allow
     THEN End([g EXCEPT !.status = "unconfirmed", !.reason = "other", !.decided = t.decided], t)
     ELSE IF Matches(held, t.want) /\ (Reading(t) # None \/ g1.uncertain = <<>>)
     THEN Report([g2 EXCEPT !.allow = FALSE, !.retry = FALSE], t, "confirmed")
     ELSE IF t.confirmOnly THEN End(g2, t)
     ELSE Await([g2 EXCEPT !.status = "pending", !.reason = "other"],
                [t EXCEPT !.held = held], "set")

(* What may be offered meanwhile, while the phases are locked. *)
Interim(t) ==
  {Zero} \cup IF seen.capable /\ t.want # Zero
              THEN {p \in Points : p.phases = t.held.phases} ELSE {}

(* With the answer to the proposal of the wanted point. *)
AfterSet(g, t) ==
  LET g1 == [g EXCEPT !.allow = FALSE]
      g2 == [g1 EXCEPT !.status = "rejected", !.reason = "other"]
  IN IF ~Valid(t) \/ t.got = "refused" THEN End(g, t)
     ELSE CASE t.got = "accepted" ->
                 Await([g1 EXCEPT !.status = "accepted_unconfirmed"], t, "rotation")
            [] t.got = "rejected" -> Report(g1, t, "rejected")
            [] t.got = "ReenableLockout" -> LockedOut(g1, t, "rejected", "other")
            [] t.got = "PhaseSwitchLockout" /\ t.held = None ->
                 LockedOut(g1, t, "phase_lockout_pending", "other")
            [] t.got = "PhaseSwitchLockout" /\ t.held # None ->
                 \E p \in Interim(t) :
                   IF Matches(t.held, p)
                   THEN LockedOut(g1, t, "phase_lockout_pending", "other")
                   ELSE Await(g2, [t EXCEPT !.want = p], "interim")

AfterInterim(g, t) ==
  IF ~Valid(t) \/ t.got = "refused" THEN End(g, t)
  ELSE CASE t.got = "accepted" -> Await(g, t, "check")
         [] t.got = "rejected" -> Report(g, t, "rejected")
         [] OTHER -> LockedOut(g, t, "phase_lockout_pending", "other")

AfterCheck(g, t) ==
  IF ~Valid(t) THEN End(g, t)
  ELSE LockedOut(Noted(g, t), t, "phase_lockout_pending", g.reason)

AfterConfirm(g, t) ==
  IF ~Valid(t) THEN End(g, t)
  ELSE Report(Noted(g, t), t, IF Matches(Reading(t), t.want) THEN "confirmed"
                              ELSE "accepted_unconfirmed")

(* Mutant of NoAnswer: the task just ends. *)
NoAnswerSilent(g, t) == End(g, t)

(* reconcile's handlers of a call without an answer.  The readback of an   *)
(* interim point names its failure before it looks whether it is still     *)
(* current.                                                                *)
NoAnswer(g, t) ==
  LET interim == "interim_readback_failure"
      blamed == [g EXCEPT !.reason = IF t.pc = "check" THEN interim ELSE @]
  IN IF ~Valid(t) THEN End(blamed, t)
     ELSE IF t.pc = "check" THEN LockedOut(blamed, t, "phase_lockout_pending", interim)
     ELSE Report(g, t, IF g.status = "accepted_unconfirmed" THEN g.status
                       ELSE "communication_failure")

(* The task whose turn it is runs to its next await, or to its end. *)
RunTask ==
  /\ grid.ready # <<>>
  /\ LET t == Head(grid.ready)
         g0 == [grid EXCEPT !.ready = Tail(@)]
         g == IF t.pc \in {"set", "interim"}
              THEN [g0 EXCEPT !.uncertain = Answered(@, t.epoch, t.got)] ELSE g0
     IN CASE t.got = "timeout" -> NoAnswer(g, t)
          [] t.got # "timeout" /\ t.pc = "start" -> StartTask(g, t)
          [] t.got # "timeout" /\ t.pc = "read" -> AfterRead(g, t)
          [] t.got # "timeout" /\ t.pc = "set" -> AfterSet(g, t)
          [] t.got # "timeout" /\ t.pc = "rotation" -> Await(g, t, "confirm")
          [] t.got # "timeout" /\ t.pc = "confirm" -> AfterConfirm(g, t)
          [] t.got # "timeout" /\ t.pc = "interim" -> AfterInterim(g, t)
          [] t.got # "timeout" /\ t.pc = "check" -> AfterCheck(g, t)
  /\ seen' = LET t == Head(grid.ready)
             IN IF t.pc = "rotation" /\ t.found # None /\ Valid(t)
                THEN [seen EXCEPT !.phases = t.found.phases] ELSE seen
  /\ UNCHANGED <<station, act, sent, inbox, ops>>

-----------------------------------------------------------------------------
(* The wire *)

(* dispatch_point's guard, at the moment the request would be written. *)
Guard(t) ==
  /\ Valid(t)
  /\ t.want.amps > 0 => doc.release /\ doc.phase = "active" /\ seen.enabled

Reply(t, got, found) == [t EXCEPT !.got = got, !.found = found]

(* The task that gets the call lock sends its request, or is refused. *)
Send ==
  /\ calls # <<>> /\ ~sent
  /\ LET t == Head(calls)
         proposal == t.pc \in {"set", "interim"}
     IN IF proposal /\ ~Guard(t)
        THEN /\ calls' = Tail(calls)
             /\ grid' = [grid EXCEPT !.ready = Append(@, Reply(t, "refused", None))]
             /\ UNCHANGED <<sent, inbox>>
        ELSE /\ sent' = TRUE
             /\ inbox' = Append(inbox,
                  [kind |-> IF proposal THEN "set"
                            ELSE IF t.pc = "rotation" THEN "rotation" ELSE "read",
                   point |-> IF proposal THEN t.want ELSE Zero,
                   tx |-> t.tx, live |-> TRUE])
             /\ grid' = IF proposal
                        THEN [grid EXCEPT !.uncertain =
                                Append(@, [epoch |-> t.epoch, rejected |-> FALSE])]
                        ELSE grid
             /\ calls' = calls
  /\ UNCHANGED <<doc, seen, station, user, ops>>

(* The answer to the head's request frees the lock and wakes its task. *)
Deliver(got, found) ==
  /\ calls' = Tail(calls) /\ sent' = FALSE
  /\ grid' = [grid EXCEPT !.ready = Append(@, Reply(Head(calls), got, found))]

(* A late answer finds no call of its own. *)
Answer(got, found) ==
  IF Head(inbox).live THEN Deliver(got, found) ELSE UNCHANGED <<grid, calls, sent>>

(* The station carries out the requests in the order it gets them. *)
StationHandles ==
  /\ inbox # <<>> /\ inbox' = Tail(inbox)
  /\ LET m == Head(inbox) IN
     \/ /\ m.kind # "set"
        /\ Answer("read", station.offer)
        /\ UNCHANGED <<station, ops>>
     \/ /\ m.kind # "set" /\ Enabled("unreadable")
        /\ Answer("read", None)
        /\ station' = station
     \/ /\ m.kind = "set" /\ m.tx = station.tx
        /\ Answer("accepted", None)
        /\ station' = [station EXCEPT !.offer = Carried(@, m.point)]
        /\ ops' = ops
     \/ /\ m.kind = "set" /\ m.tx # station.tx
        /\ Answer("rejected", None)
        /\ UNCHANGED <<station, ops>>
     \/ /\ m.kind = "set" /\ Enabled("lockout")
        /\ \/ Answer("rejected", None)
           \/ m.point.amps > 0 /\ Answer("ReenableLockout", None)
           \/ m.point.phases # 0 /\ m.point.phases # station.offer.phases
              /\ Answer("PhaseSwitchLockout", None)
        /\ station' = station
  /\ UNCHANGED <<doc, seen, user>>

(* The call ends without its answer, which may still come, or which is lost. *)
CallTimesOut ==
  /\ sent
  /\ \/ Enabled("timeout")
     \/ (\A i \in DOMAIN inbox : ~inbox[i].live) /\ ops' = ops
  /\ Deliver("timeout", None)
  /\ inbox' = [i \in DOMAIN inbox |-> [inbox[i] EXCEPT !.live = FALSE]]
  /\ UNCHANGED <<doc, seen, station, user>>

-----------------------------------------------------------------------------
(* The specification *)

Init ==
  /\ doc \in [release: {FALSE}, phase: {"active"}, approved: Points]
  /\ \/ station \in [offer: Own, tx: {None}, past: {{}}]
     \/ \E tx \in Transactions : station \in [offer: Own, tx: {tx}, past: {{tx}}]
  /\ seen = [link |-> TRUE, gen |-> 1, authority |-> "remote", tx |-> None,
             phases |-> station.offer.phases, enabled |-> TRUE, capable |-> TRUE]
  /\ \E known \in {None, station.tx} :
     grid = [epoch |-> 0, latest |-> 0, allow |-> FALSE, known |-> known,
             last |-> "remote", requested |-> None, decided |-> "active",
             confirmed |-> None, uncertain |-> <<>>, status |-> "waiting",
             reason |-> "other", outcome |-> FALSE, retry |-> FALSE,
             timer |-> "none", ready |-> <<>>]
  /\ act = None /\ storing = FALSE
  /\ calls = <<>> /\ sent = FALSE /\ inbox = <<>> /\ ops = 0

Users == Start \/ Apply \/ Stop \/ StopAgain \/ CommitEquivalent
Saves == ActionStored \/ ActionSuperseded \/ ActionUndone \/ ActionFailed
         \/ ReleaseStored \/ ReleaseNotStored
Deadlines == StartDue \/ EndDue \/ DeadlineFires \/ RetryFires
Observations ==
  \/ \E enabled \in BOOLEAN : PermissionSeen(enabled)
  \/ \E authority \in {"remote", "local"} : AuthoritySeen(authority)
  \/ CapabilitySeen \/ TxStart \/ TxEnd \/ TxSeen \/ PhaseSeen
  \/ Disconnect \/ Register

Next == Users \/ Saves \/ Deadlines \/ Observations
        \/ RunTask \/ Send \/ StationHandles \/ CallTimesOut

Spec == Init /\ [][Next]_vars

-----------------------------------------------------------------------------
(* What should hold *)

Idle == ~Busy(grid) /\ ~grid.retry /\ act = None

(* The current and phases shown as applied are those the station offers:   *)
(* while a proposal may have superseded the held observation, whether its  *)
(* answer is late, lost or out of date, nothing is shown (attributes,      *)
(* dispatch_point, read_point).                                            *)
ShownIsOffered ==
  grid.uncertain = <<>> /\ CurrentPoint(grid) # None
    => CurrentPoint(grid) = station.offer

(* "confirmed" is the truth about the current intent: the station offers   *)
(* what was requested, no proposal still under way will change that, and a *)
(* positive point is confirmed only for a release that is on, but for the  *)
(* moment in which a superseded Apply undoes its save (reconcile).         *)
ConfirmedIsDone ==
  Eligible(seen) /\ grid.status = "confirmed" /\ grid.outcome =>
    /\ Matches(station.offer, grid.requested)
    /\ \A i \in DOMAIN inbox : inbox[i].kind = "set" =>
         Matches(station.offer, inbox[i].point)
    /\ grid.requested.amps > 0 => doc.release \/ act # None

(* A planned start that falls into a running reconciliation is not         *)
(* swallowed: a decision of the waiting time does not outlive it unless    *)
(* the deadline or a task is still to come (launch, settled, schedule).    *)
PlannedStartRenewed ==
  doc.release /\ doc.phase = "active" /\ grid.outcome /\ grid.decided = "waiting"
    => grid.timer = "start" \/ Busy(grid)

(* Whatever a task finds once its intent is superseded, it changes nothing *)
(* of what is shown, remembered or armed for the newer one, but for one    *)
(* thing: if the readback of its interim point fails, the reason that is   *)
(* shown beside the newer status names that failure (reconcile).           *)
StaleTaskSilent ==
  [][ grid.ready # <<>> /\ grid'.ready = Tail(grid.ready)
      /\ grid'.epoch = grid.epoch /\ Head(grid.ready).epoch # grid.epoch
      => /\ grid'.status = grid.status /\ grid'.requested = grid.requested
         /\ grid'.confirmed = grid.confirmed /\ grid'.outcome = grid.outcome
         /\ grid'.allow = grid.allow /\ grid'.retry = grid.retry
         /\ \/ grid'.reason = grid.reason
            \/ /\ Head(grid.ready).pc = "check" /\ Head(grid.ready).got = "timeout"
               /\ grid'.reason = "interim_readback_failure" ]_vars

(* A reconciliation that ended while it was current has said how.          *)
EndReported ==
  Eligible(seen) /\ Idle /\ grid.latest = grid.epoch /\ grid.epoch > 0
    => grid.outcome \/ grid.status \in {"unconfirmed", "accepted_unconfirmed"}

(* Trouble that is shown to the user. *)
Trouble == {"unconfirmed", "accepted_unconfirmed", "rejected",
            "communication_failure", "unsupported"}

(* Nothing more will happen, and the station still offers current. *)
LeftOn ==
  /\ Eligible(seen) /\ seen.enabled /\ Idle /\ ~storing
  /\ station.offer.amps > 0 /\ grid.status \notin Trouble

(* A stop is never lost on its way: with the release off, the station does *)
(* not go on offering current behind a status that reports no trouble.     *)
StopReached == ~doc.release => ~LeftOn

=============================================================================
