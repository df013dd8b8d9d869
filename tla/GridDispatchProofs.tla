-------------------------- MODULE GridDispatchProofs --------------------------
(***************************************************************************)
(* Theorems about GridDispatch, for any points, transactions, features and *)
(* bounds: the state stays well typed, a superseded task changes nothing   *)
(* of what a newer one reports, the point that is shown is the one the     *)
(* station offers, "confirmed" is true, a task that ended while it was     *)
(* current has said how, and a stop is reached or shown as trouble.        *)
(***************************************************************************)
EXTENDS GridDispatch, SequenceTheorems, WellFoundedInduction, TLAPS

-----------------------------------------------------------------------------
(* Sequences *)

LEMMA TailElements ==
  ASSUME NEW S, NEW s \in Seq(S), s # <<>>
  PROVE  /\ Tail(s) \in Seq(S) /\ Head(s) \in S /\ Len(Tail(s)) = Len(s) - 1
         /\ 1 \in DOMAIN s /\ Head(s) = s[1]
         /\ \A k \in DOMAIN Tail(s) : /\ k \in Nat \ {0} /\ k + 1 \in DOMAIN s
                                      /\ Tail(s)[k] = s[k + 1]
OBVIOUS

LEMMA AppendElements ==
  ASSUME NEW S, NEW s \in Seq(S), NEW e \in S
  PROVE  /\ Append(s, e) \in Seq(S) /\ Len(Append(s, e)) = Len(s) + 1 /\ Append(s, e) # <<>>
         /\ Append(s, e)[Len(s) + 1] = e /\ Len(s) + 1 \in DOMAIN Append(s, e)
         /\ \A k \in DOMAIN s : k \in DOMAIN Append(s, e) /\ Append(s, e)[k] = s[k]
         /\ \A k \in DOMAIN Append(s, e) :
              \/ k \in DOMAIN s /\ Append(s, e)[k] = s[k]
              \/ k \notin DOMAIN s /\ k = Len(s) + 1 /\ Append(s, e)[k] = e
OBVIOUS

LEMMA AppendHead ==
  ASSUME NEW S, NEW s \in Seq(S), NEW e \in S, s # <<>>
  PROVE  Head(Append(s, e)) = Head(s)
OBVIOUS

LEMMA HeadAmong ==
  ASSUME NEW S, NEW s \in Seq(S), s # <<>>
  PROVE  ToSet(s) = {Head(s)} \cup ToSet(Tail(s))
<1>1. \A k \in DOMAIN s : s[k] = Head(s) \/ (k - 1 \in DOMAIN Tail(s) /\ Tail(s)[k - 1] = s[k])
      OBVIOUS
<1>2. /\ 1 \in DOMAIN s /\ Head(s) = s[1]
      /\ \A k \in DOMAIN Tail(s) : k + 1 \in DOMAIN s /\ Tail(s)[k] = s[k + 1]
      BY TailElements
<1>3. ToSet(s) \subseteq {Head(s)} \cup ToSet(Tail(s))
      BY <1>1 DEF ToSet
<1>4. Head(s) \in ToSet(s)
      BY <1>2 DEF ToSet
<1>5. ToSet(Tail(s)) \subseteq ToSet(s)
      BY <1>2 DEF ToSet
<1> QED BY <1>3, <1>4, <1>5

LEMMA AppendAmong ==
  ASSUME NEW S, NEW s \in Seq(S), NEW e \in S
  PROVE  ToSet(Append(s, e)) = ToSet(s) \cup {e}
BY AppendElements DEF ToSet

LEMMA AmongType ==
  ASSUME NEW S, NEW s \in Seq(S)
  PROVE  ToSet(s) \subseteq S
BY DEF ToSet

LEMMA EmptyAmong == ToSet(<<>>) = {}
BY DEF ToSet

-----------------------------------------------------------------------------
(* What the shared effects do to the fields of Grid *)

(* The task that launch spawns. *)
NewTask(epoch, s, d, confirmOnly) ==
  [epoch |-> epoch, tx |-> s.tx, confirmOnly |-> confirmOnly, began |-> d.phase,
   decided |-> d.phase, pc |-> "start", want |-> Zero, held |-> None, got |-> "none",
   found |-> None]

(* No outcome is touched. *)
Alike(g, h) ==
  /\ h.epoch = g.epoch /\ h.confirmed = g.confirmed /\ h.uncertain = g.uncertain
  /\ h.requested = g.requested /\ h.status = g.status /\ h.outcome = g.outcome

(* launch: a task is spawned unless one is there or none may be. *)
Spawns(g, h, s, d, confirmOnly) ==
  /\ Alike(g, h)
  /\ \/ /\ h.latest = g.latest /\ h.ready = g.ready
        /\ ~Eligible(s) \/ (g.latest = g.epoch /\ Busy(g))
     \/ /\ Eligible(s) /\ ~(g.latest = g.epoch /\ Busy(g))
        /\ h.latest = g.epoch
        /\ h.ready = Append(g.ready, NewTask(g.epoch, s, d, confirmOnly))

(* The epoch moves, and a task of the new one is spawned or not. *)
Moves(g, h, s, d) ==
  /\ h.epoch = g.epoch + 1 /\ ~h.outcome /\ h.uncertain = g.uncertain
  /\ h.confirmed \in {g.confirmed, None}
  /\ \/ h.latest = g.latest /\ h.ready = g.ready
     \/ /\ Eligible(s) /\ h.latest = g.epoch + 1
        /\ h.ready = Append(g.ready, NewTask(g.epoch + 1, s, d, FALSE))

LEMMA ZeroForm == Zero \in Wanted /\ Zero.amps = 0 /\ Zero.phases = 0
BY DEF Zero, Wanted

LEMMA PointForm ==
  ASSUME NEW p \in Points
  PROVE  /\ p \in [amps: Nat \ {0}, phases: 1..3] /\ p \in Wanted /\ p \in Offer /\ p # Zero
BY PointsAssumption DEF Wanted, Offer, Zero

LEMMA WantedForm ==
  ASSUME NEW p \in Wanted
  PROVE  /\ p \in [amps: Nat, phases: 0..3] /\ (p.amps > 0 => p \in Points)
         /\ (p.phases = 0 => p.amps = 0)
BY PointsAssumption DEF Wanted, Zero

LEMMA OfferForm ==
  ASSUME NEW p \in Offer
  PROVE  /\ p \in [amps: Nat, phases: 1..3] /\ [amps |-> 0, phases |-> p.phases] \in Offer
BY PointsAssumption DEF Offer

LEMMA CarriedForm ==
  ASSUME NEW o \in Offer, NEW p \in Wanted
  PROVE  Carried(o, p) \in Offer
BY WantedForm, OfferForm, PointForm, ZeroForm DEF Carried, Wanted

LEMMA NewTaskForm ==
  ASSUME NEW e \in Nat, NEW s \in Seen, NEW d \in Doc, NEW c \in BOOLEAN
  PROVE  NewTask(e, s, d, c) \in Task
BY ZeroForm DEF NewTask, Task, Seen, Doc, Outcome

LEMMA ScheduleForm ==
  ASSUME NEW g \in Grid, NEW d \in Doc
  PROVE  /\ Schedule(g, d) \in Grid /\ Alike(g, Schedule(g, d))
         /\ Schedule(g, d).latest = g.latest /\ Schedule(g, d).ready = g.ready
         /\ Schedule(g, d).allow = g.allow /\ Schedule(g, d).retry = g.retry
<1>1. PICK timer \in {"none", "start", "end"} :
        timer = IF ~d.release THEN "none" ELSE IF d.phase = "waiting" THEN "start" ELSE "end"
      OBVIOUS
<1>2. Schedule(g, d) = [g EXCEPT !.timer = timer]
      BY <1>1 DEF Schedule
<1> QED BY <1>2 DEF Grid, Alike

(* What a status or a held point is changed to, in the types of the state. *)
LEMMA WaitingForm ==
  ASSUME NEW g \in Grid, NEW st \in {"waiting", "pending"}
  PROVE  LET h == [g EXCEPT !.status = st, !.reason = "other"]
         IN  /\ h \in Grid /\ h.epoch = g.epoch /\ h.outcome = g.outcome /\ h.latest = g.latest
             /\ h.ready = g.ready /\ h.confirmed = g.confirmed /\ h.uncertain = g.uncertain
<1> DEFINE h == [g EXCEPT !.status = st, !.reason = "other"]
<1>1. h \in Grid
      BY DEF Grid
<1>2. /\ h.epoch = g.epoch /\ h.outcome = g.outcome /\ h.latest = g.latest
      /\ h.ready = g.ready /\ h.confirmed = g.confirmed /\ h.uncertain = g.uncertain
      BY DEF Grid
<1> QED BY <1>1, <1>2

LEMMA HeldForm ==
  ASSUME NEW g \in Grid, NEW c \in Confirmed \cup {None}
  PROVE  LET h == [g EXCEPT !.confirmed = c]
         IN  /\ h \in Grid /\ h.epoch = g.epoch /\ h.outcome = g.outcome /\ h.latest = g.latest
             /\ h.ready = g.ready /\ h.confirmed = c /\ h.uncertain = g.uncertain
<1> DEFINE h == [g EXCEPT !.confirmed = c]
<1>1. h \in Grid
      BY DEF Grid
<1>2. /\ h.epoch = g.epoch /\ h.outcome = g.outcome /\ h.latest = g.latest
      /\ h.ready = g.ready /\ h.confirmed = c /\ h.uncertain = g.uncertain
      BY DEF Grid
<1> QED BY <1>1, <1>2

LEMMA InvalidateForm ==
  ASSUME NEW g \in Grid, NEW d \in Doc
  PROVE  /\ Invalidate(g, d) \in Grid /\ Invalidate(g, d).epoch = g.epoch + 1
         /\ ~Invalidate(g, d).outcome
         /\ Invalidate(g, d).latest = g.latest /\ Invalidate(g, d).ready = g.ready
         /\ Invalidate(g, d).confirmed = g.confirmed /\ Invalidate(g, d).uncertain = g.uncertain
<1> DEFINE h == [g EXCEPT !.epoch = @ + 1, !.outcome = FALSE, !.retry = FALSE]
<1>1. h \in Grid /\ h.epoch = g.epoch + 1 /\ ~h.outcome /\ h.latest = g.latest
      /\ h.ready = g.ready /\ h.confirmed = g.confirmed /\ h.uncertain = g.uncertain
  <2>1. PICK e \in Nat : e = g.epoch + 1
        BY DEF Grid
  <2>2. h = [g EXCEPT !.epoch = e, !.outcome = FALSE, !.retry = FALSE]
        BY <2>1
  <2> HIDE DEF h
  <2> QED BY <2>1, <2>2 DEF Grid
<1>2. Invalidate(g, d) = Schedule(h, d)
      BY DEF Invalidate
<1> HIDE DEF h
<1> QED BY <1>1, <1>2, ScheduleForm DEF Alike

LEMMA LaunchForm ==
  ASSUME NEW g \in Grid, NEW s \in Seen, NEW d \in Doc, NEW c \in BOOLEAN
  PROVE  /\ Launch(g, s, d, c) \in Grid
         /\ Spawns(g, Launch(g, s, d, c), s, d, c)
<1>1. CASE ~Eligible(s) \/ (g.latest = g.epoch /\ Busy(g))
  <2>1. Launch(g, s, d, c) = g
        BY <1>1 DEF Launch
  <2> QED BY <1>1, <2>1 DEF Spawns, Alike
<1>2. CASE ~(~Eligible(s) \/ (g.latest = g.epoch /\ Busy(g)))
  <2>1. PICK n \in Task : n = NewTask(g.epoch, s, d, c)
        BY NewTaskForm DEF Grid
  <2>a. g.ready \in Seq(Task)
        BY DEF Grid
  <2>b. Append(g.ready, n) \in Seq(Task)
        BY <2>a, AppendElements
  <2>2. PICK ready \in Seq(Task) : ready = Append(g.ready, n)
        BY <2>b
  <2>3. Launch(g, s, d, c) = [g EXCEPT !.latest = g.epoch, !.retry = FALSE, !.ready = ready]
        BY <1>2, <2>1, <2>2 DEF Launch, NewTask
  <2>4. /\ Launch(g, s, d, c) \in Grid /\ Alike(g, Launch(g, s, d, c))
        /\ Launch(g, s, d, c).latest = g.epoch /\ Launch(g, s, d, c).ready = ready
        BY <2>3 DEF Grid, Alike
  <2> QED BY <1>2, <2>1, <2>2, <2>4 DEF Spawns
<1> QED BY <1>1, <1>2

(* What Invalidate and a Launch after it do. *)
LEMMA RenewForm ==
  ASSUME NEW g \in Grid, NEW s \in Seen, NEW d \in Doc, g.latest <= g.epoch,
         NEW h \in Grid, h.epoch = g.epoch + 1, ~h.outcome, h.latest = g.latest, h.ready = g.ready,
         h.confirmed = g.confirmed, h.uncertain = g.uncertain, Eligible(s)
  PROVE  /\ Launch(h, s, d, FALSE) \in Grid /\ Moves(g, Launch(h, s, d, FALSE), s, d)
         /\ Launch(h, s, d, FALSE).latest = g.epoch + 1
         /\ Launch(h, s, d, FALSE).ready = Append(g.ready, NewTask(g.epoch + 1, s, d, FALSE))
<1>0. g.latest \in Nat /\ g.epoch \in Nat
      BY DEF Grid
<1>1. h.latest # h.epoch
      BY <1>0
<1>2. Launch(h, s, d, FALSE) \in Grid /\ Spawns(h, Launch(h, s, d, FALSE), s, d, FALSE)
      BY LaunchForm
<1> HIDE DEF Launch
<1> QED BY <1>1, <1>2 DEF Spawns, Alike, Moves

LEMMA ChangedForm ==
  ASSUME NEW g \in Grid, NEW s \in Seen, NEW d \in Doc, NEW fresh \in BOOLEAN,
         g.latest <= g.epoch
  PROVE  /\ Changed(g, s, d, fresh) \in Grid /\ Moves(g, Changed(g, s, d, fresh), s, d)
         /\ Eligible(s) => Changed(g, s, d, fresh).latest = g.epoch + 1
         /\ ~Eligible(s) /\ (~s.link \/ (g.confirmed # None /\ g.confirmed.gen # s.gen))
              => Changed(g, s, d, fresh).confirmed = None
<1> DEFINE known == IF fresh THEN None ELSE g.known
           new == s.tx # None /\ s.tx # known
<1>1. PICK k \in Transactions \cup {None} : k = IF new THEN s.tx ELSE known
      BY DEF Grid, Seen
<1>2. PICK a \in BOOLEAN : a = IF new THEN d.release ELSE g.allow /\ ~fresh
      BY DEF Grid, Doc
<1>3. PICK l \in {"remote", "local", "unknown"} :
        l = IF s.authority = "unknown" THEN g.last ELSE s.authority
      BY DEF Grid, Seen
<1> DEFINE g0 == [g EXCEPT !.known = k, !.allow = a, !.last = l]
           g1 == Invalidate(g0, d)
           stale == ~s.link \/ (g.confirmed # None /\ g.confirmed.gen # s.gen)
<1>4. /\ g0 \in Grid /\ g0.epoch = g.epoch /\ g0.latest = g.latest /\ g0.ready = g.ready
      /\ g0.confirmed = g.confirmed /\ g0.uncertain = g.uncertain
      BY DEF Grid
<1>5. /\ g1 \in Grid /\ g1.epoch = g.epoch + 1 /\ ~g1.outcome /\ g1.latest = g.latest
      /\ g1.ready = g.ready /\ g1.confirmed = g.confirmed /\ g1.uncertain = g.uncertain
      BY <1>4, InvalidateForm
<1> DEFINE gx == [g EXCEPT !.known = IF new THEN s.tx ELSE known,
                          !.allow = IF new THEN d.release ELSE @ /\ ~fresh,
                          !.last = IF s.authority = "unknown" THEN @ ELSE s.authority]
           hx == Invalidate(gx, d)
<1>a. Changed(g, s, d, fresh)
        = IF Eligible(s) THEN Launch(hx, s, d, FALSE)
          ELSE [hx EXCEPT !.status = "waiting", !.reason = "other",
                  !.confirmed = IF stale THEN None ELSE @]
      BY DEF Changed
<1>b. gx = g0
      BY <1>1, <1>2, <1>3
<1>c. hx = g1
      BY <1>b
<1> HIDE DEF gx, hx, g0, g1
<1>6. Changed(g, s, d, fresh)
        = IF Eligible(s) THEN Launch(g1, s, d, FALSE)
          ELSE [g1 EXCEPT !.status = "waiting", !.reason = "other",
                          !.confirmed = IF stale THEN None ELSE @]
      BY <1>a, <1>c
<1> HIDE DEF stale, known, new
<1>7. CASE Eligible(s)
  <2>1. /\ Launch(g1, s, d, FALSE) \in Grid /\ Moves(g, Launch(g1, s, d, FALSE), s, d)
        /\ Launch(g1, s, d, FALSE).latest = g.epoch + 1
        BY <1>5, <1>7, RenewForm
  <2>2. Changed(g, s, d, fresh) = Launch(g1, s, d, FALSE)
        BY <1>6, <1>7
  <2> HIDE DEF Changed
  <2> QED BY <1>7, <2>1, <2>2
<1>8. CASE ~Eligible(s)
  <2>1. PICK c \in {g.confirmed, None} : c = IF stale THEN None ELSE g.confirmed
        OBVIOUS
  <2>2. Changed(g, s, d, fresh) = [g1 EXCEPT !.status = "waiting", !.reason = "other",
                                              !.confirmed = c]
        BY <1>5, <1>6, <1>8, <2>1
  <2>3. c \in Confirmed \cup {None}
        BY DEF Grid
  <2>4. /\ Changed(g, s, d, fresh) \in Grid
        /\ Changed(g, s, d, fresh).confirmed = c /\ Changed(g, s, d, fresh).epoch = g.epoch + 1
        /\ ~Changed(g, s, d, fresh).outcome /\ Changed(g, s, d, fresh).latest = g.latest
        /\ Changed(g, s, d, fresh).ready = g.ready /\ Changed(g, s, d, fresh).uncertain = g.uncertain
    <3> DEFINE h == [g1 EXCEPT !.status = "waiting", !.reason = "other"]
               hc == [h EXCEPT !.confirmed = c]
    <3>1. /\ h \in Grid /\ h.epoch = g1.epoch /\ h.outcome = g1.outcome /\ h.latest = g1.latest
          /\ h.ready = g1.ready /\ h.uncertain = g1.uncertain
          BY <1>5, WaitingForm
    <3> HIDE DEF h
    <3>2. /\ hc \in Grid /\ hc.epoch = h.epoch /\ hc.outcome = h.outcome /\ hc.latest = h.latest
          /\ hc.ready = h.ready /\ hc.uncertain = h.uncertain /\ hc.confirmed = c
          BY <2>3, <3>1, HeldForm
    <3>3. Changed(g, s, d, fresh) = hc
          BY <2>2 DEF h
    <3> HIDE DEF Changed, hc
    <3> QED BY <1>5, <3>1, <3>2, <3>3
  <2>5. ~s.link \/ (g.confirmed # None /\ g.confirmed.gen # s.gen) => c = None
        BY <1>5, <2>1 DEF stale
  <2> QED BY <1>8, <2>4, <2>5 DEF Moves
<1> QED BY <1>7, <1>8

LEMMA ReleaseChangedForm ==
  ASSUME NEW g \in Grid, NEW s \in Seen, NEW d \in Doc, g.latest <= g.epoch
  PROVE  /\ ReleaseChanged(g, s, d) \in Grid /\ Moves(g, ReleaseChanged(g, s, d), s, d)
         /\ Eligible(s) => ReleaseChanged(g, s, d).latest = g.epoch + 1
<1> DEFINE h == [g EXCEPT !.allow = TRUE]
<1>1. /\ h \in Grid /\ h.epoch = g.epoch /\ h.latest = g.latest /\ h.ready = g.ready
      /\ h.confirmed = g.confirmed /\ h.uncertain = g.uncertain
      BY DEF Grid
<1>2. ReleaseChanged(g, s, d) = Changed(h, s, d, FALSE)
      BY DEF ReleaseChanged
<1> HIDE DEF h
<1>3. Changed(h, s, d, FALSE) \in Grid /\ Moves(h, Changed(h, s, d, FALSE), s, d)
      /\ (Eligible(s) => Changed(h, s, d, FALSE).latest = h.epoch + 1)
      BY <1>1, ChangedForm
<1> QED BY <1>1, <1>2, <1>3 DEF Moves

LEMMA EditedForm ==
  ASSUME NEW g \in Grid, NEW s \in Seen, NEW d \in Doc, g.latest <= g.epoch
  PROVE  /\ Edited(g, s, d) \in Grid /\ Moves(g, Edited(g, s, d), s, d)
         /\ Eligible(s) => Edited(g, s, d).latest = g.epoch + 1
<1> DEFINE g0 == [g EXCEPT !.allow = TRUE, !.requested = None]
           g1 == Invalidate(g0, d)
           g2 == [g1 EXCEPT !.status = "pending", !.reason = "other"]
<1>1. /\ g0 \in Grid /\ g0.epoch = g.epoch /\ g0.latest = g.latest /\ g0.ready = g.ready
      /\ g0.confirmed = g.confirmed /\ g0.uncertain = g.uncertain
      BY DEF Grid
<1>b. Edited(g, s, d) = IF Eligible(s) THEN Launch(g2, s, d, FALSE) ELSE g1
      BY DEF Edited
<1> HIDE DEF g0
<1>2. /\ g1 \in Grid /\ g1.epoch = g.epoch + 1 /\ ~g1.outcome /\ g1.latest = g.latest
      /\ g1.ready = g.ready /\ g1.confirmed = g.confirmed /\ g1.uncertain = g.uncertain
      BY <1>1, InvalidateForm
<1> HIDE DEF g1
<1>4. /\ g2 \in Grid /\ g2.epoch = g.epoch + 1 /\ ~g2.outcome /\ g2.latest = g.latest
      /\ g2.ready = g.ready /\ g2.confirmed = g.confirmed /\ g2.uncertain = g.uncertain
  <2>1. /\ g2 \in Grid /\ g2.epoch = g1.epoch /\ g2.outcome = g1.outcome /\ g2.latest = g1.latest
        /\ g2.ready = g1.ready /\ g2.confirmed = g1.confirmed /\ g2.uncertain = g1.uncertain
        BY <1>2, WaitingForm
  <2> HIDE DEF g2
  <2> QED BY <1>2, <2>1
<1> HIDE DEF g2
<1>5. CASE Eligible(s)
  <2>1. /\ Launch(g2, s, d, FALSE) \in Grid /\ Moves(g, Launch(g2, s, d, FALSE), s, d)
        /\ Launch(g2, s, d, FALSE).latest = g.epoch + 1
        BY <1>4, <1>5, RenewForm
  <2>2. Edited(g, s, d) = Launch(g2, s, d, FALSE)
        BY <1>b, <1>5
  <2> HIDE DEF Edited
  <2> QED BY <2>1, <2>2
<1>6. CASE ~Eligible(s)
      BY <1>b, <1>2, <1>6 DEF Moves
<1> QED BY <1>5, <1>6

LEMMA KeptForm ==
  ASSUME NEW g \in Grid, NEW s \in Seen, NEW d \in Doc, NEW retry \in BOOLEAN
  PROVE  Kept(g, s, d, retry) \in Grid /\ Moves(g, Kept(g, s, d, retry), s, d)
<1> DEFINE g1 == Invalidate(g, d)
<1>1. /\ g1 \in Grid /\ g1.epoch = g.epoch + 1 /\ ~g1.outcome /\ g1.latest = g.latest
      /\ g1.ready = g.ready /\ g1.confirmed = g.confirmed /\ g1.uncertain = g.uncertain
      BY InvalidateForm
<1>2. PICK r \in BOOLEAN : r = (retry /\ Eligible(s))
      BY DEF Eligible, Seen
<1>3. Kept(g, s, d, retry) = [g1 EXCEPT !.retry = r]
      BY <1>2 DEF Kept
<1> HIDE DEF g1
<1> DEFINE h == [g1 EXCEPT !.retry = r]
<1>4. h \in Grid
      BY <1>1 DEF Grid
<1>5. /\ h.epoch = g1.epoch /\ h.outcome = g1.outcome /\ h.latest = g1.latest
      /\ h.ready = g1.ready /\ h.confirmed = g1.confirmed /\ h.uncertain = g1.uncertain
      BY <1>1 DEF Grid
<1>6. Kept(g, s, d, retry) = h
      BY <1>3
<1> HIDE DEF h
<1>7. Moves(g, h, s, d)
      BY <1>1, <1>5 DEF Moves
<1> QED BY <1>4, <1>6, <1>7

LEMMA ReleasedForm ==
  ASSUME NEW d \in Doc PROVE Released(d) \in Doc /\ ~Released(d).release /\ Released(d).phase = "active"
BY DEF Released, Doc

-----------------------------------------------------------------------------
(* The invariant, first part: the tasks.  Wherever they wait, they are of  *)
(* different epochs, none of them newer than grid.latest; and one of the   *)
(* current epoch was spawned for what still is seen.                       *)

Proposing(t) == t.pc \in {"set", "interim"}

(* The request that is sent for a task, and the answers it may get. *)
KindOf(pc) == IF pc \in {"set", "interim"} THEN "set"
              ELSE IF pc = "rotation" THEN "rotation" ELSE "read"
AnswersTo(pc) == IF pc = "start" THEN {"none"}
                 ELSE IF pc \in {"set", "interim"}
                 THEN {"accepted", "timeout", "refused"} \cup Refusal
                 ELSE {"read", "timeout"}

Woken(t) == t.got \in AnswersTo(t.pc) /\ (t.found # None => t.got = "read")
Waits(t) == t.pc # "start" /\ t.got = "none" /\ t.found = None

Distinct(s) == \A i, j \in DOMAIN s : i # j => s[i].epoch # s[j].epoch
Apart(r, c) == Distinct(r) /\ Distinct(c) /\ \A a \in ToSet(r), b \in ToSet(c) : a.epoch # b.epoch

(* A live request is the last one, and belongs to the head. *)
OnWire ==
  /\ sent => calls # <<>>
  /\ \A i \in DOMAIN inbox : inbox[i].live =>
       i = Len(inbox) /\ sent /\ inbox[i].kind = KindOf(Head(calls).pc)

Scoped(t) == t.epoch = grid.epoch => Eligible(seen) /\ t.tx = seen.tx

Tasks ==
  /\ grid.latest <= grid.epoch /\ Apart(grid.ready, calls)
  /\ \A t \in Live(grid) : t.epoch <= grid.latest /\ Scoped(t)
  /\ \A t \in ToSet(grid.ready) : Woken(t)
  /\ \A t \in ToSet(calls) : Waits(t)

LEMMA DistinctTail ==
  ASSUME NEW s \in Seq(Task), s # <<>>, Distinct(s)
  PROVE  Distinct(Tail(s)) /\ \A t \in ToSet(Tail(s)) : t.epoch # Head(s).epoch
<1>1. /\ 1 \in DOMAIN s /\ Head(s) = s[1]
      /\ \A k \in DOMAIN Tail(s) : k \in Nat \ {0} /\ k + 1 \in DOMAIN s /\ Tail(s)[k] = s[k + 1]
      BY TailElements
<1>2. \A i, j \in DOMAIN Tail(s) : i # j => i + 1 # j + 1
      BY <1>1
<1>3. Distinct(Tail(s))
      BY <1>1, <1>2 DEF Distinct
<1>4. \A k \in DOMAIN Tail(s) : k + 1 # 1
      BY <1>1
<1>5. \A t \in ToSet(Tail(s)) : t.epoch # Head(s).epoch
      BY <1>1, <1>4 DEF Distinct, ToSet
<1> QED BY <1>3, <1>5

LEMMA DistinctAppend ==
  ASSUME NEW s \in Seq(Task), NEW n \in Task, Distinct(s), \A t \in ToSet(s) : t.epoch # n.epoch
  PROVE  Distinct(Append(s, n))
<1>1. \A k \in DOMAIN Append(s, n) :
         \/ k \in DOMAIN s /\ Append(s, n)[k] = s[k]
         \/ k \notin DOMAIN s /\ k = Len(s) + 1 /\ Append(s, n)[k] = n
      BY AppendElements
<1>2. \A k \in DOMAIN s : s[k].epoch # n.epoch
      BY DEF ToSet
<1> QED BY <1>1, <1>2 DEF Distinct

LEMMA ApartTail ==
  ASSUME NEW r \in Seq(Task), NEW c \in Seq(Task), Apart(r, c), r # <<>>
  PROVE  /\ Apart(Tail(r), c)
         /\ \A t \in ToSet(Tail(r)) \cup ToSet(c) : t.epoch # Head(r).epoch
<1>1. ToSet(r) = {Head(r)} \cup ToSet(Tail(r))
      BY HeadAmong
<1>2. Distinct(Tail(r)) /\ \A t \in ToSet(Tail(r)) : t.epoch # Head(r).epoch
      BY DistinctTail DEF Apart
<1> QED BY <1>1, <1>2 DEF Apart

LEMMA ApartSpawns ==
  ASSUME NEW r \in Seq(Task), NEW c \in Seq(Task), NEW n \in Task, Apart(r, c),
         \A t \in ToSet(r) \cup ToSet(c) : t.epoch # n.epoch
  PROVE  Apart(Append(r, n), c)
<1>1. ToSet(Append(r, n)) = ToSet(r) \cup {n}
      BY AppendAmong
<1>2. Distinct(Append(r, n))
      BY DistinctAppend DEF Apart
<1> QED BY <1>1, <1>2 DEF Apart

LEMMA ApartAwaits ==
  ASSUME NEW r \in Seq(Task), NEW c \in Seq(Task), NEW n \in Task, Apart(r, c), r # <<>>,
         n.epoch = Head(r).epoch
  PROVE  Apart(Tail(r), Append(c, n))
<1>1. /\ Apart(Tail(r), c)
      /\ \A t \in ToSet(Tail(r)) \cup ToSet(c) : t.epoch # Head(r).epoch
      BY ApartTail
<1>2. ToSet(Append(c, n)) = ToSet(c) \cup {n}
      BY AppendAmong
<1>3. Distinct(Append(c, n))
      BY <1>1, DistinctAppend DEF Apart
<1> QED BY <1>1, <1>2, <1>3 DEF Apart

LEMMA ApartWakes ==
  ASSUME NEW r \in Seq(Task), NEW c \in Seq(Task), NEW n \in Task, Apart(r, c), c # <<>>,
         n.epoch = Head(c).epoch
  PROVE  Apart(Append(r, n), Tail(c))
<1>1. Distinct(Tail(c)) /\ \A t \in ToSet(Tail(c)) : t.epoch # Head(c).epoch
      BY DistinctTail DEF Apart
<1>2. ToSet(c) = {Head(c)} \cup ToSet(Tail(c)) /\ ToSet(Append(r, n)) = ToSet(r) \cup {n}
      BY HeadAmong, AppendAmong
<1>3. Distinct(Append(r, n))
      BY <1>2, DistinctAppend DEF Apart
<1> QED BY <1>1, <1>2, <1>3 DEF Apart

-----------------------------------------------------------------------------
(* The steps by which the epoch moves: new intents, lost releases, changed *)
(* observations.                                                           *)

(* What is known of the transaction is true, and the held observation is   *)
(* of this generation and of a transaction that has begun.                 *)
Known ==
  /\ seen.tx \in {None, station.tx}
  /\ station.tx # None => station.tx \in station.past
  /\ grid.confirmed # None =>
       grid.confirmed.tx \in station.past /\ grid.confirmed.gen = seen.gen /\ seen.link

Undoing == act # None /\ act.kind = "undo"

(* What the station offers changes with a new transaction only. *)
Observing ==
  /\ seen'.tx \in {None, station'.tx} /\ station.past \subseteq station'.past
  /\ station'.tx # None => station'.tx \in station'.past
  /\ grid'.confirmed # None => seen'.gen = seen.gen /\ seen'.link
  /\ \/ station'.tx \in {station.tx, None} /\ station'.offer = station.offer
     \/ station'.tx # None /\ station'.tx \notin station.past

MoveEffect ==
  /\ UNCHANGED <<calls, sent>> /\ inbox' \in {inbox, <<>>}
  /\ Moves(grid, grid', seen', doc') /\ Observing

LEMMA Spends == ASSUME TypeOK, Spend PROVE ops' \in 0..MaxOps
BY BoundsAssumption DEF TypeOK, Spend

LEMMA EnabledSpends == ASSUME TypeOK, NEW f, Enabled(f) PROVE ops' \in 0..MaxOps
BY Spends DEF Enabled

LEMMA Unobserved ==
  ASSUME TypeOK, Known, UNCHANGED <<seen, station>>, grid'.confirmed \in {grid.confirmed, None}
  PROVE  Observing
BY DEF Observing, Known

LEMMA CurrentPointForm == ASSUME NEW g \in Grid PROVE CurrentPoint(g) \in Offer \cup {None}
BY DEF CurrentPoint, Grid, Confirmed

(* A handler that moves the epoch and leaves the observations alone. *)
LEMMA IntentMoves ==
  ASSUME TypeOK, Tasks, Known, grid' \in Grid, Moves(grid, grid', seen, doc'),
         UNCHANGED <<seen, station, calls, sent, inbox>>
  PROVE  MoveEffect
BY Unobserved DEF MoveEffect, Moves

LEMMA StopReleaseForm ==
  ASSUME doc \in Doc, seen \in Seen, NEW g \in Grid, g.latest <= g.epoch, StopRelease(g)
  PROVE  /\ doc' \in Doc /\ grid' \in Grid /\ storing' = TRUE /\ Moves(g, grid', seen, doc')
         /\ ~doc'.release /\ (Eligible(seen) => grid'.latest = g.epoch + 1)
<1>1. PICK d \in Doc : d = Released(doc)
      BY ReleasedForm
<1> QED BY <1>1, ReleasedForm, ReleaseChangedForm DEF StopRelease

LEMMA BeginMoves ==
  ASSUME TypeOK, Tasks, Known, NEW p \in Points,
         NEW kind \in {"start", "delayed", "power", "both", "shift", "extend", "over"},
         Begin(kind, p)
  PROVE  /\ TypeOK' /\ MoveEffect
         /\ act' \in Act /\ act'.kind = kind /\ act'.epoch = grid'.epoch /\ doc' = doc /\ act = None
<1>1. /\ grid' \in Grid /\ Moves(grid, grid', seen, doc) /\ UNCHANGED doc
      BY InvalidateForm DEF Begin, TypeOK, Moves, Tasks
<1>2. PICK b \in BOOLEAN : b <=> Equivalent(grid, p)
      OBVIOUS
<1>3. Equivalent(grid, p) \in BOOLEAN
      BY DEF Equivalent
<1>4. act' \in Act /\ act'.kind = kind /\ act'.epoch = grid'.epoch /\ act = None
  <2>1. act' = [kind |-> kind, epoch |-> grid.epoch + 1, point |-> p, equivalent |-> b,
                retry |-> grid.retry]
        BY <1>2, <1>3 DEF Begin
  <2>2. grid.epoch + 1 \in Nat /\ grid.retry \in BOOLEAN
        BY DEF TypeOK, Grid
  <2> QED BY <1>1, <2>1, <2>2 DEF Act, Moves, Begin
<1>5. MoveEffect
      BY <1>1, IntentMoves DEF Begin, wire
<1>6. TypeOK'
      BY <1>1, <1>4, Spends DEF Begin, TypeOK, wire
<1> QED BY <1>1, <1>4, <1>5, <1>6

LEMMA ActionStoredMoves ==
  ASSUME TypeOK, Tasks, Known, ActionStored
  PROVE  TypeOK' /\ MoveEffect
<1>1. act \in Act /\ doc \in Doc
      BY DEF ActionStored, TypeOK
<1>2. doc' \in Doc
      BY <1>1, ReleasedForm DEF ActionStored, Act, Doc
<1>3. \/ grid' = Kept(grid, seen, doc', act.retry)
      \/ grid' = Edited(grid, seen, doc')
      BY DEF ActionStored
<1>4. act.retry \in BOOLEAN
      BY <1>1 DEF Act
<1>5. grid' \in Grid /\ Moves(grid, grid', seen, doc')
      BY <1>2, <1>3, <1>4, KeptForm, EditedForm DEF TypeOK, Tasks
<1>6. UNCHANGED <<seen, station, storing, calls, sent, inbox, ops>> /\ act' = None
      BY DEF ActionStored, wire
<1>7. MoveEffect
      BY <1>5, <1>6, IntentMoves
<1> QED BY <1>2, <1>5, <1>6, <1>7 DEF TypeOK

LEMMA StopMoves ==
  ASSUME TypeOK, Tasks, Known,
         Stop \/ StopAgain \/ ReleaseStored \/ ActionUndone \/ CommitEquivalent
  PROVE  TypeOK' /\ MoveEffect
<1>0. /\ doc \in Doc /\ seen \in Seen /\ grid \in Grid /\ grid.latest <= grid.epoch
      BY DEF TypeOK, Tasks
<1>1. /\ doc' \in Doc /\ grid' \in Grid /\ Moves(grid, grid', seen, doc')
  <2>1. CASE Stop
        BY <1>0, <2>1, StopReleaseForm DEF Stop
  <2>2. CASE StopAgain
    <3>1. Invalidate(grid, doc) \in Grid /\ Moves(grid, Invalidate(grid, doc), seen, doc)
          BY <1>0, InvalidateForm DEF Moves
    <3>2. PICK h \in Grid : h = Invalidate(grid, doc)
          BY <3>1
    <3>3. grid' = [h EXCEPT !.timer = "none"] /\ doc' = doc
          BY <2>2, <3>2 DEF StopAgain
    <3>4. /\ grid' \in Grid /\ grid'.epoch = h.epoch /\ grid'.outcome = h.outcome
          /\ grid'.uncertain = h.uncertain /\ grid'.confirmed = h.confirmed
          /\ grid'.latest = h.latest /\ grid'.ready = h.ready
          BY <3>2, <3>3 DEF Grid
    <3>5. Moves(grid, grid', seen, doc)
          BY <3>1, <3>2, <3>4 DEF Moves
    <3> QED BY <1>0, <3>3, <3>4, <3>5
  <2>3. CASE ReleaseStored
        BY <1>0, <2>3, ReleaseChangedForm DEF ReleaseStored
  <2>4. CASE ActionUndone
        BY <1>0, <2>4, ReleasedForm, ReleaseChangedForm DEF ActionUndone
  <2>5. CASE CommitEquivalent
    <3>1. grid.retry \in BOOLEAN /\ doc' = doc
          BY <1>0, <2>5 DEF Grid, CommitEquivalent
    <3>2. grid' = Kept(grid, seen, doc, grid.retry) \/ grid' = Edited(grid, seen, doc)
          BY <2>5 DEF CommitEquivalent
    <3> QED BY <1>0, <3>1, <3>2, KeptForm, EditedForm
  <2> QED BY <2>1, <2>2, <2>3, <2>4, <2>5
<1>2. /\ UNCHANGED <<seen, station, calls, sent, inbox>>
      /\ act' \in {act, None} /\ storing' \in BOOLEAN /\ ops' \in 0..MaxOps
      BY Spends DEF Stop, StopAgain, ReleaseStored, ActionUndone, CommitEquivalent, user, wire,
         TypeOK, Enabled, StopRelease
<1>3. MoveEffect
      BY <1>1, <1>2, IntentMoves
<1> QED BY <1>1, <1>2, <1>3 DEF TypeOK

LEMMA FailedMoves ==
  ASSUME TypeOK, Tasks, Known, ActionFailed, ~doc.release \/ doc.phase = "expired"
  PROVE  TypeOK' /\ MoveEffect
<1>0. /\ doc \in Doc /\ seen \in Seen /\ grid \in Grid /\ grid.latest <= grid.epoch
      BY DEF TypeOK, Tasks
<1>1. /\ doc' \in Doc /\ grid' \in Grid /\ Moves(grid, grid', seen, doc') /\ storing' \in BOOLEAN
  <2>1. CASE ~doc.release
        BY <1>0, <2>1, ReleaseChangedForm DEF ActionFailed, TypeOK
  <2>2. CASE doc.release /\ doc.phase = "expired"
        BY <1>0, <2>2, StopReleaseForm DEF ActionFailed
  <2> QED BY <2>1, <2>2
<1>2. UNCHANGED <<seen, station, calls, sent, inbox>> /\ act' = None /\ ops' \in 0..MaxOps
      BY EnabledSpends DEF ActionFailed, wire
<1>3. MoveEffect
      BY <1>1, <1>2, IntentMoves
<1> QED BY <1>1, <1>2, <1>3 DEF TypeOK

LEMMA ExpiryMoves ==
  ASSUME TypeOK, Tasks, Known, DeadlineFires, doc.phase = "expired"
  PROVE  TypeOK' /\ MoveEffect
<1> DEFINE g == [grid EXCEPT !.timer = "none"]
<1>0. /\ doc \in Doc /\ seen \in Seen /\ grid \in Grid /\ grid.latest <= grid.epoch
      BY DEF TypeOK, Tasks
<1>1. /\ g \in Grid /\ g.latest <= g.epoch /\ g.epoch = grid.epoch /\ g.latest = grid.latest
      /\ g.ready = grid.ready /\ g.confirmed = grid.confirmed /\ g.uncertain = grid.uncertain
      BY <1>0 DEF Grid
<1>2. StopRelease(g) /\ UNCHANGED <<seen, station, act, calls, sent, inbox, ops>>
      BY DEF DeadlineFires, wire
<1> HIDE DEF g
<1>3. doc' \in Doc /\ grid' \in Grid /\ storing' = TRUE /\ Moves(g, grid', seen, doc')
      BY <1>0, <1>1, <1>2, StopReleaseForm
<1>4. Moves(grid, grid', seen, doc')
      BY <1>1, <1>3 DEF Moves
<1>5. MoveEffect
      BY <1>2, <1>3, <1>4, IntentMoves
<1> QED BY <1>2, <1>3, <1>5 DEF TypeOK

LEMMA SeenForm ==
  ASSUME NEW s \in Seen, NEW a \in {"remote", "local", "unknown"}, NEW b \in BOOLEAN, NEW c \in BOOLEAN
  PROVE  /\ [s EXCEPT !.authority = a] \in Seen
         /\ [s EXCEPT !.enabled = b] \in Seen /\ [s EXCEPT !.capable = c] \in Seen
         /\ [s EXCEPT !.authority = a].tx = s.tx
         /\ [s EXCEPT !.enabled = b].tx = s.tx /\ [s EXCEPT !.capable = c].tx = s.tx
         /\ \A r \in {[s EXCEPT !.authority = a], [s EXCEPT !.enabled = b], [s EXCEPT !.capable = c]} :
              r.gen = s.gen /\ r.link = s.link
BY DEF Seen

LEMMA SeenTxForm ==
  ASSUME NEW s \in Seen, NEW tx \in Transactions \cup {None}
  PROVE  /\ [s EXCEPT !.tx = tx] \in Seen /\ [s EXCEPT !.tx = tx].tx = tx
         /\ [s EXCEPT !.tx = tx].gen = s.gen /\ [s EXCEPT !.tx = tx].link = s.link
BY DEF Seen

(* A handler that ends in Grid.changed, after what it has observed. *)
LEMMA ChangedMoves ==
  ASSUME TypeOK, Tasks, Known, doc' \in Doc, seen' \in Seen, station' \in Station,
         NEW fresh \in BOOLEAN, grid' = Changed(grid, seen', doc', fresh),
         UNCHANGED <<calls, sent>>, inbox' \in {inbox, <<>>},
         seen'.tx \in {None, station'.tx}, station.past \subseteq station'.past,
         station'.tx # None => station'.tx \in station'.past,
         \/ seen'.gen = seen.gen /\ seen'.link = seen.link
         \/ ~Eligible(seen') /\ (seen'.link => seen'.gen # seen.gen),
         \/ station'.tx \in {station.tx, None} /\ station'.offer = station.offer
         \/ station'.tx # None /\ station'.tx \notin station.past
  PROVE  grid' \in Grid /\ MoveEffect
<1>0. grid \in Grid /\ grid.latest <= grid.epoch
      BY DEF TypeOK, Tasks
<1>1. /\ grid' \in Grid /\ Moves(grid, grid', seen', doc')
      /\ ~Eligible(seen') /\ (~seen'.link \/ (grid.confirmed # None /\ grid.confirmed.gen # seen'.gen))
           => grid'.confirmed = None
      BY <1>0, ChangedForm
<1>2. grid'.confirmed \in {grid.confirmed, None}
      BY <1>1 DEF Moves
<1>3. grid'.confirmed # None => seen'.gen = seen.gen /\ seen'.link
      BY <1>1, <1>2 DEF Known
<1> QED BY <1>1, <1>3 DEF MoveEffect, Observing

LEMMA ObservedMoves ==
  ASSUME TypeOK, Tasks, Known,
         \/ \E authority \in {"remote", "local"} : AuthoritySeen(authority)
         \/ CapabilitySeen \/ TxStart \/ TxSeen \/ (TxEnd /\ seen.tx # None)
         \/ PermissionSeen(FALSE)
  PROVE  TypeOK' /\ MoveEffect
<1>0. /\ doc \in Doc /\ seen \in Seen /\ grid \in Grid /\ station \in Station
      BY DEF TypeOK
<1>1. CASE \E authority \in {"remote", "local"} : AuthoritySeen(authority)
  <2>1. PICK a \in {"remote", "local"} : AuthoritySeen(a)
        BY <1>1
  <2>2. /\ seen' = [seen EXCEPT !.authority = a] /\ doc' \in {doc, Released(doc)}
        /\ grid' = Changed(grid, seen', doc', FALSE)
        /\ UNCHANGED <<station, act, storing, calls, sent, inbox>>
        BY <2>1 DEF AuthoritySeen, user, wire
  <2>3. ops' \in 0..MaxOps
        BY <2>1, EnabledSpends DEF AuthoritySeen, TypeOK
  <2>4. /\ seen' \in Seen /\ seen'.tx = seen.tx /\ seen'.gen = seen.gen /\ seen'.link = seen.link
    <3>1. a \in {"remote", "local", "unknown"} /\ seen' = [seen EXCEPT !.authority = a] /\ seen \in Seen
          BY <1>0, <2>2
    <3> QED BY <3>1 DEF Seen
  <2>5. doc' \in Doc
        BY <1>0, <2>2, ReleasedForm
  <2>6. grid' \in Grid /\ MoveEffect
        BY <1>0, <2>2, <2>4, <2>5, ChangedMoves DEF Known
  <2> QED BY <2>2, <2>3, <2>4, <2>5, <2>6 DEF TypeOK
<1>2. CASE CapabilitySeen
  <2>1. PICK c \in BOOLEAN : c = ~seen.capable
        BY <1>0 DEF Seen
  <2>2. /\ seen' = [seen EXCEPT !.capable = c] /\ UNCHANGED <<doc, station, act, storing, calls, sent, inbox>>
        /\ grid' = Changed(grid, seen', doc, FALSE)
        BY <1>2, <2>1 DEF CapabilitySeen, Observe, user, wire
  <2>3. ops' \in 0..MaxOps
        BY <1>2, EnabledSpends DEF CapabilitySeen
  <2>4. /\ seen' \in Seen /\ seen'.tx = seen.tx /\ seen'.gen = seen.gen /\ seen'.link = seen.link
        BY <1>0, <2>2, SeenForm
  <2>5. grid' \in Grid /\ MoveEffect
        BY <1>0, <2>2, <2>4, ChangedMoves DEF Known
  <2> QED BY <2>2, <2>3, <2>4, <2>5 DEF TypeOK
<1>3. CASE TxStart
  <2>1. PICK tx \in Transactions \ station.past, offer \in Own :
          /\ station' = [offer |-> offer, tx |-> tx, past |-> station.past \cup {tx}]
          /\ seen' = [seen EXCEPT !.tx = tx] /\ grid' = Changed(grid, seen', doc, FALSE)
          /\ UNCHANGED <<doc, act, storing, calls, sent, inbox>> /\ Spend
        BY <1>3 DEF TxStart, Observe, user, wire
  <2>2. /\ station' \in Station /\ station'.tx = tx /\ station'.past = station.past \cup {tx}
        BY <1>0, <2>1, OwnAssumption DEF Station
  <2>3. /\ seen' \in Seen /\ seen'.tx = tx /\ seen'.gen = seen.gen /\ seen'.link = seen.link
        BY <1>0, <2>1, SeenTxForm
  <2>4. tx # None
        BY TransactionsAssumption
  <2>5. grid' \in Grid /\ MoveEffect
        BY <1>0, <2>1, <2>2, <2>3, <2>4, ChangedMoves
  <2> QED BY <2>1, <2>2, <2>3, <2>5, Spends DEF TypeOK
<1>4. CASE TxSeen
  <2>1. /\ seen' = [seen EXCEPT !.tx = station.tx] /\ grid' = Changed(grid, seen', doc, FALSE)
        /\ UNCHANGED <<doc, station, act, storing, calls, sent, inbox, ops>>
        BY <1>4 DEF TxSeen, Observe, user, wire
  <2>2. station.tx \in Transactions \cup {None}
        BY <1>0 DEF Station
  <2>3. /\ seen' \in Seen /\ seen'.tx = station.tx /\ seen'.gen = seen.gen /\ seen'.link = seen.link
        BY <1>0, <2>1, <2>2, SeenTxForm
  <2>4. grid' \in Grid /\ MoveEffect
        BY <1>0, <2>1, <2>3, ChangedMoves DEF Known
  <2> QED BY <2>1, <2>3, <2>4 DEF TypeOK
<1>5. CASE TxEnd /\ seen.tx # None
  <2>1. /\ seen' = [seen EXCEPT !.tx = None] /\ grid' = Changed(grid, seen', doc, FALSE)
        /\ station' = [station EXCEPT !.tx = None]
        /\ UNCHANGED <<doc, act, storing, calls, sent, inbox>> /\ Spend
        BY <1>5 DEF TxEnd, Observe, user, wire
  <2>2. /\ station' \in Station /\ station'.tx = None /\ station'.past = station.past
        /\ station'.offer = station.offer
        BY <1>0, <2>1 DEF Station
  <2>3. /\ seen' \in Seen /\ seen'.tx = None /\ seen'.gen = seen.gen /\ seen'.link = seen.link
        BY <1>0, <2>1, SeenTxForm
  <2>4. grid' \in Grid /\ MoveEffect
        BY <1>0, <2>1, <2>2, <2>3, ChangedMoves
  <2> QED BY <2>1, <2>2, <2>3, <2>4, Spends DEF TypeOK
<1>6. CASE PermissionSeen(FALSE)
  <2>1. /\ seen' = [seen EXCEPT !.enabled = FALSE] /\ grid' = Invalidate(grid, doc)
        /\ UNCHANGED <<doc, station, act, storing, calls, sent, inbox>> /\ Enabled("permission")
        BY <1>6 DEF PermissionSeen, user, wire
  <2>2. /\ seen' \in Seen /\ seen'.tx = seen.tx /\ seen'.gen = seen.gen /\ seen'.link = seen.link
        BY <1>0, <2>1, SeenForm
  <2>3. grid' \in Grid /\ Moves(grid, grid', seen', doc') /\ grid'.confirmed = grid.confirmed
        BY <1>0, <2>1, InvalidateForm DEF Moves
  <2>4. MoveEffect
        BY <2>1, <2>2, <2>3 DEF MoveEffect, Observing, Known
  <2> QED BY <2>1, <2>2, <2>3, <2>4, EnabledSpends DEF TypeOK
<1> QED BY <1>1, <1>2, <1>3, <1>4, <1>5, <1>6

LEMMA UnseenForm ==
  ASSUME seen \in Seen, NEW link \in BOOLEAN, NEW gen \in Nat
  PROVE  /\ Unseen(link, gen) \in Seen /\ Unseen(link, gen).tx = None
         /\ Unseen(link, gen).link = link /\ Unseen(link, gen).gen = gen
         /\ ~Eligible(Unseen(link, gen))
BY DEF Unseen, Seen, Eligible

LEMMA RegisterMoves ==
  ASSUME TypeOK, Tasks, Known, Register
  PROVE  TypeOK' /\ MoveEffect
<1>1. /\ doc \in Doc /\ seen \in Seen /\ grid \in Grid /\ station \in Station /\ seen.gen \in Nat
      /\ inbox \in Seq(Msg)
      BY DEF TypeOK, Seen
<1>2. /\ seen' = Unseen(TRUE, seen.gen + 1) /\ grid' = Changed(grid, seen', doc, TRUE)
      /\ UNCHANGED <<doc, station, act, storing, calls, sent>> /\ inbox' \in {inbox, <<>>}
      BY DEF Register, user
<1>3. ops' \in 0..MaxOps
      BY EnabledSpends DEF Register, TypeOK
<1>a. PICK n \in Nat : n = seen.gen + 1 /\ n # seen.gen
      BY <1>1
<1>4. seen' \in Seen /\ seen'.tx = None /\ seen'.gen # seen.gen /\ ~Eligible(seen')
      BY <1>1, <1>2, <1>a, UnseenForm
<1>5. grid' \in Grid /\ MoveEffect
      BY <1>1, <1>2, <1>4, ChangedMoves DEF Known
<1>6. <<>> \in Seq(Msg)
      OBVIOUS
<1> QED BY <1>1, <1>2, <1>3, <1>4, <1>5, <1>6 DEF TypeOK

LEMMA MovesTasks ==
  ASSUME TypeOK, TypeOK', Tasks, OnWire, MoveEffect
  PROVE  Tasks' /\ OnWire'
<1>0. /\ grid \in Grid /\ grid' \in Grid /\ seen' \in Seen /\ doc' \in Doc /\ calls \in Seq(Task)
      /\ grid.ready \in Seq(Task) /\ grid.epoch \in Nat /\ grid.latest \in Nat
      BY DEF TypeOK, Grid
<1>1. OnWire'
      BY DEF OnWire, MoveEffect
<1>2. /\ grid'.epoch = grid.epoch + 1 /\ calls' = calls
      BY DEF MoveEffect, Moves
<1>3. \A t \in ToSet(grid.ready) \cup ToSet(calls) : t \in Task /\ t.epoch <= grid.latest
  <2>1. ToSet(grid.ready) \cup ToSet(calls) \subseteq Task
        BY <1>0, AmongType
  <2> QED BY <2>1 DEF Tasks, Live
<1>4. \A t \in ToSet(grid.ready) \cup ToSet(calls) :
         t.epoch <= grid.epoch /\ t.epoch # grid.epoch + 1 /\ Scoped(t)'
      BY <1>0, <1>2, <1>3 DEF Tasks, Task, Scoped
<1>5. CASE grid'.latest = grid.latest /\ grid'.ready = grid.ready
  <2>1. Live(grid)' = Live(grid)
        BY <1>2, <1>5 DEF Live
  <2>2. grid'.latest <= grid'.epoch
        BY <1>0, <1>2, <1>5 DEF Tasks
  <2> QED BY <1>1, <1>2, <1>4, <1>5, <2>1, <2>2 DEF Tasks, Live
<1>6. CASE /\ Eligible(seen') /\ grid'.latest = grid.epoch + 1
           /\ grid'.ready = Append(grid.ready, NewTask(grid.epoch + 1, seen', doc', FALSE))
  <2>a. NewTask(grid.epoch + 1, seen', doc', FALSE) \in Task
    <3>1. PICK e \in Nat : e = grid.epoch + 1
          BY <1>0
    <3> QED BY <1>0, <3>1, NewTaskForm
  <2>1. PICK n \in Task : n = NewTask(grid.epoch + 1, seen', doc', FALSE)
        BY <2>a
  <2>b. grid'.ready = Append(grid.ready, n)
        BY <1>6, <2>1
  <2>2. /\ n.epoch = grid.epoch + 1 /\ n.tx = seen'.tx /\ n.pc = "start" /\ n.got = "none"
        /\ n.found = None
        BY <2>1 DEF NewTask
  <2>3. ToSet(grid'.ready) = ToSet(grid.ready) \cup {n}
        BY <1>0, <2>b, AppendAmong
  <2>4. Apart(grid'.ready, calls')
        BY <1>0, <1>2, <1>4, <2>b, <2>2, ApartSpawns DEF Tasks
  <2>5. Live(grid)' = Live(grid) \cup {n}
        BY <1>2, <2>3 DEF Live
  <2>6. Scoped(n)' /\ Woken(n) /\ n.epoch <= grid'.latest
        BY <1>0, <1>6, <2>2 DEF Scoped, Woken, AnswersTo
  <2>7. \A t \in Live(grid)' : t.epoch <= grid'.latest /\ Scoped(t)'
    <3>1. \A t \in Live(grid) : t.epoch <= grid'.latest /\ Scoped(t)'
      <4>1. \A t \in Live(grid) : t.epoch \in Nat /\ t.epoch <= grid.epoch /\ Scoped(t)'
            BY <1>3, <1>4 DEF Live, Task
      <4>2. grid'.latest = grid.epoch + 1
            BY <1>6
      <4> HIDE DEF Live, Scoped
      <4> QED BY <1>0, <4>1, <4>2
    <3> QED BY <2>5, <2>6, <3>1
  <2>8. grid'.latest <= grid'.epoch
        BY <1>0, <1>2, <1>6
  <2> QED BY <1>2, <2>3, <2>4, <2>6, <2>7, <2>8, <1>1 DEF Tasks
<1> QED BY <1>5, <1>6 DEF MoveEffect, Moves

LEMMA MovesKnown ==
  ASSUME TypeOK, TypeOK', Known, MoveEffect
  PROVE  Known'
BY DEF Known, MoveEffect, Moves, Observing

-----------------------------------------------------------------------------
(* The steps that leave the epoch alone and let no task go on. *)

Keeps(g, h) == Alike(g, h) /\ h.latest = g.latest /\ h.ready = g.ready

(* Business time goes forward; an approval that is being undone is all     *)
(* that takes a release without a new epoch.                               *)
Aging ==
  /\ doc'.phase # doc.phase => doc.phase # "expired" /\ doc'.phase # "waiting"
  /\ doc.release \/ Undoing => doc'.release \/ Undoing'
  /\ Undoing => Undoing'

SameEffect ==
  /\ UNCHANGED <<calls, sent, inbox>>
  /\ \/ Keeps(grid, grid')
     \/ \E c \in BOOLEAN : /\ Spawns(grid, grid', seen', doc', c)
                           /\ c => grid.status = "accepted_unconfirmed"
  /\ seen'.tx = seen.tx /\ seen'.gen = seen.gen /\ seen'.link = seen.link
  /\ seen'.authority = seen.authority /\ (seen.enabled => seen'.enabled)
  /\ station'.offer = station.offer /\ station'.past = station.past
  /\ station'.tx \in {station.tx, None} /\ (seen.tx # None => station'.tx = station.tx)
  /\ Aging

LEMMA DocMoves ==
  ASSUME TypeOK, StartDue \/ EndDue \/ ActionSuperseded
  PROVE  TypeOK' /\ SameEffect
<1>1. /\ UNCHANGED <<seen, station, grid, storing, calls, sent, inbox>> /\ ops' \in 0..MaxOps
      BY EnabledSpends DEF StartDue, EndDue, ActionSuperseded, user, wire, TypeOK
<1>2. /\ doc' \in Doc /\ act' \in Act \cup {None} /\ Aging
  <2>1. CASE StartDue \/ EndDue
        BY <2>1 DEF StartDue, EndDue, TypeOK, Doc, Aging, Undoing, user
  <2>2. CASE ActionSuperseded
    <3>1. act \in Act /\ act' = [act EXCEPT !.kind = "undo"]
          BY <2>2 DEF ActionSuperseded, TypeOK
    <3>2. act' \in Act /\ act'.kind = "undo"
          BY <3>1 DEF Act
    <3>3. act' # None
          BY <3>2, NoneAssumption
    <3>4. doc' \in Doc /\ doc'.phase = doc.phase
          BY <2>2 DEF ActionSuperseded, TypeOK, Doc
    <3>5. Undoing'
          BY <3>2, <3>3 DEF Undoing
    <3> QED BY <3>2, <3>4, <3>5 DEF Aging
  <2> QED BY <2>1, <2>2
<1> QED BY <1>1, <1>2 DEF TypeOK, SameEffect, Keeps, Alike

LEMMA KeptMoves ==
  ASSUME TypeOK,
         \/ ReleaseNotStored \/ (TxEnd /\ seen.tx = None) \/ PermissionSeen(TRUE)
         \/ (ActionFailed /\ doc.release /\ doc.phase # "expired")
  PROVE  TypeOK' /\ SameEffect
<1>0. /\ doc \in Doc /\ seen \in Seen /\ grid \in Grid /\ station \in Station
      BY DEF TypeOK
<1>1. CASE ReleaseNotStored
      BY <1>1, EnabledSpends DEF ReleaseNotStored, TypeOK, SameEffect, Keeps, Alike, Aging, Undoing, wire
<1>2. CASE TxEnd /\ seen.tx = None
  <2>1. /\ station' = [station EXCEPT !.tx = None] /\ UNCHANGED <<doc, seen, grid, act, storing, calls, sent, inbox>>
        BY <1>2 DEF TxEnd, user, wire
  <2>2. /\ station' \in Station /\ station'.offer = station.offer /\ station'.past = station.past
        /\ station'.tx = None
        BY <1>0, <2>1 DEF Station
  <2> QED BY <1>2, <2>1, <2>2, Spends DEF TxEnd, TypeOK, SameEffect, Keeps, Alike, Aging, Undoing
<1>3. CASE PermissionSeen(TRUE)
  <2>1. /\ seen' = [seen EXCEPT !.enabled = TRUE]
        /\ UNCHANGED <<doc, station, grid, act, storing, calls, sent, inbox>>
        BY <1>3 DEF PermissionSeen, user, wire
  <2>2. ops' \in 0..MaxOps
        BY <1>3, EnabledSpends DEF PermissionSeen, TypeOK
  <2>3. /\ seen' \in Seen /\ seen'.tx = seen.tx /\ seen'.gen = seen.gen /\ seen'.link = seen.link
        /\ seen'.authority = seen.authority /\ seen'.enabled
        BY <1>0, <2>1 DEF Seen
  <2> QED BY <2>1, <2>2, <2>3 DEF TypeOK, SameEffect, Keeps, Alike, Aging, Undoing
<1>4. CASE ActionFailed /\ doc.release /\ doc.phase # "expired"
  <2>1. PICK r \in BOOLEAN : r <=> Schedule(grid, doc).retry \/ (act.retry /\ Eligible(seen))
        OBVIOUS
  <2>2. PICK h \in Grid : /\ h = Schedule(grid, doc) /\ Alike(grid, h)
                          /\ h.latest = grid.latest /\ h.ready = grid.ready
        BY <1>0, ScheduleForm
  <2>3. /\ act \in Act /\ act.kind # "undo" /\ act' = None
        /\ UNCHANGED <<doc, seen, station, storing, calls, sent, inbox>>
        BY <1>4 DEF ActionFailed, TypeOK, wire
  <2>4. h.retry \in BOOLEAN /\ act.retry \in BOOLEAN
        BY <2>2, <2>3 DEF Grid, Act
  <2>5. grid' = [h EXCEPT !.retry = r]
        BY <1>4, <2>1, <2>2, <2>4 DEF ActionFailed, Eligible
  <2>6. grid' \in Grid /\ Keeps(grid, grid')
        BY <2>2, <2>5 DEF Grid, Keeps, Alike
  <2>7. ops' \in 0..MaxOps
        BY <1>4, EnabledSpends DEF ActionFailed
  <2> QED BY <2>3, <2>6, <2>7 DEF TypeOK, SameEffect, Aging, Undoing
<1> QED BY <1>1, <1>2, <1>3, <1>4

(* A retry or a deadline spawns a task, unless one is there or none may be. *)
LEMMA LaunchSpawns ==
  ASSUME TypeOK, RetryFires \/ (DeadlineFires /\ doc.phase # "expired")
  PROVE  /\ grid' \in Grid /\ Spawns(grid, grid', seen', doc', FALSE)
         /\ UNCHANGED <<doc, seen, station, act, storing, calls, sent, inbox, ops>>
<1>0. /\ doc \in Doc /\ seen \in Seen /\ grid \in Grid
      BY DEF TypeOK
<1>1. CASE RetryFires
  <2>a. [grid EXCEPT !.retry = FALSE] \in Grid /\ Keeps(grid, [grid EXCEPT !.retry = FALSE])
        BY <1>0 DEF Grid, Keeps, Alike
  <2>1. PICK h \in Grid : h = [grid EXCEPT !.retry = FALSE] /\ Keeps(grid, h)
        BY <2>a
  <2>2. /\ grid' = Launch(h, seen, doc, FALSE)
        /\ UNCHANGED <<doc, seen, station, act, storing, calls, sent, inbox, ops>>
        BY <1>1, <2>1 DEF RetryFires, user, wire
  <2>3. grid' \in Grid /\ Spawns(h, grid', seen, doc, FALSE)
        BY <1>0, <2>2, LaunchForm
  <2>4. Spawns(grid, grid', seen', doc', FALSE)
    <3>1. h.epoch = grid.epoch /\ h.latest = grid.latest /\ h.ready = grid.ready /\ Alike(grid, h)
          BY <2>1 DEF Keeps, Alike
    <3>2. Busy(h) <=> Busy(grid)
          BY <3>1 DEF Busy, Live
    <3>3. Alike(grid, grid')
          BY <2>3, <3>1 DEF Spawns, Alike
    <3>4. seen' = seen /\ doc' = doc
          BY <2>2
    <3> HIDE DEF Alike
    <3> QED BY <2>3, <3>1, <3>2, <3>3, <3>4 DEF Spawns
  <2> QED BY <2>2, <2>3, <2>4
<1>2. CASE DeadlineFires /\ doc.phase # "expired"
  <2>1. PICK h \in Grid : h = Launch(grid, seen, doc, FALSE) /\ Spawns(grid, h, seen, doc, FALSE)
        BY <1>0, LaunchForm
  <2>2. /\ grid' = Schedule(h, doc)
        /\ UNCHANGED <<doc, seen, station, act, storing, calls, sent, inbox, ops>>
        BY <1>2, <2>1 DEF DeadlineFires, wire
  <2>3. grid' \in Grid /\ Alike(h, grid') /\ grid'.latest = h.latest /\ grid'.ready = h.ready
        BY <1>0, <2>2, ScheduleForm
  <2>4. Spawns(grid, grid', seen', doc', FALSE)
        BY <2>1, <2>2, <2>3 DEF Spawns, Alike
  <2> QED BY <2>2, <2>3, <2>4
<1> QED BY <1>1, <1>2

LEMMA LaunchMoves ==
  ASSUME TypeOK,
         \/ PhaseSeen \/ RetryFires
         \/ (DeadlineFires /\ doc.phase # "expired")
  PROVE  TypeOK' /\ SameEffect
<1>0. /\ doc \in Doc /\ seen \in Seen /\ grid \in Grid /\ station \in Station
      BY DEF TypeOK
<1>1. CASE PhaseSeen
  <2>1. /\ seen' = [seen EXCEPT !.phases = station.offer.phases] /\ grid' = PhasesSeen(grid, seen')
        /\ UNCHANGED <<doc, station, act, storing, calls, sent, inbox, ops>>
        BY <1>1 DEF PhaseSeen, user, wire
  <2>2. station.offer \in Offer
        BY <1>0 DEF Station
  <2>3. station.offer.phases \in 0..3
    <3>1. station.offer \in [amps: Nat, phases: 1..3]
          BY <2>2, OfferForm
    <3> QED BY <3>1
  <2>4. /\ seen' \in Seen /\ seen'.tx = seen.tx /\ seen'.gen = seen.gen /\ seen'.link = seen.link
        /\ seen'.authority = seen.authority /\ seen'.enabled = seen.enabled
        BY <1>0, <2>1, <2>3 DEF Seen
  <2>5. /\ grid' \in Grid
        /\ \/ Keeps(grid, grid')
           \/ Spawns(grid, grid', seen', doc', TRUE) /\ grid.status = "accepted_unconfirmed"
    <3>1. CASE grid.status = "accepted_unconfirmed"
      <4>1. grid' = Launch(grid, seen', doc, TRUE) /\ doc' = doc
            BY <2>1, <3>1 DEF PhasesSeen
      <4> QED BY <1>0, <2>4, <3>1, <4>1, LaunchForm
    <3>2. CASE grid.status # "accepted_unconfirmed"
          BY <1>0, <2>1, <3>2 DEF PhasesSeen, Keeps, Alike
    <3> QED BY <3>1, <3>2
  <2>6. Aging
        BY <2>1 DEF Aging, Undoing
  <2> QED BY <2>1, <2>4, <2>5, <2>6 DEF TypeOK, SameEffect
<1>2. CASE RetryFires \/ (DeadlineFires /\ doc.phase # "expired")
  <2>1. /\ grid' \in Grid /\ Spawns(grid, grid', seen', doc', FALSE)
        /\ UNCHANGED <<doc, seen, station, act, storing, calls, sent, inbox, ops>>
        BY <1>2, LaunchSpawns
  <2>2. Aging
        BY <2>1 DEF Aging, Undoing
  <2> QED BY <2>1, <2>2 DEF TypeOK, SameEffect
<1> QED BY <1>1, <1>2

LEMMA SameKnown ==
  ASSUME TypeOK, TypeOK', Known, SameEffect
  PROVE  Known'
<1>1. grid'.confirmed = grid.confirmed
      BY DEF SameEffect, Keeps, Spawns, Alike
<1> QED BY <1>1 DEF Known, SameEffect

LEMMA SpawnsTasks ==
  ASSUME TypeOK, TypeOK', Tasks, NEW c \in BOOLEAN, Spawns(grid, grid', seen', doc', c),
         calls' = calls, Eligible(seen') <=> Eligible(seen), seen'.tx = seen.tx
  PROVE  Tasks'
<1>0. /\ grid \in Grid /\ seen' \in Seen /\ doc' \in Doc /\ calls \in Seq(Task)
      /\ grid.ready \in Seq(Task) /\ grid.epoch \in Nat /\ grid.latest \in Nat
      BY DEF TypeOK, Grid
<1>1. grid'.epoch = grid.epoch
      BY DEF Spawns, Alike
<1>2. \A t \in Live(grid) : t \in Task /\ t.epoch \in Nat /\ t.epoch <= grid.latest /\ Scoped(t)'
  <2>1. Live(grid) \subseteq Task
        BY <1>0, AmongType DEF Live
  <2> QED BY <1>1, <2>1 DEF Tasks, Scoped, Task
<1>3. CASE grid'.latest = grid.latest /\ grid'.ready = grid.ready
      BY <1>1, <1>2, <1>3 DEF Tasks, Live
<1>4. CASE /\ Eligible(seen') /\ ~(grid.latest = grid.epoch /\ Busy(grid))
           /\ grid'.latest = grid.epoch
           /\ grid'.ready = Append(grid.ready, NewTask(grid.epoch, seen', doc', c))
  <2>1. PICK n \in Task : n = NewTask(grid.epoch, seen', doc', c)
        BY <1>0, NewTaskForm
  <2>2. /\ n.epoch = grid.epoch /\ n.tx = seen'.tx /\ n.pc = "start" /\ n.got = "none"
        /\ n.found = None
        BY <2>1 DEF NewTask
  <2>3. grid'.ready = Append(grid.ready, n)
        BY <1>4, <2>1
  <2>4. ToSet(grid'.ready) = ToSet(grid.ready) \cup {n}
        BY <1>0, <2>3, AppendAmong
  <2>5. \A t \in Live(grid) : t.epoch # n.epoch
        BY <1>0, <1>2, <1>4, <2>2 DEF Busy, Tasks
  <2>6. Apart(grid'.ready, calls')
        BY <1>0, <2>3, <2>5, ApartSpawns DEF Tasks, Live
  <2>7. Live(grid)' = Live(grid) \cup {n}
        BY <2>4 DEF Live
  <2>8. Scoped(n)' /\ Woken(n) /\ n.epoch <= grid'.latest
        BY <1>0, <1>4, <2>2 DEF Scoped, Woken, AnswersTo
  <2>9. \A t \in Live(grid)' : t.epoch <= grid'.latest /\ Scoped(t)'
    <3>1. grid.latest <= grid'.latest
          BY <1>0, <1>4 DEF Tasks
    <3>2. \A t \in Live(grid) : t.epoch <= grid'.latest /\ Scoped(t)'
      <4> HIDE DEF Live, Scoped
      <4>1. grid'.latest \in Nat
            BY <1>0, <1>4
      <4> QED BY <1>0, <1>2, <3>1, <4>1
    <3> QED BY <2>7, <2>8, <3>2
  <2> QED BY <1>0, <1>1, <1>4, <2>4, <2>6, <2>8, <2>9 DEF Tasks
<1> QED BY <1>3, <1>4 DEF Spawns

LEMMA SameTasks ==
  ASSUME TypeOK, TypeOK', Tasks, OnWire, SameEffect
  PROVE  Tasks' /\ OnWire'
<1>1. OnWire'
      BY DEF OnWire, SameEffect
<1>2. (Eligible(seen') <=> Eligible(seen)) /\ seen'.tx = seen.tx /\ calls' = calls
      BY DEF SameEffect, Eligible
<1>3. CASE Keeps(grid, grid')
      BY <1>1, <1>2, <1>3 DEF Keeps, Alike, Tasks, Live, Scoped
<1>4. CASE \E c \in BOOLEAN : Spawns(grid, grid', seen', doc', c)
      BY <1>1, <1>2, <1>4, SpawnsTasks
<1> QED BY <1>3, <1>4 DEF SameEffect

-----------------------------------------------------------------------------
(* The wire *)

LEMMA ReplyForm ==
  ASSUME NEW t \in Task, NEW got \in Outcome, NEW found \in Offer \cup {None}
  PROVE  /\ Reply(t, got, found) \in Task /\ Reply(t, got, found).epoch = t.epoch
         /\ Reply(t, got, found).tx = t.tx /\ Reply(t, got, found).pc = t.pc
         /\ Reply(t, got, found).got = got /\ Reply(t, got, found).found = found
         /\ Reply(t, got, found).want = t.want /\ Reply(t, got, found).began = t.began
         /\ Reply(t, got, found).confirmOnly = t.confirmOnly
BY DEF Reply, Task

(* The head of the calls goes on with an answer. *)
Wakes(got, found) ==
  /\ calls # <<>> /\ calls' = Tail(calls)
  /\ grid' = [grid EXCEPT !.ready = Append(@, Reply(Head(calls), got, found))]

LEMMA WakesForm ==
  ASSUME TypeOK, Tasks, NEW got \in Outcome, NEW found \in Offer \cup {None}, Wakes(got, found),
         seen' = seen, got \in AnswersTo(Head(calls).pc), found # None => got = "read"
  PROVE  /\ calls' \in Seq(Task) /\ grid' \in Grid /\ Tasks'
         /\ Head(calls) \in Task /\ Head(calls) \in ToSet(calls)
         /\ Alike(grid, grid') /\ grid'.latest = grid.latest
         /\ grid'.ready = Append(grid.ready, Reply(Head(calls), got, found))
<1>0. /\ grid \in Grid /\ calls \in Seq(Task) /\ grid.ready \in Seq(Task) /\ calls # <<>>
      BY DEF TypeOK, Grid, Wakes
<1>1. Head(calls) \in Task /\ calls' \in Seq(Task) /\ ToSet(calls) = {Head(calls)} \cup ToSet(calls')
      BY <1>0, HeadAmong DEF Wakes
<1>2. PICK n \in Task : n = Reply(Head(calls), got, found)
      BY <1>1, ReplyForm
<1>3. n.epoch = Head(calls).epoch /\ n.tx = Head(calls).tx /\ Woken(n)
      BY <1>1, <1>2, ReplyForm DEF Woken
<1>4. PICK r \in Seq(Task) : r = Append(grid.ready, n)
  <2>1. Append(grid.ready, n) \in Seq(Task)
        BY <1>0, AppendElements
  <2> QED BY <2>1
<1>5. grid' = [grid EXCEPT !.ready = r]
      BY <1>2, <1>4 DEF Wakes
<1>6. grid' \in Grid /\ Alike(grid, grid') /\ grid'.latest = grid.latest /\ grid'.ready = r
      BY <1>0, <1>5 DEF Grid, Alike
<1>7. ToSet(r) = ToSet(grid.ready) \cup {n}
      BY <1>0, <1>4, AppendAmong
<1>8. Apart(grid'.ready, calls')
      BY <1>0, <1>1, <1>3, <1>4, <1>6, ApartWakes DEF Tasks, Wakes
<1>9. \A t \in Live(grid)' : t.epoch <= grid'.latest /\ Scoped(t)'
  <2>1. \A t \in Live(grid)' : t = n \/ t \in Live(grid)
        BY <1>1, <1>6, <1>7 DEF Live
  <2>2. n.epoch <= grid.latest /\ (n.epoch = grid.epoch => Eligible(seen) /\ n.tx = seen.tx)
        BY <1>1, <1>3 DEF Tasks, Live, Scoped
  <2>3. \A t \in Live(grid) : t.epoch <= grid'.latest /\ Scoped(t)'
        BY <1>6 DEF Tasks, Scoped, Alike
  <2>4. n.epoch <= grid'.latest /\ Scoped(n)'
        BY <1>6, <2>2 DEF Scoped, Alike
  <2> QED BY <2>1, <2>3, <2>4
<1>10. /\ \A t \in ToSet(grid'.ready) : Woken(t)
       /\ \A t \in ToSet(calls') : Waits(t)
      BY <1>1, <1>3, <1>6, <1>7 DEF Tasks
<1>11. Tasks'
      BY <1>6, <1>8, <1>9, <1>10 DEF Tasks, Alike
<1> QED BY <1>1, <1>2, <1>4, <1>6, <1>11

HandleEffect(m, got, found) ==
  /\ inbox # <<>> /\ m = Head(inbox) /\ inbox' = Tail(inbox)
  /\ IF m.live THEN Wakes(got, found) /\ ~sent' ELSE UNCHANGED <<grid, calls, sent>>
  /\ \/ m.kind # "set" /\ got = "read" /\ found \in {station.offer, None} /\ station' = station
     \/ /\ m.kind = "set" /\ got = "accepted" /\ found = None
        /\ station' = [station EXCEPT !.offer = Carried(@, m.point)]
     \/ m.kind = "set" /\ got \in Refusal /\ found = None /\ station' = station
  /\ UNCHANGED <<doc, seen, act, storing>>

LEMMA HandlesForm ==
  ASSUME TypeOK, Tasks, OnWire, StationHandles
  PROVE  \E m \in Msg, got \in Outcome, found \in Offer \cup {None} : HandleEffect(m, got, found)
<1>1. /\ inbox \in Seq(Msg) /\ inbox # <<>> /\ station \in Station /\ station.offer \in Offer
      BY DEF TypeOK, StationHandles, Station
<1>2. PICK m \in Msg : m = Head(inbox) /\ 1 \in DOMAIN inbox /\ m = inbox[1]
      BY <1>1, TailElements
<1>3. m.live => calls # <<>>
      BY <1>2 DEF OnWire
<1>4. \A got, found : Answer(got, found) =>
         IF m.live THEN Wakes(got, found) /\ ~sent' ELSE UNCHANGED <<grid, calls, sent>>
      BY <1>2, <1>3 DEF Answer, Deliver, Wakes
<1>5. inbox' = Tail(inbox) /\ UNCHANGED <<doc, seen, act, storing>>
      BY DEF StationHandles, user
<1>6. \E got \in Outcome, found \in Offer \cup {None} :
         /\ Answer(got, found)
         /\ \/ m.kind # "set" /\ got = "read" /\ found \in {station.offer, None} /\ station' = station
            \/ /\ m.kind = "set" /\ got = "accepted" /\ found = None
               /\ station' = [station EXCEPT !.offer = Carried(@, m.point)]
            \/ m.kind = "set" /\ got \in Refusal /\ found = None /\ station' = station
  <2>1. {"read", "accepted"} \cup Refusal \subseteq Outcome
        BY DEF Outcome, Refusal
  <2>2. CASE m.kind # "set"
    <3>1. station' = station /\ (Answer("read", station.offer) \/ Answer("read", None))
          BY <1>2, <2>2 DEF StationHandles
    <3> QED BY <1>1, <2>1, <2>2, <3>1
  <2>3. CASE m.kind = "set"
    <3>1. \/ /\ Answer("accepted", None)
             /\ station' = [station EXCEPT !.offer = Carried(@, m.point)]
          \/ (\E got \in Refusal : Answer(got, None)) /\ station' = station
          BY <1>2, <2>3 DEF StationHandles, Refusal
    <3> QED BY <2>1, <2>3, <3>1
  <2> QED BY <2>2, <2>3
<1> QED BY <1>1, <1>2, <1>4, <1>5, <1>6 DEF HandleEffect

LEMMA HandlesMoves ==
  ASSUME TypeOK, Tasks, OnWire, Known, StationHandles
  PROVE  TypeOK' /\ Tasks' /\ OnWire' /\ Known'
<1>1. PICK m \in Msg, got \in Outcome, found \in Offer \cup {None} : HandleEffect(m, got, found)
      BY HandlesForm
<1>0. /\ grid \in Grid /\ station \in Station /\ inbox \in Seq(Msg) /\ m.point \in Wanted
      /\ station.offer \in Offer /\ calls \in Seq(Task)
      BY DEF TypeOK, Msg, Station
<1>2. inbox' \in Seq(Msg) /\ inbox' = Tail(inbox) /\ 1 \in DOMAIN inbox /\ inbox[1] = m
      BY <1>0, <1>1, TailElements DEF HandleEffect
<1>3. station' \in Station /\ station'.tx = station.tx /\ station'.past = station.past
      BY <1>0, <1>1, CarriedForm DEF HandleEffect, Station
<1>4. ops' \in 0..MaxOps
      BY EnabledSpends DEF StationHandles, TypeOK
<1>5. CASE m.live
  <2>1. Len(inbox) = 1 /\ sent /\ m.kind = KindOf(Head(calls).pc) /\ calls # <<>>
        BY <1>2, <1>5 DEF OnWire
  <2>2. inbox' = <<>>
        BY <1>0, <1>2, <2>1
  <2>3. Wakes(got, found) /\ ~sent' /\ seen' = seen
        BY <1>1, <1>5 DEF HandleEffect
  <2>4. Waits(Head(calls))
        BY <1>0, <2>1, HeadAmong DEF Tasks
  <2>5. got \in AnswersTo(Head(calls).pc) /\ (found # None => got = "read")
        BY <1>1, <2>1, <2>4 DEF HandleEffect, AnswersTo, KindOf, Waits
  <2>6. calls' \in Seq(Task) /\ grid' \in Grid /\ Tasks' /\ Alike(grid, grid')
        BY <2>3, <2>5, WakesForm
  <2>7. OnWire'
        BY <2>2, <2>3 DEF OnWire
  <2>8. Known'
        BY <1>3, <2>3, <2>6 DEF Known, Alike
  <2>9. sent' \in BOOLEAN
        BY <1>1, <1>5 DEF StationHandles, Answer, Deliver, HandleEffect
  <2> QED BY <1>1, <1>2, <1>3, <1>4, <2>3, <2>6, <2>7, <2>8, <2>9 DEF TypeOK, HandleEffect
<1>6. CASE ~m.live
  <2>1. UNCHANGED <<grid, calls, sent, seen, doc, act, storing>>
        BY <1>1, <1>6 DEF HandleEffect
  <2>2. Tasks' /\ Known'
        BY <1>3, <2>1 DEF Tasks, Known, Live, Scoped
  <2>3. OnWire'
    <3>1. \A k \in DOMAIN inbox' : k \in Nat /\ k + 1 \in DOMAIN inbox /\ inbox'[k] = inbox[k + 1]
          BY <1>0, <1>2, TailElements
    <3>2. Len(inbox') + 1 = Len(inbox) /\ Len(inbox') \in Nat
          BY <1>0, <1>2, TailElements
    <3> QED BY <2>1, <3>1, <3>2 DEF OnWire
  <2> QED BY <1>2, <1>3, <1>4, <2>1, <2>2, <2>3 DEF TypeOK
<1> QED BY <1>5, <1>6

LEMMA TimeoutMoves ==
  ASSUME TypeOK, Tasks, OnWire, Known, CallTimesOut
  PROVE  /\ TypeOK' /\ Tasks' /\ OnWire' /\ Known' /\ Wakes("timeout", None)
         /\ inbox' \in Seq(Msg) /\ DOMAIN inbox' = DOMAIN inbox /\ ~sent'
         /\ \A k \in DOMAIN inbox : inbox'[k] = [inbox[k] EXCEPT !.live = FALSE] /\ ~inbox'[k].live
<1>0. /\ grid \in Grid /\ inbox \in Seq(Msg) /\ calls \in Seq(Task) /\ calls # <<>>
      BY DEF TypeOK, OnWire, CallTimesOut
<1>1. Wakes("timeout", None) /\ UNCHANGED <<doc, seen, station, act, storing>> /\ ~sent'
      BY <1>0 DEF CallTimesOut, Deliver, Wakes, user
<1>2. Head(calls) \in ToSet(calls)
      BY <1>0, HeadAmong
<1>3. "timeout" \in AnswersTo(Head(calls).pc) /\ "timeout" \in Outcome
      BY <1>2 DEF Tasks, Waits, AnswersTo, Outcome
<1>4. calls' \in Seq(Task) /\ grid' \in Grid /\ Tasks' /\ Alike(grid, grid')
      BY <1>1, <1>3, WakesForm
<1>5. /\ inbox' = [k \in DOMAIN inbox |-> [inbox[k] EXCEPT !.live = FALSE]]
      /\ DOMAIN inbox = 1..Len(inbox) /\ Len(inbox) \in Nat
      BY <1>0 DEF CallTimesOut
<1>6. \A k \in DOMAIN inbox : inbox'[k] \in Msg /\ inbox'[k] = [inbox[k] EXCEPT !.live = FALSE]
                              /\ ~inbox'[k].live
  <2> TAKE k \in DOMAIN inbox
  <2>1. inbox[k] \in Msg /\ inbox'[k] = [inbox[k] EXCEPT !.live = FALSE]
        BY <1>0, <1>5
  <2> QED BY <2>1 DEF Msg
<1>7. inbox' \in Seq(Msg) /\ DOMAIN inbox' = DOMAIN inbox
      BY <1>5, <1>6
<1>8. ops' \in 0..MaxOps /\ sent' \in BOOLEAN
      BY EnabledSpends DEF CallTimesOut, TypeOK, Deliver
<1>9. OnWire'
      BY <1>1, <1>6, <1>7 DEF OnWire
<1>10. Known'
      BY <1>1, <1>4 DEF Known, Alike
<1> QED BY <1>1, <1>4, <1>6, <1>7, <1>8, <1>9, <1>10 DEF TypeOK

(* A request goes out; one that proposes a point puts the held one in doubt. *)
SendsOut(m) ==
  /\ calls # <<>> /\ ~sent /\ sent'
  /\ m.kind = KindOf(Head(calls).pc) /\ m.live /\ m.tx = Head(calls).tx
  /\ inbox' = Append(inbox, m) /\ calls' = calls
  /\ IF Proposing(Head(calls))
     THEN /\ Guard(Head(calls)) /\ m.point = Head(calls).want
          /\ grid' = [grid EXCEPT !.uncertain =
                        Append(@, [epoch |-> Head(calls).epoch, rejected |-> FALSE])]
     ELSE grid' = grid
RefusedToSend ==
  /\ Wakes("refused", None) /\ Proposing(Head(calls)) /\ ~Guard(Head(calls))
  /\ ~sent /\ UNCHANGED <<sent, inbox>>

LEMMA SendForm ==
  ASSUME TypeOK, Tasks, Send
  PROVE  /\ UNCHANGED <<doc, seen, station, act, storing, ops>>
         /\ Head(calls) \in Task /\ Head(calls) \in ToSet(calls) /\ Waits(Head(calls))
         /\ RefusedToSend \/ \E m \in Msg : SendsOut(m)
<1>0. /\ calls \in Seq(Task) /\ calls # <<>> /\ ~sent
      BY DEF TypeOK, Send
<1>1. Head(calls) \in Task /\ Head(calls) \in ToSet(calls) /\ Waits(Head(calls))
      BY <1>0, HeadAmong, TailElements DEF Tasks
<1>2. UNCHANGED <<doc, seen, station, act, storing, ops>>
      BY DEF Send, user
<1>3. CASE Proposing(Head(calls)) /\ ~Guard(Head(calls))
      BY <1>0, <1>1, <1>2, <1>3 DEF Send, Wakes, RefusedToSend, Proposing
<1>4. CASE ~(Proposing(Head(calls)) /\ ~Guard(Head(calls)))
  <2> DEFINE t == Head(calls)
             m0 == [kind |-> IF Proposing(t) THEN "set"
                             ELSE IF t.pc = "rotation" THEN "rotation" ELSE "read",
                    point |-> IF Proposing(t) THEN t.want ELSE Zero,
                    tx |-> t.tx, live |-> TRUE]
  <2>1. m0 \in Msg
        BY <1>1, ZeroForm DEF Msg, Task
  <2>2. SendsOut(m0)
    <3>1. /\ m0.kind = KindOf(t.pc) /\ m0.live /\ m0.tx = t.tx
          /\ (Proposing(t) => m0.point = t.want)
          BY DEF KindOf, Proposing
    <3>2. /\ sent' /\ inbox' = Append(inbox, m0) /\ calls' = calls
          /\ grid' = IF Proposing(t)
                     THEN [grid EXCEPT !.uncertain = Append(@, [epoch |-> t.epoch, rejected |-> FALSE])]
                     ELSE grid
          BY <1>4 DEF Send, Proposing
    <3> HIDE DEF m0
    <3> QED BY <1>0, <1>4, <3>1, <3>2 DEF SendsOut
  <2> QED BY <1>1, <1>2, <2>1, <2>2
<1> QED BY <1>3, <1>4

LEMMA SendsOutForm ==
  ASSUME TypeOK, Tasks, OnWire, NEW m \in Msg, SendsOut(m), seen' = seen
  PROVE  /\ grid' \in Grid /\ inbox' \in Seq(Msg) /\ Tasks' /\ OnWire'
         /\ grid'.confirmed = grid.confirmed /\ grid'.ready = grid.ready
         /\ grid'.uncertain = IF Proposing(Head(calls))
              THEN Append(grid.uncertain, [epoch |-> Head(calls).epoch, rejected |-> FALSE])
              ELSE grid.uncertain
         /\ grid'.epoch = grid.epoch /\ grid'.latest = grid.latest /\ grid'.requested = grid.requested
         /\ grid'.status = grid.status /\ grid'.outcome = grid.outcome /\ grid'.retry = grid.retry
<1>0. /\ grid \in Grid /\ inbox \in Seq(Msg) /\ calls \in Seq(Task) /\ calls # <<>>
      /\ grid.uncertain \in Seq(Proposal)
      BY DEF TypeOK, SendsOut, Grid
<1>1. Head(calls) \in Task
      BY <1>0, TailElements
<1>2. PICK p \in Proposal : p = [epoch |-> Head(calls).epoch, rejected |-> FALSE]
      BY <1>1 DEF Proposal, Task
<1>3. PICK u \in Seq(Proposal) :
        u = IF Proposing(Head(calls)) THEN Append(grid.uncertain, p) ELSE grid.uncertain
  <2>1. Append(grid.uncertain, p) \in Seq(Proposal)
        BY <1>0, AppendElements
  <2> QED BY <1>0, <2>1
<1>4. grid' = [grid EXCEPT !.uncertain = u]
  <2>1. CASE Proposing(Head(calls))
        BY <1>2, <1>3, <2>1 DEF SendsOut
  <2>2. CASE ~Proposing(Head(calls))
        BY <1>0, <1>3, <2>2 DEF SendsOut, Grid
  <2> QED BY <2>1, <2>2
<1>5. /\ grid' \in Grid /\ grid'.confirmed = grid.confirmed /\ grid'.ready = grid.ready
      /\ grid'.epoch = grid.epoch /\ grid'.latest = grid.latest /\ grid'.requested = grid.requested
      /\ grid'.status = grid.status /\ grid'.outcome = grid.outcome /\ grid'.retry = grid.retry
      /\ grid'.uncertain = u
      BY <1>0, <1>4 DEF Grid
<1>6. inbox' \in Seq(Msg) /\ Len(inbox') = Len(inbox) + 1
      BY <1>0, AppendElements DEF SendsOut
<1>7. calls' = calls /\ sent' /\ ~sent
      BY DEF SendsOut
<1>8. Tasks'
      BY <1>5, <1>7 DEF Tasks, Live, Scoped
<1>9. OnWire'
  <2>a. inbox' = Append(inbox, m)
        BY DEF SendsOut
  <2>1. \A k \in DOMAIN inbox' : \/ k \in DOMAIN inbox /\ inbox'[k] = inbox[k]
                                 \/ k = Len(inbox) + 1 /\ inbox'[k] = m
        BY <1>0, <2>a, AppendElements
  <2>2. \A k \in DOMAIN inbox : ~inbox[k].live
        BY <1>7 DEF OnWire
  <2>3. m.kind = KindOf(Head(calls).pc)
        BY DEF SendsOut
  <2> QED BY <1>0, <1>6, <1>7, <2>1, <2>2, <2>3 DEF OnWire
<1> QED BY <1>2, <1>3, <1>5, <1>6, <1>8, <1>9

LEMMA SendMoves ==
  ASSUME TypeOK, Tasks, OnWire, Known, Send
  PROVE  TypeOK' /\ Tasks' /\ OnWire' /\ Known'
<1>1. /\ UNCHANGED <<doc, seen, station, act, storing, ops>>
      /\ Head(calls) \in Task /\ Head(calls) \in ToSet(calls) /\ Waits(Head(calls))
      BY SendForm
<1>2. CASE RefusedToSend
  <2>1. "refused" \in AnswersTo(Head(calls).pc) /\ "refused" \in Outcome
        BY <1>2 DEF RefusedToSend, Proposing, AnswersTo, Outcome
  <2>2. Wakes("refused", None) /\ UNCHANGED <<sent, inbox>> /\ ~sent
        BY <1>2 DEF RefusedToSend
  <2>3. calls' \in Seq(Task) /\ grid' \in Grid /\ Tasks' /\ Alike(grid, grid')
        BY <1>1, <2>1, <2>2, WakesForm
  <2>4. OnWire'
        BY <2>2 DEF OnWire
  <2> QED BY <1>1, <2>2, <2>3, <2>4 DEF TypeOK, Known, Alike
<1>3. CASE \E m \in Msg : SendsOut(m)
  <2>1. PICK m \in Msg : SendsOut(m)
        BY <1>3
  <2>2. /\ grid' \in Grid /\ inbox' \in Seq(Msg) /\ Tasks' /\ OnWire'
        /\ grid'.confirmed = grid.confirmed
        BY <1>1, <2>1, SendsOutForm
  <2>3. calls' = calls /\ sent' \in BOOLEAN
        BY <1>1, <2>1 DEF SendsOut, Send
  <2> QED BY <1>1, <2>2, <2>3 DEF TypeOK, Known
<1> QED BY <1>2, <1>3, SendForm

(* The connection is lost, and every task with it. *)
Cut ==
  /\ grid'.epoch = grid.epoch + 1 /\ ~grid'.outcome /\ grid'.latest = grid.latest
  /\ grid'.ready = <<>> /\ grid'.confirmed = None /\ calls' = <<>> /\ inbox' = <<>>
  /\ ~Eligible(seen') /\ UNCHANGED <<doc, act>>

LEMMA DisconnectMoves ==
  ASSUME TypeOK, Tasks, OnWire, Known, Disconnect
  PROVE  TypeOK' /\ Tasks' /\ OnWire' /\ Known' /\ Cut
<1>0. /\ doc \in Doc /\ seen \in Seen /\ grid \in Grid /\ station \in Station /\ inbox \in Seq(Msg)
      /\ grid.latest <= grid.epoch /\ seen.gen \in Nat /\ station.offer \in Offer
      /\ grid.epoch \in Nat /\ grid.latest \in Nat
      BY DEF TypeOK, Tasks, Seen, Station, Grid
<1>1. /\ seen' = Unseen(FALSE, seen.gen) /\ calls' = <<>> /\ ~sent' /\ sent' \in BOOLEAN /\ inbox' = <<>>
      /\ UNCHANGED <<doc, act, storing>>
      BY DEF Disconnect, user
<1>2. seen' \in Seen /\ seen'.tx = None /\ ~seen'.link /\ ~Eligible(seen')
      BY <1>0, <1>1, UnseenForm
<1>3. PICK h \in Grid : h = Changed(grid, seen', doc, FALSE)
      BY <1>0, <1>2, ChangedForm
<1>4. Moves(grid, h, seen', doc) /\ h.confirmed = None
      BY <1>0, <1>2, <1>3, ChangedForm
<1>5. grid' = [h EXCEPT !.ready = <<>>]
      BY <1>3 DEF Disconnect
<1>6. /\ grid' \in Grid /\ grid'.ready = <<>> /\ grid'.confirmed = None /\ grid'.epoch = h.epoch
      /\ grid'.latest = h.latest /\ grid'.outcome = h.outcome
  <2>1. <<>> \in Seq(Task)
        OBVIOUS
  <2> QED BY <1>4, <1>5, <2>1 DEF Grid
<1>7. grid'.epoch = grid.epoch + 1 /\ ~grid'.outcome /\ grid'.latest = grid.latest
      BY <1>2, <1>4, <1>6 DEF Moves
<1>8. station' \in Station /\ station'.tx = station.tx /\ station'.past = station.past
  <2>1. CASE station' = station
        BY <1>0, <2>1
  <2>2. CASE \E i \in DOMAIN inbox : station' = [station EXCEPT !.offer = Carried(@, inbox[i].point)]
    <3>1. PICK i \in DOMAIN inbox : station' = [station EXCEPT !.offer = Carried(@, inbox[i].point)]
          BY <2>2
    <3>2. inbox[i] \in Msg
          BY <1>0
    <3>3. PICK o \in Offer : o = Carried(station.offer, inbox[i].point)
          BY <1>0, <3>2, CarriedForm DEF Msg
    <3> QED BY <1>0, <3>1, <3>3 DEF Station
  <2> QED BY <2>1, <2>2 DEF Disconnect
<1>9. ops' \in 0..MaxOps
      BY EnabledSpends DEF Disconnect
<1>10. TypeOK'
  <2>1. <<>> \in Seq(Task) /\ <<>> \in Seq(Msg)
        OBVIOUS
  <2> QED BY <1>0, <1>1, <1>2, <1>6, <1>8, <1>9, <2>1 DEF TypeOK
<1>11. OnWire'
       BY <1>1 DEF OnWire
<1>12. Known'
       BY <1>2, <1>6, <1>8 DEF Known
<1>13. Tasks'
  <2>1. ToSet(grid'.ready) = {} /\ ToSet(calls') = {} /\ Live(grid)' = {}
        BY <1>1, <1>6, EmptyAmong DEF Live
  <2>2. Apart(grid'.ready, calls')
        BY <1>1, <1>6, EmptyAmong DEF Apart, Distinct
  <2>3. grid'.latest <= grid'.epoch
        BY <1>0, <1>7
  <2> QED BY <2>1, <2>2, <2>3 DEF Tasks
<1> QED BY <1>1, <1>2, <1>6, <1>7, <1>10, <1>11, <1>12, <1>13 DEF Cut

-----------------------------------------------------------------------------
(* The chain of proposals that may have superseded the held observation.   *)

LEMMA Least ==
  ASSUME NEW S \in SUBSET Nat, S # {}
  PROVE  \E n \in S : \A m \in S : n <= m
<1> DEFINE R == {ss \in Nat \X Nat : ss[1] < ss[2]}
<1>1. R = OpToRel(<, Nat)
      BY DEF OpToRel
<1>2. IsWellFoundedOn(R, Nat)
      BY <1>1, NatLessThanWellFounded, Zenon
<1>3. \A m, n \in Nat : m < n => <<m, n>> \in R
      OBVIOUS
<1> HIDE DEF R
<1>4. PICK n \in S : \A m \in S : <<m, n>> \notin R
      BY <1>2, WFMin
<1>5. \A m \in S : ~(m < n)
      BY <1>3, <1>4
<1> QED BY <1>5

LEMMA Greatest ==
  ASSUME NEW N \in Nat, NEW S \in SUBSET (1..N), S # {}
  PROVE  \E n \in S : \A m \in S : m <= n
<1> DEFINE D == {N - m : m \in S}
<1>1. \A m \in S : m \in 1..N /\ N - m \in Nat
      OBVIOUS
<1>2. D \in SUBSET Nat
      BY <1>1
<1>3. D # {}
      OBVIOUS
<1>4. PICK d \in D : \A e \in D : d <= e
      BY <1>2, <1>3, Least
<1>5. PICK n \in S : d = N - n
      BY <1>4
<1>6. \A m \in S : N - n <= N - m
      BY <1>4, <1>5
<1> QED BY <1>1, <1>6

LEMMA LastOfForm ==
  ASSUME NEW c \in Seq(Proposal), NEW e
  PROVE  \/ LastOf(c, e) = 0 /\ \A j \in DOMAIN c : c[j].epoch # e
         \/ /\ LastOf(c, e) \in DOMAIN c /\ LastOf(c, e) # 0 /\ c[LastOf(c, e)].epoch = e
            /\ \A j \in DOMAIN c : c[j].epoch = e => j <= LastOf(c, e)
<1> DEFINE at == {j \in DOMAIN c : c[j].epoch = e}
<1>1. at \in SUBSET (1..Len(c)) /\ Len(c) \in Nat
      OBVIOUS
<1>2. LastOf(c, e) = IF at = {} THEN 0 ELSE CHOOSE i \in at : \A j \in at : j <= i
      BY DEF LastOf
<1>3. CASE at = {}
      BY <1>2, <1>3
<1>4. CASE at # {}
  <2>1. \E i \in at : \A j \in at : j <= i
        BY <1>1, <1>4, Greatest
  <2>2. LastOf(c, e) \in at /\ \A j \in at : j <= LastOf(c, e)
    <3> HIDE DEF at
    <3> QED BY <1>2, <1>4, <2>1
  <2> QED BY <1>1, <2>2
<1> QED BY <1>3, <1>4

LEMMA LastOfIs ==
  ASSUME NEW c \in Seq(Proposal), NEW e, NEW i \in DOMAIN c, c[i].epoch = e,
         \A j \in DOMAIN c : c[j].epoch = e => j <= i
  PROVE  LastOf(c, e) = i
<1>1. i \in Int /\ LastOf(c, e) <= i /\ i <= LastOf(c, e) /\ LastOf(c, e) \in DOMAIN c
      BY LastOfForm
<1> QED BY <1>1

LEMMA LastOfNone ==
  ASSUME NEW c \in Seq(Proposal), NEW e, \A j \in DOMAIN c : c[j].epoch # e
  PROVE  LastOf(c, e) = 0
BY LastOfForm

(* An entry that is appended hides no other epoch's. *)
LEMMA LastOfAppend ==
  ASSUME NEW c \in Seq(Proposal), NEW p \in Proposal, NEW e, p.epoch # e
  PROVE  LastOf(Append(c, p), e) = LastOf(c, e)
<1>1. /\ Append(c, p) \in Seq(Proposal)
      /\ \A k \in DOMAIN c : k \in DOMAIN Append(c, p) /\ Append(c, p)[k] = c[k]
      /\ \A k \in DOMAIN Append(c, p) :
           \/ k \in DOMAIN c /\ Append(c, p)[k] = c[k]
           \/ k \notin DOMAIN c /\ k = Len(c) + 1 /\ Append(c, p)[k] = p
      BY AppendElements
<1>2. PICK d \in Seq(Proposal) : d = Append(c, p)
      BY <1>1
<1>3. \A k \in DOMAIN d : d[k].epoch = e => k \in DOMAIN c /\ c[k].epoch = e
      BY <1>1, <1>2
<1>4. CASE \A j \in DOMAIN c : c[j].epoch # e
      BY <1>2, <1>3, <1>4, LastOfNone
<1>5. CASE ~(\A j \in DOMAIN c : c[j].epoch # e)
  <2>1. /\ LastOf(c, e) \in DOMAIN c /\ c[LastOf(c, e)].epoch = e
        /\ \A j \in DOMAIN c : c[j].epoch = e => j <= LastOf(c, e)
        BY <1>5, LastOfForm
  <2>2. PICK i \in DOMAIN c : i = LastOf(c, e)
        BY <2>1
  <2>3. i \in DOMAIN d /\ d[i].epoch = e /\ \A j \in DOMAIN d : d[j].epoch = e => j <= i
        BY <1>1, <1>2, <1>3, <2>1, <2>2
  <2>4. LastOf(d, e) = i
        BY <2>3, LastOfIs
  <2> QED BY <1>2, <2>2, <2>4
<1> QED BY <1>4, <1>5

(* What an answer leaves of the chain: all of it, none, the part from the  *)
(* accepted entry on, or the part before the rejected ones on top.         *)
AcceptedFrom(c, d, i) ==
  /\ i \in DOMAIN c /\ Len(d) = Len(c) - i + 1
  /\ \A k \in DOMAIN d : k \in Nat \ {0} /\ k + i - 1 \in DOMAIN c /\ d[k] = c[k + i - 1]

RejectedAt(c, d, i) ==
  /\ i \in DOMAIN c
  /\ \A j \in DOMAIN d : /\ j \in DOMAIN c /\ d[j].epoch = c[j].epoch
                         /\ j # i => d[j] = c[j]
  /\ \A j \in DOMAIN c : j # i /\ ~c[j].rejected => j \in DOMAIN d

LEMMA AcceptedForm ==
  ASSUME NEW c \in Seq(Proposal), NEW i \in DOMAIN c
  PROVE  /\ SubSeq(c, i, Len(c)) \in Seq(Proposal)
         /\ AcceptedFrom(c, SubSeq(c, i, Len(c)), i)
BY DEF AcceptedFrom

LEMMA RejectedForm ==
  ASSUME NEW c \in Seq(Proposal), NEW i \in DOMAIN c
  PROVE  LET m == [c EXCEPT ![i].rejected = TRUE]
             kept == {j \in DOMAIN m : ~m[j].rejected}
             d == IF kept = {} THEN <<>>
                  ELSE SubSeq(m, 1, CHOOSE j \in kept : \A k \in kept : k <= j)
         IN  d \in Seq(Proposal) /\ RejectedAt(c, d, i)
<1> DEFINE m == [c EXCEPT ![i].rejected = TRUE]
           kept == {j \in DOMAIN m : ~m[j].rejected}
           d == IF kept = {} THEN <<>>
                ELSE SubSeq(m, 1, CHOOSE j \in kept : \A k \in kept : k <= j)
<1>1. PICK p \in Proposal : p = [c[i] EXCEPT !.rejected = TRUE] /\ p.epoch = c[i].epoch /\ p.rejected
  <2>1. PICK q \in Proposal : q = c[i]
        OBVIOUS
  <2>2. /\ [q EXCEPT !.rejected = TRUE] \in Proposal /\ [q EXCEPT !.rejected = TRUE].epoch = q.epoch
        /\ [q EXCEPT !.rejected = TRUE].rejected
        BY DEF Proposal
  <2> QED BY <2>1, <2>2
<1>2. m = [c EXCEPT ![i] = p]
      BY <1>1
<1>3. /\ m \in Seq(Proposal) /\ DOMAIN m = DOMAIN c /\ Len(m) = Len(c) /\ m[i] = p
      /\ \A j \in DOMAIN c : j # i => m[j] = c[j]
  <2> HIDE DEF m
  <2>1. DOMAIN c = 1..Len(c) /\ Len(c) \in Nat
        OBVIOUS
  <2>2. DOMAIN m = DOMAIN c /\ m[i] = p /\ \A j \in DOMAIN c : j # i => m[j] = c[j]
        BY <1>2
  <2>3. \A j \in DOMAIN c : m[j] \in Proposal
        BY <2>2
  <2>4. m \in [1..Len(c) -> Proposal]
        BY <1>2, <2>1, <2>2, <2>3
  <2> QED BY <2>1, <2>2, <2>4
<1> HIDE DEF m
<1>4. CASE kept = {}
  <2>1. d = <<>>
        BY <1>4
  <2>2. \A j \in DOMAIN c : j # i => c[j].rejected
        BY <1>3, <1>4
  <2>3. RejectedAt(c, <<>>, i)
        BY <2>2 DEF RejectedAt
  <2>4. <<>> \in Seq(Proposal)
        OBVIOUS
  <2> HIDE DEF d
  <2>5. d \in Seq(Proposal) /\ RejectedAt(c, d, i)
        BY <2>1, <2>3, <2>4
  <2> QED BY <2>5 DEF d, kept, m
<1>5. CASE kept # {}
  <2>1. kept \in SUBSET (1..Len(m)) /\ Len(m) \in Nat
        BY <1>3
  <2>2. \E j \in kept : \A k \in kept : k <= j
        BY <1>5, <2>1, Greatest
  <2>3. PICK n \in kept : d = SubSeq(m, 1, n) /\ \A k \in kept : k <= n
    <3> HIDE DEF kept
    <3> QED BY <1>5, <2>2
  <2>4. n \in 1..Len(m)
        BY <2>1
  <2> HIDE DEF d
  <2>5. /\ d \in Seq(Proposal) /\ DOMAIN d = 1..n
        /\ \A j \in DOMAIN d : j \in DOMAIN m /\ d[j] = m[j]
        BY <1>3, <2>3, <2>4
  <2>6. \A j \in DOMAIN d : /\ j \in DOMAIN c /\ d[j].epoch = c[j].epoch
                            /\ j # i => d[j] = c[j]
        BY <1>1, <1>3, <2>5
  <2>7. \A j \in DOMAIN c : j # i /\ ~c[j].rejected => j \in DOMAIN d
    <3>1. \A j \in DOMAIN c : j # i /\ ~c[j].rejected => j \in kept
          BY <1>3
    <3> HIDE DEF kept
    <3>2. \A j \in DOMAIN c : j \in 1..Len(c)
          OBVIOUS
    <3> QED BY <1>3, <2>3, <2>4, <2>5, <3>1, <3>2
  <2>8. d \in Seq(Proposal) /\ RejectedAt(c, d, i)
        BY <2>5, <2>6, <2>7 DEF RejectedAt
  <2> QED BY <2>8 DEF d, kept, m
<1> QED BY <1>4, <1>5

LEMMA AnsweredForm ==
  ASSUME NEW c \in Seq(Proposal), NEW e, NEW got
  PROVE  /\ Answered(c, e, got) \in Seq(Proposal)
         /\ \/ /\ Answered(c, e, got) = c
               /\ LastOf(c, e) = 0 \/ got \notin Refusal \cup {"accepted"}
            \/ got = "accepted" /\ AcceptedFrom(c, Answered(c, e, got), LastOf(c, e))
            \/ got \in Refusal /\ RejectedAt(c, Answered(c, e, got), LastOf(c, e))
<1>1. CASE LastOf(c, e) = 0 \/ got \notin Refusal \cup {"accepted"}
      BY <1>1 DEF Answered
<1>2. CASE LastOf(c, e) # 0 /\ got = "accepted"
  <2>1. LastOf(c, e) \in DOMAIN c
        BY <1>2, LastOfForm
  <2>2. Answered(c, e, got) = SubSeq(c, LastOf(c, e), Len(c))
        BY <1>2 DEF Answered
  <2> QED BY <1>2, <2>1, <2>2, AcceptedForm
<1>3. CASE LastOf(c, e) # 0 /\ got \in Refusal
  <2>1. LastOf(c, e) \in DOMAIN c
        BY <1>3, LastOfForm
  <2>2. PICK i \in DOMAIN c : i = LastOf(c, e)
        BY <2>1
  <2>3. got # "accepted"
        BY <1>3 DEF Refusal
  <2> DEFINE m == [c EXCEPT ![i].rejected = TRUE]
             kept == {j \in DOMAIN m : ~m[j].rejected}
             d == IF kept = {} THEN <<>>
                  ELSE SubSeq(m, 1, CHOOSE j \in kept : \A k \in kept : k <= j)
  <2>4. Answered(c, e, got) = d
        BY <1>3, <2>2, <2>3 DEF Answered
  <2>5. d \in Seq(Proposal) /\ RejectedAt(c, d, i)
        BY RejectedForm
  <2> HIDE DEF d
  <2> QED BY <1>3, <2>2, <2>4, <2>5
<1> QED BY <1>1, <1>2, <1>3

-----------------------------------------------------------------------------
(* The turn of a task. *)

(* What it knows of the held point: its own answer, or its own reading. *)
Observes(t, h) ==
  IF Proposing(t)
  THEN h.confirmed = grid.confirmed /\ h.uncertain = Answered(grid.uncertain, t.epoch, t.got)
  ELSE \/ h.confirmed = grid.confirmed /\ h.uncertain = grid.uncertain
       \/ /\ Reading(t) # None /\ h.uncertain = <<>>
          /\ h.confirmed = [point |-> t.found, tx |-> t.tx, gen |-> seen.gen]

Silent(h) ==
  /\ h.status = grid.status /\ h.requested = grid.requested /\ h.confirmed = grid.confirmed
  /\ h.outcome = grid.outcome /\ h.allow = grid.allow /\ h.retry = grid.retry

(* grid after a turn, but for the task that may be spawned at its end. *)
Turned(t, h) ==
  /\ h \in Grid /\ h.ready = Tail(grid.ready) /\ h.epoch = grid.epoch /\ h.latest = grid.latest
  /\ Observes(t, h)

(* The failed readback of an interim point is the one thing that a turn    *)
(* may put beside the status of a newer intent.                            *)
Blames(t, h) ==
  \/ h.reason = grid.reason
  \/ t.pc = "check" /\ t.got = "timeout" /\ h.reason = "interim_readback_failure"

Turns(t, g) ==
  /\ t \in Task /\ t \in ToSet(grid.ready) /\ t = Head(grid.ready) /\ Woken(t)
  /\ t.epoch <= grid.latest
  /\ Valid(t) <=> t.epoch = grid.epoch
  /\ Valid(t) => grid.latest = t.epoch /\ Eligible(seen) /\ t.tx = seen.tx
  /\ Turned(t, g) /\ Silent(g) /\ g.reason = grid.reason
  /\ ~Proposing(t) => g.uncertain = grid.uncertain

EndsWith(t, h) ==
  /\ calls' = calls /\ UNCHANGED <<doc, storing>> /\ grid' \in Grid
  /\ IF doc.phase # t.began THEN Spawns(h, grid', seen, doc, FALSE) ELSE grid' = h

(* The statuses that name the trouble, or that there is none. *)
Telling == Trouble \cup {"confirmed"}

(* How a task of the current intent ends. *)
Verdict(t, h) ==
  \/ /\ h.status = "confirmed" /\ h.outcome
     /\ \/ t.pc = "read" /\ h.requested = t.want
        \/ t.pc = "confirm" /\ h.requested = grid.requested
     /\ \/ Reading(t) # None /\ Matches(Reading(t), t.want)
        \/ Reading(t) = None /\ grid.uncertain = <<>> /\ Matches(CurrentPoint(grid), t.want)
  \/ h.status # "confirmed" /\ h.outcome /\ (h.status \in Telling \/ h.retry)
  \/ h.status = "unconfirmed"
  \/ t.confirmOnly /\ h.status = grid.status /\ h.outcome = grid.outcome
  \/ Proposing(t) /\ t.got = "refused" /\ Silent(h)

(* How a task goes on. *)
Onward(t, h, u) ==
  /\ u \in Task /\ u.epoch = t.epoch /\ u.tx = t.tx /\ u.began = t.began
  /\ u.confirmOnly = t.confirmOnly /\ Waits(u)
  /\ \/ /\ t.pc = "start" /\ u.pc = "read" /\ Silent(h)
        /\ u.want.amps > 0 => doc.phase = "active" /\ doc.release /\ seen.enabled
     \/ /\ t.pc = "read" /\ u.pc = "set" /\ u.want = t.want /\ h.requested = t.want
        /\ h.status = "pending" /\ ~t.confirmOnly
     \/ /\ t.pc = "set" /\ u.pc = "rotation" /\ u.want = t.want /\ h.requested = grid.requested
        /\ h.status = "accepted_unconfirmed"
     \/ /\ t.pc = "set" /\ u.pc = "interim" /\ (u.want.amps > 0 => t.want.amps > 0)
        /\ h.status = "rejected"
     \/ t.pc = "rotation" /\ u.pc = "confirm" /\ u.want = t.want /\ Silent(h)
     \/ t.pc = "interim" /\ u.pc = "check" /\ u.want = t.want /\ Silent(h)

AwaitsAs(h, u) == grid' = h /\ calls' = Append(calls, u) /\ UNCHANGED <<doc, storing>>

Onto(t, pc) == [t EXCEPT !.pc = pc, !.got = "none", !.found = None]

StaleTurn(t) ==
  \E h \in Grid : /\ Turned(t, h) /\ Silent(h) /\ Blames(t, h)
                  /\ grid' = h /\ UNCHANGED <<doc, storing>>
                  /\ calls' = calls \/ calls' = Append(calls, Onto(t, "confirm"))
EndTurn(t) == \E h \in Grid : Turned(t, h) /\ Verdict(t, h) /\ EndsWith(t, h)
NextTurn(t) ==
  \E h \in Grid, u \in Task : Turned(t, h) /\ Onward(t, h, u) /\ AwaitsAs(h, u)
StopTurn(t) ==
  /\ calls' = calls /\ t.pc = "start"
  /\ \E h \in Grid : Turned(t, h) /\ Silent(h) /\ h.uncertain = grid.uncertain /\ StopRelease(h)

Turning(t) == IF ~Valid(t) THEN StaleTurn(t) ELSE EndTurn(t) \/ NextTurn(t) \/ StopTurn(t)

LEMMA OntoForm ==
  ASSUME NEW t \in Task,
         NEW pc \in {"read", "set", "rotation", "confirm", "interim", "check"}
  PROVE  /\ Onto(t, pc) \in Task /\ Onto(t, pc).epoch = t.epoch /\ Onto(t, pc).tx = t.tx
         /\ Onto(t, pc).began = t.began /\ Onto(t, pc).confirmOnly = t.confirmOnly
         /\ Waits(Onto(t, pc)) /\ Onto(t, pc).pc = pc /\ Onto(t, pc).want = t.want
BY DEF Onto, Task, Waits, Outcome

LEMMA EndForm ==
  ASSUME TypeOK, NEW t, NEW g, Turns(t, g), NEW h \in Grid,
         h.latest = grid.latest, h.epoch = grid.epoch, End(h, t)
  PROVE  IF Valid(t) THEN EndsWith(t, h) ELSE grid' = h /\ calls' = calls /\ UNCHANGED <<doc, storing>>
<1>1. grid' = Finish(h, t) /\ calls' = calls /\ UNCHANGED <<doc, storing>>
      BY DEF End
<1>2. CASE Valid(t) /\ doc.phase # t.began
  <2>1. grid' = Launch(h, seen, doc, FALSE)
        BY <1>1, <1>2 DEF Finish, Turns
  <2>2. Spawns(h, grid', seen, doc, FALSE) /\ grid' \in Grid
        BY <2>1, LaunchForm DEF TypeOK
  <2> QED BY <1>1, <1>2, <2>2 DEF EndsWith
<1>3. CASE ~(Valid(t) /\ doc.phase # t.began)
      BY <1>1, <1>3 DEF Finish, EndsWith
<1> QED BY <1>2, <1>3

LEMMA StaleEnds ==
  ASSUME TypeOK, NEW t, NEW g, Turns(t, g), ~Valid(t), NEW h \in Grid,
         Turned(t, h), Silent(h), Blames(t, h), End(h, t)
  PROVE  StaleTurn(t)
<1>1. h.latest = grid.latest /\ h.epoch = grid.epoch
      BY DEF Turned
<1>2. grid' = h /\ calls' = calls /\ UNCHANGED <<doc, storing>>
      BY <1>1, EndForm
<1> QED BY <1>2 DEF StaleTurn

LEMMA StaleTurns ==
  ASSUME TypeOK, NEW t, NEW g, Turns(t, g), ~Valid(t), End(g, t)
  PROVE  StaleTurn(t)
<1>1. g \in Grid /\ Turned(t, g) /\ Silent(g) /\ Blames(t, g)
      BY DEF Turns, Turned, Blames
<1> QED BY <1>1, StaleEnds

LEMMA TurnsForm ==
  ASSUME TypeOK, Tasks, grid.ready # <<>>,
         NEW t, t = Head(grid.ready), NEW g,
         g = [grid EXCEPT !.ready = Tail(@),
                !.uncertain = IF Proposing(t) THEN Answered(@, t.epoch, t.got) ELSE @]
  PROVE  Turns(t, g)
<1>0. /\ grid \in Grid /\ grid.ready \in Seq(Task) /\ grid.uncertain \in Seq(Proposal)
      /\ grid.epoch \in Nat /\ grid.latest \in Nat
      BY DEF TypeOK, Grid
<1>1. t \in Task /\ t \in ToSet(grid.ready) /\ Tail(grid.ready) \in Seq(Task)
      BY <1>0, TailElements, HeadAmong
<1>2. t.epoch <= grid.latest /\ Scoped(t) /\ Woken(t) /\ grid.latest <= grid.epoch
      BY <1>1 DEF Tasks, Live
<1>3. PICK r \in Seq(Task) : r = Tail(grid.ready)
      BY <1>1
<1>4. PICK u \in Seq(Proposal) :
        u = IF Proposing(t) THEN Answered(grid.uncertain, t.epoch, t.got) ELSE grid.uncertain
      BY <1>0, AnsweredForm
<1>5. g = [grid EXCEPT !.ready = r, !.uncertain = u]
      BY <1>3, <1>4
<1>6. /\ g \in Grid /\ g.ready = r /\ g.uncertain = u /\ g.epoch = grid.epoch
      /\ g.latest = grid.latest /\ g.reason = grid.reason /\ Silent(g)
      BY <1>0, <1>5 DEF Grid, Silent
<1>7. Turned(t, g) /\ (~Proposing(t) => g.uncertain = grid.uncertain)
      BY <1>3, <1>4, <1>6 DEF Turned, Observes, Silent
<1>8. t.epoch \in Nat
      BY <1>1 DEF Task
<1>9. Valid(t) <=> t.epoch = grid.epoch
      BY <1>2 DEF Valid, Scoped
<1>10. Valid(t) => grid.latest = t.epoch /\ Eligible(seen) /\ t.tx = seen.tx
      BY <1>0, <1>2, <1>8 DEF Valid
<1> QED BY <1>1, <1>2, <1>6, <1>7, <1>9, <1>10 DEF Turns

Statuses == {"waiting", "pending", "confirmed", "accepted_unconfirmed", "unconfirmed", "rejected",
             "phase_lockout_pending", "communication_failure", "unsupported"}

Reasons == {"other", "interim_readback_failure"}

(* An end in the given status, with an outcome. *)
Reports(t, status, requested) ==
  \E h \in Grid : /\ Turned(t, h) /\ EndsWith(t, h) /\ h.status = status /\ h.outcome
                  /\ h.requested = requested /\ (status \in Telling \/ h.retry)

LEMMA ReportForm ==
  ASSUME TypeOK, NEW t, NEW g, Turns(t, g), Valid(t), NEW k \in Grid, Turned(t, k),
         NEW v \in Task, v.epoch = t.epoch, v.tx = t.tx, v.began = t.began,
         NEW status \in Statuses, NEW reason \in Reasons, ReportWith(k, v, status, reason),
         status \in Telling \/ k.retry
  PROVE  Reports(t, status, k.requested)
<1>1. PICK p \in {"waiting", "active", "expired"} : p = v.decided
      BY DEF Task
<1>a. PICK s \in {"waiting", "pending", "confirmed", "accepted_unconfirmed", "unconfirmed",
                  "rejected", "phase_lockout_pending", "communication_failure", "unsupported"} :
        s = status
      BY DEF Statuses
<1>r. PICK r \in {"other", "interim_readback_failure"} : r = reason
      BY DEF Reasons
<1> DEFINE h == [k EXCEPT !.status = s, !.reason = r, !.outcome = TRUE, !.decided = p]
<1>b. h = [k EXCEPT !.status = s, !.reason = r, !.outcome = TRUE, !.decided = p]
      OBVIOUS
<1>3. End(h, v)
      BY <1>1, <1>a, <1>r DEF ReportWith
<1> HIDE DEF h
<1>c. /\ h \in Grid /\ h.status = s /\ h.outcome /\ h.requested = k.requested /\ h.retry = k.retry
      /\ h.ready = k.ready /\ h.epoch = k.epoch /\ h.latest = k.latest
      /\ h.confirmed = k.confirmed /\ h.uncertain = k.uncertain
      BY <1>b DEF Grid
<1>2. h.status = status /\ Turned(t, h)
      BY <1>a, <1>c DEF Turned, Observes
<1>4. Valid(v) /\ h.latest = t.epoch /\ h.latest = grid.latest /\ h.epoch = grid.epoch
      BY <1>2 DEF Valid, Turned, Turns
<1>5. EndsWith(t, h)
  <2>1. grid' = Finish(h, v) /\ calls' = calls /\ UNCHANGED <<doc, storing>>
        BY <1>3 DEF End
  <2>2. CASE doc.phase # t.began
    <3>1. grid' = Launch(h, seen, doc, FALSE)
          BY <1>4, <2>1, <2>2 DEF Finish
    <3>2. h \in Grid /\ seen \in Seen /\ doc \in Doc
          BY <1>c DEF TypeOK
    <3>3. Spawns(h, grid', seen, doc, FALSE) /\ grid' \in Grid
          BY <3>1, <3>2, LaunchForm
    <3> QED BY <2>1, <2>2, <3>3 DEF EndsWith
  <2>3. CASE doc.phase = t.began
        BY <1>c, <2>1, <2>3 DEF Finish, EndsWith
  <2> QED BY <2>2, <2>3
<1> QED BY <1>2, <1>5, <1>c DEF Reports

(* An end in a status of which no reason is told. *)
LEMMA PlainForm ==
  ASSUME TypeOK, NEW t, NEW g, Turns(t, g), Valid(t), NEW k \in Grid, Turned(t, k),
         NEW v \in Task, v.epoch = t.epoch, v.tx = t.tx, v.began = t.began,
         NEW status \in Statuses, Report(k, v, status), status \in Telling \/ k.retry
  PROVE  Reports(t, status, k.requested)
<1>1. ReportWith(k, v, status, "other") /\ "other" \in Reasons
      BY DEF Report, Reasons
<1> QED BY <1>1, ReportForm

LEMMA LockedOutForm ==
  ASSUME TypeOK, NEW t, NEW g, Turns(t, g), Valid(t), NEW k \in Grid, Turned(t, k),
         NEW status \in Statuses, NEW reason \in Reasons, LockedOut(k, t, status, reason)
  PROVE  Reports(t, status, k.requested)
<1> DEFINE x == [k EXCEPT !.allow = TRUE, !.retry = TRUE]
<1>1. /\ x \in Grid /\ x.requested = k.requested /\ x.ready = k.ready /\ x.epoch = k.epoch
      /\ x.latest = k.latest /\ x.confirmed = k.confirmed /\ x.uncertain = k.uncertain /\ x.retry
      BY DEF Grid
<1>2. ReportWith(x, t, status, reason)
      BY DEF LockedOut
<1> HIDE DEF x
<1>3. Turned(t, x)
      BY <1>1 DEF Turned, Observes
<1>4. t \in Task
      BY DEF Turns
<1> QED BY <1>1, <1>2, <1>3, <1>4, ReportForm

(* Every outcome but "confirmed" is a verdict at once. *)
LEMMA ReportsEnd ==
  ASSUME NEW t, NEW status \in Statuses \ {"confirmed"}, NEW requested,
         Reports(t, status, requested)
  PROVE  EndTurn(t)
BY DEF Reports, EndTurn, Verdict

LEMMA StartTurns ==
  ASSUME TypeOK, NEW t, NEW g, Turns(t, g), t.pc = "start", StartTask(g, t)
  PROVE  Turning(t)
<1>0. /\ doc \in Doc /\ g \in Grid /\ t \in Task /\ Turned(t, g) /\ Silent(g) /\ g.uncertain = grid.uncertain
      BY DEF TypeOK, Turns, Turned, Proposing
<1>1. CASE ~Valid(t)
      BY <1>1, StaleTurns DEF StartTask, Turning
<1>2. CASE Valid(t) /\ doc.phase = "expired" /\ doc.release
      BY <1>0, <1>2 DEF StartTask, Turning, StopTurn
<1>3. CASE Valid(t) /\ ~(doc.phase = "expired" /\ doc.release)
  <2>1. PICK b \in BOOLEAN : b <=> (doc.phase = "active" /\ doc.release /\ seen.enabled)
        OBVIOUS
  <2>p. PICK p \in {"waiting", "active", "expired"} : p = doc.phase
        BY <1>0 DEF Doc
  <2>2. CASE b /\ ~seen.capable
    <3> DEFINE v == [t EXCEPT !.decided = p]
    <3>1. v = [t EXCEPT !.decided = p]
          OBVIOUS
    <3>2. Report(g, v, "unsupported")
          BY <1>3, <2>1, <2>2, <2>p DEF StartTask
    <3> HIDE DEF v
    <3>3. v \in Task /\ v.epoch = t.epoch /\ v.tx = t.tx /\ v.began = t.began
          BY <1>0, <3>1 DEF Task
    <3>4. Reports(t, "unsupported", g.requested)
          BY <1>0, <1>3, <3>2, <3>3, PlainForm DEF Statuses, Telling, Trouble
    <3> QED BY <1>3, <3>4, ReportsEnd DEF Statuses, Telling, Trouble, Turning
  <2>3. CASE ~(b /\ ~seen.capable)
    <3>1. PICK w \in Wanted : w = IF b THEN doc.approved ELSE Zero
          BY <1>0, ZeroForm, PointForm DEF Doc
    <3> DEFINE v == [t EXCEPT !.decided = p, !.want = w]
    <3>2. v = [t EXCEPT !.decided = p, !.want = w]
          OBVIOUS
    <3>3. Await(g, v, "read")
          BY <1>3, <2>1, <2>3, <2>p, <3>1 DEF StartTask
    <3> HIDE DEF v
    <3>4. /\ v \in Task /\ v.epoch = t.epoch /\ v.tx = t.tx /\ v.began = t.began
          /\ v.confirmOnly = t.confirmOnly /\ v.want = w
          BY <1>0, <3>2 DEF Task
    <3>5. AwaitsAs(g, Onto(v, "read"))
          BY <3>3 DEF Await, AwaitsAs, Onto
    <3>6. PICK u : u = Onto(v, "read")
          OBVIOUS
    <3>7. /\ u \in Task /\ u.epoch = v.epoch /\ u.tx = v.tx /\ u.began = v.began
          /\ u.confirmOnly = v.confirmOnly /\ Waits(u) /\ u.pc = "read" /\ u.want = v.want
          BY <3>4, <3>6, OntoForm
    <3>8. u.want.amps > 0 => doc.phase = "active" /\ doc.release /\ seen.enabled
          BY <2>1, <3>1, <3>4, <3>7, ZeroForm
    <3>9. Onward(t, g, u)
          BY <1>0, <3>4, <3>7, <3>8 DEF Onward
    <3> QED BY <1>0, <1>3, <3>5, <3>6, <3>7, <3>9 DEF Turning, NextTurn
  <2> QED BY <2>2, <2>3
<1> QED BY <1>1, <1>2, <1>3

(* The task goes on to its next await. *)
Awaits(k, v, pc) ==
  \E u \in Task :
    /\ AwaitsAs(k, u) /\ u.epoch = v.epoch /\ u.tx = v.tx /\ u.began = v.began
    /\ u.confirmOnly = v.confirmOnly /\ Waits(u) /\ u.pc = pc /\ u.want = v.want

LEMMA AwaitForm ==
  ASSUME NEW k, NEW v \in Task, NEW pc \in {"read", "set", "rotation", "confirm", "interim", "check"},
         Await(k, v, pc)
  PROVE  Awaits(k, v, pc)
<1>1. AwaitsAs(k, Onto(v, pc))
      BY DEF Await, AwaitsAs, Onto
<1>2. /\ Onto(v, pc) \in Task /\ Onto(v, pc).epoch = v.epoch /\ Onto(v, pc).tx = v.tx
      /\ Onto(v, pc).began = v.began /\ Onto(v, pc).confirmOnly = v.confirmOnly
      /\ Waits(Onto(v, pc)) /\ Onto(v, pc).pc = pc /\ Onto(v, pc).want = v.want
      BY OntoForm
<1> QED BY <1>1, <1>2 DEF Awaits

LEMMA NotedForm ==
  ASSUME TypeOK, NEW t, NEW g, Turns(t, g), ~Proposing(t), Valid(t)
  PROVE  /\ Noted(g, t) \in Grid /\ Turned(t, Noted(g, t))
         /\ Noted(g, t).requested = g.requested /\ Noted(g, t).status = g.status
         /\ Noted(g, t).outcome = g.outcome /\ Noted(g, t).allow = g.allow
         /\ Reading(t) = None => Noted(g, t) = g
         /\ Reading(t) # None => Noted(g, t).uncertain = <<>> /\ Reading(t) = t.found
<1>0. g \in Grid /\ t \in Task /\ seen \in Seen /\ Turned(t, g) /\ Eligible(seen) /\ t.tx = seen.tx
      BY DEF TypeOK, Turns, Turned
<1>1. CASE Reading(t) = None
      BY <1>0, <1>1 DEF Noted
<1>2. CASE Reading(t) # None
  <2>1. t.found # None /\ Reading(t) = t.found /\ t.found \in Offer
        BY <1>0, <1>2 DEF Reading, Task
  <2>2. t.tx \in Transactions /\ seen.gen \in Nat
        BY <1>0 DEF Eligible, Seen
  <2>3. PICK c \in Confirmed : c = [point |-> t.found, tx |-> t.tx, gen |-> seen.gen]
        BY <2>1, <2>2 DEF Confirmed
  <2>a. <<>> \in Seq(Proposal)
        OBVIOUS
  <2>4. PICK u \in Seq(Proposal) : u = <<>>
        BY <2>a
  <2> DEFINE h == Noted(g, t)
  <2>5. h = [g EXCEPT !.uncertain = u, !.confirmed = c]
        BY <1>2, <2>3, <2>4 DEF Noted
  <2> HIDE DEF h
  <2>6. /\ h \in Grid /\ h.uncertain = u /\ h.confirmed = c /\ h.ready = g.ready /\ h.epoch = g.epoch
        /\ h.latest = g.latest /\ h.requested = g.requested /\ h.status = g.status
        /\ h.outcome = g.outcome /\ h.allow = g.allow
        BY <1>0, <2>5 DEF Grid
  <2>7. Turned(t, h)
        BY <1>0, <1>2, <2>3, <2>4, <2>6 DEF Turned, Observes
  <2>8. h = Noted(g, t)
        BY DEF h
  <2> QED BY <1>2, <2>1, <2>4, <2>6, <2>7, <2>8
<1> QED BY <1>1, <1>2

LEMMA ReadTurns ==
  ASSUME TypeOK, NEW t, NEW g, Turns(t, g), t.pc = "read", AfterRead(g, t)
  PROVE  Turning(t)
<1>0. /\ g \in Grid /\ t \in Task /\ Turned(t, g) /\ Silent(g) /\ g.uncertain = grid.uncertain
      /\ ~Proposing(t) /\ t.want \in Wanted /\ t.decided \in {"waiting", "active", "expired"}
      BY DEF TypeOK, Turns, Turned, Proposing, Task
<1>1. CASE ~Valid(t)
      BY <1>1, StaleTurns DEF AfterRead, Turning
<1>2. CASE Valid(t)
  <2> DEFINE g1 == Noted(g, t)
             held == IF Reading(t) # None THEN Reading(t) ELSE CurrentPoint(g1)
             g2 == [g1 EXCEPT !.requested = t.want]
  <2>1. /\ g1 \in Grid /\ Turned(t, g1) /\ g1.requested = g.requested /\ g1.status = g.status
        /\ g1.outcome = g.outcome
        /\ Reading(t) = None => g1 = g
        /\ Reading(t) # None => g1.uncertain = <<>> /\ Reading(t) = t.found
        BY <1>0, <1>2, NotedForm
  <2>2. \/ /\ held = None /\ ~g.allow
           /\ End([g EXCEPT !.status = "unconfirmed", !.reason = "other",
                         !.decided = t.decided], t)
        \/ /\ Matches(held, t.want) /\ (Reading(t) # None \/ g1.uncertain = <<>>)
           /\ Report([g2 EXCEPT !.allow = FALSE, !.retry = FALSE], t, "confirmed")
        \/ t.confirmOnly /\ End(g2, t)
        \/ ~t.confirmOnly
           /\ Await([g2 EXCEPT !.status = "pending", !.reason = "other"],
                    [t EXCEPT !.held = held], "set")
        BY <1>2 DEF AfterRead
  <2>3. held \in Offer \cup {None}
        BY <1>0, <2>1, CurrentPointForm DEF Task
  <2>4. Reading(t) = None => CurrentPoint(g1) = CurrentPoint(grid)
        BY <1>0, <2>1 DEF CurrentPoint, Silent
  <2> HIDE DEF g1
  <2>5. /\ g2 \in Grid /\ Turned(t, g2) /\ g2.requested = t.want /\ g2.status = g.status
        /\ g2.outcome = g.outcome
    <3>1. g2 = [g1 EXCEPT !.requested = t.want]
          OBVIOUS
    <3> HIDE DEF g2
    <3>2. /\ g2 \in Grid /\ g2.requested = t.want /\ g2.status = g1.status /\ g2.outcome = g1.outcome
          /\ g2.ready = g1.ready /\ g2.epoch = g1.epoch /\ g2.latest = g1.latest
          /\ g2.confirmed = g1.confirmed /\ g2.uncertain = g1.uncertain
          BY <1>0, <2>1, <3>1 DEF Grid
    <3> QED BY <2>1, <3>2 DEF Turned, Observes
  <2> HIDE DEF g2, held
  <2>6. CASE End([g EXCEPT !.status = "unconfirmed", !.reason = "other",
                           !.decided = t.decided], t)
    <3> DEFINE h == [g EXCEPT !.status = "unconfirmed", !.reason = "other",
                              !.decided = t.decided]
    <3>1. /\ h = [g EXCEPT !.status = "unconfirmed", !.reason = "other",
                           !.decided = t.decided]
          /\ End(h, t)
          BY <2>6
    <3> HIDE DEF h
    <3>2. /\ h \in Grid /\ h.status = "unconfirmed" /\ h.ready = g.ready /\ h.epoch = g.epoch
          /\ h.latest = g.latest /\ h.confirmed = g.confirmed /\ h.uncertain = g.uncertain
          BY <1>0, <3>1 DEF Grid
    <3>3. Turned(t, h) /\ h.latest = grid.latest /\ h.epoch = grid.epoch
          BY <1>0, <3>2 DEF Turned, Observes
    <3>4. EndsWith(t, h)
          BY <1>2, <3>1, <3>2, <3>3, EndForm
    <3> QED BY <1>2, <3>2, <3>3, <3>4 DEF Turning, EndTurn, Verdict
  <2>7. CASE /\ Matches(held, t.want) /\ (Reading(t) # None \/ g1.uncertain = <<>>)
             /\ Report([g2 EXCEPT !.allow = FALSE, !.retry = FALSE], t, "confirmed")
    <3> DEFINE k == [g2 EXCEPT !.allow = FALSE, !.retry = FALSE]
    <3>1. k = [g2 EXCEPT !.allow = FALSE, !.retry = FALSE] /\ Report(k, t, "confirmed")
          BY <2>7
    <3> HIDE DEF k
    <3>2. /\ k \in Grid /\ k.requested = t.want /\ k.ready = g2.ready /\ k.epoch = g2.epoch
          /\ k.latest = g2.latest /\ k.confirmed = g2.confirmed /\ k.uncertain = g2.uncertain
          BY <2>5, <3>1 DEF Grid
    <3>3. Turned(t, k)
          BY <2>5, <3>2 DEF Turned, Observes
    <3>4. Reports(t, "confirmed", t.want)
      <4>1. Reports(t, "confirmed", k.requested)
            BY <1>0, <1>2, <3>1, <3>2, <3>3, PlainForm DEF Statuses, Telling, Trouble
      <4> QED BY <3>2, <4>1
    <3>5. \/ Reading(t) # None /\ Matches(Reading(t), t.want)
          \/ Reading(t) = None /\ grid.uncertain = <<>> /\ Matches(CurrentPoint(grid), t.want)
          BY <1>0, <2>1, <2>4, <2>7 DEF held
    <3>6. PICK h \in Grid : Turned(t, h) /\ EndsWith(t, h) /\ h.status = "confirmed" /\ h.outcome
                            /\ h.requested = t.want
          BY <3>4 DEF Reports
    <3>7. Verdict(t, h)
          BY <3>5, <3>6 DEF Verdict
    <3> QED BY <1>2, <3>6, <3>7 DEF Turning, EndTurn
  <2>8. CASE t.confirmOnly /\ End(g2, t)
    <3>1. g2.latest = grid.latest /\ g2.epoch = grid.epoch /\ g2.status = grid.status
          /\ g2.outcome = grid.outcome
          BY <1>0, <2>5 DEF Turned, Silent
    <3>2. EndsWith(t, g2)
          BY <1>2, <2>5, <2>8, <3>1, EndForm
    <3> QED BY <1>2, <2>5, <2>8, <3>1, <3>2 DEF Turning, EndTurn, Verdict
  <2>9. CASE ~t.confirmOnly
             /\ Await([g2 EXCEPT !.status = "pending", !.reason = "other"],
                      [t EXCEPT !.held = held], "set")
    <3> DEFINE k == [g2 EXCEPT !.status = "pending", !.reason = "other"]
               v == [t EXCEPT !.held = held]
    <3>1. /\ k = [g2 EXCEPT !.status = "pending", !.reason = "other"]
          /\ v = [t EXCEPT !.held = held] /\ Await(k, v, "set")
          BY <2>9
    <3> HIDE DEF k, v
    <3>2. /\ k \in Grid /\ k.requested = t.want /\ k.ready = g2.ready /\ k.epoch = g2.epoch
          /\ k.status = "pending"
          /\ k.latest = g2.latest /\ k.confirmed = g2.confirmed /\ k.uncertain = g2.uncertain
          BY <2>5, <3>1 DEF Grid
    <3>3. Turned(t, k)
          BY <2>5, <3>2 DEF Turned, Observes
    <3>4. /\ v \in Task /\ v.epoch = t.epoch /\ v.tx = t.tx /\ v.began = t.began
          /\ v.confirmOnly = t.confirmOnly /\ v.want = t.want
          BY <1>0, <2>3, <3>1 DEF Task
    <3>5. PICK u \in Task :
            /\ AwaitsAs(k, u) /\ u.epoch = v.epoch /\ u.tx = v.tx /\ u.began = v.began
            /\ u.confirmOnly = v.confirmOnly /\ Waits(u) /\ u.pc = "set" /\ u.want = v.want
      <4>1. Awaits(k, v, "set")
            BY <3>1, <3>4, AwaitForm
      <4> QED BY <4>1 DEF Awaits
    <3>6. Onward(t, k, u)
          BY <2>9, <3>2, <3>4, <3>5 DEF Onward
    <3> QED BY <1>2, <3>2, <3>3, <3>5, <3>6 DEF Turning, NextTurn
  <2> QED BY <2>2, <2>6, <2>7, <2>8, <2>9
<1> QED BY <1>1, <1>2

LEMMA SetTurns ==
  ASSUME TypeOK, NEW t, NEW g, Turns(t, g), t.pc = "set", t.got # "timeout", AfterSet(g, t)
  PROVE  Turning(t)
<1>0. /\ g \in Grid /\ t \in Task /\ Turned(t, g) /\ Silent(g) /\ Proposing(t) /\ t.want \in Wanted
      /\ t.held \in Offer \cup {None} /\ t.got \in {"accepted", "refused"} \cup Refusal
      BY DEF TypeOK, Turns, Turned, Proposing, Task, Woken, AnswersTo
<1>1. CASE ~Valid(t)
      BY <1>1, StaleTurns DEF AfterSet, Turning
<1>2. CASE Valid(t) /\ t.got = "refused"
  <2>1. End(g, t) /\ g.latest = grid.latest /\ g.epoch = grid.epoch
        BY <1>0, <1>2 DEF AfterSet, Turned
  <2>2. EndsWith(t, g)
        BY <1>0, <1>2, <2>1, EndForm
  <2> QED BY <1>0, <1>2, <2>2 DEF Turning, EndTurn, Verdict
<1>3. CASE Valid(t) /\ t.got # "refused"
  <2> DEFINE k == [g EXCEPT !.allow = FALSE]
             k1 == [k EXCEPT !.status = "accepted_unconfirmed"]
             k2 == [k EXCEPT !.status = "rejected", !.reason = "other"]
  <2>1. \/ Await(k1, t, "rotation")
        \/ Report(k, t, "rejected") \/ LockedOut(k, t, "rejected", "other")
        \/ LockedOut(k, t, "phase_lockout_pending", "other")
        \/ \E p \in Interim(t) : Await(k2, [t EXCEPT !.want = p], "interim")
    <3> HIDE DEF k1, k2
    <3>1. CASE t.got = "accepted"
          BY <1>3, <3>1 DEF AfterSet, Refusal, k1
    <3>2. CASE t.got = "rejected"
          BY <1>3, <3>2 DEF AfterSet
    <3>3. CASE t.got = "ReenableLockout"
          BY <1>3, <3>3 DEF AfterSet
    <3>4. CASE t.got = "PhaseSwitchLockout"
          BY <1>3, <3>4 DEF AfterSet, k2
    <3> QED BY <1>0, <1>3, <3>1, <3>2, <3>3, <3>4 DEF Refusal
  <2>2. /\ k \in Grid /\ Turned(t, k) /\ k.requested = grid.requested
    <3>1. k = [g EXCEPT !.allow = FALSE]
          OBVIOUS
    <3> HIDE DEF k
    <3>2. /\ k \in Grid /\ k.requested = g.requested /\ k.ready = g.ready /\ k.epoch = g.epoch
          /\ k.latest = g.latest /\ k.confirmed = g.confirmed /\ k.uncertain = g.uncertain
          BY <1>0, <3>1 DEF Grid
    <3> QED BY <1>0, <3>2 DEF Turned, Observes, Silent
  <2> HIDE DEF k
  <2>3. /\ k1 \in Grid /\ Turned(t, k1) /\ k1.requested = grid.requested
        /\ k1.status = "accepted_unconfirmed"
    <3>1. k1 = [k EXCEPT !.status = "accepted_unconfirmed"]
          OBVIOUS
    <3> HIDE DEF k1
    <3>2. /\ k1 \in Grid /\ k1.requested = k.requested /\ k1.ready = k.ready /\ k1.epoch = k.epoch
          /\ k1.latest = k.latest /\ k1.confirmed = k.confirmed /\ k1.uncertain = k.uncertain
          /\ k1.status = "accepted_unconfirmed"
          BY <2>2, <3>1 DEF Grid
    <3> QED BY <2>2, <3>2 DEF Turned, Observes
  <2>4. /\ k2 \in Grid /\ Turned(t, k2) /\ k2.status = "rejected"
    <3>1. k2 = [k EXCEPT !.status = "rejected", !.reason = "other"]
          OBVIOUS
    <3> HIDE DEF k2
    <3>2. /\ k2 \in Grid /\ k2.requested = k.requested /\ k2.ready = k.ready /\ k2.epoch = k.epoch
          /\ k2.latest = k.latest /\ k2.confirmed = k.confirmed /\ k2.uncertain = k.uncertain
          /\ k2.status = "rejected"
          BY <2>2, <3>1 DEF Grid
    <3> QED BY <2>2, <3>2 DEF Turned, Observes
  <2> HIDE DEF k1, k2
  <2>5. CASE Await(k1, t, "rotation")
    <3>1. Awaits(k1, t, "rotation")
          BY <1>0, <2>5, AwaitForm
    <3>2. PICK u \in Task :
            /\ AwaitsAs(k1, u) /\ u.epoch = t.epoch /\ u.tx = t.tx /\ u.began = t.began
            /\ u.confirmOnly = t.confirmOnly /\ Waits(u) /\ u.pc = "rotation" /\ u.want = t.want
          BY <3>1 DEF Awaits
    <3>3. Onward(t, k1, u)
          BY <2>3, <3>2 DEF Onward
    <3> QED BY <1>3, <2>3, <3>2, <3>3 DEF Turning, NextTurn
  <2>6. CASE \/ Report(k, t, "rejected") \/ LockedOut(k, t, "rejected", "other")
             \/ LockedOut(k, t, "phase_lockout_pending", "other")
    <3>1. Reports(t, "rejected", k.requested) \/ Reports(t, "phase_lockout_pending", k.requested)
          BY <1>0, <1>3, <2>2, <2>6, PlainForm, LockedOutForm DEF Statuses, Telling, Trouble, Reasons
    <3> QED BY <1>3, <3>1, ReportsEnd DEF Statuses, Telling, Trouble, Turning
  <2>7. CASE \E p \in Interim(t) : Await(k2, [t EXCEPT !.want = p], "interim")
    <3>1. PICK p \in Interim(t) : Await(k2, [t EXCEPT !.want = p], "interim")
          BY <2>7
    <3>2. p \in Wanted /\ (p.amps > 0 => t.want.amps > 0)
      <4>1. p = Zero \/ (t.want # Zero /\ p \in Points)
            BY DEF Interim
      <4>2. t.want # Zero => t.want.amps > 0
            BY <1>0, PointForm DEF Wanted
      <4> QED BY <4>1, <4>2, ZeroForm, PointForm
    <3> DEFINE v == [t EXCEPT !.want = p]
    <3>3. v = [t EXCEPT !.want = p] /\ Await(k2, v, "interim")
          BY <3>1
    <3> HIDE DEF v
    <3>4. /\ v \in Task /\ v.epoch = t.epoch /\ v.tx = t.tx /\ v.began = t.began
          /\ v.confirmOnly = t.confirmOnly /\ v.want = p
          BY <1>0, <3>2, <3>3 DEF Task
    <3>5. Awaits(k2, v, "interim")
          BY <3>3, <3>4, AwaitForm
    <3>6. PICK u \in Task :
            /\ AwaitsAs(k2, u) /\ u.epoch = v.epoch /\ u.tx = v.tx /\ u.began = v.began
            /\ u.confirmOnly = v.confirmOnly /\ Waits(u) /\ u.pc = "interim" /\ u.want = v.want
          BY <3>5 DEF Awaits
    <3>7. Onward(t, k2, u)
          BY <2>4, <3>2, <3>4, <3>6 DEF Onward
    <3> QED BY <1>3, <2>4, <3>6, <3>7 DEF Turning, NextTurn
  <2> QED BY <2>1, <2>5, <2>6, <2>7
<1> QED BY <1>1, <1>2, <1>3

LEMMA InterimTurns ==
  ASSUME TypeOK, NEW t, NEW g, Turns(t, g), t.pc = "interim", t.got # "timeout", AfterInterim(g, t)
  PROVE  Turning(t)
<1>0. /\ g \in Grid /\ t \in Task /\ Turned(t, g) /\ Silent(g) /\ Proposing(t)
      BY DEF TypeOK, Turns, Turned, Proposing
<1>1. CASE ~Valid(t)
      BY <1>1, StaleTurns DEF AfterInterim, Turning
<1>2. CASE Valid(t) /\ t.got = "refused"
  <2>1. End(g, t) /\ g.latest = grid.latest /\ g.epoch = grid.epoch
        BY <1>0, <1>2 DEF AfterInterim, Turned
  <2>2. EndsWith(t, g)
        BY <1>0, <1>2, <2>1, EndForm
  <2> QED BY <1>0, <1>2, <2>2 DEF Turning, EndTurn, Verdict
<1>3. CASE Valid(t) /\ t.got = "accepted"
  <2>1. Awaits(g, t, "check")
        BY <1>0, <1>3, AwaitForm DEF AfterInterim
  <2>2. PICK u \in Task :
          /\ AwaitsAs(g, u) /\ u.epoch = t.epoch /\ u.tx = t.tx /\ u.began = t.began
          /\ u.confirmOnly = t.confirmOnly /\ Waits(u) /\ u.pc = "check" /\ u.want = t.want
        BY <2>1 DEF Awaits
  <2>3. Onward(t, g, u)
        BY <1>0, <2>2 DEF Onward
  <2> QED BY <1>0, <1>3, <2>2, <2>3 DEF Turning, NextTurn
<1>4. CASE Valid(t) /\ t.got \notin {"accepted", "refused"}
  <2>1. Report(g, t, "rejected") \/ LockedOut(g, t, "phase_lockout_pending", "other")
        BY <1>4 DEF AfterInterim
  <2>2. Reports(t, "rejected", g.requested) \/ Reports(t, "phase_lockout_pending", g.requested)
        BY <1>0, <1>4, <2>1, PlainForm, LockedOutForm DEF Statuses, Telling, Trouble, Reasons
  <2> QED BY <1>4, <2>2, ReportsEnd DEF Statuses, Telling, Trouble, Turning
<1> QED BY <1>1, <1>2, <1>3, <1>4

LEMMA CheckTurns ==
  ASSUME TypeOK, NEW t, NEW g, Turns(t, g), t.pc = "check", AfterCheck(g, t)
  PROVE  Turning(t)
<1>1. CASE ~Valid(t)
      BY <1>1, StaleTurns DEF AfterCheck, Turning
<1>2. CASE Valid(t)
  <2>1. Noted(g, t) \in Grid /\ Turned(t, Noted(g, t))
        BY <1>2, NotedForm DEF Proposing
  <2>2. LockedOut(Noted(g, t), t, "phase_lockout_pending", g.reason) /\ g.reason \in Reasons
        BY <1>2 DEF AfterCheck, Turns, Turned, Grid, Reasons
  <2>3. Reports(t, "phase_lockout_pending", Noted(g, t).requested)
        BY <1>2, <2>1, <2>2, LockedOutForm DEF Statuses, Telling, Trouble
  <2> QED BY <1>2, <2>3, ReportsEnd DEF Statuses, Telling, Trouble, Turning
<1> QED BY <1>1, <1>2

LEMMA ConfirmTurns ==
  ASSUME TypeOK, NEW t, NEW g, Turns(t, g), t.pc = "confirm", AfterConfirm(g, t)
  PROVE  Turning(t)
<1>1. CASE ~Valid(t)
      BY <1>1, StaleTurns DEF AfterConfirm, Turning
<1>2. CASE Valid(t)
  <2>1. /\ Noted(g, t) \in Grid /\ Turned(t, Noted(g, t)) /\ Noted(g, t).requested = grid.requested
        /\ t \in Task
        BY <1>2, NotedForm DEF Proposing, Turns, Silent
  <2>2. CASE Matches(Reading(t), t.want)
    <3>1. Report(Noted(g, t), t, "confirmed")
          BY <1>2, <2>2 DEF AfterConfirm
    <3>2. Reports(t, "confirmed", grid.requested)
      <4>1. Reports(t, "confirmed", Noted(g, t).requested)
            BY <1>2, <2>1, <3>1, PlainForm DEF Statuses, Telling, Trouble
      <4> QED BY <2>1, <4>1
    <3>3. PICK h \in Grid : Turned(t, h) /\ EndsWith(t, h) /\ h.status = "confirmed" /\ h.outcome
                            /\ h.requested = grid.requested
          BY <3>2 DEF Reports
    <3>4. Verdict(t, h)
          BY <2>2, <3>3 DEF Verdict, Matches
    <3> QED BY <1>2, <3>3, <3>4 DEF Turning, EndTurn
  <2>3. CASE ~Matches(Reading(t), t.want)
    <3>1. Report(Noted(g, t), t, "accepted_unconfirmed")
          BY <1>2, <2>3 DEF AfterConfirm
    <3>2. Reports(t, "accepted_unconfirmed", Noted(g, t).requested)
          BY <1>2, <2>1, <3>1, PlainForm DEF Statuses, Telling, Trouble
    <3> QED BY <1>2, <3>2, ReportsEnd DEF Statuses, Telling, Trouble, Turning
  <2> QED BY <2>2, <2>3
<1> QED BY <1>1, <1>2

LEMMA NoAnswerTurns ==
  ASSUME TypeOK, NEW t, NEW g, Turns(t, g), t.got = "timeout", NoAnswer(g, t)
  PROVE  Turning(t)
<1>0. g \in Grid /\ t \in Task /\ Turned(t, g) /\ Silent(g) /\ g.reason = grid.reason
      BY DEF Turns, Turned
<1> DEFINE interim == "interim_readback_failure"
           blamed == [g EXCEPT !.reason = IF t.pc = "check" THEN interim ELSE @]
<1>a. PICK r \in Reasons : r = IF t.pc = "check" THEN interim ELSE g.reason
      BY <1>0 DEF Reasons, Grid
<1>b. blamed = [g EXCEPT !.reason = r]
      BY <1>a
<1>c. IF ~Valid(t) THEN End(blamed, t)
      ELSE IF t.pc = "check" THEN LockedOut(blamed, t, "phase_lockout_pending", interim)
      ELSE Report(g, t, IF g.status = "accepted_unconfirmed" THEN g.status
                        ELSE "communication_failure")
      BY DEF NoAnswer
<1> HIDE DEF blamed
<1>2. /\ blamed \in Grid /\ blamed.reason = r /\ blamed.ready = g.ready
      /\ blamed.epoch = g.epoch /\ blamed.latest = g.latest /\ blamed.status = g.status
      /\ blamed.requested = g.requested /\ blamed.confirmed = g.confirmed
      /\ blamed.outcome = g.outcome /\ blamed.allow = g.allow /\ blamed.retry = g.retry
      /\ blamed.uncertain = g.uncertain
      BY <1>0, <1>b DEF Grid, Reasons
<1>3. Turned(t, blamed) /\ Silent(blamed)
      BY <1>0, <1>2 DEF Turned, Observes, Silent
<1>4. CASE ~Valid(t)
  <2>1. Blames(t, blamed)
        BY <1>0, <1>2, <1>a, <1>4 DEF Blames
  <2>2. StaleTurn(t)
        BY <1>2, <1>3, <1>4, <1>c, <2>1, StaleEnds
  <2> QED BY <1>4, <2>2 DEF Turning
<1>5. CASE Valid(t)
  <2>1. CASE t.pc = "check"
    <3>1. Reports(t, "phase_lockout_pending", blamed.requested)
          BY <1>0, <1>2, <1>3, <1>5, <1>c, <2>1, LockedOutForm DEF Statuses, Reasons
    <3> QED BY <1>5, <3>1, ReportsEnd DEF Statuses, Turning
  <2>2. CASE t.pc # "check"
    <3>1. Report(g, t, "accepted_unconfirmed") \/ Report(g, t, "communication_failure")
          BY <1>5, <1>c, <2>2
    <3>2. \E status \in Statuses \ {"confirmed"} : Reports(t, status, g.requested)
          BY <1>0, <1>5, <3>1, PlainForm DEF Statuses, Telling, Trouble
    <3> QED BY <1>5, <3>2, ReportsEnd DEF Turning
  <2> QED BY <2>1, <2>2
<1> QED BY <1>4, <1>5

LEMMA RotationTurns ==
  ASSUME TypeOK, NEW t, NEW g, Turns(t, g), t.pc = "rotation", Await(g, t, "confirm")
  PROVE  Turning(t)
<1>0. g \in Grid /\ t \in Task /\ Turned(t, g) /\ Silent(g) /\ Blames(t, g)
      BY DEF Turns, Turned, Blames
<1>1. CASE ~Valid(t)
      BY <1>0, <1>1 DEF Turning, StaleTurn, Await, Onto
<1>2. CASE Valid(t)
  <2>1. Awaits(g, t, "confirm")
        BY <1>0, AwaitForm
  <2>2. PICK u \in Task :
          /\ AwaitsAs(g, u) /\ u.epoch = t.epoch /\ u.tx = t.tx /\ u.began = t.began
          /\ u.confirmOnly = t.confirmOnly /\ Waits(u) /\ u.pc = "confirm" /\ u.want = t.want
        BY <2>1 DEF Awaits
  <2>3. Onward(t, g, u)
        BY <1>0, <2>2 DEF Onward
  <2> QED BY <1>0, <1>2, <2>2, <2>3 DEF Turning, NextTurn
<1> QED BY <1>1, <1>2

(* The observed phases may be corrected by a readback of the rotation. *)
Corrects(t) ==
  /\ seen' \in Seen /\ seen'.tx = seen.tx /\ seen'.gen = seen.gen /\ seen'.link = seen.link
  /\ seen'.authority = seen.authority /\ seen'.enabled = seen.enabled
  /\ ~Valid(t) \/ t.pc # "rotation" \/ calls' = calls => seen' = seen

LEMMA RunTurns ==
  ASSUME TypeOK, Tasks, RunTask
  PROVE  LET t == Head(grid.ready)
         IN /\ \E g : Turns(t, g)
            /\ Turning(t) /\ Corrects(t)
            /\ grid.ready # <<>> /\ UNCHANGED <<station, act, sent, inbox, ops>>
<1> DEFINE t == Head(grid.ready)
           g0 == [grid EXCEPT !.ready = Tail(@)]
           g == IF t.pc \in {"set", "interim"}
                THEN [g0 EXCEPT !.uncertain = Answered(@, t.epoch, t.got)] ELSE g0
<1>1. grid.ready # <<>> /\ UNCHANGED <<station, act, sent, inbox, ops>>
      BY DEF RunTask
<1>2. g = [grid EXCEPT !.ready = Tail(@),
             !.uncertain = IF Proposing(t) THEN Answered(@, t.epoch, t.got) ELSE @]
  <2>1. grid \in Grid
        BY DEF TypeOK
  <2>2. CASE Proposing(t)
        BY <2>1, <2>2 DEF Proposing, Grid
  <2>3. CASE ~Proposing(t)
        BY <2>1, <2>3 DEF Proposing, Grid
  <2> QED BY <2>2, <2>3
<1>3. PICK u, k : u = t /\ k = g
      OBVIOUS
<1>4. Turns(u, k)
  <2> HIDE DEF t, g
  <2>1. Turns(t, g)
    <3>1. t = Head(grid.ready)
          BY DEF t
    <3> QED BY <1>1, <1>2, <3>1, TurnsForm
  <2> QED BY <1>3, <2>1
<1>5. /\ u \in Task /\ Woken(u)
      BY <1>4 DEF Turns
<1>6. Turning(u)
  <2>1. CASE u.got = "timeout"
    <3>1. NoAnswer(k, u)
          BY <1>3, <2>1 DEF RunTask
    <3> QED BY <1>4, <2>1, <3>1, NoAnswerTurns
  <2>2. CASE u.got # "timeout" /\ u.pc = "start"
    <3>1. StartTask(k, u)
          BY <1>3, <2>2 DEF RunTask
    <3> QED BY <1>4, <2>2, <3>1, StartTurns
  <2>3. CASE u.got # "timeout" /\ u.pc = "read"
    <3>1. AfterRead(k, u)
          BY <1>3, <2>3 DEF RunTask
    <3> QED BY <1>4, <2>3, <3>1, ReadTurns
  <2>4. CASE u.got # "timeout" /\ u.pc = "set"
    <3>1. AfterSet(k, u)
          BY <1>3, <2>4 DEF RunTask
    <3> QED BY <1>4, <2>4, <3>1, SetTurns
  <2>5. CASE u.got # "timeout" /\ u.pc = "rotation"
    <3>1. Await(k, u, "confirm")
          BY <1>3, <2>5 DEF RunTask
    <3> QED BY <1>4, <2>5, <3>1, RotationTurns
  <2>6. CASE u.got # "timeout" /\ u.pc = "confirm"
    <3>1. AfterConfirm(k, u)
          BY <1>3, <2>6 DEF RunTask
    <3> QED BY <1>4, <2>6, <3>1, ConfirmTurns
  <2>7. CASE u.got # "timeout" /\ u.pc = "interim"
    <3>1. AfterInterim(k, u)
          BY <1>3, <2>7 DEF RunTask
    <3> QED BY <1>4, <2>7, <3>1, InterimTurns
  <2>8. CASE u.got # "timeout" /\ u.pc = "check"
    <3>1. AfterCheck(k, u)
          BY <1>3, <2>8 DEF RunTask
    <3> QED BY <1>4, <2>8, <3>1, CheckTurns
  <2>9. u.pc \in {"start", "read", "set", "rotation", "confirm", "interim", "check"}
        BY <1>5 DEF Task
  <2> QED BY <2>1, <2>2, <2>3, <2>4, <2>5, <2>6, <2>7, <2>8, <2>9
<1>7. Corrects(u)
  <2>1. seen \in Seen
        BY DEF TypeOK
  <2>2. seen' = IF u.pc = "rotation" /\ u.found # None /\ Valid(u)
                THEN [seen EXCEPT !.phases = u.found.phases] ELSE seen
    <3> HIDE DEF g
    <3> QED BY <1>3 DEF RunTask
  <2>3. CASE u.pc = "rotation" /\ u.found # None /\ Valid(u)
    <3>1. u.found \in Offer /\ u.got # "timeout"
          BY <1>5, <2>3 DEF Task, Woken
    <3>2. PICK n \in 0..3 : n = u.found.phases
      <4>1. u.found \in [amps: Nat, phases: 1..3]
            BY <3>1, OfferForm
      <4> QED BY <4>1
    <3>3. seen' = [seen EXCEPT !.phases = n]
          BY <2>2, <2>3, <3>2
    <3>4. Await(k, u, "confirm")
          BY <1>3, <2>3, <3>1 DEF RunTask
    <3>5. calls' # calls
      <4>1. calls' = Append(calls, Onto(u, "confirm")) /\ calls \in Seq(Task)
            BY <3>4 DEF Await, Onto, TypeOK
      <4>2. Onto(u, "confirm") \in Task
            BY <1>5, OntoForm
      <4>3. Len(calls') = Len(calls) + 1 /\ Len(calls) \in Nat
            BY <4>1, <4>2, AppendElements
      <4> QED BY <4>3
    <3> QED BY <2>1, <2>3, <3>3, <3>5 DEF Corrects, Seen
  <2>4. CASE ~(u.pc = "rotation" /\ u.found # None /\ Valid(u))
        BY <2>1, <2>2, <2>4 DEF Corrects
  <2> QED BY <2>3, <2>4
<1> QED BY <1>1, <1>3, <1>4, <1>6, <1>7

LEMMA LeaveTasks ==
  ASSUME TypeOK, TypeOK', Tasks, NEW t, NEW g, Turns(t, g), Corrects(t), grid.ready # <<>>,
         grid'.ready = Tail(grid.ready), grid'.latest = grid.latest,
         grid'.epoch \in {grid.epoch, grid.epoch + 1},
         \/ calls' = calls
         \/ \E u \in Task : /\ calls' = Append(calls, u) /\ u.epoch = t.epoch /\ u.tx = t.tx
                            /\ Waits(u)
  PROVE  Tasks'
<1>0. /\ grid.ready \in Seq(Task) /\ calls \in Seq(Task) /\ grid.epoch \in Nat /\ grid.latest \in Nat
      /\ Apart(grid.ready, calls) /\ grid.latest <= grid.epoch /\ t = Head(grid.ready) /\ t \in Task
      BY DEF TypeOK, Grid, Tasks, Turns
<1>1. /\ Apart(Tail(grid.ready), calls)
      /\ \A v \in ToSet(Tail(grid.ready)) \cup ToSet(calls) : v.epoch # t.epoch
      BY <1>0, ApartTail
<1>2. ToSet(grid.ready) = {t} \cup ToSet(Tail(grid.ready))
      BY <1>0, HeadAmong
<1>3. \A v \in Live(grid) : v \in Task /\ v.epoch \in Nat /\ v.epoch <= grid.latest /\ Scoped(v)
  <2>1. Live(grid) \subseteq Task
        BY <1>0, AmongType DEF Live
  <2> QED BY <2>1 DEF Tasks, Task
<1>4. \A v \in Live(grid) : Scoped(v)'
      BY <1>0, <1>3 DEF Scoped, Corrects, Eligible
<1>5. CASE calls' = calls
  <2>1. \A v \in Live(grid)' : v \in Live(grid)
        BY <1>2, <1>5 DEF Live
  <2>2. Apart(grid'.ready, calls') /\ grid'.latest <= grid'.epoch
        BY <1>0, <1>1, <1>5
  <2>3. \A v \in ToSet(grid'.ready) : Woken(v)
        BY <1>2 DEF Tasks
  <2> QED BY <1>3, <1>4, <1>5, <2>1, <2>2, <2>3 DEF Tasks
<1>6. CASE \E u \in Task : /\ calls' = Append(calls, u) /\ u.epoch = t.epoch /\ u.tx = t.tx
                           /\ Waits(u)
  <2>1. PICK u \in Task : /\ calls' = Append(calls, u) /\ u.epoch = t.epoch /\ u.tx = t.tx
                          /\ Waits(u)
        BY <1>6
  <2>2. ToSet(calls') = ToSet(calls) \cup {u}
        BY <1>0, <2>1, AppendAmong
  <2>3. Apart(grid'.ready, calls') /\ grid'.latest <= grid'.epoch
        BY <1>0, <2>1, ApartAwaits
  <2>4. \A v \in Live(grid)' : v = u \/ v \in Live(grid)
        BY <1>2, <2>2 DEF Live
  <2>5. t \in Live(grid)
        BY <1>2 DEF Live
  <2>6. u.epoch <= grid'.latest /\ Scoped(u)'
    <3>1. t.epoch <= grid.latest /\ Scoped(t)'
          BY <1>3, <1>4, <2>5
    <3> QED BY <2>1, <3>1 DEF Scoped
  <2>7. \A v \in ToSet(grid'.ready) : Woken(v)
        BY <1>2 DEF Tasks
  <2>8. \A v \in ToSet(calls') : Waits(v)
        BY <2>1, <2>2 DEF Tasks
  <2>9. \A v \in Live(grid)' : v.epoch <= grid'.latest /\ Scoped(v)'
    <3> HIDE DEF Live, Scoped
    <3> QED BY <1>3, <1>4, <2>4, <2>6
  <2> QED BY <2>3, <2>7, <2>8, <2>9 DEF Tasks
<1> QED BY <1>5, <1>6

LEMMA LeaveSpawns ==
  ASSUME TypeOK, TypeOK', Tasks, NEW t, NEW g, Turns(t, g), seen' = seen, grid.ready # <<>>,
         Eligible(seen), NEW e \in Nat, grid'.epoch = e, grid'.latest = e, calls' = calls,
         (e = grid.epoch /\ t.epoch = grid.epoch) \/ e = grid.epoch + 1,
         grid'.ready = Append(Tail(grid.ready), NewTask(e, seen, doc', FALSE))
  PROVE  Tasks'
<1>0. /\ grid.ready \in Seq(Task) /\ calls \in Seq(Task) /\ grid.epoch \in Nat /\ grid.latest \in Nat
      /\ Apart(grid.ready, calls) /\ grid.latest <= grid.epoch /\ t = Head(grid.ready) /\ t \in Task
      /\ seen \in Seen /\ doc' \in Doc
      BY DEF TypeOK, Grid, Tasks, Turns
<1>1. /\ Apart(Tail(grid.ready), calls) /\ Tail(grid.ready) \in Seq(Task)
      /\ \A v \in ToSet(Tail(grid.ready)) \cup ToSet(calls) : v.epoch # t.epoch
      BY <1>0, ApartTail, TailElements
<1>2. ToSet(grid.ready) = {t} \cup ToSet(Tail(grid.ready))
      BY <1>0, HeadAmong
<1>3. \A v \in Live(grid) : v \in Task /\ v.epoch \in Nat /\ v.epoch <= grid.latest /\ Scoped(v)
  <2>1. Live(grid) \subseteq Task
        BY <1>0, AmongType DEF Live
  <2> QED BY <2>1 DEF Tasks, Task
<1>4. PICK n \in Task : n = NewTask(e, seen, doc', FALSE)
      BY <1>0, NewTaskForm
<1>5. n.epoch = e /\ n.tx = seen.tx /\ n.pc = "start" /\ n.got = "none" /\ n.found = None
      BY <1>4 DEF NewTask
<1>6. grid'.ready = Append(Tail(grid.ready), n)
      BY <1>4
<1>7. \A v \in ToSet(Tail(grid.ready)) \cup ToSet(calls) :
         v.epoch \in Nat /\ v.epoch <= e /\ v.epoch # e
  <2>1. \A v \in ToSet(Tail(grid.ready)) \cup ToSet(calls) : v \in Live(grid)
        BY <1>2 DEF Live
  <2>2. \A v \in ToSet(Tail(grid.ready)) \cup ToSet(calls) :
          v.epoch \in Nat /\ v.epoch <= grid.latest /\ v.epoch # t.epoch
        BY <1>1, <1>3, <2>1
  <2> QED BY <1>0, <2>2
<1>8. Apart(grid'.ready, calls')
      BY <1>0, <1>1, <1>5, <1>6, <1>7, ApartSpawns
<1>9. ToSet(grid'.ready) = ToSet(Tail(grid.ready)) \cup {n}
  <2>1. PICK r \in Seq(Task) : r = Tail(grid.ready)
        BY <1>1
  <2>2. ToSet(Append(r, n)) = ToSet(r) \cup {n}
        BY AppendAmong
  <2> QED BY <1>6, <2>1, <2>2
<1>10. \A v \in ToSet(grid'.ready) : Woken(v)
  <2>1. Woken(n)
        BY <1>5 DEF Woken, AnswersTo
  <2> QED BY <1>2, <1>9, <2>1 DEF Tasks
<1>11. Live(grid)' = ToSet(Tail(grid.ready)) \cup ToSet(calls) \cup {n}
       BY <1>9 DEF Live
<1>12. \A v \in Live(grid)' : v.epoch <= grid'.latest /\ Scoped(v)'
  <2>1. \A v \in ToSet(Tail(grid.ready)) \cup ToSet(calls) : v.epoch <= grid'.latest /\ Scoped(v)'
        BY <1>7 DEF Scoped
  <2>2. n.epoch <= grid'.latest /\ Scoped(n)'
        BY <1>5 DEF Scoped
  <2> QED BY <1>11, <2>1, <2>2
<1>13. grid'.latest <= grid'.epoch /\ \A v \in ToSet(calls') : Waits(v)
       BY DEF Tasks
<1> QED BY <1>8, <1>10, <1>12, <1>13 DEF Tasks

(* What holds of the rest of grid, once the turn's task is out of it. *)
LEMMA TurnBusy ==
  ASSUME TypeOK, Tasks, NEW t, NEW g, Turns(t, g), Valid(t), NEW h, Turned(t, h), grid.ready # <<>>
  PROVE  ~Busy(h) /\ h.latest = h.epoch /\ h.epoch = t.epoch
<1>0. /\ grid.ready \in Seq(Task) /\ calls \in Seq(Task) /\ Apart(grid.ready, calls)
      /\ t = Head(grid.ready) /\ h.ready = Tail(grid.ready) /\ h.latest = t.epoch
      /\ h.epoch = t.epoch
      BY DEF TypeOK, Grid, Tasks, Turns, Turned
<1>1. \A v \in ToSet(Tail(grid.ready)) \cup ToSet(calls) : v.epoch # t.epoch
      BY <1>0, ApartTail
<1> QED BY <1>0, <1>1 DEF Busy, Live

LEMMA RunWire ==
  ASSUME TypeOK, OnWire, UNCHANGED <<sent, inbox>>,
         calls' = calls \/ \E u \in Task : calls' = Append(calls, u)
  PROVE  OnWire'
<1>1. CASE calls' = calls
      BY <1>1 DEF OnWire
<1>2. CASE \E u \in Task : calls' = Append(calls, u)
  <2>1. PICK u \in Task : calls' = Append(calls, u)
        BY <1>2
  <2>2. calls \in Seq(Task)
        BY DEF TypeOK
  <2>3. calls' # <<>> /\ (calls # <<>> => Head(calls') = Head(calls))
        BY <2>1, <2>2, AppendElements, AppendHead
  <2> QED BY <2>3 DEF OnWire
<1> QED BY <1>1, <1>2

(* What a turn makes of the held observation is known. *)
LEMMA RunKnown ==
  ASSUME TypeOK, Known, NEW t, NEW g, Turns(t, g), Corrects(t), station' = station,
         \/ grid'.confirmed \in {grid.confirmed, None}
         \/ /\ Reading(t) # None
            /\ grid'.confirmed = [point |-> t.found, tx |-> t.tx, gen |-> seen.gen]
  PROVE  Known'
<1>1. CASE grid'.confirmed \in {grid.confirmed, None}
      BY <1>1 DEF Known, Corrects
<1>2. CASE /\ Reading(t) # None
           /\ grid'.confirmed = [point |-> t.found, tx |-> t.tx, gen |-> seen.gen]
  <2>1. Eligible(seen) /\ t.tx = seen.tx
        BY <1>2 DEF Reading, Valid
  <2>2. t.tx = station.tx /\ station.tx # None
        BY <2>1 DEF Known, Eligible
  <2> QED BY <1>2, <2>1, <2>2 DEF Known, Corrects, Eligible
<1> QED BY <1>1, <1>2

LEMMA TurnedHeld ==
  ASSUME NEW t, NEW h, Turned(t, h)
  PROVE  \/ h.confirmed = grid.confirmed
         \/ /\ Reading(t) # None
            /\ h.confirmed = [point |-> t.found, tx |-> t.tx, gen |-> seen.gen]
BY DEF Turned, Observes

LEMMA StopTurnForm ==
  ASSUME TypeOK, NEW t, NEW g, Turns(t, g), Corrects(t), t.pc = "start", NEW h \in Grid, Turned(t, h),
         Tasks, StopRelease(h)
  PROVE  /\ doc' \in Doc /\ grid' \in Grid /\ storing' = TRUE /\ Moves(h, grid', seen, doc')
         /\ ~doc'.release /\ seen' = seen /\ (Eligible(seen) => grid'.latest = h.epoch + 1)
<1>1. h.latest <= h.epoch /\ doc \in Doc /\ seen \in Seen
      BY DEF Turned, Tasks, TypeOK
<1>2. seen' = seen
      BY DEF Corrects
<1> QED BY <1>1, <1>2, StopReleaseForm

LEMMA RunMoves ==
  ASSUME TypeOK, Tasks, OnWire, Known, RunTask
  PROVE  TypeOK' /\ Tasks' /\ OnWire' /\ Known'
<1>1. PICK t, g : /\ Turns(t, g) /\ Turning(t) /\ Corrects(t)
                  /\ grid.ready # <<>> /\ UNCHANGED <<station, act, sent, inbox, ops>>
      BY RunTurns
<1>0. grid \in Grid /\ calls \in Seq(Task) /\ grid.epoch \in Nat /\ grid.latest \in Nat /\ t \in Task
      /\ grid.latest <= grid.epoch
      BY <1>1 DEF TypeOK, Grid, Turns, Tasks
<1>2. CASE ~Valid(t) /\ StaleTurn(t)
  <2>1. PICK h \in Grid : /\ Turned(t, h) /\ Silent(h) /\ grid' = h /\ UNCHANGED <<doc, storing>>
                          /\ calls' = calls \/ calls' = Append(calls, Onto(t, "confirm"))
        BY <1>2 DEF StaleTurn
  <2>2. /\ Onto(t, "confirm") \in Task /\ Onto(t, "confirm").epoch = t.epoch
        /\ Onto(t, "confirm").tx = t.tx /\ Waits(Onto(t, "confirm"))
        BY <1>0, OntoForm
  <2>3. \/ calls' = calls
        \/ \E u \in Task : /\ calls' = Append(calls, u) /\ u.epoch = t.epoch /\ u.tx = t.tx
                           /\ Waits(u)
        BY <2>1, <2>2
  <2>4. calls' \in Seq(Task)
        BY <1>0, <2>3, AppendElements
  <2>5. TypeOK'
        BY <1>1, <2>1, <2>4 DEF TypeOK, Corrects
  <2>6. Tasks'
        BY <1>1, <2>1, <2>3, <2>5, LeaveTasks DEF Turned
  <2>7. OnWire'
        BY <1>1, <2>3, RunWire
  <2>8. Known'
        BY <1>1, <2>1, RunKnown DEF Silent
  <2> QED BY <2>5, <2>6, <2>7, <2>8
<1>3. CASE Valid(t) /\ EndTurn(t)
  <2>1. PICK h \in Grid : Turned(t, h) /\ EndsWith(t, h)
        BY <1>3 DEF EndTurn
  <2>2. calls' = calls /\ UNCHANGED <<doc, storing>> /\ grid' \in Grid
        BY <2>1 DEF EndsWith
  <2>3. TypeOK'
        BY <1>1, <2>2 DEF TypeOK, Corrects
  <2>4. \/ grid' = h
        \/ /\ Alike(h, grid') /\ grid'.latest = h.epoch /\ Eligible(seen)
           /\ grid'.ready = Append(h.ready, NewTask(h.epoch, seen, doc, FALSE))
        \/ Keeps(h, grid')
        BY <2>1 DEF EndsWith, Spawns, Keeps
  <2>5. Tasks'
    <3>1. CASE grid' = h \/ Keeps(h, grid')
          BY <1>1, <2>1, <2>2, <2>3, <3>1, LeaveTasks DEF Turned, Keeps, Alike
    <3>2. CASE /\ Alike(h, grid') /\ grid'.latest = h.epoch /\ Eligible(seen)
               /\ grid'.ready = Append(h.ready, NewTask(h.epoch, seen, doc, FALSE))
      <4>1. seen' = seen /\ doc' = doc
            BY <1>1, <2>2 DEF Corrects
      <4>2. h.ready = Tail(grid.ready) /\ h.epoch = grid.epoch /\ t.epoch = grid.epoch
            BY <1>1, <1>3, <2>1 DEF Turned, Turns
      <4>3. /\ grid'.epoch = grid.epoch /\ grid'.latest = grid.epoch /\ Eligible(seen)
            /\ grid'.ready = Append(Tail(grid.ready), NewTask(grid.epoch, seen, doc', FALSE))
            BY <3>2, <4>1, <4>2 DEF Alike
      <4> QED BY <1>0, <1>1, <2>2, <2>3, <4>1, <4>2, <4>3, LeaveSpawns
    <3> QED BY <2>4, <3>1, <3>2
  <2>6. OnWire'
        BY <1>1, <2>2, RunWire
  <2>7. grid'.confirmed = h.confirmed
        BY <2>4 DEF Alike, Keeps
  <2>8. Known'
        BY <1>1, <2>1, <2>7, TurnedHeld, RunKnown
  <2> QED BY <2>3, <2>5, <2>6, <2>8
<1>4. CASE Valid(t) /\ NextTurn(t)
  <2>1. PICK h \in Grid, u \in Task : Turned(t, h) /\ Onward(t, h, u) /\ AwaitsAs(h, u)
        BY <1>4 DEF NextTurn
  <2>2. /\ calls' = Append(calls, u) /\ u.epoch = t.epoch /\ u.tx = t.tx /\ Waits(u) /\ grid' = h
        /\ UNCHANGED <<doc, storing>>
        BY <2>1 DEF AwaitsAs, Onward
  <2>3. calls' \in Seq(Task)
        BY <1>0, <2>2, AppendElements
  <2>4. TypeOK'
        BY <1>1, <2>2, <2>3 DEF TypeOK, Corrects
  <2>5. Tasks'
        BY <1>1, <2>1, <2>2, <2>4, LeaveTasks DEF Turned
  <2>6. OnWire'
        BY <1>1, <2>2, RunWire
  <2>7. Known'
        BY <1>1, <2>1, <2>2, TurnedHeld, RunKnown
  <2> QED BY <2>4, <2>5, <2>6, <2>7
<1>5. CASE Valid(t) /\ StopTurn(t)
  <2>1. PICK h \in Grid : Turned(t, h) /\ Silent(h) /\ StopRelease(h)
        BY <1>5 DEF StopTurn
  <2>2. calls' = calls /\ t.pc = "start"
        BY <1>5 DEF StopTurn
  <2>3. /\ doc' \in Doc /\ grid' \in Grid /\ storing' = TRUE /\ Moves(h, grid', seen, doc')
        /\ seen' = seen
        BY <1>1, <2>1, <2>2, StopTurnForm
  <2>4. TypeOK'
        BY <1>1, <2>2, <2>3 DEF TypeOK
  <2>5. h.ready = Tail(grid.ready) /\ h.epoch = grid.epoch /\ h.latest = grid.latest
        /\ h.confirmed = grid.confirmed
        BY <2>1 DEF Turned, Silent
  <2>6. PICK e \in Nat : e = grid.epoch + 1
        BY <1>0
  <2>7. Tasks'
    <3>1. CASE grid'.latest = h.latest /\ grid'.ready = h.ready
      <4>1. grid'.epoch = grid.epoch + 1
            BY <2>3, <2>5 DEF Moves
      <4> QED BY <1>1, <2>2, <2>4, <2>5, <3>1, <4>1, LeaveTasks
    <3>2. CASE /\ Eligible(seen) /\ grid'.latest = h.epoch + 1
               /\ grid'.ready = Append(h.ready, NewTask(h.epoch + 1, seen, doc', FALSE))
      <4>1. /\ grid'.epoch = e /\ grid'.latest = e
            /\ grid'.ready = Append(Tail(grid.ready), NewTask(e, seen, doc', FALSE))
            BY <2>3, <2>5, <2>6, <3>2 DEF Moves
      <4> QED BY <1>1, <2>2, <2>3, <2>4, <2>6, <3>2, <4>1, LeaveSpawns
    <3> QED BY <2>3, <3>1, <3>2 DEF Moves
  <2>8. OnWire'
        BY <1>1, <2>2, RunWire
  <2>9. Known'
        BY <1>1, <2>3, <2>5, RunKnown DEF Moves
  <2> QED BY <2>4, <2>7, <2>8, <2>9
<1> QED BY <1>1, <1>2, <1>3, <1>4, <1>5 DEF Turning

-----------------------------------------------------------------------------
(* The state stays well typed, and the tasks stay apart. *)

Base == TypeOK /\ Tasks /\ OnWire /\ Known

(* What a step may be. *)
Effects ==
  \/ MoveEffect \/ SameEffect \/ (Disconnect /\ Cut)
  \/ RunTask \/ Send \/ StationHandles \/ CallTimesOut \/ UNCHANGED vars

LEMMA UsersMove ==
  ASSUME TypeOK, Tasks, Known, Users
  PROVE  TypeOK' /\ MoveEffect
<1>1. CASE Start
      BY <1>1, BeginMoves DEF Start
<1>2. CASE Apply
  <2>1. doc.approved \in Points
        BY DEF TypeOK, Doc
  <2>2. \E kind \in {"start", "delayed", "power", "both", "shift", "extend", "over"}, p \in Points :
          Begin(kind, p)
        BY <1>2, <2>1 DEF Apply
  <2> QED BY <2>2, BeginMoves
<1>3. CASE Stop \/ StopAgain \/ CommitEquivalent
      BY <1>3, StopMoves
<1> QED BY <1>1, <1>2, <1>3 DEF Users

LEMMA SavesMove ==
  ASSUME TypeOK, Tasks, Known, Saves
  PROVE  TypeOK' /\ (MoveEffect \/ SameEffect)
<1>1. CASE ActionStored
      BY <1>1, ActionStoredMoves
<1>2. CASE ActionSuperseded
      BY <1>2, DocMoves
<1>3. CASE ActionUndone \/ ReleaseStored
      BY <1>3, StopMoves
<1>4. CASE ActionFailed /\ (~doc.release \/ doc.phase = "expired")
      BY <1>4, FailedMoves
<1>5. CASE (ActionFailed /\ ~(~doc.release \/ doc.phase = "expired")) \/ ReleaseNotStored
      BY <1>5, KeptMoves
<1> QED BY <1>1, <1>2, <1>3, <1>4, <1>5 DEF Saves

LEMMA DeadlinesMove ==
  ASSUME TypeOK, Tasks, Known, Deadlines
  PROVE  TypeOK' /\ (MoveEffect \/ SameEffect)
<1>1. CASE StartDue \/ EndDue
      BY <1>1, DocMoves
<1>2. CASE DeadlineFires /\ doc.phase = "expired"
      BY <1>2, ExpiryMoves
<1>3. CASE (DeadlineFires /\ doc.phase # "expired") \/ RetryFires
      BY <1>3, LaunchMoves
<1> QED BY <1>1, <1>2, <1>3 DEF Deadlines

LEMMA ObservationsMove ==
  ASSUME TypeOK, Tasks, Known, Observations, ~Disconnect
  PROVE  TypeOK' /\ (MoveEffect \/ SameEffect)
<1>1. CASE \/ \E authority \in {"remote", "local"} : AuthoritySeen(authority)
           \/ CapabilitySeen \/ TxStart \/ TxSeen \/ (TxEnd /\ seen.tx # None)
           \/ PermissionSeen(FALSE)
      BY <1>1, ObservedMoves
<1>2. CASE (TxEnd /\ seen.tx = None) \/ PermissionSeen(TRUE)
      BY <1>2, KeptMoves
<1>3. CASE PhaseSeen
      BY <1>3, LaunchMoves
<1>4. CASE Register
      BY <1>4, RegisterMoves
<1> QED BY <1>1, <1>2, <1>3, <1>4 DEF Observations

LEMMA StepEffects ==
  ASSUME Base, [Next]_vars
  PROVE  Base' /\ Effects
<1>1. TypeOK /\ Tasks /\ OnWire /\ Known
      BY DEF Base
<1>2. CASE MoveEffect /\ TypeOK'
      BY <1>1, <1>2, MovesTasks, MovesKnown DEF Base, Effects
<1>3. CASE SameEffect /\ TypeOK'
      BY <1>1, <1>3, SameTasks, SameKnown DEF Base, Effects
<1>4. CASE Users \/ Saves \/ Deadlines \/ (Observations /\ ~Disconnect)
      BY <1>1, <1>2, <1>3, <1>4, UsersMove, SavesMove, DeadlinesMove, ObservationsMove
<1>5. CASE Disconnect
      BY <1>1, <1>5, DisconnectMoves DEF Base, Effects
<1>6. CASE RunTask
      BY <1>1, <1>6, RunMoves DEF Base, Effects
<1>7. CASE Send
      BY <1>1, <1>7, SendMoves DEF Base, Effects
<1>8. CASE StationHandles
      BY <1>1, <1>8, HandlesMoves DEF Base, Effects
<1>9. CASE CallTimesOut
      BY <1>1, <1>9, TimeoutMoves DEF Base, Effects
<1>10. CASE UNCHANGED vars
  <2>1. UNCHANGED <<doc, seen, station, grid, act, storing, calls, sent, inbox, ops>>
        BY <1>10 DEF vars, user, wire
  <2> QED BY <1>1, <1>10, <2>1 DEF Base, Effects, TypeOK, Tasks, OnWire, Known, Live, Scoped
<1> QED BY <1>4, <1>5, <1>6, <1>7, <1>8, <1>9, <1>10 DEF Next

LEMMA InitBase == Init => Base
<1> SUFFICES ASSUME Init PROVE Base
    OBVIOUS
<1>1. station \in Station /\ station.offer \in Own /\ (station.tx # None => station.tx \in station.past)
      BY OwnAssumption DEF Init, Station
<1>2. station.offer.phases \in 0..3
  <2>1. station.offer \in [amps: Nat, phases: 1..3]
        BY <1>1, OwnAssumption, OfferForm
  <2> QED BY <2>1
<1>3. seen \in Seen /\ seen.tx = None
      BY <1>2 DEF Init, Seen
<1>4. doc \in Doc
      BY DEF Init, Doc
<1>5. <<>> \in Seq(Task) /\ <<>> \in Seq(Proposal) /\ <<>> \in Seq(Msg)
      OBVIOUS
<1>6. /\ grid \in Grid /\ grid.epoch = 0 /\ grid.latest = 0 /\ grid.ready = <<>>
      /\ grid.confirmed = None /\ grid.uncertain = <<>> /\ ~grid.outcome
  <2>1. PICK known \in {None, station.tx} :
          grid = [epoch |-> 0, latest |-> 0, allow |-> FALSE, known |-> known,
                  last |-> "remote", requested |-> None, decided |-> "active",
                  confirmed |-> None, uncertain |-> <<>>, status |-> "waiting",
                  reason |-> "other", outcome |-> FALSE, retry |-> FALSE,
                  timer |-> "none", ready |-> <<>>]
        BY DEF Init
  <2>2. known \in Transactions \cup {None}
        BY <1>1, <2>1 DEF Station
  <2> QED BY <1>5, <2>1, <2>2 DEF Grid
<1>7. /\ act = None /\ storing = FALSE /\ calls = <<>> /\ sent = FALSE /\ inbox = <<>> /\ ops = 0
      BY DEF Init
<1>8. TypeOK
  <2>1. calls \in Seq(Task) /\ inbox \in Seq(Msg) /\ ops \in 0..MaxOps
        BY <1>5, <1>7, BoundsAssumption
  <2>2. act \in Act \cup {None} /\ storing \in BOOLEAN /\ sent \in BOOLEAN
        BY <1>7
  <2> QED BY <1>1, <1>3, <1>4, <1>6, <2>1, <2>2 DEF TypeOK
<1>9. Tasks
      BY <1>6, <1>7, EmptyAmong DEF Tasks, Apart, Distinct, Live
<1>10. OnWire
       BY <1>7 DEF OnWire
<1>11. Known
       BY <1>1, <1>3, <1>6 DEF Known
<1> QED BY <1>8, <1>9, <1>10, <1>11 DEF Base

(* Every state is typed, and the tasks, the calls on the wire and what is  *)
(* known of the station belong together.                                   *)
THEOREM BaseHolds == Spec => []Base
<1>1. Base /\ [Next]_vars => Base'
      BY StepEffects
<1> QED BY <1>1, InitBase, PTL DEF Spec

(* The state keeps its types, whatever the users, the station and the      *)
(* network do.                                                             *)
THEOREM TypeCorrect == Spec => []TypeOK
<1>1. Base => TypeOK
      BY DEF Base
<1> QED BY <1>1, BaseHolds, PTL

-----------------------------------------------------------------------------
(* What a superseded task may still change: the reason that is shown. *)

(* On the wire, tasks are woken and none goes on. *)
LEMMA WireReady ==
  ASSUME Base, Send \/ StationHandles \/ CallTimesOut
  PROVE  grid'.ready = grid.ready \/ \E n \in Task : grid'.ready = Append(grid.ready, n)
<1>1. TypeOK /\ Tasks /\ OnWire /\ calls \in Seq(Task)
      BY DEF Base, TypeOK
<1>2. ASSUME NEW got \in Outcome, NEW found \in Offer \cup {None}, Wakes(got, found)
      PROVE  \E n \in Task : grid'.ready = Append(grid.ready, n)
  <2>1. Head(calls) \in Task
        BY <1>1, <1>2, TailElements DEF Wakes
  <2>2. PICK n \in Task : n = Reply(Head(calls), got, found)
        BY <2>1, ReplyForm
  <2>3. grid' = [grid EXCEPT !.ready = Append(@, n)] /\ grid \in Grid
        BY <1>1, <1>2, <2>2 DEF Wakes, TypeOK
  <2> QED BY <2>3 DEF Grid
<1>3. {"refused", "timeout"} \subseteq Outcome
      BY DEF Outcome
<1>4. CASE Send
  <2>1. CASE RefusedToSend
        BY <1>2, <1>3, <2>1 DEF RefusedToSend
  <2>2. CASE \E m \in Msg : SendsOut(m)
        BY <1>1, <1>4, <2>2, SendForm, SendsOutForm
  <2> QED BY <1>1, <1>4, <2>1, <2>2, SendForm
<1>5. CASE StationHandles
  <2>1. PICK m \in Msg, got \in Outcome, found \in Offer \cup {None} : HandleEffect(m, got, found)
        BY <1>1, <1>5, HandlesForm
  <2> QED BY <1>2, <2>1 DEF HandleEffect
<1>6. CASE CallTimesOut
  <2>1. Wakes("timeout", None)
        BY <1>6, TimeoutMoves DEF Base
  <2> QED BY <1>2, <1>3, <2>1
<1> QED BY <1>4, <1>5, <1>6

LEMMA StaleStep ==
  ASSUME Base, [Next]_vars, grid.ready # <<>>, grid'.ready = Tail(grid.ready),
         grid'.epoch = grid.epoch, Head(grid.ready).epoch # grid.epoch
  PROVE  Silent(grid') /\ Blames(Head(grid.ready), grid')
<1>1. /\ grid.ready \in Seq(Task) /\ grid.epoch \in Nat /\ grid' \in Grid
      BY StepEffects DEF Base, TypeOK, Grid
<1>2. grid'.ready # grid.ready /\ \A n \in Task : grid'.ready # Append(grid.ready, n)
  <2>1. Len(grid'.ready) = Len(grid.ready) - 1 /\ Len(grid.ready) \in Nat
        BY <1>1, TailElements
  <2>2. \A n \in Task : Len(Append(grid.ready, n)) = Len(grid.ready) + 1
        BY <1>1, AppendElements
  <2>3. Len(grid'.ready) # Len(grid.ready) /\ Len(grid'.ready) # Len(grid.ready) + 1
        BY <2>1
  <2> QED BY <2>2, <2>3
<1>3. CASE MoveEffect \/ (Disconnect /\ Cut)
  <2>1. grid'.epoch = grid.epoch + 1
        BY <1>3 DEF MoveEffect, Moves, Cut
  <2> QED BY <1>1, <2>1
<1>4. CASE SameEffect
  <2>1. seen' \in Seen /\ doc' \in Doc
        BY StepEffects DEF Base, TypeOK
  <2>2. \A c \in BOOLEAN : NewTask(grid.epoch, seen', doc', c) \in Task
        BY <1>1, <2>1, NewTaskForm
  <2> QED BY <1>2, <1>4, <2>2 DEF SameEffect, Keeps, Spawns
<1>5. CASE RunTask
  <2>1. PICK t, g : Turns(t, g) /\ Turning(t) /\ t = Head(grid.ready)
        BY <1>5, RunTurns DEF Base, Turns
  <2>2. StaleTurn(t)
        BY <2>1 DEF Turning, Turns
  <2> QED BY <2>1, <2>2 DEF StaleTurn
<1>6. CASE Send \/ StationHandles \/ CallTimesOut
      BY <1>2, <1>6, WireReady
<1>9. CASE UNCHANGED vars
      BY <1>2, <1>9 DEF vars
<1> QED BY <1>3, <1>4, <1>5, <1>6, <1>9, StepEffects DEF Effects

(* Whatever a task finds once its intent is superseded, it changes nothing *)
(* of what is shown, remembered or armed for the newer one, but for the    *)
(* reason beside its status when the readback of the superseded task's     *)
(* interim point fails (reconcile).                                        *)
THEOREM StaleTaskSilentHolds == Spec => StaleTaskSilent
<1>1. Base /\ [Next]_vars =>
        [ grid.ready # <<>> /\ grid'.ready = Tail(grid.ready)
          /\ grid'.epoch = grid.epoch /\ Head(grid.ready).epoch # grid.epoch
          => /\ grid'.status = grid.status /\ grid'.requested = grid.requested
             /\ grid'.confirmed = grid.confirmed /\ grid'.outcome = grid.outcome
             /\ grid'.allow = grid.allow /\ grid'.retry = grid.retry
             /\ \/ grid'.reason = grid.reason
                \/ /\ Head(grid.ready).pc = "check" /\ Head(grid.ready).got = "timeout"
                   /\ grid'.reason = "interim_readback_failure" ]_vars
      BY StaleStep DEF Silent, Blames
<1> QED BY <1>1, BaseHolds, PTL DEF Spec, StaleTaskSilent

-----------------------------------------------------------------------------
(* The invariant, second part: doubt.  A proposal that may yet change the  *)
(* offer, or has changed it behind the held observation, is in the chain,  *)
(* in an entry that no answer on its way can take back.                    *)

Quiet == \A k \in DOMAIN inbox : inbox[k].kind # "set"
LiveSet == \E k \in DOMAIN inbox : inbox[k].kind = "set" /\ inbox[k].live
DeadSet == \E k \in DOMAIN inbox : inbox[k].kind = "set" /\ ~inbox[k].live

Refused(t) == Proposing(t) /\ t.got \in Refusal
AnsweredFor(t) == Proposing(t) /\ t.got \in Refusal \cup {"accepted"}

Sure(j) ==
  /\ j \in DOMAIN grid.uncertain /\ ~grid.uncertain[j].rejected
  /\ \A t \in ToSet(grid.ready) : Refused(t) => j # LastOf(grid.uncertain, t.epoch)
  /\ LiveSet => j # Len(grid.uncertain)

(* The station left the held point within the same transaction. *)
Differs ==
  grid.confirmed # None /\ grid.confirmed.tx = station.tx /\ grid.confirmed.point # station.offer

OwnEntry ==
  /\ \A t \in ToSet(grid.ready) : AnsweredFor(t) =>
       \/ LastOf(grid.uncertain, t.epoch) = 0
       \/ ~grid.uncertain[LastOf(grid.uncertain, t.epoch)].rejected
  /\ LiveSet => /\ Len(grid.uncertain) \in DOMAIN grid.uncertain
                /\ grid.uncertain[Len(grid.uncertain)].epoch = Head(calls).epoch
                /\ ~grid.uncertain[Len(grid.uncertain)].rejected

Doubted == DeadSet \/ Differs => \E j \in DOMAIN grid.uncertain : Sure(j)

(* What a task of the current intent has read is still true. *)
Fresh ==
  \A t \in ToSet(grid.ready) : t.found # None /\ t.epoch = grid.epoch =>
    Quiet /\ t.found = station.offer

Doubt == OwnEntry /\ Doubted /\ Fresh

LEMMA AcceptedLast ==
  ASSUME NEW c \in Seq(Proposal), NEW d \in Seq(Proposal), NEW i, AcceptedFrom(c, d, i),
         NEW e, LastOf(d, e) # 0
  PROVE  /\ LastOf(c, e) # 0 /\ LastOf(c, e) = LastOf(d, e) + i - 1
         /\ LastOf(d, e) \in DOMAIN d /\ d[LastOf(d, e)] = c[LastOf(c, e)]
<1>1. PICK k \in DOMAIN d : /\ k = LastOf(d, e) /\ d[k].epoch = e
                            /\ \A j \in DOMAIN d : d[j].epoch = e => j <= k
      BY LastOfForm
<1>2. /\ i \in Nat \ {0} /\ k \in Nat \ {0} /\ k + i - 1 \in DOMAIN c /\ d[k] = c[k + i - 1]
      BY <1>1 DEF AcceptedFrom
<1>3. \A j \in DOMAIN c : c[j].epoch = e => j <= k + i - 1
  <2> SUFFICES ASSUME NEW j \in DOMAIN c, c[j].epoch = e, i <= j
               PROVE  j <= k + i - 1
      BY <1>2
  <2>1. PICK n \in DOMAIN d : n = j - i + 1
        BY DEF AcceptedFrom
  <2>2. n + i - 1 = j
        BY <1>2, <2>1
  <2>3. d[n].epoch = e
        BY <2>1, <2>2 DEF AcceptedFrom
  <2>4. n <= k /\ n \in Int
        BY <1>1, <2>1, <2>3
  <2> QED BY <1>2, <2>2, <2>4
<1>4. LastOf(c, e) = k + i - 1
      BY <1>1, <1>2, <1>3, LastOfIs
<1> QED BY <1>1, <1>2, <1>4

LEMMA RejectedLast ==
  ASSUME NEW c \in Seq(Proposal), NEW d \in Seq(Proposal), NEW i, RejectedAt(c, d, i),
         NEW e, c[i].epoch # e, LastOf(c, e) = 0 \/ ~c[LastOf(c, e)].rejected
  PROVE  /\ LastOf(d, e) = LastOf(c, e)
         /\ LastOf(d, e) # 0 => LastOf(d, e) \in DOMAIN d /\ d[LastOf(d, e)] = c[LastOf(d, e)]
<1>1. CASE LastOf(c, e) = 0
  <2>1. \A j \in DOMAIN c : c[j].epoch # e
        BY <1>1, LastOfForm
  <2>2. \A j \in DOMAIN d : d[j].epoch # e
        BY <2>1 DEF RejectedAt
  <2> QED BY <1>1, <2>2, LastOfNone
<1>2. CASE LastOf(c, e) # 0
  <2>1. PICK l \in DOMAIN c : /\ l = LastOf(c, e) /\ c[l].epoch = e
                              /\ \A j \in DOMAIN c : c[j].epoch = e => j <= l
        BY <1>2, LastOfForm
  <2>2. l \in DOMAIN d /\ d[l] = c[l]
        BY <1>2, <2>1 DEF RejectedAt
  <2>3. \A j \in DOMAIN d : d[j].epoch = e => j <= l
        BY <2>1 DEF RejectedAt
  <2>4. LastOf(d, e) = l
        BY <2>1, <2>2, <2>3, LastOfIs
  <2> QED BY <2>1, <2>2, <2>4
<1> QED BY <1>1, <1>2

(* A step that only spawns, and leaves the chain and the wire alone. *)
LEMMA SpawnDoubt ==
  ASSUME Base, Base', Doubt, grid'.uncertain = grid.uncertain, calls' = calls,
         inbox' \in {inbox, <<>>}, Differs' => Differs,
         \/ grid'.ready = grid.ready
         \/ \E n \in Task : n.pc = "start" /\ n.found = None /\ grid'.ready = Append(grid.ready, n),
         \/ grid'.epoch = grid.epoch + 1
         \/ grid'.epoch = grid.epoch /\ inbox' = inbox /\ station'.offer = station.offer
  PROVE  Doubt'
<1>0. /\ grid.ready \in Seq(Task) /\ grid.epoch \in Nat /\ grid.latest \in Nat
      /\ grid.latest <= grid.epoch
      BY DEF Base, TypeOK, Grid, Tasks
<1>1. \A t \in ToSet(grid'.ready) : t \in ToSet(grid.ready) \/ (~Proposing(t) /\ t.found = None)
  <2>1. CASE grid'.ready = grid.ready
        BY <2>1
  <2>2. CASE \E n \in Task : n.pc = "start" /\ n.found = None /\ grid'.ready = Append(grid.ready, n)
        BY <1>0, <2>2, AppendAmong DEF Proposing
  <2> QED BY <2>1, <2>2
<1>2. (LiveSet' => LiveSet) /\ (DeadSet' => DeadSet)
      BY DEF LiveSet, DeadSet
<1>3. OwnEntry'
      BY <1>1, <1>2 DEF Doubt, OwnEntry, AnsweredFor
<1>4. Doubted'
  <2>1. \A j : Sure(j) => Sure(j)'
        BY <1>1, <1>2 DEF Sure, Refused
  <2> QED BY <1>2, <2>1 DEF Doubt, Doubted
<1>5. Fresh'
  <2>1. CASE grid'.epoch = grid.epoch + 1
    <3>1. \A t \in ToSet(grid.ready) : t.epoch # grid'.epoch
      <4>1. \A t \in ToSet(grid.ready) : t \in Task /\ t.epoch \in Nat /\ t.epoch <= grid.latest
        <5>1. ToSet(grid.ready) \subseteq Task
              BY <1>0, AmongType
        <5> QED BY <5>1 DEF Base, Tasks, Live, Task
      <4> QED BY <1>0, <2>1, <4>1
    <3> QED BY <1>1, <3>1 DEF Fresh
  <2>2. CASE grid'.epoch = grid.epoch /\ inbox' = inbox /\ station'.offer = station.offer
        BY <1>1, <2>2 DEF Doubt, Fresh, Quiet
  <2> QED BY <2>1, <2>2
<1> QED BY <1>3, <1>4, <1>5 DEF Doubt

LEMMA MovesDoubt ==
  ASSUME Base, Base', Doubt, MoveEffect
  PROVE  Doubt'
<1>1. /\ seen' \in Seen /\ doc' \in Doc /\ grid.epoch \in Nat /\ grid \in Grid
      BY DEF Base, TypeOK, Grid
<1>2. Differs' => Differs
  <2> SUFFICES ASSUME Differs' PROVE Differs
      OBVIOUS
  <2>1. /\ grid'.confirmed = grid.confirmed /\ grid.confirmed # None
        /\ grid.confirmed.tx \in station.past
        /\ grid.confirmed.tx = station'.tx /\ grid.confirmed.point # station'.offer
        BY DEF Differs, MoveEffect, Moves, Base, Known
  <2>2. grid.confirmed.tx # None
        BY <1>1, <2>1, TransactionsAssumption DEF Grid, Confirmed
  <2> QED BY <2>1, <2>2 DEF MoveEffect, Observing, Differs
<1>3. NewTask(grid.epoch + 1, seen', doc', FALSE) \in Task
  <2>1. PICK e \in Nat : e = grid.epoch + 1
        BY <1>1
  <2> QED BY <1>1, <2>1, NewTaskForm
<1>4. PICK n \in Task : n = NewTask(grid.epoch + 1, seen', doc', FALSE)
      BY <1>3
<1>5. n.pc = "start" /\ n.found = None
      BY <1>4 DEF NewTask
<1> QED BY <1>2, <1>4, <1>5, SpawnDoubt DEF MoveEffect, Moves

LEMMA SameDoubt ==
  ASSUME Base, Base', Doubt, SameEffect
  PROVE  Doubt'
<1>1. /\ seen' \in Seen /\ doc' \in Doc /\ grid.epoch \in Nat /\ grid \in Grid
      BY DEF Base, TypeOK, Grid
<1>2. Differs' => Differs
  <2> SUFFICES ASSUME Differs' PROVE Differs
      OBVIOUS
  <2>1. grid'.confirmed = grid.confirmed /\ station'.offer = station.offer
        BY DEF SameEffect, Keeps, Spawns, Alike
  <2>2. grid.confirmed # None /\ grid.confirmed.tx # None
        BY <1>1, <2>1, TransactionsAssumption DEF Grid, Confirmed, Differs
  <2> QED BY <2>1, <2>2 DEF SameEffect, Differs
<1>3. CASE Keeps(grid, grid')
      BY <1>2, <1>3, SpawnDoubt DEF SameEffect, Keeps, Alike
<1>4. CASE \E c \in BOOLEAN : Spawns(grid, grid', seen', doc', c)
  <2>1. PICK c \in BOOLEAN : Spawns(grid, grid', seen', doc', c)
        BY <1>4
  <2>2. PICK n \in Task : n = NewTask(grid.epoch, seen', doc', c)
        BY <1>1, NewTaskForm
  <2>3. n.pc = "start" /\ n.found = None
        BY <2>2 DEF NewTask
  <2>4. /\ grid'.uncertain = grid.uncertain /\ grid'.epoch = grid.epoch
        /\ grid'.ready = grid.ready \/ grid'.ready = Append(grid.ready, n)
        BY <2>1, <2>2 DEF Spawns, Alike
  <2> QED BY <1>2, <2>3, <2>4, SpawnDoubt DEF SameEffect
<1> QED BY <1>3, <1>4 DEF SameEffect

LEMMA CutDoubt ==
  ASSUME Cut
  PROVE  Doubt'
BY EmptyAmong DEF Cut, Doubt, OwnEntry, Doubted, Fresh, LiveSet, DeadSet, Differs

(* The task that is woken, beside those that already were. *)
LEMMA WakesReady ==
  ASSUME Base, NEW got \in Outcome, NEW found \in Offer \cup {None}, Wakes(got, found)
  PROVE  \E n \in Task :
           /\ ToSet(grid'.ready) = ToSet(grid.ready) \cup {n}
           /\ \A t \in ToSet(grid.ready) : t.epoch # Head(calls).epoch
           /\ n.epoch = Head(calls).epoch /\ n.pc = Head(calls).pc /\ n.got = got /\ n.found = found
           /\ n = Reply(Head(calls), got, found)
           /\ grid'.uncertain = grid.uncertain /\ grid'.confirmed = grid.confirmed
           /\ grid'.epoch = grid.epoch /\ grid'.latest = grid.latest
           /\ grid'.requested = grid.requested /\ grid'.status = grid.status
           /\ grid'.outcome = grid.outcome /\ grid'.retry = grid.retry
<1>1. /\ grid \in Grid /\ calls \in Seq(Task) /\ calls # <<>> /\ grid.ready \in Seq(Task)
      /\ Apart(grid.ready, calls)
      BY DEF Base, TypeOK, Tasks, Grid, Wakes
<1>2. Head(calls) \in Task /\ Head(calls) \in ToSet(calls)
      BY <1>1, TailElements, HeadAmong
<1>3. PICK n \in Task : n = Reply(Head(calls), got, found)
      BY <1>2, ReplyForm
<1>4. n.epoch = Head(calls).epoch /\ n.pc = Head(calls).pc /\ n.got = got /\ n.found = found
      BY <1>2, <1>3, ReplyForm
<1>5. PICK r \in Seq(Task) : r = Append(grid.ready, n)
  <2>1. Append(grid.ready, n) \in Seq(Task)
        BY <1>1, AppendElements
  <2> QED BY <2>1
<1>6. grid' = [grid EXCEPT !.ready = r]
      BY <1>3, <1>5 DEF Wakes
<1>7. /\ grid'.ready = r /\ grid'.uncertain = grid.uncertain /\ grid'.confirmed = grid.confirmed
      /\ grid'.epoch = grid.epoch /\ grid'.latest = grid.latest
      /\ grid'.requested = grid.requested /\ grid'.status = grid.status
      /\ grid'.outcome = grid.outcome /\ grid'.retry = grid.retry
      BY <1>1, <1>6 DEF Grid
<1>8. ToSet(r) = ToSet(grid.ready) \cup {n}
      BY <1>1, <1>5, AppendAmong
<1>9. \A t \in ToSet(grid.ready) : t.epoch # Head(calls).epoch
      BY <1>1, <1>2 DEF Apart
<1> QED BY <1>3, <1>4, <1>7, <1>8, <1>9

(* The entry of the proposal on the wire is the last one, and its own. *)
LEMMA LiveEntry ==
  ASSUME Base, OwnEntry, LiveSet
  PROVE  LET l == Len(grid.uncertain)
         IN  /\ l \in DOMAIN grid.uncertain /\ l # 0 /\ ~grid.uncertain[l].rejected
             /\ LastOf(grid.uncertain, Head(calls).epoch) = l
             /\ \A e : e # Head(calls).epoch => LastOf(grid.uncertain, e) # l
<1>1. grid.uncertain \in Seq(Proposal)
      BY DEF Base, TypeOK, Grid
<1>2. PICK l : l = Len(grid.uncertain)
      OBVIOUS
<1>3. /\ l \in DOMAIN grid.uncertain /\ l # 0 /\ ~grid.uncertain[l].rejected
      /\ grid.uncertain[l].epoch = Head(calls).epoch
      /\ \A j \in DOMAIN grid.uncertain : j <= l
      BY <1>1, <1>2 DEF OwnEntry
<1>4. LastOf(grid.uncertain, Head(calls).epoch) = l
      BY <1>1, <1>3, LastOfIs
<1>5. \A e : e # Head(calls).epoch => LastOf(grid.uncertain, e) # l
      BY <1>1, <1>3, LastOfForm
<1> QED BY <1>2, <1>3, <1>4, <1>5

LEMMA SendDoubt ==
  ASSUME Base, Base', Doubt, Send
  PROVE  Doubt'
<1>1. /\ TypeOK /\ Tasks /\ OnWire /\ grid \in Grid /\ inbox \in Seq(Msg) /\ calls \in Seq(Task)
      /\ grid.uncertain \in Seq(Proposal)
      BY DEF Base, TypeOK, Grid
<1>2. /\ UNCHANGED <<doc, seen, station, act, storing, ops>> /\ Head(calls) \in Task
      /\ Head(calls) \in ToSet(calls) /\ Waits(Head(calls))
      /\ RefusedToSend \/ \E m \in Msg : SendsOut(m)
      BY <1>1, SendForm
<1>3. ~LiveSet
      BY <1>1 DEF LiveSet, OnWire, Send
<1>4. \A t \in ToSet(grid.ready) : t.epoch # Head(calls).epoch
      BY <1>1, <1>2 DEF Tasks, Apart
<1>5. CASE RefusedToSend
  <2>1. Wakes("refused", None) /\ UNCHANGED <<sent, inbox>> /\ "refused" \in Outcome
        BY <1>5 DEF RefusedToSend, Outcome
  <2>2. PICK n \in Task :
          /\ ToSet(grid'.ready) = ToSet(grid.ready) \cup {n} /\ n.got = "refused" /\ n.found = None
          /\ grid'.uncertain = grid.uncertain /\ grid'.confirmed = grid.confirmed
          /\ grid'.epoch = grid.epoch
        BY <2>1, WakesReady
  <2>3. ~AnsweredFor(n) /\ ~Refused(n)
        BY <2>2 DEF AnsweredFor, Refused, Refusal
  <2>4. (LiveSet' <=> LiveSet) /\ (DeadSet' <=> DeadSet) /\ (Quiet' <=> Quiet) /\ (Differs' <=> Differs)
        BY <1>2, <2>1, <2>2 DEF LiveSet, DeadSet, Quiet, Differs
  <2>5. OwnEntry'
        BY <1>3, <2>2, <2>3, <2>4 DEF Doubt, OwnEntry
  <2>6. Doubted'
    <3>1. \A j : Sure(j) => Sure(j)'
          BY <1>3, <2>2, <2>3, <2>4 DEF Sure
    <3> QED BY <2>2, <2>4, <3>1 DEF Doubt, Doubted
  <2>7. Fresh'
        BY <1>2, <2>2, <2>4 DEF Doubt, Fresh
  <2> QED BY <2>5, <2>6, <2>7 DEF Doubt
<1>6. CASE \E m \in Msg : SendsOut(m)
  <2>1. PICK m \in Msg : SendsOut(m)
        BY <1>6
  <2>2. /\ grid'.confirmed = grid.confirmed /\ grid'.ready = grid.ready /\ grid'.epoch = grid.epoch
        /\ grid'.uncertain = IF Proposing(Head(calls))
             THEN Append(grid.uncertain, [epoch |-> Head(calls).epoch, rejected |-> FALSE])
             ELSE grid.uncertain
        BY <1>1, <1>2, <2>1, SendsOutForm
  <2>3. inbox' = Append(inbox, m) /\ calls' = calls /\ m.live /\ m.kind = KindOf(Head(calls).pc)
        BY <2>1 DEF SendsOut
  <2>4. /\ \A k \in DOMAIN inbox' : \/ k \in DOMAIN inbox /\ inbox'[k] = inbox[k]
                                    \/ inbox'[k] = m
        /\ \A k \in DOMAIN inbox : k \in DOMAIN inbox' /\ inbox'[k] = inbox[k]
        BY <1>1, <2>3, AppendElements
  <2>5. (DeadSet' => DeadSet) /\ (Differs' => Differs)
        BY <1>2, <2>2, <2>3, <2>4 DEF DeadSet, Differs
  <2>6. CASE Proposing(Head(calls))
    <3>0. PICK e \in Nat : e = Head(calls).epoch
          BY <1>2 DEF Task
    <3>a. [epoch |-> e, rejected |-> FALSE] \in Proposal
          BY DEF Proposal
    <3>b. PICK p \in Proposal : p = [epoch |-> e, rejected |-> FALSE]
          BY <3>a
    <3>1. /\ p = [epoch |-> Head(calls).epoch, rejected |-> FALSE]
          /\ p.epoch = Head(calls).epoch /\ ~p.rejected
          BY <3>0, <3>b
    <3>2. grid'.uncertain = Append(grid.uncertain, p)
          BY <2>2, <2>6, <3>1
    <3>3. /\ Len(grid'.uncertain) = Len(grid.uncertain) + 1
          /\ Len(grid'.uncertain) \in DOMAIN grid'.uncertain
          /\ grid'.uncertain[Len(grid'.uncertain)] = p
          /\ \A k \in DOMAIN grid.uncertain :
               /\ k \in DOMAIN grid'.uncertain /\ grid'.uncertain[k] = grid.uncertain[k]
               /\ k # Len(grid'.uncertain)
          BY <1>1, <3>2, AppendElements
    <3>4. \A t \in ToSet(grid.ready) : LastOf(grid'.uncertain, t.epoch) = LastOf(grid.uncertain, t.epoch)
          BY <1>1, <1>4, <3>1, <3>2, LastOfAppend
    <3>5. OwnEntry'
      <4>1. \A t \in ToSet(grid.ready) : AnsweredFor(t) =>
              \/ LastOf(grid'.uncertain, t.epoch) = 0
              \/ ~grid'.uncertain[LastOf(grid'.uncertain, t.epoch)].rejected
        <5>1. \A t \in ToSet(grid.ready) :
                LastOf(grid.uncertain, t.epoch) # 0 => LastOf(grid.uncertain, t.epoch) \in DOMAIN grid.uncertain
              BY <1>1, LastOfForm
        <5> QED BY <3>3, <3>4, <5>1 DEF Doubt, OwnEntry
      <4> QED BY <2>2, <2>3, <3>1, <3>3, <4>1 DEF OwnEntry, AnsweredFor
    <3>6. Doubted'
      <4>1. \A j : Sure(j) => Sure(j)'
            BY <2>2, <3>3, <3>4 DEF Sure, Refused
      <4> QED BY <2>5, <3>3, <4>1 DEF Doubt, Doubted, Sure
    <3>7. Fresh'
      <4>1. Head(calls).epoch = grid.epoch
            BY <2>1, <2>6 DEF SendsOut, Guard, Valid
      <4> QED BY <1>4, <2>2, <4>1 DEF Fresh
    <3> QED BY <3>5, <3>6, <3>7 DEF Doubt
  <2>7. CASE ~Proposing(Head(calls))
    <3>1. m.kind # "set"
          BY <2>3, <2>7 DEF Proposing, KindOf
    <3>2. (LiveSet' => LiveSet) /\ (Quiet => Quiet') /\ grid'.uncertain = grid.uncertain
          BY <2>2, <2>4, <2>7, <3>1 DEF LiveSet, Quiet
    <3>3. OwnEntry'
          BY <1>3, <2>2, <3>2 DEF Doubt, OwnEntry, AnsweredFor
    <3>4. Doubted'
      <4>1. \A j : Sure(j) => Sure(j)'
            BY <1>3, <2>2, <3>2 DEF Sure, Refused
      <4> QED BY <2>5, <3>2, <4>1 DEF Doubt, Doubted
    <3>5. Fresh'
          BY <1>2, <2>2, <3>2 DEF Doubt, Fresh
    <3> QED BY <3>3, <3>4, <3>5 DEF Doubt
  <2> QED BY <2>6, <2>7
<1> QED BY <1>2, <1>5, <1>6

(* What the station answers to a proposal decides its entry. *)
LEMMA HandlesDoubt ==
  ASSUME Base, Base', Doubt, StationHandles
  PROVE  Doubt'
<1>0. TypeOK /\ Tasks /\ OnWire
      BY DEF Base
<1>1. PICK m \in Msg, got \in Outcome, found \in Offer \cup {None} : HandleEffect(m, got, found)
      BY <1>0, HandlesForm
<1>2. /\ inbox \in Seq(Msg) /\ inbox # <<>> /\ inbox' = Tail(inbox) /\ m = inbox[1] /\ 1 \in DOMAIN inbox
      /\ \A k \in DOMAIN inbox' : k \in Nat \ {0} /\ k + 1 \in DOMAIN inbox /\ inbox'[k] = inbox[k + 1]
      BY <1>0, <1>1, TailElements DEF TypeOK, HandleEffect
<1>3. station'.tx = station.tx
  <2>1. station \in Station
        BY <1>0 DEF TypeOK
  <2> QED BY <1>1, <2>1 DEF HandleEffect, Station
<1>4. m.kind # "set" => station' = station /\ got \notin Refusal \cup {"accepted"}
      BY <1>1 DEF HandleEffect, Refusal
<1>5. m.kind = "set" => ~Quiet
      BY <1>2 DEF Quiet
<1>6. (Quiet => Quiet') /\ (DeadSet' => DeadSet)
      BY <1>2 DEF Quiet, DeadSet
<1>7. CASE ~m.live
  <2>1. UNCHANGED <<grid, calls>>
        BY <1>1, <1>7 DEF HandleEffect
  <2>2. LiveSet' => LiveSet
        BY <1>2 DEF LiveSet
  <2>3. OwnEntry'
        BY <2>1, <2>2 DEF Doubt, OwnEntry
  <2>4. Doubted'
    <3>1. \A j : Sure(j) => Sure(j)'
          BY <2>1, <2>2 DEF Sure
    <3>2. Differs' => Differs \/ DeadSet
      <4>1. CASE m.kind # "set"
            BY <1>4, <2>1, <4>1 DEF Differs
      <4>2. CASE m.kind = "set"
            BY <1>2, <1>7, <4>2 DEF DeadSet
      <4> QED BY <4>1, <4>2
    <3> QED BY <1>6, <2>1, <3>1, <3>2 DEF Doubt, Doubted
  <2>5. Fresh'
        BY <1>4, <1>5, <1>6, <2>1 DEF Doubt, Fresh
  <2> QED BY <2>3, <2>4, <2>5 DEF Doubt
<1>8. CASE m.live
  <2>a. Len(inbox) = 1 /\ m.kind = KindOf(Head(calls).pc)
        BY <1>0, <1>2, <1>8 DEF OnWire
  <2>b. inbox' = <<>>
        BY <1>2, <2>a
  <2>1. Len(inbox) = 1 /\ m.kind = KindOf(Head(calls).pc) /\ inbox' = <<>>
        BY <2>a, <2>b
  <2>2. Wakes(got, found)
        BY <1>1, <1>8 DEF HandleEffect
  <2>3. PICK n \in Task :
          /\ ToSet(grid'.ready) = ToSet(grid.ready) \cup {n}
          /\ \A t \in ToSet(grid.ready) : t.epoch # Head(calls).epoch
          /\ n.epoch = Head(calls).epoch /\ n.pc = Head(calls).pc /\ n.got = got /\ n.found = found
          /\ grid'.uncertain = grid.uncertain /\ grid'.confirmed = grid.confirmed
          /\ grid'.epoch = grid.epoch
        BY <2>2, WakesReady
  <2>4. Proposing(n) <=> m.kind = "set"
        BY <2>1, <2>3 DEF Proposing, KindOf
  <2>5. ~LiveSet' /\ ~DeadSet' /\ Quiet'
        BY <2>1 DEF LiveSet, DeadSet, Quiet
  <2>6. CASE m.kind # "set"
    <3>1. ~AnsweredFor(n) /\ ~Refused(n)
          BY <2>4, <2>6 DEF AnsweredFor, Refused
    <3>2. Differs' => Differs
          BY <1>4, <2>3, <2>6 DEF Differs
    <3>3. OwnEntry'
          BY <2>3, <2>5, <3>1 DEF Doubt, OwnEntry
    <3>4. Doubted'
      <4>1. \A j : Sure(j) => Sure(j)'
            BY <2>3, <2>5, <3>1 DEF Sure
      <4> QED BY <2>3, <2>5, <3>2, <4>1 DEF Doubt, Doubted
    <3>5. Fresh'
          BY <1>1, <1>4, <2>3, <2>5, <2>6 DEF Doubt, Fresh, HandleEffect
    <3> QED BY <3>3, <3>4, <3>5 DEF Doubt
  <2>7. CASE m.kind = "set"
    <3>1. LiveSet
          BY <1>2, <1>8, <2>7 DEF LiveSet
    <3>2. PICK l : l = Len(grid.uncertain)
          OBVIOUS
    <3>3. /\ l \in DOMAIN grid.uncertain /\ l # 0 /\ ~grid.uncertain[l].rejected
          /\ LastOf(grid.uncertain, Head(calls).epoch) = l
          /\ \A e : e # Head(calls).epoch => LastOf(grid.uncertain, e) # l
          BY <3>1, <3>2, LiveEntry DEF Doubt
    <3>4. OwnEntry'
          BY <2>3, <2>5, <3>3 DEF Doubt, OwnEntry
    <3>5. Doubted'
      <4>1. CASE got = "accepted"
        <5>1. ~Refused(n)
              BY <2>3, <4>1 DEF Refused, Refusal
        <5>2. Sure(l)'
              BY <2>3, <2>5, <3>3, <5>1 DEF Sure
        <5> QED BY <2>3, <3>3, <5>2 DEF Doubted
      <4>2. CASE got \in Refusal
        <5>1. station' = station
              BY <1>1, <2>7, <4>2 DEF HandleEffect, Refusal
        <5>2. Differs' => Differs
              BY <2>3, <5>1 DEF Differs
        <5>3. \A j : Sure(j) => Sure(j)'
              BY <2>3, <2>5, <3>1, <3>2, <3>3 DEF Sure
        <5> QED BY <2>3, <2>5, <5>2, <5>3 DEF Doubt, Doubted
      <4> QED BY <1>1, <2>7, <4>1, <4>2 DEF HandleEffect
    <3>6. Fresh'
      <4>1. found = None
            BY <1>1, <2>7 DEF HandleEffect
      <4> QED BY <1>5, <2>3, <2>7, <4>1 DEF Doubt, Fresh
    <3> QED BY <3>4, <3>5, <3>6 DEF Doubt
  <2> QED BY <2>6, <2>7
<1> QED BY <1>7, <1>8

(* A proposal that times out is in doubt from then on. *)
LEMMA TimeoutDoubt ==
  ASSUME Base, Base', Doubt, CallTimesOut
  PROVE  Doubt'
<1>1. /\ Wakes("timeout", None) /\ DOMAIN inbox' = DOMAIN inbox
      /\ \A k \in DOMAIN inbox : inbox'[k] = [inbox[k] EXCEPT !.live = FALSE] /\ ~inbox'[k].live
      /\ "timeout" \in Outcome
      BY TimeoutMoves DEF Base, Outcome
<1>2. UNCHANGED <<seen, station>>
      BY DEF CallTimesOut
<1>3. inbox \in Seq(Msg)
      BY DEF Base, TypeOK
<1>4. \A k \in DOMAIN inbox' : k \in DOMAIN inbox /\ inbox'[k].kind = inbox[k].kind /\ ~inbox'[k].live
  <2> TAKE k \in DOMAIN inbox'
  <2>1. inbox[k] \in Msg
        BY <1>1, <1>3
  <2> QED BY <1>1, <2>1 DEF Msg
<1>5. PICK n \in Task :
        /\ ToSet(grid'.ready) = ToSet(grid.ready) \cup {n}
        /\ \A t \in ToSet(grid.ready) : t.epoch # Head(calls).epoch
        /\ n.epoch = Head(calls).epoch /\ n.got = "timeout" /\ n.found = None
        /\ grid'.uncertain = grid.uncertain /\ grid'.confirmed = grid.confirmed
        /\ grid'.epoch = grid.epoch
      BY <1>1, WakesReady
<1>6. ~AnsweredFor(n) /\ ~Refused(n)
      BY <1>5 DEF AnsweredFor, Refused, Refusal
<1>7. ~LiveSet' /\ (DeadSet' => DeadSet \/ LiveSet) /\ (Quiet => Quiet') /\ (Differs' <=> Differs)
      BY <1>2, <1>4, <1>5 DEF LiveSet, DeadSet, Quiet, Differs
<1>8. OwnEntry'
      BY <1>5, <1>6, <1>7 DEF Doubt, OwnEntry
<1>9. Doubted'
  <2>1. CASE LiveSet
    <3>1. PICK l : l = Len(grid.uncertain)
          OBVIOUS
    <3>2. /\ l \in DOMAIN grid.uncertain /\ ~grid.uncertain[l].rejected
          /\ \A e : e # Head(calls).epoch => LastOf(grid.uncertain, e) # l
          BY <2>1, <3>1, LiveEntry DEF Doubt
    <3>3. Sure(l)'
          BY <1>5, <1>6, <1>7, <3>2 DEF Sure
    <3> QED BY <1>5, <3>2, <3>3 DEF Doubted
  <2>2. CASE ~LiveSet
    <3>1. \A j : Sure(j) => Sure(j)'
          BY <1>5, <1>6, <1>7 DEF Sure
    <3> QED BY <1>5, <1>7, <2>2, <3>1 DEF Doubt, Doubted
  <2> QED BY <2>1, <2>2
<1>10. Fresh'
       BY <1>2, <1>5, <1>7 DEF Doubt, Fresh
<1> QED BY <1>8, <1>9, <1>10 DEF Doubt

(* What a turn leaves: its own entry is decided or it has read the offer;  *)
(* the tasks that remain are of other epochs, or have only begun.          *)
Leaves(t) ==
  /\ IF Proposing(t)
     THEN /\ grid'.confirmed \in {grid.confirmed, None}
          /\ grid'.uncertain = Answered(grid.uncertain, t.epoch, t.got)
     ELSE \/ grid'.confirmed \in {grid.confirmed, None} /\ grid'.uncertain = grid.uncertain
          \/ /\ Reading(t) # None /\ grid'.uncertain = <<>>
             /\ grid'.confirmed = [point |-> t.found, tx |-> t.tx, gen |-> seen.gen]
  /\ \A v \in ToSet(grid'.ready) :
       (v \in ToSet(grid.ready) /\ v.epoch # t.epoch) \/ (v.pc = "start" /\ v.found = None)
  /\ calls # <<>> => Head(calls') = Head(calls)
  /\ grid'.epoch \in {grid.epoch, grid.epoch + 1}
  /\ UNCHANGED <<station, inbox>>

LEMMA RunLeaves ==
  ASSUME Base, Base', RunTask
  PROVE  \E t \in ToSet(grid.ready) : Leaves(t)
<1>1. PICK t, g : /\ Turns(t, g) /\ Turning(t) /\ Corrects(t)
                  /\ grid.ready # <<>> /\ UNCHANGED <<station, act, sent, inbox, ops>>
      BY RunTurns DEF Base
<1>2. /\ TypeOK /\ Tasks /\ grid.ready \in Seq(Task) /\ calls \in Seq(Task) /\ t \in Task
      /\ t \in ToSet(grid.ready) /\ t = Head(grid.ready) /\ Apart(grid.ready, calls)
      /\ seen \in Seen /\ doc \in Doc /\ doc' \in Doc /\ grid.epoch \in Nat
      BY <1>1 DEF Base, TypeOK, Grid, Turns, Tasks
<1>3. /\ Tail(grid.ready) \in Seq(Task)
      /\ \A v \in ToSet(Tail(grid.ready)) : v \in ToSet(grid.ready) /\ v.epoch # t.epoch
      BY <1>1, <1>2, ApartTail, TailElements, HeadAmong
<1>4. ASSUME NEW e \in Nat, grid'.ready = Append(Tail(grid.ready), NewTask(e, seen, doc', FALSE))
      PROVE  \A v \in ToSet(grid'.ready) :
               (v \in ToSet(grid.ready) /\ v.epoch # t.epoch) \/ (v.pc = "start" /\ v.found = None)
  <2>1. PICK n \in Task : n = NewTask(e, seen, doc', FALSE)
        BY <1>2, NewTaskForm
  <2>2. n.pc = "start" /\ n.found = None
        BY <2>1 DEF NewTask
  <2>3. PICK r \in Seq(Task) : r = Tail(grid.ready)
        BY <1>3
  <2>4. ToSet(Append(r, n)) = ToSet(r) \cup {n}
        BY AppendAmong
  <2> QED BY <1>3, <1>4, <2>1, <2>2, <2>3, <2>4
<1>5. ASSUME NEW u \in Task, calls' = Append(calls, u)
      PROVE  calls # <<>> => Head(calls') = Head(calls)
      BY <1>2, <1>5, AppendHead
<1>6. CASE ~Valid(t) /\ StaleTurn(t)
  <2>1. PICK h \in Grid : /\ Turned(t, h) /\ grid' = h
                          /\ calls' = calls \/ calls' = Append(calls, Onto(t, "confirm"))
        BY <1>6 DEF StaleTurn
  <2>2. Onto(t, "confirm") \in Task
        BY <1>2, OntoForm
  <2> QED BY <1>1, <1>2, <1>3, <1>5, <2>1, <2>2 DEF Leaves, Turned, Observes
<1>7. CASE EndTurn(t)
  <2>1. PICK h \in Grid : Turned(t, h) /\ EndsWith(t, h)
        BY <1>7 DEF EndTurn
  <2>2. /\ calls' = calls /\ doc' = doc
        /\ grid'.epoch = h.epoch /\ grid'.uncertain = h.uncertain /\ grid'.confirmed = h.confirmed
        /\ \/ grid'.ready = h.ready
           \/ grid'.ready = Append(h.ready, NewTask(h.epoch, seen, doc, FALSE))
        BY <2>1 DEF EndsWith, Spawns, Alike
  <2>3. h.ready = Tail(grid.ready) /\ h.epoch = grid.epoch
        BY <2>1 DEF Turned
  <2>4. \A v \in ToSet(grid'.ready) :
          (v \in ToSet(grid.ready) /\ v.epoch # t.epoch) \/ (v.pc = "start" /\ v.found = None)
        BY <1>2, <1>3, <1>4, <2>2, <2>3
  <2>5. Observes(t, h)
        BY <2>1 DEF Turned
  <2> QED BY <1>1, <1>2, <2>2, <2>3, <2>4, <2>5 DEF Leaves, Observes
<1>8. CASE NextTurn(t)
  <2>1. PICK h \in Grid, u \in Task : Turned(t, h) /\ AwaitsAs(h, u)
        BY <1>8 DEF NextTurn
  <2> QED BY <1>1, <1>2, <1>3, <1>5, <2>1 DEF Leaves, Turned, Observes, AwaitsAs
<1>9. CASE StopTurn(t)
  <2>1. PICK h \in Grid : Turned(t, h) /\ Silent(h) /\ h.uncertain = grid.uncertain /\ StopRelease(h)
        BY <1>9 DEF StopTurn
  <2>2. calls' = calls /\ t.pc = "start"
        BY <1>9 DEF StopTurn
  <2>3. Moves(h, grid', seen, doc')
        BY <1>1, <1>2, <2>1, <2>2, StopTurnForm
  <2>4. h.ready = Tail(grid.ready) /\ h.epoch = grid.epoch /\ h.confirmed = grid.confirmed
        BY <2>1 DEF Turned, Silent
  <2>5. PICK e \in Nat : e = grid.epoch + 1
        BY <1>2
  <2>6. \A v \in ToSet(grid'.ready) :
          (v \in ToSet(grid.ready) /\ v.epoch # t.epoch) \/ (v.pc = "start" /\ v.found = None)
    <3>1. \/ grid'.ready = Tail(grid.ready)
          \/ grid'.ready = Append(Tail(grid.ready), NewTask(e, seen, doc', FALSE))
          BY <2>3, <2>4, <2>5 DEF Moves
    <3> QED BY <1>3, <1>4, <3>1
  <2>7. ~Proposing(t)
        BY <2>2 DEF Proposing
  <2> QED BY <1>1, <1>2, <2>1, <2>2, <2>3, <2>4, <2>6, <2>7 DEF Leaves, Moves
<1> QED BY <1>1, <1>6, <1>7, <1>8, <1>9 DEF Turning

(* A task whose proposal was answered no longer counts as awaiting one.    *)
LEMMA AcceptedDoubt ==
  ASSUME Base, Base', Doubt, NEW t \in ToSet(grid.ready), Leaves(t), Proposing(t),
         t.got = "accepted", AcceptedFrom(grid.uncertain, grid'.uncertain, LastOf(grid.uncertain, t.epoch))
  PROVE  OwnEntry' /\ Doubted'
<1> DEFINE c == grid.uncertain
           d == grid'.uncertain
<1>1. /\ c \in Seq(Proposal) /\ d \in Seq(Proposal) /\ Apart(grid.ready, calls)
      /\ calls \in Seq(Task)
      BY DEF Base, TypeOK, Grid, Tasks
<1>2. PICK i \in DOMAIN c : i = LastOf(c, t.epoch) /\ AcceptedFrom(c, d, i)
      BY DEF AcceptedFrom
<1>3. i # 0 /\ c[i].epoch = t.epoch /\ ~c[i].rejected /\ AnsweredFor(t)
  <2>1. i # 0 /\ c[i].epoch = t.epoch
        BY <1>1, <1>2, LastOfForm
  <2>2. AnsweredFor(t)
        BY DEF AnsweredFor
  <2> QED BY <1>2, <2>1, <2>2 DEF Doubt, OwnEntry
<1>4. 1 \in DOMAIN d /\ d[1] = c[i]
  <2>1. Len(d) >= 1 /\ 1 \in DOMAIN d
        BY <1>1, <1>2 DEF AcceptedFrom
  <2>2. d[1] = c[1 + i - 1] /\ 1 + i - 1 = i
        BY <1>1, <1>2, <2>1 DEF AcceptedFrom
  <2> QED BY <2>1, <2>2
<1>5. LiveSet' => LiveSet /\ Head(calls') = Head(calls) /\ Head(calls).epoch # t.epoch
  <2>1. LiveSet' => LiveSet
        BY DEF Leaves, LiveSet
  <2>2. LiveSet => calls # <<>>
        BY DEF LiveSet, Base, OnWire
  <2>3. calls # <<>> => Head(calls) \in ToSet(calls)
        BY <1>1, HeadAmong
  <2> QED BY <1>1, <2>1, <2>2, <2>3 DEF Leaves, Apart
<1>6. LiveSet' => /\ Len(d) \in DOMAIN d /\ d[Len(d)] = c[Len(c)] /\ Len(d) # 1
  <2> SUFFICES ASSUME LiveSet' PROVE Len(d) \in DOMAIN d /\ d[Len(d)] = c[Len(c)] /\ Len(d) # 1
      OBVIOUS
  <2>1. Len(c) # i
        BY <1>3, <1>5 DEF Doubt, OwnEntry
  <2>2. /\ Len(d) = Len(c) - i + 1 /\ Len(d) \in Nat /\ Len(c) \in Nat /\ i \in 1..Len(c)
        BY <1>1, <1>2 DEF AcceptedFrom
  <2>3. Len(d) \in DOMAIN d
        BY <1>1, <1>4, <2>2
  <2>4. d[Len(d)] = c[Len(d) + i - 1]
        BY <1>2, <2>3 DEF AcceptedFrom
  <2> HIDE DEF c, d
  <2>5. Len(d) + i - 1 = Len(c) /\ Len(d) # 1
        BY <2>1, <2>2
  <2> QED BY <2>3, <2>4, <2>5
<1>7. \A v \in ToSet(grid'.ready) : AnsweredFor(v) \/ Refused(v) =>
         v \in ToSet(grid.ready) /\ v.epoch # t.epoch /\ AnsweredFor(v)
      BY DEF Leaves, AnsweredFor, Refused, Proposing
<1>8. OwnEntry'
  <2>1. \A v \in ToSet(grid'.ready) : AnsweredFor(v) =>
          LastOf(d, v.epoch) = 0 \/ ~d[LastOf(d, v.epoch)].rejected
    <3> SUFFICES ASSUME NEW v \in ToSet(grid'.ready), AnsweredFor(v), LastOf(d, v.epoch) # 0
                 PROVE  ~d[LastOf(d, v.epoch)].rejected
        OBVIOUS
    <3>1. LastOf(c, v.epoch) # 0 /\ d[LastOf(d, v.epoch)] = c[LastOf(c, v.epoch)]
          BY <1>1, <1>2, AcceptedLast
    <3>2. LastOf(c, v.epoch) = 0 \/ ~c[LastOf(c, v.epoch)].rejected
          BY <1>7 DEF Doubt, OwnEntry
    <3> QED BY <3>1, <3>2
  <2>2. LiveSet' => Len(d) \in DOMAIN d /\ d[Len(d)].epoch = Head(calls').epoch /\ ~d[Len(d)].rejected
        BY <1>5, <1>6 DEF Doubt, OwnEntry
  <2> QED BY <2>1, <2>2 DEF OwnEntry, AnsweredFor
<1>9. Sure(1)'
  <2>1. \A v \in ToSet(grid'.ready) : Refused(v) => 1 # LastOf(d, v.epoch)
    <3> SUFFICES ASSUME NEW v \in ToSet(grid'.ready), Refused(v), 1 = LastOf(d, v.epoch)
                 PROVE  FALSE
        OBVIOUS
    <3>1. d[1].epoch = v.epoch
          BY <1>1, LastOfForm
    <3> QED BY <1>3, <1>4, <1>7, <3>1
  <2> QED BY <1>3, <1>4, <1>6, <2>1 DEF Sure, Refused
<1>10. Doubted'
  <2> QED BY <1>4, <1>9 DEF Doubted
<1> QED BY <1>8, <1>10

LEMMA RejectedDoubt ==
  ASSUME Base, Base', Doubt, NEW t \in ToSet(grid.ready), Leaves(t), Proposing(t),
         t.got \in Refusal, RejectedAt(grid.uncertain, grid'.uncertain, LastOf(grid.uncertain, t.epoch))
  PROVE  OwnEntry' /\ Doubted'
<1> DEFINE c == grid.uncertain
           d == grid'.uncertain
<1>1. /\ c \in Seq(Proposal) /\ d \in Seq(Proposal) /\ Apart(grid.ready, calls)
      /\ calls \in Seq(Task)
      BY DEF Base, TypeOK, Grid, Tasks
<1>2. PICK i \in DOMAIN c : i = LastOf(c, t.epoch) /\ RejectedAt(c, d, i)
      BY DEF RejectedAt
<1>3. i # 0 /\ c[i].epoch = t.epoch
      BY <1>1, <1>2, LastOfForm
<1>4. LiveSet' => LiveSet /\ Head(calls') = Head(calls) /\ Head(calls).epoch # t.epoch
  <2>1. LiveSet' => LiveSet
        BY DEF Leaves, LiveSet
  <2>2. LiveSet => calls # <<>>
        BY DEF LiveSet, Base, OnWire
  <2>3. calls # <<>> => Head(calls) \in ToSet(calls)
        BY <1>1, HeadAmong
  <2> QED BY <1>1, <2>1, <2>2, <2>3 DEF Leaves, Apart
<1>5. LiveSet' => Len(d) = Len(c) /\ Len(d) \in DOMAIN d /\ d[Len(d)] = c[Len(c)]
  <2> SUFFICES ASSUME LiveSet' PROVE Len(d) = Len(c) /\ Len(d) \in DOMAIN d /\ d[Len(d)] = c[Len(c)]
      OBVIOUS
  <2>1. Len(c) \in DOMAIN c /\ Len(c) # i /\ ~c[Len(c)].rejected
        BY <1>3, <1>4 DEF Doubt, OwnEntry
  <2>2. Len(c) \in DOMAIN d /\ d[Len(c)] = c[Len(c)]
        BY <1>2, <2>1 DEF RejectedAt
  <2>3. DOMAIN d \subseteq DOMAIN c
        BY <1>2 DEF RejectedAt
  <2>4. Len(d) = Len(c)
    <3>1. DOMAIN d = 1..Len(d) /\ DOMAIN c = 1..Len(c) /\ Len(d) \in Nat /\ Len(c) \in Nat
          BY <1>1
    <3> HIDE DEF c, d
    <3>2. Len(c) <= Len(d) /\ Len(d) \in DOMAIN d
          BY <2>2, <3>1
    <3>3. PICK m \in Nat, n \in Nat : m = Len(d) /\ n = Len(c)
          BY <3>1
    <3>4. m <= n /\ n <= m
          BY <2>3, <3>1, <3>2, <3>3
    <3>5. m = n
          BY <3>4
    <3> QED BY <3>3, <3>5
  <2> QED BY <2>2, <2>4
<1>6. \A v \in ToSet(grid'.ready) : AnsweredFor(v) \/ Refused(v) =>
         v \in ToSet(grid.ready) /\ v.epoch # t.epoch /\ AnsweredFor(v)
      BY DEF Leaves, AnsweredFor, Refused, Proposing
<1>7. \A v \in ToSet(grid'.ready) : AnsweredFor(v) \/ Refused(v) =>
         /\ LastOf(c, v.epoch) = 0 \/ ~c[LastOf(c, v.epoch)].rejected
         /\ LastOf(d, v.epoch) = LastOf(c, v.epoch)
         /\ LastOf(d, v.epoch) # 0 => d[LastOf(d, v.epoch)] = c[LastOf(d, v.epoch)]
  <2> SUFFICES ASSUME NEW v \in ToSet(grid'.ready), AnsweredFor(v) \/ Refused(v)
               PROVE  /\ LastOf(c, v.epoch) = 0 \/ ~c[LastOf(c, v.epoch)].rejected
                      /\ LastOf(d, v.epoch) = LastOf(c, v.epoch)
                      /\ LastOf(d, v.epoch) # 0 => d[LastOf(d, v.epoch)] = c[LastOf(d, v.epoch)]
      OBVIOUS
  <2>1. LastOf(c, v.epoch) = 0 \/ ~c[LastOf(c, v.epoch)].rejected
        BY <1>6 DEF Doubt, OwnEntry
  <2>2. c[i].epoch # v.epoch
        BY <1>3, <1>6
  <2> QED BY <1>1, <1>2, <2>1, <2>2, RejectedLast
<1>8. OwnEntry'
  <2>1. \A v \in ToSet(grid'.ready) : AnsweredFor(v) =>
          LastOf(d, v.epoch) = 0 \/ ~d[LastOf(d, v.epoch)].rejected
        BY <1>7
  <2>2. LiveSet' => Len(d) \in DOMAIN d /\ d[Len(d)].epoch = Head(calls').epoch /\ ~d[Len(d)].rejected
        BY <1>4, <1>5 DEF Doubt, OwnEntry
  <2> QED BY <2>1, <2>2 DEF OwnEntry, AnsweredFor
<1>9. \A j : Sure(j) => Sure(j)'
  <2> SUFFICES ASSUME NEW j, Sure(j) PROVE Sure(j)'
      OBVIOUS
  <2>1. j \in DOMAIN c /\ ~c[j].rejected /\ j # i
    <3>1. Refused(t)
          BY DEF Refused
    <3> QED BY <1>2, <3>1 DEF Sure
  <2>2. j \in DOMAIN d /\ d[j] = c[j]
        BY <1>2, <2>1 DEF RejectedAt
  <2>3. \A v \in ToSet(grid'.ready) : Refused(v) => j # LastOf(d, v.epoch)
        BY <1>6, <1>7 DEF Sure
  <2>4. LiveSet' => j # Len(d)
        BY <1>4, <1>5 DEF Sure
  <2> QED BY <2>1, <2>2, <2>3, <2>4 DEF Sure, Refused
<1>10. Doubted'
  <2>1. (DeadSet' => DeadSet) /\ (Differs' => Differs)
        BY DEF Leaves, DeadSet, Differs
  <2>2. \A j : Sure(j)' => j \in DOMAIN grid'.uncertain
        BY DEF Sure
  <2> QED BY <1>9, <2>1, <2>2 DEF Doubt, Doubted
<1> QED BY <1>8, <1>10

LEMMA RunDoubt ==
  ASSUME Base, Base', Doubt, RunTask
  PROVE  Doubt'
<1>1. PICK t \in ToSet(grid.ready) : Leaves(t)
      BY RunLeaves
<1>2. /\ grid.uncertain \in Seq(Proposal) /\ grid.ready \in Seq(Task) /\ grid.epoch \in Nat
      /\ grid.latest \in Nat /\ grid.latest <= grid.epoch /\ OnWire
      BY DEF Base, TypeOK, Grid, Tasks
<1>3. \A v \in ToSet(grid'.ready) : AnsweredFor(v) \/ Refused(v) \/ v.found # None =>
         v \in ToSet(grid.ready)
      BY <1>1 DEF Leaves, AnsweredFor, Refused, Proposing
<1>4. LiveSet' => LiveSet /\ calls # <<>> /\ Head(calls') = Head(calls)
  <2>1. LiveSet' => LiveSet
        BY <1>1 DEF Leaves, LiveSet
  <2>2. LiveSet => calls # <<>>
        BY <1>2 DEF LiveSet, OnWire
  <2> QED BY <1>1, <2>1, <2>2 DEF Leaves
<1>5. Fresh'
  <2>1. CASE grid'.epoch = grid.epoch
        BY <1>1, <1>3, <2>1 DEF Doubt, Fresh, Leaves, Quiet
  <2>2. CASE grid'.epoch = grid.epoch + 1
    <3>1. \A v \in ToSet(grid.ready) : v \in Task /\ v.epoch \in Nat /\ v.epoch <= grid.latest
      <4>1. ToSet(grid.ready) \subseteq Task
            BY <1>2, AmongType
      <4> QED BY <4>1 DEF Base, Tasks, Live, Task
    <3>2. \A v \in ToSet(grid.ready) : v.epoch # grid'.epoch
          BY <1>2, <2>2, <3>1
    <3> QED BY <1>3, <3>2 DEF Fresh
  <2> QED BY <1>1, <2>1, <2>2 DEF Leaves
<1>6. CASE grid'.uncertain = grid.uncertain /\ grid'.confirmed \in {grid.confirmed, None}
  <2>1. (DeadSet' => DeadSet) /\ (Differs' => Differs)
        BY <1>1, <1>6 DEF Leaves, DeadSet, Differs
  <2>2. OwnEntry'
        BY <1>3, <1>4, <1>6 DEF Doubt, OwnEntry, AnsweredFor
  <2>3. Doubted'
    <3>1. \A j : Sure(j) => Sure(j)'
          BY <1>3, <1>4, <1>6 DEF Sure, Refused
    <3> QED BY <1>6, <2>1, <3>1 DEF Doubt, Doubted
  <2> QED BY <1>5, <2>2, <2>3 DEF Doubt
<1>7. CASE /\ Reading(t) # None /\ grid'.uncertain = <<>>
           /\ grid'.confirmed = [point |-> t.found, tx |-> t.tx, gen |-> seen.gen]
  <2>1. t.found # None /\ t.epoch = grid.epoch
        BY <1>7 DEF Reading, Valid
  <2>2. Quiet /\ t.found = station.offer
        BY <1>1, <2>1 DEF Doubt, Fresh
  <2>3. ~LiveSet' /\ ~DeadSet' /\ ~Differs'
        BY <1>1, <1>7, <2>2 DEF Leaves, Quiet, LiveSet, DeadSet, Differs
  <2>4. \A e : LastOf(grid'.uncertain, e) = 0
    <3>1. <<>> \in Seq(Proposal) /\ \A j \in DOMAIN <<>> : FALSE
          OBVIOUS
    <3>2. \A e : LastOf(<<>>, e) = 0
          BY <3>1, LastOfNone
    <3> QED BY <1>7, <3>2
  <2>5. OwnEntry' /\ Doubted'
        BY <2>3, <2>4 DEF OwnEntry, Doubted
  <2> QED BY <1>5, <2>5 DEF Doubt
<1>8. CASE Proposing(t)
  <2>1. \/ grid'.uncertain = grid.uncertain
        \/ /\ t.got = "accepted"
           /\ AcceptedFrom(grid.uncertain, grid'.uncertain, LastOf(grid.uncertain, t.epoch))
        \/ /\ t.got \in Refusal
           /\ RejectedAt(grid.uncertain, grid'.uncertain, LastOf(grid.uncertain, t.epoch))
        BY <1>1, <1>2, <1>8, AnsweredForm DEF Leaves
  <2>2. grid'.confirmed \in {grid.confirmed, None}
        BY <1>1, <1>8 DEF Leaves
  <2> QED BY <1>1, <1>5, <1>6, <1>8, <2>1, <2>2, AcceptedDoubt, RejectedDoubt DEF Doubt
<1> QED BY <1>1, <1>6, <1>7, <1>8 DEF Leaves

-----------------------------------------------------------------------------
(* The point that is shown. *)

LEMMA StepDoubt ==
  ASSUME Base, Base', Effects, Doubt
  PROVE  Doubt'
<1>1. CASE UNCHANGED vars
  <2>1. UNCHANGED <<grid, station, calls, inbox>>
        BY <1>1 DEF vars, user, wire
  <2> QED BY <2>1 DEF Doubt, OwnEntry, Doubted, Fresh, LiveSet, DeadSet, Quiet, Differs, Sure
<1> QED BY <1>1, MovesDoubt, SameDoubt, CutDoubt, RunDoubt, SendDoubt, HandlesDoubt, TimeoutDoubt
        DEF Effects

LEMMA InitDoubt == Init => Doubt
<1> SUFFICES ASSUME Init PROVE Doubt
    OBVIOUS
<1>1. /\ inbox = <<>> /\ grid.ready = <<>> /\ grid.confirmed = None
      BY DEF Init
<1> QED BY <1>1, EmptyAmong DEF Doubt, OwnEntry, Doubted, Fresh, LiveSet, DeadSet, Differs

(* A proposal that may yet change the offer, or has changed it behind the  *)
(* held observation, is remembered as uncertain (dispatch_point).          *)
THEOREM DoubtHolds == Spec => [](Base /\ Doubt)
<1>1. Init => Base /\ Doubt
      BY InitBase, InitDoubt
<1>2. Base /\ Doubt /\ [Next]_vars => Base' /\ Doubt'
      BY StepEffects, StepDoubt
<1> QED BY <1>1, <1>2, PTL DEF Spec

(* The current and phases shown as applied are those the station offers:   *)
(* while a proposal may have superseded the held observation, whether its  *)
(* answer is late, lost or out of date, nothing is shown (attributes,      *)
(* dispatch_point, read_point).                                            *)
THEOREM ShownIsOfferedHolds == Spec => []ShownIsOffered
<1>1. Base /\ Doubt => ShownIsOffered
  <2> SUFFICES ASSUME Base, Doubt, grid.uncertain = <<>>, CurrentPoint(grid) # None
               PROVE  CurrentPoint(grid) = station.offer
      BY DEF ShownIsOffered
  <2>1. /\ grid.confirmed # None /\ grid.confirmed.tx = seen.tx
        /\ CurrentPoint(grid) = grid.confirmed.point
        BY DEF CurrentPoint
  <2>2. grid.confirmed.tx # None
        BY <2>1, TransactionsAssumption DEF Base, TypeOK, Grid, Confirmed
  <2>3. grid.confirmed.tx = station.tx
        BY <2>1, <2>2 DEF Base, Known
  <2>4. ~Differs
        BY DEF Doubt, Doubted
  <2> QED BY <2>1, <2>3, <2>4 DEF Differs
<1> QED BY <1>1, DoubtHolds, PTL

-----------------------------------------------------------------------------
(* The invariant, third part: the intent.  The task of the current epoch   *)
(* aims at what is still approved, "confirmed" is the truth about it, and  *)
(* once it has ended it has said how.                                      *)

Aim(t) ==
  /\ t.began = "expired" => doc.phase = "expired"
  /\ t.pc # "start" /\ t.want.amps > 0 =>
       /\ doc.release \/ Undoing
       /\ seen.enabled /\ doc.phase # "waiting" /\ t.began # "expired"
  /\ t.pc \in {"set", "rotation", "confirm"} => grid.requested = t.want
  /\ t.pc \notin {"start", "read"} => grid.status # "confirmed"
  /\ t.confirmOnly => t.pc \in {"start", "read"} /\ grid.status = "accepted_unconfirmed"
  /\ t.got = "refused" => Undoing \/ (doc.phase = "expired" /\ t.began # "expired")

Aimed == \A t \in Live(grid) : t.epoch = grid.epoch => Aim(t)

Done ==
  grid.outcome /\ grid.status = "confirmed" =>
    /\ Quiet /\ Matches(station.offer, grid.requested)
    /\ grid.requested.amps > 0 => doc.release \/ Undoing

Reported ==
  grid.latest = grid.epoch /\ grid.epoch > 0 /\ ~Busy(grid) /\ Eligible(seen) /\ ~Undoing
    => grid.outcome \/ grid.status \in {"unconfirmed", "accepted_unconfirmed"}

Intent == Aimed /\ Done /\ Reported

(* What every aim rests on is still there. *)
Steady ==
  /\ grid'.requested = grid.requested /\ grid'.status = grid.status
  /\ (seen.enabled => seen'.enabled) /\ Aging

LEMMA AimSteady ==
  ASSUME NEW t, Aim(t), Steady
  PROVE  Aim(t)'
BY DEF Aim, Steady, Aging

LEMMA AgingIdle == ASSUME UNCHANGED <<doc, act>> PROVE Aging
BY DEF Aging, Undoing

Begun(n, e, d, c) ==
  /\ n.epoch = e /\ n.began = d.phase /\ n.pc = "start" /\ n.got = "none" /\ n.confirmOnly = c

LEMMA BegunForm ==
  ASSUME NEW r \in Seq(Task), NEW e \in Nat, NEW s \in Seen, NEW d \in Doc, NEW c \in BOOLEAN
  PROVE  \E n \in Task : /\ Begun(n, e, d, c)
                         /\ ToSet(Append(r, NewTask(e, s, d, c))) = ToSet(r) \cup {n}
<1>1. PICK n \in Task : n = NewTask(e, s, d, c)
      BY NewTaskForm
<1>2. Begun(n, e, d, c)
      BY <1>1 DEF Begun, NewTask
<1>3. ToSet(Append(r, n)) = ToSet(r) \cup {n}
      BY AppendAmong
<1> QED BY <1>1, <1>2, <1>3

LEMMA BegunAim ==
  ASSUME NEW n, NEW e, NEW c \in BOOLEAN, Begun(n, e, doc', c),
         c => grid'.status = "accepted_unconfirmed"
  PROVE  Aim(n)'
BY DEF Begun, Aim

LEMMA LiveEpochs ==
  ASSUME Base
  PROVE  /\ \A t \in Live(grid) : t \in Task /\ t.epoch \in Nat /\ t.epoch <= grid.epoch
         /\ grid.epoch \in Nat /\ grid.latest \in Nat /\ grid.latest <= grid.epoch
         /\ grid.ready \in Seq(Task) /\ calls \in Seq(Task)
<1>1. /\ grid.ready \in Seq(Task) /\ calls \in Seq(Task) /\ grid.epoch \in Nat /\ grid.latest \in Nat
      /\ grid.latest <= grid.epoch
      BY DEF Base, TypeOK, Grid, Tasks
<1>2. Live(grid) \subseteq Task
      BY <1>1, AmongType DEF Live
<1>3. \A t \in Live(grid) : t.epoch \in Nat /\ t.epoch <= grid.latest
      BY <1>2 DEF Base, Tasks, Task
<1>4. \A t \in Live(grid) : t.epoch <= grid.epoch
  <2> HIDE DEF Live
  <2> QED BY <1>1, <1>3
<1> QED BY <1>1, <1>2, <1>3, <1>4

(* A new epoch, with a task of its own or none. *)
LEMMA NewIntent ==
  ASSUME Base, Base', calls' = calls, NEW r \in Seq(Task), ToSet(r) \subseteq ToSet(grid.ready),
         grid'.epoch = grid.epoch + 1, ~grid'.outcome,
         \/ grid'.latest = grid.latest /\ grid'.ready = r
         \/ /\ grid'.latest = grid.epoch + 1
            /\ grid'.ready = Append(r, NewTask(grid.epoch + 1, seen', doc', FALSE))
  PROVE  Intent'
<1>1. /\ grid.epoch \in Nat /\ grid.latest \in Nat /\ grid.latest <= grid.epoch
      /\ seen' \in Seen /\ doc' \in Doc
      BY LiveEpochs DEF Base, TypeOK
<1>2. \A t \in ToSet(r) \cup ToSet(calls) : t.epoch # grid'.epoch
  <2>1. \A t \in ToSet(r) \cup ToSet(calls) : t.epoch \in Nat /\ t.epoch <= grid.epoch
        BY LiveEpochs DEF Live
  <2> QED BY <1>1, <2>1
<1>3. Done'
      BY DEF Done
<1>4. CASE grid'.latest = grid.latest /\ grid'.ready = r
  <2>1. Aimed'
        BY <1>2, <1>4 DEF Aimed, Live
  <2>2. grid'.latest # grid'.epoch
        BY <1>1, <1>4
  <2> QED BY <1>3, <2>1, <2>2 DEF Intent, Reported
<1>5. CASE /\ grid'.latest = grid.epoch + 1
           /\ grid'.ready = Append(r, NewTask(grid.epoch + 1, seen', doc', FALSE))
  <2>1. PICK e \in Nat : e = grid.epoch + 1
        BY <1>1
  <2>a. grid'.ready = Append(r, NewTask(e, seen', doc', FALSE))
        BY <1>5, <2>1
  <2>b. \A c \in BOOLEAN :
          \E n \in Task : /\ Begun(n, e, doc', c)
                         /\ ToSet(Append(r, NewTask(e, seen', doc', c))) = ToSet(r) \cup {n}
        BY <1>1, BegunForm
  <2>2. PICK n \in Task : Begun(n, e, doc', FALSE) /\ ToSet(grid'.ready) = ToSet(r) \cup {n}
        BY <2>a, <2>b
  <2>3. Aim(n)'
        BY <2>2, BegunAim
  <2>4. Aimed'
        BY <1>2, <2>2, <2>3 DEF Aimed, Live
  <2>5. Busy(grid)'
        BY <1>5, <2>1, <2>2 DEF Busy, Live, Begun
  <2> QED BY <1>3, <2>4, <2>5 DEF Intent, Reported
<1> QED BY <1>4, <1>5

LEMMA MovesIntent ==
  ASSUME Base, Base', MoveEffect
  PROVE  Intent'
<1>1. grid.ready \in Seq(Task)
      BY LiveEpochs
<1> QED BY <1>1, NewIntent DEF MoveEffect, Moves

LEMMA CutIntent ==
  ASSUME Cut
  PROVE  Intent'
BY EmptyAmong DEF Cut, Intent, Aimed, Done, Reported, Live

LEMMA SameIntent ==
  ASSUME Base, Base', Intent, SameEffect
  PROVE  Intent'
<1>1. /\ grid.epoch \in Nat /\ grid.ready \in Seq(Task) /\ seen' \in Seen /\ doc' \in Doc
      BY LiveEpochs DEF Base, TypeOK
<1>2. /\ Alike(grid, grid') /\ calls' = calls /\ inbox' = inbox /\ Aging
      /\ (Eligible(seen') <=> Eligible(seen)) /\ station'.offer = station.offer
      BY DEF SameEffect, Keeps, Spawns, Eligible
<1>3. Steady
      BY <1>2 DEF Steady, Alike, SameEffect
<1>4. \A t \in Live(grid) : t.epoch = grid'.epoch => Aim(t)'
      BY <1>2, <1>3, AimSteady DEF Intent, Aimed, Alike
<1>5. Done'
      BY <1>2 DEF Intent, Done, Quiet, Alike, Aging
<1>6. CASE grid'.latest = grid.latest /\ grid'.ready = grid.ready
  <2>1. Live(grid)' = Live(grid)
        BY <1>2, <1>6 DEF Live
  <2>2. Aimed'
        BY <1>4, <2>1 DEF Aimed
  <2>3. Reported'
        BY <1>2, <1>6, <2>1 DEF Intent, Reported, Busy, Alike, Aging
  <2> QED BY <1>5, <2>2, <2>3 DEF Intent
<1>7. CASE ~(grid'.latest = grid.latest /\ grid'.ready = grid.ready)
  <2>1. PICK c \in BOOLEAN : /\ Spawns(grid, grid', seen', doc', c)
                             /\ c => grid.status = "accepted_unconfirmed"
        BY <1>7 DEF SameEffect, Keeps
  <2>2. /\ grid'.latest = grid.epoch
        /\ grid'.ready = Append(grid.ready, NewTask(grid.epoch, seen', doc', c))
        BY <1>7, <2>1 DEF Spawns
  <2>3. PICK n \in Task : Begun(n, grid.epoch, doc', c) /\ ToSet(grid'.ready) = ToSet(grid.ready) \cup {n}
        BY <1>1, <2>2, BegunForm
  <2>4. Aim(n)'
        BY <1>2, <2>1, <2>3, BegunAim DEF Alike
  <2>5. Aimed'
        BY <1>2, <1>4, <2>3, <2>4 DEF Aimed, Live
  <2>6. Busy(grid)'
        BY <2>2, <2>3 DEF Busy, Live, Begun
  <2> QED BY <1>5, <2>5, <2>6 DEF Intent, Reported
<1> QED BY <1>6, <1>7

(* A task that is woken aims at the same; it is refused only what it may   *)
(* not have any more.                                                      *)
LEMMA WakesIntent ==
  ASSUME Base, Base', Intent, NEW got \in Outcome, NEW found \in Offer \cup {None},
         Wakes(got, found), UNCHANGED <<doc, seen, act>>,
         got = "refused" => Proposing(Head(calls)) /\ ~Guard(Head(calls))
  PROVE  Aimed' /\ Reported'
<1>1. /\ calls # <<>> /\ calls' = Tail(calls) /\ calls \in Seq(Task) /\ Head(calls) \in Task
      /\ ToSet(calls) = {Head(calls)} \cup ToSet(calls') /\ Tasks
      BY LiveEpochs, TailElements, HeadAmong DEF Wakes, Base
<1>2. PICK n \in Task :
        /\ ToSet(grid'.ready) = ToSet(grid.ready) \cup {n}
        /\ n.epoch = Head(calls).epoch /\ n.pc = Head(calls).pc /\ n.got = got
        /\ n = Reply(Head(calls), got, found)
        /\ grid'.epoch = grid.epoch /\ grid'.latest = grid.latest
        /\ grid'.requested = grid.requested /\ grid'.status = grid.status
        /\ grid'.outcome = grid.outcome
      BY WakesReady
<1>3. PICK t \in Task : t = Head(calls) /\ t \in Live(grid)
      BY <1>1 DEF Live
<1>4. n.want = t.want /\ n.began = t.began /\ n.confirmOnly = t.confirmOnly
      BY <1>2, <1>3, ReplyForm
<1>5. Steady
      BY <1>2, AgingIdle DEF Steady
<1>6. \A v \in Live(grid)' : v = n \/ v \in Live(grid)
      BY <1>1, <1>2 DEF Live
<1>7. n.epoch = grid.epoch => Aim(n)'
  <2> SUFFICES ASSUME n.epoch = grid.epoch PROVE Aim(n)'
      OBVIOUS
  <2>1. Aim(t) /\ Eligible(seen) /\ t.tx = seen.tx /\ t.epoch = grid.epoch
        BY <1>1, <1>2, <1>3 DEF Intent, Aimed, Tasks, Scoped
  <2>2. got = "refused" => Undoing \/ (doc.phase = "expired" /\ t.began # "expired")
    <3> SUFFICES ASSUME got = "refused" PROVE Undoing \/ (doc.phase = "expired" /\ t.began # "expired")
        OBVIOUS
    <3>1. /\ t.pc # "start" /\ t.want.amps > 0
          /\ ~(doc.release /\ doc.phase = "active" /\ seen.enabled)
          BY <1>3, <2>1 DEF Guard, Valid, Proposing
    <3>2. /\ doc.release \/ Undoing
          /\ seen.enabled /\ doc.phase # "waiting" /\ t.began # "expired"
          BY <2>1, <3>1 DEF Aim
    <3>3. doc.phase \in {"waiting", "active", "expired"}
          BY DEF Base, TypeOK, Doc
    <3> QED BY <3>1, <3>2, <3>3
  <2>3. Aim(n)
        BY <1>2, <1>3, <1>4, <2>1, <2>2 DEF Aim
  <2> QED BY <1>5, <2>3, AimSteady
<1>8. Aimed'
      BY <1>2, <1>5, <1>6, <1>7, AimSteady DEF Intent, Aimed
<1>9. Busy(grid)' <=> Busy(grid)
      BY <1>1, <1>2 DEF Busy, Live
<1>10. Reported'
      BY <1>2, <1>9 DEF Intent, Reported, Undoing
<1> QED BY <1>8, <1>10

LEMMA WireIntent ==
  ASSUME Base, Base', Intent, Send \/ StationHandles \/ CallTimesOut
  PROVE  Intent'
<1>0. TypeOK /\ Tasks /\ OnWire /\ Known /\ inbox \in Seq(Msg)
      BY DEF Base, TypeOK
<1>1. {"refused", "timeout"} \subseteq Outcome
      BY DEF Outcome
<1>2. CASE Send
  <2>1. /\ UNCHANGED <<doc, seen, station, act, storing, ops>>
        /\ Head(calls) \in Task /\ Head(calls) \in ToSet(calls) /\ Waits(Head(calls))
        /\ RefusedToSend \/ \E m \in Msg : SendsOut(m)
        BY <1>0, <1>2, SendForm
  <2>2. CASE RefusedToSend
    <3>1. /\ Wakes("refused", None) /\ Proposing(Head(calls)) /\ ~Guard(Head(calls))
          /\ UNCHANGED inbox
          BY <2>2 DEF RefusedToSend
    <3>2. Aimed' /\ Reported'
          BY <1>1, <2>1, <3>1, WakesIntent
    <3>3. grid'.requested = grid.requested /\ grid'.status = grid.status /\ grid'.outcome = grid.outcome
          BY <1>1, <3>1, WakesReady
    <3>4. Done'
          BY <2>1, <3>1, <3>3 DEF Intent, Done, Quiet, Undoing
    <3> QED BY <3>2, <3>4 DEF Intent
  <2>3. CASE \E m \in Msg : SendsOut(m)
    <3>1. PICK m \in Msg : SendsOut(m)
          BY <2>3
    <3>2. /\ grid'.ready = grid.ready /\ grid'.epoch = grid.epoch /\ grid'.latest = grid.latest
          /\ grid'.requested = grid.requested /\ grid'.status = grid.status
          /\ grid'.outcome = grid.outcome /\ calls' = calls
          BY <1>0, <2>1, <3>1, SendsOutForm DEF SendsOut
    <3>3. Steady
          BY <2>1, <3>2, AgingIdle DEF Steady
    <3>4. Live(grid)' = Live(grid)
          BY <3>2 DEF Live
    <3>5. Aimed'
          BY <3>2, <3>3, <3>4, AimSteady DEF Intent, Aimed
    <3>6. Reported'
          BY <2>1, <3>2, <3>4 DEF Intent, Reported, Busy, Undoing
    <3>7. Done'
      <4>1. CASE Proposing(Head(calls))
        <5>1. Head(calls) \in Live(grid) /\ Head(calls).epoch = grid.epoch
              BY <2>1, <3>1, <4>1 DEF Live, SendsOut, Guard, Valid
        <5>2. grid.status # "confirmed"
              BY <4>1, <5>1 DEF Intent, Aimed, Aim, Proposing
        <5> QED BY <3>2, <5>2 DEF Done
      <4>2. CASE ~Proposing(Head(calls))
        <5>1. m.kind # "set" /\ inbox' = Append(inbox, m)
              BY <3>1, <4>2 DEF SendsOut, KindOf, Proposing
        <5>2. \A k \in DOMAIN inbox' : \/ k \in DOMAIN inbox /\ inbox'[k] = inbox[k]
                                      \/ inbox'[k] = m
              BY <1>0, <5>1, AppendElements
        <5>3. Quiet => Quiet'
              BY <5>1, <5>2 DEF Quiet
        <5> QED BY <2>1, <3>2, <5>3 DEF Intent, Done, Undoing
      <4> QED BY <4>1, <4>2
    <3> QED BY <3>5, <3>6, <3>7 DEF Intent
  <2> QED BY <2>1, <2>2, <2>3
<1>3. CASE StationHandles
  <2>1. PICK m \in Msg, got \in Outcome, found \in Offer \cup {None} : HandleEffect(m, got, found)
        BY <1>0, <1>3, HandlesForm
  <2>2. /\ UNCHANGED <<doc, seen, act>> /\ got # "refused"
        /\ IF m.live THEN Wakes(got, found) ELSE UNCHANGED <<grid, calls>>
        BY <2>1 DEF HandleEffect, Refusal
  <2>3. /\ inbox # <<>> /\ inbox' = Tail(inbox) /\ m = inbox[1] /\ 1 \in DOMAIN inbox
        /\ \A k \in DOMAIN inbox' : k + 1 \in DOMAIN inbox /\ inbox'[k] = inbox[k + 1]
        BY <1>0, <2>1, TailElements DEF HandleEffect
  <2>4. Aimed' /\ Reported'
    <3>1. CASE m.live
          BY <2>2, <3>1, WakesIntent
    <3>2. CASE ~m.live
      <4>1. Steady /\ Live(grid)' = Live(grid)
            BY <2>2, <3>2, AgingIdle DEF Steady, Live
      <4>2. Aimed'
            BY <2>2, <3>2, <4>1, AimSteady DEF Intent, Aimed
      <4> QED BY <2>2, <3>2, <4>1, <4>2 DEF Intent, Reported, Busy, Undoing
    <3> QED BY <3>1, <3>2
  <2>5. grid'.requested = grid.requested /\ grid'.status = grid.status /\ grid'.outcome = grid.outcome
        BY <2>2, WakesReady
  <2>6. Quiet => Quiet' /\ station' = station
        BY <2>1, <2>3 DEF Quiet, HandleEffect
  <2>7. Done'
        BY <2>2, <2>5, <2>6 DEF Intent, Done, Undoing
  <2> QED BY <2>4, <2>7 DEF Intent
<1>4. CASE CallTimesOut
  <2>1. /\ Wakes("timeout", None) /\ DOMAIN inbox' = DOMAIN inbox
        /\ \A k \in DOMAIN inbox : inbox'[k] = [inbox[k] EXCEPT !.live = FALSE]
        BY <1>0, <1>4, TimeoutMoves
  <2>2. UNCHANGED <<doc, seen, station, act>>
        BY <1>4 DEF CallTimesOut, user
  <2>3. Aimed' /\ Reported'
        BY <1>1, <2>1, <2>2, WakesIntent
  <2>4. grid'.requested = grid.requested /\ grid'.status = grid.status /\ grid'.outcome = grid.outcome
        BY <1>1, <2>1, WakesReady
  <2>5. Quiet => Quiet'
    <3>1. \A k \in DOMAIN inbox' : inbox'[k].kind = inbox[k].kind
      <4> TAKE k \in DOMAIN inbox'
      <4>1. inbox[k] \in Msg
            BY <1>0, <2>1
      <4> QED BY <2>1, <4>1 DEF Msg
    <3> QED BY <2>1, <3>1 DEF Quiet
  <2>6. Done'
        BY <2>2, <2>4, <2>5 DEF Intent, Done, Undoing
  <2> QED BY <2>3, <2>6 DEF Intent
<1> QED BY <1>2, <1>3, <1>4

(* The tasks beside the one whose turn it is. *)
LEMMA TurnRest ==
  ASSUME Base, NEW t, NEW g, Turns(t, g), grid.ready # <<>>
  PROVE  /\ Tail(grid.ready) \in Seq(Task) /\ ToSet(Tail(grid.ready)) \subseteq ToSet(grid.ready)
         /\ t \in Task /\ t \in Live(grid)
         /\ Live(grid) = {t} \cup ToSet(Tail(grid.ready)) \cup ToSet(calls)
         /\ \A v \in ToSet(Tail(grid.ready)) \cup ToSet(calls) : v.epoch # t.epoch
<1>1. /\ grid.ready \in Seq(Task) /\ calls \in Seq(Task) /\ Apart(grid.ready, calls)
      /\ t = Head(grid.ready) /\ t \in Task
      BY LiveEpochs DEF Base, Tasks, Turns
<1>2. ToSet(grid.ready) = {t} \cup ToSet(Tail(grid.ready)) /\ Tail(grid.ready) \in Seq(Task)
      BY <1>1, HeadAmong, TailElements
<1>3. \A v \in ToSet(Tail(grid.ready)) \cup ToSet(calls) : v.epoch # t.epoch
      BY <1>1, ApartTail
<1> QED BY <1>1, <1>2, <1>3 DEF Live

LEMMA StaleIntent ==
  ASSUME Base, Base', Intent, NEW t, NEW g, Turns(t, g), grid.ready # <<>>, ~Valid(t), StaleTurn(t),
         Corrects(t), UNCHANGED <<station, act, inbox>>
  PROVE  Intent'
<1>1. PICK h \in Grid : /\ Turned(t, h) /\ Silent(h) /\ grid' = h /\ doc' = doc
                        /\ calls' = calls \/ calls' = Append(calls, Onto(t, "confirm"))
      BY DEF StaleTurn
<1>2. /\ t \in Task /\ t \in Live(grid) /\ t.epoch # grid.epoch
      /\ Live(grid) = {t} \cup ToSet(Tail(grid.ready)) \cup ToSet(calls) /\ calls \in Seq(Task)
      BY TurnRest, LiveEpochs DEF Turns
<1>3. Onto(t, "confirm") \in Task /\ Onto(t, "confirm").epoch = t.epoch
      BY <1>2, OntoForm
<1>4. /\ grid'.ready = Tail(grid.ready) /\ grid'.epoch = grid.epoch /\ grid'.latest = grid.latest
      /\ grid'.requested = grid.requested /\ grid'.status = grid.status
      /\ grid'.outcome = grid.outcome /\ seen' = seen
      BY <1>1 DEF Turned, Silent, Corrects
<1>5. ToSet(calls') = ToSet(calls) \/ ToSet(calls') = ToSet(calls) \cup {Onto(t, "confirm")}
  <2>1. PICK u \in Task : u = Onto(t, "confirm")
        BY <1>3
  <2>2. ToSet(Append(calls, u)) = ToSet(calls) \cup {u}
        BY <1>2, AppendAmong
  <2>3. calls' = calls \/ calls' = Append(calls, u)
        BY <1>1, <2>1
  <2> QED BY <2>1, <2>2, <2>3
<1>6. \A v \in Live(grid)' : v.epoch = grid'.epoch => v \in Live(grid)
      BY <1>2, <1>3, <1>4, <1>5 DEF Live
<1>7. Steady
      BY <1>1, <1>4, AgingIdle DEF Steady
<1>8. Aimed'
      BY <1>4, <1>6, <1>7, AimSteady DEF Intent, Aimed
<1>9. Done'
      BY <1>1, <1>4 DEF Intent, Done, Quiet, Undoing
<1>10. grid.latest = grid.epoch /\ Busy(grid) => Busy(grid)'
       BY <1>2, <1>4, <1>5 DEF Busy, Live
<1>11. Reported'
       BY <1>4, <1>10 DEF Intent, Reported, Undoing
<1> QED BY <1>8, <1>9, <1>11 DEF Intent

(* A task goes on towards what it aims at. *)
LEMMA NextIntent ==
  ASSUME Base, Base', Intent, NEW t, NEW g, Turns(t, g), grid.ready # <<>>, Valid(t), NextTurn(t),
         Corrects(t), UNCHANGED <<station, act, inbox>>
  PROVE  Intent'
<1>1. PICK h \in Grid, u \in Task : Turned(t, h) /\ Onward(t, h, u) /\ AwaitsAs(h, u)
      BY DEF NextTurn
<1>2. /\ t \in Task /\ t \in Live(grid) /\ t.epoch = grid.epoch /\ grid.latest = t.epoch
      /\ \A v \in ToSet(Tail(grid.ready)) \cup ToSet(calls) : v.epoch # t.epoch
      /\ calls \in Seq(Task)
      BY TurnRest, LiveEpochs DEF Turns
<1>3. /\ grid' = h /\ grid'.ready = Tail(grid.ready) /\ grid'.epoch = grid.epoch
      /\ grid'.latest = grid.latest /\ calls' = Append(calls, u) /\ doc' = doc
      BY <1>1 DEF Turned, AwaitsAs
<1>4. ToSet(calls') = ToSet(calls) \cup {u} /\ u.epoch = t.epoch /\ u.got = "none"
      BY <1>1, <1>2, <1>3, AppendAmong DEF Onward, Waits
<1>5. Aim(t) /\ seen'.enabled = seen.enabled /\ (Undoing' <=> Undoing)
      BY <1>2 DEF Intent, Aimed, Corrects, Undoing
<1>6. Aim(u)'
  <2>1. u.began = t.began /\ u.confirmOnly = t.confirmOnly
        BY <1>1 DEF Onward
  <2>2. CASE /\ t.pc = "start" /\ u.pc = "read" /\ Silent(h)
             /\ u.want.amps > 0 => doc.phase = "active" /\ doc.release /\ seen.enabled
        BY <1>3, <1>4, <1>5, <2>1, <2>2 DEF Aim, Silent
  <2>3. CASE /\ t.pc = "read" /\ u.pc = "set" /\ u.want = t.want /\ h.requested = t.want
             /\ h.status = "pending" /\ ~t.confirmOnly
        BY <1>3, <1>4, <1>5, <2>1, <2>3 DEF Aim
  <2>4. CASE /\ t.pc = "set" /\ u.pc = "rotation" /\ u.want = t.want /\ h.requested = grid.requested
             /\ h.status = "accepted_unconfirmed"
        BY <1>3, <1>4, <1>5, <2>1, <2>4 DEF Aim
  <2>5. CASE /\ t.pc = "set" /\ u.pc = "interim" /\ (u.want.amps > 0 => t.want.amps > 0)
             /\ h.status = "rejected"
        BY <1>3, <1>4, <1>5, <2>1, <2>5 DEF Aim
  <2>6. CASE t.pc = "rotation" /\ u.pc = "confirm" /\ u.want = t.want /\ Silent(h)
        BY <1>3, <1>4, <1>5, <2>1, <2>6 DEF Aim, Silent
  <2>7. CASE t.pc = "interim" /\ u.pc = "check" /\ u.want = t.want /\ Silent(h)
        BY <1>3, <1>4, <1>5, <2>1, <2>7 DEF Aim, Silent
  <2> QED BY <1>1, <2>2, <2>3, <2>4, <2>5, <2>6, <2>7 DEF Onward
<1>7. Aimed'
      BY <1>2, <1>3, <1>4, <1>6 DEF Aimed, Live
<1>8. \/ h.status \in {"pending", "accepted_unconfirmed", "rejected"}
      \/ h.status = grid.status /\ h.outcome = grid.outcome /\ h.requested = grid.requested
      BY <1>1 DEF Onward, Silent
<1>9. Done'
      BY <1>3, <1>5, <1>8 DEF Intent, Done, Quiet
<1>10. Busy(grid)'
       BY <1>2, <1>3, <1>4 DEF Busy, Live
<1> QED BY <1>7, <1>9, <1>10 DEF Intent, Reported

(* What the station offers, when nothing on its way can change it. *)
LEMMA HeldIsOffered ==
  ASSUME Base, Doubt, grid.uncertain = <<>>
  PROVE  /\ Quiet
         /\ CurrentPoint(grid) # None => CurrentPoint(grid) = station.offer
<1>1. ~DeadSet /\ ~Differs
      BY DEF Doubt, Doubted
<1>2. ~LiveSet
      BY DEF Doubt, OwnEntry
<1>3. Quiet
      BY <1>1, <1>2 DEF Quiet, DeadSet, LiveSet
<1>4. ASSUME CurrentPoint(grid) # None PROVE CurrentPoint(grid) = station.offer
  <2>1. /\ grid.confirmed # None /\ grid.confirmed.tx = seen.tx
        /\ CurrentPoint(grid) = grid.confirmed.point
        BY <1>4 DEF CurrentPoint
  <2>2. grid.confirmed.tx # None
        BY <2>1, TransactionsAssumption DEF Base, TypeOK, Grid, Confirmed
  <2>3. grid.confirmed.tx = station.tx
        BY <2>1, <2>2 DEF Base, Known
  <2> QED BY <1>1, <2>1, <2>3 DEF Differs
<1> QED BY <1>3, <1>4

(* "confirmed" is said of what the station offers. *)
LEMMA VerdictDone ==
  ASSUME Base, Doubt, NEW t \in ToSet(grid.ready), t.epoch = grid.epoch, Aim(t),
         t.pc \in {"read", "confirm"},
         NEW h, h.requested = IF t.pc = "read" THEN t.want ELSE grid.requested,
         \/ Reading(t) # None /\ Matches(Reading(t), t.want)
         \/ Reading(t) = None /\ grid.uncertain = <<>> /\ Matches(CurrentPoint(grid), t.want)
  PROVE  /\ Quiet /\ Matches(station.offer, h.requested)
         /\ h.requested.amps > 0 => doc.release \/ Undoing
<1>1. h.requested = t.want
      BY DEF Aim
<1>2. Quiet /\ Matches(station.offer, t.want)
  <2>1. CASE Reading(t) # None /\ Matches(Reading(t), t.want)
    <3>1. t.found # None /\ Reading(t) = t.found
          BY <2>1 DEF Reading
    <3> QED BY <2>1, <3>1 DEF Doubt, Fresh
  <2>2. CASE Reading(t) = None /\ grid.uncertain = <<>> /\ Matches(CurrentPoint(grid), t.want)
    <3>1. CurrentPoint(grid) # None
          BY <2>2 DEF Matches
    <3> QED BY <2>2, <3>1, HeldIsOffered
  <2> QED BY <2>1, <2>2
<1>3. t.want.amps > 0 => doc.release \/ Undoing
      BY DEF Aim
<1> QED BY <1>1, <1>2, <1>3

(* A task ends: it has said how, or leaves the word to a newer one. *)
LEMMA EndIntent ==
  ASSUME Base, Base', Intent, Doubt, NEW t, NEW g, Turns(t, g), grid.ready # <<>>, Valid(t),
         EndTurn(t), Corrects(t), UNCHANGED <<station, act, inbox>>
  PROVE  Intent'
<1>1. PICK h \in Grid : Turned(t, h) /\ Verdict(t, h) /\ EndsWith(t, h)
      BY DEF EndTurn
<1>2. /\ t \in Task /\ t \in Live(grid) /\ t.epoch = grid.epoch /\ grid.latest = t.epoch
      /\ t \in ToSet(grid.ready) /\ Eligible(seen)
      /\ \A v \in ToSet(Tail(grid.ready)) \cup ToSet(calls) : v.epoch # t.epoch
      /\ Tail(grid.ready) \in Seq(Task) /\ grid.epoch \in Nat /\ seen \in Seen /\ doc \in Doc
      BY TurnRest, LiveEpochs DEF Turns, Base, TypeOK
<1>3. /\ calls' = calls /\ doc' = doc /\ seen' = seen
      BY <1>1 DEF EndsWith, Corrects
<1>4. /\ grid'.epoch = grid.epoch /\ grid'.requested = h.requested /\ grid'.status = h.status
      /\ grid'.outcome = h.outcome /\ h.ready = Tail(grid.ready) /\ h.latest = grid.latest
      /\ h.epoch = grid.epoch
      BY <1>1 DEF EndsWith, Spawns, Alike, Turned
<1>5. Aim(t) /\ (Undoing' <=> Undoing)
      BY <1>2 DEF Intent, Aimed, Undoing
<1>6. ~Busy(h) /\ h.latest = h.epoch
      BY <1>1, TurnBusy DEF Base
<1>7. \/ doc.phase = t.began /\ grid' = h
      \/ /\ doc.phase # t.began
         /\ grid'.ready = Append(Tail(grid.ready), NewTask(grid.epoch, seen, doc, FALSE))
         /\ grid'.latest = grid.epoch
      BY <1>1, <1>2, <1>4, <1>6 DEF EndsWith, Spawns
<1>8. Done'
  <2> SUFFICES ASSUME h.outcome, h.status = "confirmed"
               PROVE  /\ Quiet /\ Matches(station.offer, h.requested)
                      /\ h.requested.amps > 0 => doc.release \/ Undoing
      BY <1>3, <1>4, <1>5 DEF Done, Quiet
  <2>1. CASE /\ \/ t.pc = "read" /\ h.requested = t.want
                \/ t.pc = "confirm" /\ h.requested = grid.requested
             /\ \/ Reading(t) # None /\ Matches(Reading(t), t.want)
                \/ Reading(t) = None /\ grid.uncertain = <<>> /\ Matches(CurrentPoint(grid), t.want)
    <3>1. h.requested = IF t.pc = "read" THEN t.want ELSE grid.requested
          BY <2>1
    <3>2. t.pc \in {"read", "confirm"}
          BY <2>1
    <3> QED BY <1>2, <1>5, <2>1, <3>1, <3>2, VerdictDone
  <2>2. CASE t.confirmOnly /\ h.status = grid.status
        BY <1>5, <2>2 DEF Aim
  <2>3. CASE Silent(h)
        BY <2>3 DEF Silent, Intent, Done
  <2> QED BY <1>1, <2>1, <2>2, <2>3 DEF Verdict
<1>9. CASE doc.phase = t.began /\ grid' = h
  <2>1. Aimed'
        BY <1>2, <1>3, <1>4, <1>9 DEF Aimed, Live
  <2>2. Reported'
    <3>1. CASE h.outcome \/ h.status = "unconfirmed"
          BY <1>9, <3>1 DEF Reported
    <3>2. CASE t.confirmOnly /\ h.status = grid.status
          BY <1>5, <1>9, <3>2 DEF Aim, Reported
    <3>3. CASE t.got = "refused"
          BY <1>5, <1>9, <3>3 DEF Aim, Reported
    <3> QED BY <1>1, <3>1, <3>2, <3>3 DEF Verdict
  <2> QED BY <1>8, <2>1, <2>2 DEF Intent
<1>10. CASE /\ grid'.ready = Append(Tail(grid.ready), NewTask(grid.epoch, seen, doc, FALSE))
            /\ grid'.latest = grid.epoch
  <2>1. PICK r \in Seq(Task) : r = Tail(grid.ready)
        BY <1>2
  <2>2. PICK e \in Nat : e = grid.epoch
        BY <1>2
  <2>a. \A c \in BOOLEAN :
          \E n \in Task : /\ Begun(n, e, doc, c)
                         /\ ToSet(Append(r, NewTask(e, seen, doc, c))) = ToSet(r) \cup {n}
        BY <1>2, BegunForm
  <2>b. grid'.ready = Append(r, NewTask(e, seen, doc, FALSE))
        BY <1>10, <2>1, <2>2
  <2>c. PICK n \in Task : /\ Begun(n, e, doc, FALSE)
                          /\ ToSet(Append(r, NewTask(e, seen, doc, FALSE))) = ToSet(r) \cup {n}
        BY <2>a
  <2>d. /\ Begun(n, grid.epoch, doc, FALSE)
        /\ ToSet(grid'.ready) = ToSet(Tail(grid.ready)) \cup {n}
        BY <2>1, <2>2, <2>b, <2>c
  <2>3. Aim(n)'
        BY <1>3, <2>d, BegunAim
  <2>4. Aimed'
        BY <1>2, <1>3, <1>4, <2>c, <2>d, <2>3 DEF Aimed, Live
  <2>5. Busy(grid)'
        BY <1>10, <2>c, <2>d DEF Busy, Live, Begun
  <2> QED BY <1>8, <2>4, <2>5 DEF Intent, Reported
<1> QED BY <1>7, <1>9, <1>10

LEMMA RunIntent ==
  ASSUME Base, Base', Intent, Doubt, RunTask
  PROVE  Intent'
<1>1. PICK t, g : /\ Turns(t, g) /\ Turning(t) /\ Corrects(t)
                  /\ grid.ready # <<>> /\ UNCHANGED <<station, act, sent, inbox, ops>>
      BY RunTurns DEF Base
<1>2. CASE ~Valid(t)
      BY <1>1, <1>2, StaleIntent DEF Turning
<1>3. CASE Valid(t) /\ NextTurn(t)
      BY <1>1, <1>3, NextIntent
<1>4. CASE Valid(t) /\ EndTurn(t)
      BY <1>1, <1>4, EndIntent
<1>5. CASE Valid(t) /\ StopTurn(t)
  <2>1. PICK h \in Grid : Turned(t, h) /\ Silent(h) /\ h.uncertain = grid.uncertain /\ StopRelease(h)
        BY <1>5 DEF StopTurn
  <2>2. calls' = calls /\ t.pc = "start"
        BY <1>5 DEF StopTurn
  <2>3. Moves(h, grid', seen', doc') /\ h.ready = Tail(grid.ready) /\ h.epoch = grid.epoch
        /\ h.latest = grid.latest
        BY <1>1, <2>1, <2>2, StopTurnForm DEF Turned, Base
  <2>4. /\ Tail(grid.ready) \in Seq(Task) /\ ToSet(Tail(grid.ready)) \subseteq ToSet(grid.ready)
        BY <1>1, TurnRest
  <2> QED BY <2>2, <2>3, <2>4, NewIntent DEF Moves
<1> QED BY <1>1, <1>2, <1>3, <1>4, <1>5 DEF Turning

LEMMA StepIntent ==
  ASSUME Base, Base', Effects, Doubt, Intent
  PROVE  Intent'
<1>1. CASE UNCHANGED vars
  <2>1. UNCHANGED <<doc, seen, station, grid, act, calls, inbox>>
        BY <1>1 DEF vars, user, wire
  <2> QED BY <2>1 DEF Intent, Aimed, Aim, Done, Reported, Quiet, Undoing, Live, Busy
<1> QED BY <1>1, MovesIntent, SameIntent, CutIntent, RunIntent, WireIntent DEF Effects

LEMMA InitIntent == Init => Intent
<1> SUFFICES ASSUME Init PROVE Intent
    OBVIOUS
<1>1. /\ grid.ready = <<>> /\ calls = <<>> /\ ~grid.outcome /\ grid.epoch = 0
      BY DEF Init
<1> QED BY <1>1, EmptyAmong DEF Intent, Aimed, Done, Reported, Live

(* The task of the current epoch aims at what is still approved, and once  *)
(* it has ended it has said how.                                           *)
THEOREM IntentHolds == Spec => []Intent
<1>1. Init => Base /\ Doubt /\ Intent
      BY InitBase, InitDoubt, InitIntent
<1>2. Base /\ Doubt /\ Intent /\ [Next]_vars => Base' /\ Doubt' /\ Intent'
      BY StepEffects, StepDoubt, StepIntent
<1> QED BY <1>1, <1>2, PTL DEF Spec

(* "confirmed" is the truth about the current intent: the station offers   *)
(* what was requested, no proposal still under way will change that, and a *)
(* positive point is confirmed only for a release that is on, but for the  *)
(* moment in which a superseded Apply undoes its save (reconcile).         *)
THEOREM ConfirmedIsDoneHolds == Spec => []ConfirmedIsDone
<1>1. Intent => ConfirmedIsDone
      BY DEF Intent, Done, Quiet, Undoing, ConfirmedIsDone
<1> QED BY <1>1, IntentHolds, PTL

(* A reconciliation that ended while it was current has said how: nobody   *)
(* is left with a status that a superseded one wrote (reconcile, settled). *)
THEOREM EndReportedHolds == Spec => []EndReported
<1>1. Intent => EndReported
      BY DEF Intent, Reported, Undoing, EndReported, Idle
<1> QED BY <1>1, IntentHolds, PTL

-----------------------------------------------------------------------------
(* The invariant, fourth part: the halt.  With the release off and no save *)
(* under way, a task of the current epoch goes on, one is to be tried      *)
(* again, or the status tells how the last one ended.  It rests on two     *)
(* facts about the approval: a change of the power or of the times that is *)
(* still current finds the release on, and so does an end that is due.     *)

Running == grid.latest = grid.epoch /\ Busy(grid)

Steered ==
  act # None =>
    /\ act.epoch <= grid.epoch
    /\ act.epoch = grid.epoch /\ act.kind \notin {"start", "delayed", "undo"} => doc.release

Expiring == doc.phase = "expired" => doc.release \/ Undoing

Halting ==
  ~doc.release /\ act = None /\ Eligible(seen) =>
    \/ Running \/ grid.retry \/ grid.status \in Trouble
    \/ grid.outcome /\ grid.status = "confirmed"

Halt == Steered /\ Expiring /\ Halting

(* What is under way goes on, or a new action, its end or its undoing.     *)
LEMMA ActSteps ==
  ASSUME [Next]_vars
  PROVE  act' \in {act, None} \/ Start \/ Apply \/ ActionSuperseded
BY DEF Next, vars, user, wire, Users, Saves, Deadlines, Observations, Observe, Stop, StopAgain,
   CommitEquivalent, ActionStored, ActionUndone, ActionFailed, ReleaseStored, ReleaseNotStored,
   StartDue, EndDue, DeadlineFires, RetryFires, PermissionSeen, AuthoritySeen, CapabilitySeen,
   TxStart, TxEnd, TxSeen, PhaseSeen, Disconnect, Register, RunTask, Send, StationHandles, CallTimesOut

LEMMA BeginActs ==
  ASSUME Base, Start \/ Apply
  PROVE  /\ act' # None /\ act'.epoch = grid'.epoch /\ doc' = doc /\ act = None
         /\ act'.kind \in {"start", "delayed"} \/ doc.release
<1>1. \E kind \in {"start", "delayed", "power", "both", "shift", "extend", "over"}, p \in Points :
        Begin(kind, p) /\ (kind \in {"start", "delayed"} \/ doc.release)
  <2>1. doc.approved \in Points
        BY DEF Base, TypeOK, Doc
  <2> QED BY <2>1 DEF Start, Apply
<1>2. PICK kind \in {"start", "delayed", "power", "both", "shift", "extend", "over"}, p \in Points :
        Begin(kind, p) /\ (kind \in {"start", "delayed"} \/ doc.release)
      BY <1>1
<1>3. act' \in Act /\ act'.kind = kind /\ act'.epoch = grid'.epoch /\ doc' = doc /\ act = None
      BY <1>2, BeginMoves DEF Base
<1> QED BY <1>2, <1>3, NoneAssumption

(* The epoch moves on, or a release that is on goes on. *)
LEMMA EpochSteps ==
  ASSUME Base, Effects
  PROVE  \/ grid'.epoch = grid.epoch + 1
         \/ grid'.epoch = grid.epoch /\ (doc.release => doc'.release \/ Undoing')
<1>1. CASE MoveEffect \/ SameEffect \/ Cut
      BY <1>1 DEF MoveEffect, Moves, SameEffect, Keeps, Spawns, Alike, Aging, Cut
<1>2. CASE RunTask
  <2>1. PICK t, g : /\ Turns(t, g) /\ Turning(t) /\ Corrects(t)
        BY <1>2, RunTurns DEF Base
  <2>2. CASE StaleTurn(t) \/ NextTurn(t) \/ EndTurn(t)
        BY <2>2 DEF StaleTurn, NextTurn, EndTurn, Turned, AwaitsAs, EndsWith, Spawns, Alike
  <2>3. CASE StopTurn(t)
    <3>1. PICK h \in Grid : Turned(t, h) /\ StopRelease(h) /\ t.pc = "start"
          BY <2>3 DEF StopTurn
    <3>2. Moves(h, grid', seen, doc')
          BY <2>1, <3>1, StopTurnForm DEF Base
    <3> QED BY <3>1, <3>2 DEF Turned, Moves
  <2> QED BY <2>1, <2>2, <2>3 DEF Turning
<1>3. CASE Send
  <2>1. doc' = doc /\ (RefusedToSend \/ \E m \in Msg : SendsOut(m)) /\ seen' = seen
        BY <1>3, SendForm DEF Base
  <2>2. CASE RefusedToSend
    <3>1. "refused" \in Outcome /\ Wakes("refused", None)
          BY <2>2 DEF Outcome, RefusedToSend
    <3> QED BY <2>1, <3>1, WakesReady
  <2>3. CASE \E m \in Msg : SendsOut(m)
        BY <2>1, <2>3, SendsOutForm DEF Base
  <2> QED BY <2>1, <2>2, <2>3
<1>4. CASE StationHandles
  <2>1. PICK m \in Msg, got \in Outcome, found \in Offer \cup {None} : HandleEffect(m, got, found)
        BY <1>4, HandlesForm DEF Base
  <2>2. doc' = doc /\ IF m.live THEN Wakes(got, found) ELSE UNCHANGED <<grid, calls>>
        BY <2>1 DEF HandleEffect
  <2> QED BY <2>2, WakesReady
<1>5. CASE CallTimesOut
  <2>1. Wakes("timeout", None) /\ doc' = doc /\ "timeout" \in Outcome
        BY <1>5, TimeoutMoves DEF CallTimesOut, user, Outcome, Base
  <2> QED BY <2>1, WakesReady
<1>6. CASE UNCHANGED vars
      BY <1>6 DEF vars
<1> QED BY <1>1, <1>2, <1>3, <1>4, <1>5, <1>6 DEF Effects

LEMMA SteeredSteps ==
  ASSUME Base, Base', Steered, Effects, [Next]_vars
  PROVE  Steered'
<1>1. grid.epoch \in Nat /\ (act # None => act.epoch \in Nat)
      BY DEF Base, TypeOK, Grid, Act
<1>2. CASE act' \in {act, None}
  <2>1. act' # None /\ Undoing' => act'.kind = "undo"
        BY DEF Undoing
  <2> QED BY <1>1, <1>2, <2>1, EpochSteps DEF Steered
<1>3. CASE Start \/ Apply
      BY <1>1, <1>3, BeginActs, EpochSteps DEF Steered
<1>4. CASE ActionSuperseded
  <2>1. act \in Act /\ act' = [act EXCEPT !.kind = "undo"] /\ grid' = grid
        BY <1>4 DEF ActionSuperseded, Base, TypeOK
  <2>2. act'.kind = "undo" /\ act'.epoch = act.epoch
        BY <2>1 DEF Act
  <2> QED BY <1>4, <2>1, <2>2 DEF Steered, ActionSuperseded
<1> QED BY <1>2, <1>3, <1>4, ActSteps

(* The business phase ends only with the release on; one that is taken by  *)
(* a superseded action is on its way to be undone.                         *)
LEMMA ExpiringSteps ==
  ASSUME Base, Base', Expiring, [Next]_vars
  PROVE  Expiring'
<1>0. doc \in Doc /\ Released(doc).phase = "active"
      BY ReleasedForm DEF Base, TypeOK
<1>1. CASE doc' = doc /\ (act' = act \/ act = None \/ ~Undoing)
      BY <1>1 DEF Expiring, Undoing
<1>2. CASE doc' = Released(doc)
      BY <1>0, <1>2 DEF Expiring
<1>3. CASE Users
  <2>1. CASE Start \/ Apply
        BY <1>1, <2>1, BeginActs
  <2>2. CASE Stop
        BY <1>2, <2>2 DEF Stop, StopRelease
  <2>3. CASE StopAgain \/ CommitEquivalent
        BY <1>1, <2>3 DEF StopAgain, CommitEquivalent, user
  <2> QED BY <1>3, <2>1, <2>2, <2>3 DEF Users
<1>4. CASE Saves
  <2>1. CASE ActionStored
    <3>1. act \in Act /\ act.kind # "undo"
          BY <2>1 DEF ActionStored, Base, TypeOK
    <3>2. doc.phase = "expired" => doc.release
          BY <3>1 DEF Expiring, Undoing
    <3>3. \/ doc'.phase \in {"active", "waiting"}
          \/ doc'.phase = doc.phase /\ doc'.release = doc.release
          BY <1>0, <2>1, <3>1, ReleasedForm DEF ActionStored, Act, Doc
    <3> QED BY <3>2, <3>3 DEF Expiring
  <2>2. CASE ActionSuperseded
    <3>1. act \in Act /\ act' = [act EXCEPT !.kind = "undo"]
          BY <2>2 DEF ActionSuperseded, Base, TypeOK
    <3>2. act' \in Act /\ act'.kind = "undo"
          BY <3>1 DEF Act
    <3> QED BY <3>2, NoneAssumption DEF Expiring, Undoing
  <2>3. CASE ActionUndone
        BY <1>2, <2>3 DEF ActionUndone
  <2>4. CASE ActionFailed
        BY <1>1, <1>2, <2>4 DEF ActionFailed, StopRelease, Undoing
  <2>5. CASE ReleaseStored \/ ReleaseNotStored
        BY <1>1, <2>5 DEF ReleaseStored, ReleaseNotStored
  <2> QED BY <1>4, <2>1, <2>2, <2>3, <2>4, <2>5 DEF Saves
<1>5. CASE Deadlines
  <2>1. CASE StartDue
        BY <1>0, <2>1 DEF StartDue, Doc, Expiring
  <2>2. CASE EndDue
        BY <1>0, <2>2 DEF EndDue, Doc, Expiring
  <2>3. CASE DeadlineFires
        BY <1>1, <1>2, <2>3 DEF DeadlineFires, StopRelease
  <2>4. CASE RetryFires
        BY <1>1, <2>4 DEF RetryFires, user
  <2> QED BY <1>5, <2>1, <2>2, <2>3, <2>4 DEF Deadlines
<1>6. CASE Observations
  <2>1. act' = act /\ doc' \in {doc, Released(doc)}
        BY <1>6 DEF Observations, PermissionSeen, AuthoritySeen, CapabilitySeen, TxStart, TxEnd, TxSeen,
           PhaseSeen, Disconnect, Register, Observe, user
  <2> QED BY <1>1, <1>2, <2>1
<1>7. CASE RunTask
  <2>1. PICK t, g : Turns(t, g) /\ Turning(t) /\ UNCHANGED act
        BY <1>7, RunTurns DEF Base
  <2>2. doc' \in {doc, Released(doc)}
        BY <2>1 DEF Turning, StaleTurn, NextTurn, EndTurn, StopTurn, AwaitsAs, EndsWith, StopRelease
  <2> QED BY <1>1, <1>2, <2>1, <2>2
<1>8. CASE Send \/ StationHandles \/ CallTimesOut \/ UNCHANGED vars
      BY <1>1, <1>8 DEF Send, StationHandles, CallTimesOut, vars, user
<1> QED BY <1>3, <1>4, <1>5, <1>6, <1>7, <1>8 DEF Next

(* A new epoch has a task of its own wherever one may be spawned. *)
LEMMA RenewedHalting ==
  ASSUME Base, Intent', grid'.epoch = grid.epoch + 1, ~grid'.outcome,
         Eligible(seen') => grid'.latest = grid.epoch + 1
  PROVE  Halting'
<1>1. grid.epoch + 1 > 0
      BY LiveEpochs
<1>2. Reported'
      BY DEF Intent
<1> QED BY <1>1, <1>2 DEF Halting, Reported, Running, Undoing, Trouble

LEMMA SpawnsRunning ==
  ASSUME Base, Base', calls' = calls, NEW c \in BOOLEAN, Spawns(grid, grid', seen', doc', c),
         Eligible(seen')
  PROVE  Running'
<1>1. /\ grid.epoch \in Nat /\ grid.ready \in Seq(Task) /\ seen' \in Seen /\ doc' \in Doc
      BY LiveEpochs DEF Base, TypeOK
<1>2. CASE /\ grid'.latest = grid.latest /\ grid'.ready = grid.ready
           /\ grid.latest = grid.epoch /\ Busy(grid)
      BY <1>2 DEF Spawns, Alike, Running, Busy, Live
<1>3. CASE /\ grid'.latest = grid.epoch
           /\ grid'.ready = Append(grid.ready, NewTask(grid.epoch, seen', doc', c))
  <2>1. PICK n \in Task : Begun(n, grid.epoch, doc', c) /\ ToSet(grid'.ready) = ToSet(grid.ready) \cup {n}
        BY <1>1, <1>3, BegunForm
  <2> QED BY <1>3, <2>1 DEF Spawns, Alike, Running, Busy, Live, Begun
<1> QED BY <1>2, <1>3 DEF Spawns

LEMMA HaltingStays ==
  ASSUME Halting, UNCHANGED <<doc, act>>, Eligible(seen') <=> Eligible(seen),
         grid'.status = grid.status, grid'.outcome = grid.outcome, grid'.retry = grid.retry,
         Running => Running'
  PROVE  Halting'
BY DEF Halting

(* A release, an edit or an observation is announced to a task. *)
LEMMA AnnouncedHalting ==
  ASSUME Base, Base', Intent',
         \/ grid' = ReleaseChanged(grid, seen', doc') \/ grid' = Edited(grid, seen', doc')
         \/ \E fresh \in BOOLEAN : grid' = Changed(grid, seen', doc', fresh)
         \/ seen' = seen /\ StopRelease(grid)
  PROVE  Halting'
<1>1. /\ grid \in Grid /\ seen \in Seen /\ seen' \in Seen /\ doc \in Doc /\ doc' \in Doc
      /\ grid.latest <= grid.epoch
      BY DEF Base, TypeOK, Tasks
<1>2. Moves(grid, grid', seen', doc') /\ (Eligible(seen') => grid'.latest = grid.epoch + 1)
  <2>1. CASE grid' = ReleaseChanged(grid, seen', doc')
        BY <1>1, <2>1, ReleaseChangedForm
  <2>2. CASE grid' = Edited(grid, seen', doc')
        BY <1>1, <2>2, EditedForm
  <2>3. CASE \E fresh \in BOOLEAN : grid' = Changed(grid, seen', doc', fresh)
        BY <1>1, <2>3, ChangedForm
  <2>4. CASE seen' = seen /\ StopRelease(grid)
        BY <1>1, <2>4, StopReleaseForm
  <2> QED BY <2>1, <2>2, <2>3, <2>4
<1> QED BY <1>2, RenewedHalting DEF Moves

(* A point that is kept was confirmed before, for a release that is on. *)
LEMMA CommitHalting ==
  ASSUME Base, Base', Intent, Intent', Halting, CommitEquivalent
  PROVE  Halting'
<1>1. /\ grid \in Grid /\ doc \in Doc /\ UNCHANGED <<doc, seen, act>> /\ act = None
      /\ grid.requested = doc.approved
      BY DEF Base, TypeOK, CommitEquivalent, user
<1>2. CASE grid' = Edited(grid, seen, doc)
      BY <1>1, <1>2, AnnouncedHalting
<1>3. CASE Equivalent(grid, doc.approved) /\ grid' = Kept(grid, seen, doc, grid.retry)
  <2> SUFFICES ASSUME ~doc.release, Eligible(seen) PROVE grid'.retry \/ grid'.status \in Trouble
      BY <1>1 DEF Halting
  <2>1. ~Running
        BY <1>3 DEF Equivalent, Running
  <2>2. ~(grid.outcome /\ grid.status = "confirmed")
    <3>1. doc.approved.amps > 0
          BY <1>1, PointForm DEF Doc
    <3> QED BY <1>1, <3>1 DEF Intent, Done, Undoing
  <2>3. grid.retry \/ grid.status \in Trouble
        BY <1>1, <2>1, <2>2 DEF Halting
  <2>4. Kept(grid, seen, doc, grid.retry).retry = grid.retry
        /\ Kept(grid, seen, doc, grid.retry).status = grid.status
    <3>1. PICK e \in Nat : e = grid.epoch + 1
          BY LiveEpochs
    <3>2. PICK r \in BOOLEAN : r = (grid.retry /\ Eligible(seen)) /\ r = grid.retry
          BY <1>1 DEF Grid
    <3>3. PICK m \in {"none", "start", "end"} :
            m = IF ~doc.release THEN "none" ELSE IF doc.phase = "waiting" THEN "start" ELSE "end"
          OBVIOUS
    <3>4. Kept(grid, seen, doc, grid.retry)
            = [[[grid EXCEPT !.epoch = e, !.outcome = FALSE, !.retry = FALSE] EXCEPT !.timer = m]
                 EXCEPT !.retry = r]
          BY <3>1, <3>2, <3>3 DEF Kept, Invalidate, Schedule
    <3> HIDE DEF Kept
    <3> QED BY <1>1, <3>2, <3>4 DEF Grid
  <2> QED BY <1>3, <2>3, <2>4
<1> QED BY <1>2, <1>3 DEF CommitEquivalent

LEMMA UsersHalting ==
  ASSUME "again" \notin Features, Base, Base', Intent, Intent', Halting, Users
  PROVE  Halting'
<1>1. CASE Start \/ Apply
      BY <1>1, BeginActs DEF Halting
<1>2. CASE Stop
      BY <1>2, AnnouncedHalting DEF Stop
<1>3. ~StopAgain
      BY DEF StopAgain, Enabled
<1>4. CASE CommitEquivalent
      BY <1>4, CommitHalting
<1> QED BY <1>1, <1>2, <1>3, <1>4 DEF Users

(* An action that is still current when it is stored leaves the release on *)
(* or is announced.                                                        *)
LEMMA SavesHalting ==
  ASSUME Base, Base', Intent', Steered, Halting, Saves
  PROVE  Halting'
<1>1. CASE ActionStored
  <2>1. /\ act \in Act /\ act.kind # "undo" /\ act.epoch = grid.epoch /\ doc \in Doc /\ seen' = seen
        BY <1>1 DEF ActionStored, Base, TypeOK
  <2>2. CASE grid' = Edited(grid, seen, doc')
        BY <2>1, <2>2, AnnouncedHalting
  <2>3. CASE grid' # Edited(grid, seen, doc')
    <3>1. act.kind \in {"extend", "power", "both"}
          BY <1>1, <2>3 DEF ActionStored
    <3>2. doc.release
          BY <2>1, <3>1, NoneAssumption DEF Steered
    <3>3. doc'.release
          BY <1>1, <2>1, <3>1, <3>2 DEF ActionStored, Doc
    <3> QED BY <3>3 DEF Halting
  <2> QED BY <2>2, <2>3
<1>2. CASE ActionSuperseded
  <2>1. act \in Act /\ act' = [act EXCEPT !.kind = "undo"]
        BY <1>2 DEF ActionSuperseded, Base, TypeOK
  <2>2. act' \in Act
        BY <2>1 DEF Act
  <2> QED BY <2>2, NoneAssumption DEF Halting
<1>3. CASE ActionUndone \/ ReleaseStored
  <2>1. grid' = ReleaseChanged(grid, seen', doc')
        BY <1>3 DEF ActionUndone, ReleaseStored
  <2> QED BY <2>1, AnnouncedHalting
<1>4. CASE ActionFailed
  <2>1. CASE ~doc.release
    <3>1. grid' = ReleaseChanged(grid, seen', doc')
          BY <1>4, <2>1 DEF ActionFailed
    <3> QED BY <3>1, AnnouncedHalting
  <2>2. CASE doc.release /\ doc.phase = "expired"
        BY <1>4, <2>2, AnnouncedHalting DEF ActionFailed
  <2>3. CASE doc.release /\ doc.phase # "expired"
        BY <1>4, <2>3 DEF ActionFailed, Halting
  <2> QED BY <2>1, <2>2, <2>3
<1>5. CASE ReleaseNotStored
  <2>1. UNCHANGED <<doc, seen, grid, act, calls>>
        BY <1>5 DEF ReleaseNotStored, wire
  <2> QED BY <2>1, HaltingStays DEF Running, Busy, Live
<1> QED BY <1>1, <1>2, <1>3, <1>4, <1>5 DEF Saves

LEMMA DeadlinesHalting ==
  ASSUME Base, Base', Intent', Halting, Deadlines
  PROVE  Halting'
<1>1. CASE StartDue \/ EndDue
  <2>1. doc' \in Doc /\ doc'.release
        BY <1>1 DEF StartDue, EndDue, Base, TypeOK, Doc
  <2> QED BY <2>1 DEF Halting
<1>2. CASE DeadlineFires /\ doc.phase = "expired"
  <2> DEFINE g == [grid EXCEPT !.timer = "none"]
  <2>a. grid \in Grid /\ grid.latest <= grid.epoch
        BY DEF Base, TypeOK, Tasks
  <2>1. /\ g \in Grid /\ g.latest <= g.epoch /\ g.epoch = grid.epoch
        BY <2>a DEF Grid
  <2>2. StopRelease(g) /\ seen' = seen
        BY <1>2 DEF DeadlineFires
  <2> HIDE DEF g
  <2>3. Moves(g, grid', seen, doc') /\ (Eligible(seen) => grid'.latest = g.epoch + 1)
        BY <2>1, <2>2, StopReleaseForm DEF Base, TypeOK
  <2>4. grid'.epoch = grid.epoch + 1 /\ ~grid'.outcome
        BY <2>1, <2>3 DEF Moves
  <2> QED BY <2>1, <2>2, <2>3, <2>4, RenewedHalting
<1>3. CASE (DeadlineFires /\ doc.phase # "expired") \/ RetryFires
  <2>1. Spawns(grid, grid', seen', doc', FALSE) /\ calls' = calls
        BY <1>3, LaunchSpawns DEF Base
  <2> QED BY <2>1, SpawnsRunning DEF Halting
<1> QED BY <1>1, <1>2, <1>3 DEF Deadlines

LEMMA ObservationsHalting ==
  ASSUME "permission" \notin Features, Base, Base', Intent', Halting, Observations
  PROVE  Halting'
<1>1. CASE \/ \E authority \in {"remote", "local"} : AuthoritySeen(authority)
           \/ CapabilitySeen \/ TxStart \/ TxSeen \/ Register \/ (TxEnd /\ seen.tx # None)
  <2>1. \E fresh \in BOOLEAN : grid' = Changed(grid, seen', doc', fresh)
        BY <1>1 DEF AuthoritySeen, CapabilitySeen, TxStart, TxSeen, TxEnd, Register, Observe
  <2> QED BY <2>1, AnnouncedHalting
<1>2. CASE \E enabled \in BOOLEAN : PermissionSeen(enabled)
  <2>1. PermissionSeen(TRUE)
        BY <1>2 DEF PermissionSeen, Enabled
  <2>2. seen \in Seen /\ seen' = [seen EXCEPT !.enabled = TRUE] /\ UNCHANGED <<doc, grid, act, calls>>
        BY <2>1 DEF PermissionSeen, Base, TypeOK, user, wire
  <2>3. Eligible(seen') <=> Eligible(seen)
        BY <2>2 DEF Seen, Eligible
  <2> QED BY <2>2, <2>3, HaltingStays DEF Running, Busy, Live
<1>3. CASE TxEnd /\ seen.tx = None
  <2>1. UNCHANGED <<doc, seen, grid, act, calls>>
        BY <1>3 DEF TxEnd, user, wire
  <2> QED BY <2>1, HaltingStays DEF Running, Busy, Live
<1>4. CASE PhaseSeen
  <2>1. /\ seen \in Seen /\ seen' \in Seen /\ seen' = [seen EXCEPT !.phases = station.offer.phases]
        /\ UNCHANGED <<doc, act, calls>> /\ grid' = PhasesSeen(grid, seen')
        BY <1>4 DEF PhaseSeen, Base, TypeOK, user, wire
  <2>2. Eligible(seen') <=> Eligible(seen)
        BY <2>1 DEF Seen, Eligible
  <2>3. CASE grid.status = "accepted_unconfirmed"
    <3>1. grid' = Launch(grid, seen', doc', TRUE)
          BY <2>1, <2>3 DEF PhasesSeen
    <3>2. Spawns(grid, grid', seen', doc', TRUE)
          BY <2>1, <3>1, LaunchForm DEF Base, TypeOK
    <3> QED BY <2>1, <3>2, SpawnsRunning DEF Halting
  <2>4. CASE grid.status # "accepted_unconfirmed"
        BY <2>1, <2>2, <2>4, HaltingStays DEF PhasesSeen, Running, Busy, Live
  <2> QED BY <2>3, <2>4
<1>5. CASE Disconnect
  <2>1. ~Eligible(seen')
        BY <1>5 DEF Disconnect, Unseen, Eligible
  <2> QED BY <2>1 DEF Halting
<1> QED BY <1>1, <1>2, <1>3, <1>4, <1>5 DEF Observations

LEMMA WireHalting ==
  ASSUME Base, Halting, Send \/ StationHandles \/ CallTimesOut
  PROVE  Halting'
<1>1. UNCHANGED <<doc, seen, act>> /\ calls \in Seq(Task)
      BY LiveEpochs DEF Send, StationHandles, CallTimesOut, user
<1>2. ASSUME NEW got \in Outcome, NEW found \in Offer \cup {None}, Wakes(got, found)
      PROVE  Halting'
  <2>1. calls # <<>> /\ calls' = Tail(calls) /\ ToSet(calls) = {Head(calls)} \cup ToSet(Tail(calls))
        BY <1>1, <1>2, HeadAmong DEF Wakes
  <2>2. PICK n \in Task :
          /\ ToSet(grid'.ready) = ToSet(grid.ready) \cup {n} /\ n.epoch = Head(calls).epoch
          /\ grid'.epoch = grid.epoch /\ grid'.latest = grid.latest /\ grid'.status = grid.status
          /\ grid'.outcome = grid.outcome /\ grid'.retry = grid.retry
        BY <1>2, WakesReady
  <2>3. Running => Running'
        BY <2>1, <2>2 DEF Running, Busy, Live
  <2> QED BY <1>1, <2>2, <2>3, HaltingStays
<1>3. CASE Send
  <2>1. RefusedToSend \/ \E m \in Msg : SendsOut(m)
        BY <1>3, SendForm DEF Base
  <2>2. CASE RefusedToSend
        BY <1>2, <2>2 DEF RefusedToSend, Outcome
  <2>3. CASE \E m \in Msg : SendsOut(m)
    <3>1. /\ grid'.ready = grid.ready /\ grid'.epoch = grid.epoch /\ grid'.latest = grid.latest
          /\ grid'.status = grid.status /\ grid'.outcome = grid.outcome /\ grid'.retry = grid.retry
          /\ calls' = calls
          BY <1>1, <2>3, SendsOutForm DEF Base, SendsOut
    <3> QED BY <1>1, <3>1, HaltingStays DEF Running, Busy, Live
  <2> QED BY <2>1, <2>2, <2>3
<1>4. CASE StationHandles
  <2>1. PICK m \in Msg, got \in Outcome, found \in Offer \cup {None} : HandleEffect(m, got, found)
        BY <1>4, HandlesForm DEF Base
  <2>2. IF m.live THEN Wakes(got, found) ELSE UNCHANGED <<grid, calls>>
        BY <2>1 DEF HandleEffect
  <2>3. CASE m.live
        BY <1>2, <2>2, <2>3
  <2>4. CASE ~m.live
        BY <1>1, <2>2, <2>4, HaltingStays DEF Running, Busy, Live
  <2> QED BY <2>3, <2>4
<1>5. CASE CallTimesOut
  <2>1. Wakes("timeout", None) /\ "timeout" \in Outcome
        BY <1>5, TimeoutMoves DEF Outcome, Base
  <2> QED BY <1>2, <2>1
<1> QED BY <1>3, <1>4, <1>5

(* The turn of a task: a stale one changes nothing, one that goes on is    *)
(* there, and one that ends has told how, arms a retry or is renewed.      *)
LEMMA RunHalting ==
  ASSUME Base, Base', Intent, Intent', Expiring, Halting, RunTask
  PROVE  Halting'
<1>1. PICK t, g : /\ Turns(t, g) /\ Turning(t) /\ Corrects(t)
                  /\ grid.ready # <<>> /\ UNCHANGED <<station, act, sent, inbox, ops>>
      BY RunTurns DEF Base
<1>2. /\ t \in Task /\ t \in Live(grid) /\ calls \in Seq(Task)
      /\ Live(grid) = {t} \cup ToSet(Tail(grid.ready)) \cup ToSet(calls)
      /\ Eligible(seen') <=> Eligible(seen)
      BY <1>1, TurnRest, LiveEpochs DEF Corrects, Eligible
<1>3. CASE ~Valid(t)
  <2>1. PICK h \in Grid : /\ Turned(t, h) /\ Silent(h) /\ grid' = h /\ doc' = doc
                          /\ calls' = calls \/ calls' = Append(calls, Onto(t, "confirm"))
        BY <1>1, <1>3 DEF Turning, StaleTurn
  <2>2. t.epoch # grid.epoch
        BY <1>1, <1>3 DEF Turns
  <2>3. ToSet(calls) \subseteq ToSet(calls')
    <3>1. PICK u \in Task : u = Onto(t, "confirm")
          BY <1>2, OntoForm
    <3>2. ToSet(Append(calls, u)) = ToSet(calls) \cup {u}
          BY <1>2, AppendAmong
    <3> QED BY <2>1, <3>1, <3>2
  <2>4. Running => Running'
        BY <1>2, <2>1, <2>2, <2>3 DEF Running, Busy, Live, Turned
  <2> QED BY <1>1, <1>2, <2>1, <2>4, HaltingStays DEF Silent
<1>4. CASE Valid(t) /\ NextTurn(t)
  <2>1. PICK h \in Grid, u \in Task : Turned(t, h) /\ Onward(t, h, u) /\ AwaitsAs(h, u)
        BY <1>4 DEF NextTurn
  <2>2. grid'.latest = t.epoch /\ grid'.epoch = t.epoch /\ calls' = Append(calls, u) /\ u.epoch = t.epoch
        BY <1>1, <1>4, <2>1 DEF Turns, Turned, AwaitsAs, Onward
  <2>3. ToSet(calls') = ToSet(calls) \cup {u}
        BY <1>2, <2>2, AppendAmong
  <2> QED BY <2>2, <2>3 DEF Halting, Running, Busy, Live
<1>5. CASE Valid(t) /\ EndTurn(t)
  <2>1. PICK h \in Grid : Turned(t, h) /\ Verdict(t, h) /\ EndsWith(t, h)
        BY <1>5 DEF EndTurn
  <2>2. /\ ~Busy(h) /\ h.latest = h.epoch /\ h.epoch = t.epoch /\ doc' = doc /\ seen' = seen
        /\ t.epoch = grid.epoch /\ Aim(t) /\ Eligible(seen)
        BY <1>1, <1>2, <1>5, <2>1, TurnBusy DEF Base, EndsWith, Corrects, Turns, Intent, Aimed
  <2>3. CASE doc.phase # t.began
    <3>1. PICK r \in Seq(Task) : r = h.ready
          BY <2>1 DEF Grid
    <3>2. PICK e \in Nat : e = h.epoch
          BY <2>1 DEF Grid
    <3>3. /\ grid'.latest = e /\ grid'.epoch = e
          /\ grid'.ready = Append(r, NewTask(e, seen, doc, FALSE))
          BY <2>1, <2>2, <2>3, <3>1, <3>2 DEF EndsWith, Spawns, Alike
    <3>4. seen \in Seen /\ doc \in Doc
          BY DEF Base, TypeOK
    <3>5. \A c \in BOOLEAN :
            \E n \in Task : /\ Begun(n, e, doc, c)
                           /\ ToSet(Append(r, NewTask(e, seen, doc, c))) = ToSet(r) \cup {n}
          BY <3>4, BegunForm
    <3>6. PICK n \in Task : n.epoch = e /\ ToSet(grid'.ready) = ToSet(r) \cup {n}
          BY <3>3, <3>5 DEF Begun
    <3> QED BY <3>3, <3>6 DEF Halting, Running, Busy, Live
  <2>4. CASE doc.phase = t.began
    <3>1. grid' = h
          BY <2>1, <2>4 DEF EndsWith
    <3> SUFFICES ASSUME ~doc.release, act = None
                 PROVE  h.retry \/ h.status \in Trouble \/ (h.outcome /\ h.status = "confirmed")
        BY <1>1, <2>2, <3>1 DEF Halting
    <3>2. CASE h.status = "confirmed" /\ h.outcome
          BY <3>2
    <3>3. CASE h.status # "confirmed" /\ h.outcome /\ (h.status \in Telling \/ h.retry)
          BY <3>3 DEF Telling
    <3>4. CASE h.status = "unconfirmed"
          BY <3>4 DEF Trouble
    <3>5. CASE t.confirmOnly /\ h.status = grid.status
          BY <2>2, <3>5 DEF Aim, Trouble
    <3>6. t.got # "refused"
          BY <2>2 DEF Aim, Expiring, Undoing
    <3> QED BY <2>1, <3>2, <3>3, <3>4, <3>5, <3>6 DEF Verdict
  <2> QED BY <2>3, <2>4
<1>6. CASE Valid(t) /\ StopTurn(t)
  <2>1. PICK h \in Grid : Turned(t, h) /\ StopRelease(h) /\ t.pc = "start"
        BY <1>6 DEF StopTurn
  <2>2. /\ Moves(h, grid', seen, doc') /\ seen' = seen
        /\ Eligible(seen) => grid'.latest = h.epoch + 1
        BY <1>1, <2>1, StopTurnForm DEF Base
  <2>3. grid'.epoch = grid.epoch + 1 /\ ~grid'.outcome /\ h.epoch = grid.epoch
        BY <2>1, <2>2 DEF Turned, Moves
  <2> QED BY <2>2, <2>3, RenewedHalting
<1> QED BY <1>1, <1>3, <1>4, <1>5, <1>6 DEF Turning

LEMMA StepHalt ==
  ASSUME Features \cap {"permission", "again"} = {},
         Base, Base', Effects, Intent, Intent', Halt, [Next]_vars
  PROVE  Halt'
<1>1. Steered' /\ Expiring'
      BY SteeredSteps, ExpiringSteps DEF Halt
<1>2. Halting'
  <2>1. CASE Users
        BY <2>1, UsersHalting DEF Halt
  <2>2. CASE Saves
        BY <2>2, SavesHalting DEF Halt
  <2>3. CASE Deadlines
        BY <2>3, DeadlinesHalting DEF Halt
  <2>4. CASE Observations
        BY <2>4, ObservationsHalting DEF Halt
  <2>5. CASE RunTask
        BY <2>5, RunHalting DEF Halt
  <2>6. CASE Send \/ StationHandles \/ CallTimesOut
        BY <2>6, WireHalting DEF Halt
  <2>7. CASE UNCHANGED vars
    <3>1. UNCHANGED <<doc, seen, grid, act, calls>>
          BY <2>7 DEF vars, user, wire
    <3> QED BY <3>1, HaltingStays DEF Halt, Running, Busy, Live
  <2> QED BY <2>1, <2>2, <2>3, <2>4, <2>5, <2>6, <2>7 DEF Next
<1> QED BY <1>1, <1>2 DEF Halt

LEMMA InitHalt == Init => Halt
<1> SUFFICES ASSUME Init PROVE Halt
    OBVIOUS
<1>1. act = None /\ doc.phase = "active" /\ seen.tx = None
      BY DEF Init
<1> QED BY <1>1 DEF Halt, Steered, Expiring, Halting, Eligible

(* A stop is never lost on its way: with the release off, and once nothing *)
(* more will happen, the station does not go on offering current behind a  *)
(* status that reports no trouble (stop_release, release_changed, launch,  *)
(* reconcile).  It needs that the permission is not withdrawn and that     *)
(* Stop is not repeated: both supersede a zero that is on its way, and     *)
(* bring no other.                                                         *)
THEOREM StopReachedHolds ==
  ASSUME Features \cap {"permission", "again"} = {}
  PROVE  Spec => []StopReached
<1>1. Init => Base /\ Doubt /\ Intent /\ Halt
      BY InitBase, InitDoubt, InitIntent, InitHalt
<1>2. Base /\ Doubt /\ Intent /\ Halt /\ [Next]_vars => Base' /\ Doubt' /\ Intent' /\ Halt'
      BY StepEffects, StepDoubt, StepIntent, StepHalt
<1>3. Base /\ Intent /\ Halt => StopReached
  <2> SUFFICES ASSUME Base, Intent, Halt, ~doc.release, LeftOn PROVE FALSE
      BY DEF StopReached
  <2>1. /\ act = None /\ ~Running /\ ~grid.retry /\ Eligible(seen) /\ station.offer.amps > 0
        /\ grid.status \notin Trouble
        BY DEF LeftOn, Idle, Running
  <2>2. grid.outcome /\ grid.status = "confirmed"
        BY <2>1 DEF Halt, Halting
  <2>3. station.offer.amps = grid.requested.amps /\ ~(grid.requested.amps > 0)
        BY <2>1, <2>2 DEF Intent, Done, Matches, Undoing
  <2> QED BY <2>1, <2>3
<1> QED BY <1>1, <1>2, <1>3, PTL DEF Spec
=============================================================================
