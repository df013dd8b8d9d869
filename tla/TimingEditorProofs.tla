------------------------- MODULE TimingEditorProofs -------------------------
(***************************************************************************)
(* Theorems about TimingEditor, for all queues, times, periods and         *)
(* features: the state stays well typed, a request of a browser whose view *)
(* was overtaken is refused, and an edit is neither prolonged nor          *)
(* discarded at a wrong time.                                              *)
(***************************************************************************)
EXTENDS TimingEditor, TLAPS

-----------------------------------------------------------------------------
(* Sequences *)

LEMMA TailElements ==
  ASSUME NEW S, NEW s \in Seq(S), s # <<>>
  PROVE  /\ Tail(s) \in Seq(S) /\ Head(s) \in S
         /\ 1 \in DOMAIN s /\ Head(s) = s[1] /\ Len(Tail(s)) = Len(s) - 1
         /\ \A k \in DOMAIN Tail(s) : k + 1 \in DOMAIN s /\ Tail(s)[k] = s[k + 1]
OBVIOUS

LEMMA AppendElements ==
  ASSUME NEW S, NEW s \in Seq(S), NEW e \in S
  PROVE  /\ Append(s, e) \in Seq(S) /\ Len(Append(s, e)) = Len(s) + 1
         /\ \A k \in DOMAIN Append(s, e) :
              (k \in DOMAIN s /\ Append(s, e)[k] = s[k]) \/ Append(s, e)[k] = e
OBVIOUS

-----------------------------------------------------------------------------
(* Documents, edits and leases *)

Timer == [left: 0..Lease, revision: Revision, schedule: Nat]
Holder == [job: Job, doc: Doc, lease: LeaseRecord \cup {None},
           age: 0..Lease + Grace, superseded: BOOLEAN, again: BOOLEAN]
Card == [st: {"new", "open", "ended", "dead"}, rev: Revision,
         flight: {"no", "sent", "queued", "ok", "failed"}, verb: Verbs, value: Times]
Leases == LeaseRecord \cup {None}

LEMMA Periods ==
  /\ Grace \in Int /\ Lease \in Int /\ 0 < Grace /\ Grace <= Lease
  /\ -Grace \in Int /\ Lease + Grace \in Int
BY PeriodsAssumption

LEMMA Clamped ==
  ASSUME NEW n \in Int
  PROVE  AtLeastZero(n) \in Nat /\ (n >= 0 => AtLeastZero(n) = n) /\ (n <= 0 => AtLeastZero(n) = 0)
BY DEF AtLeastZero

LEMMA EditFields ==
  ASSUME NEW e \in Edit
  PROVE  /\ e.active \in BOOLEAN /\ e.revision \in Nat /\ e.schedule \in Nat
         /\ e.active => e.owner \in Queues /\ e.left = None
         /\ ~e.active => e.owner \in Queues \cup {None} /\ e.left \in 0..Grace
BY DEF Edit, Revision

(* The edit e when its editor is gone. *)
Left(e, revision, left) ==
  [e EXCEPT !.owner = None, !.active = FALSE, !.revision = revision, !.left = left]

LEMMA EditLeft ==
  ASSUME NEW e \in Edit, NEW revision \in Nat, NEW left \in 0..Grace
  PROVE  /\ Left(e, revision, left) \in Edit /\ Left(e, revision, left).revision = revision
         /\ ~Left(e, revision, left).active /\ Left(e, revision, left).left = left
<1>1. CASE e \in [owner: Queues, active: {TRUE}, revision: Revision, schedule: Nat, left: {None}]
      BY <1>1 DEF Edit, Revision, Left
<1>2. CASE e \in [owner: Queues \cup {None}, active: {FALSE}, revision: Revision,
                  schedule: Nat, left: 0..Grace]
      BY <1>2 DEF Edit, Revision, Left
<1> QED BY <1>1, <1>2 DEF Edit

LEMMA EditAges ==
  ASSUME NEW e \in Edit, ~e.active, NEW left \in 0..Grace
  PROVE  LET older == [e EXCEPT !.left = left]
         IN  older \in Edit /\ older.revision = e.revision /\ older.active = e.active
             /\ older.owner = e.owner /\ older.left = left
BY DEF Edit

LEMMA ActiveEdit ==
  ASSUME NEW owner \in Queues, NEW revision \in Nat, NEW schedule \in Nat
  PROVE  [owner |-> owner, active |-> TRUE, revision |-> revision, schedule |-> schedule,
          left |-> None] \in Edit
BY DEF Edit, Revision

LEMMA EndedEdit ==
  ASSUME NEW owner \in Queues \cup {None}, NEW revision \in Nat, NEW schedule \in Nat,
         NEW left \in 0..Grace
  PROVE  [owner |-> owner, active |-> FALSE, revision |-> revision, schedule |-> schedule,
          left |-> left] \in Edit
BY DEF Edit, Revision

LEMMA DocFields ==
  ASSUME NEW d \in Doc
  PROVE  /\ d.release \in BOOLEAN /\ d.request \in Nat \cup {None} /\ d.edit \in Edit \cup {None}
         /\ d.draft \in Times /\ d.approved \in Times /\ d.arev \in Nat /\ d.trev \in Nat
BY DEF Doc, Revision

LEMMA LeaseFields ==
  ASSUME NEW l \in LeaseRecord
  PROVE  l.owner \in Queues /\ l.revision \in Nat /\ l.left \in -Grace..Lease /\ l.left \in Int
<1>1. l.owner \in Queues /\ l.revision \in Nat /\ l.left \in -Grace..Lease
      BY DEF LeaseRecord, Revision
<1> QED BY <1>1, Periods

LEMMA JobFields ==
  ASSUME NEW j \in Job
  PROVE  /\ j.kind \in {"edit", "text", "power", "start", "apply", "stop", "expire"}
         /\ j.kind = "edit" => j.by \in Queues /\ j.verb \in Verbs /\ j.rev \in Nat /\ j.value \in Times
         /\ j.kind = "text" => j.value \in Times
         /\ j.kind = "apply" => j.request \in Nat \cup {None}
         /\ j.kind = "stop" => j.trev \in Nat
         /\ j.kind = "expire" => j.revision \in Nat /\ j.schedule \in Nat
BY DEF Job, Revision

LEMMA HolderFields ==
  ASSUME NEW h \in Holder
  PROVE  /\ h.job \in Job /\ h.doc \in Doc /\ h.lease \in Leases /\ h.age \in 0..Lease + Grace
         /\ h.superseded \in BOOLEAN /\ h.again \in BOOLEAN
BY DEF Holder, Leases

(* A document whose edit is replaced. *)
LEMMA OtherEdit ==
  ASSUME NEW d \in Doc, NEW e \in Edit \cup {None}
  PROVE  /\ [d EXCEPT !.edit = e] \in Doc /\ [d EXCEPT !.edit = e].edit = e
         /\ [d EXCEPT !.edit = e].trev = d.trev /\ [d EXCEPT !.edit = e].release = d.release
         /\ [d EXCEPT !.edit = e].request = d.request
BY DEF Doc

LEMMA DeadlineIs ==
  ASSUME NEW d \in Doc, NEW l \in Leases
  PROVE  /\ Deadline(d, l) # None => Deadline(d, l) \in -Grace..Lease
         /\ d.edit # None /\ ~d.edit.active => Deadline(d, l) = d.edit.left
         /\ d.edit # None /\ d.edit.active /\ Deadline(d, l) # None =>
              l \in LeaseRecord /\ Deadline(d, l) = l.left
<1>1. CASE d.edit = None
      BY <1>1 DEF Deadline
<1>2. CASE d.edit # None /\ ~d.edit.active
  <2>1. d.edit.left \in 0..Grace
        BY <1>2, DocFields, EditFields
  <2>2. d.edit.left \in -Grace..Lease
        BY <2>1, Periods
  <2> QED BY <1>2, <2>2 DEF Deadline
<1>3. CASE d.edit # None /\ d.edit.active
  <2>1. CASE l # None /\ l.owner = d.edit.owner /\ l.revision = d.edit.revision
    <3>1. l \in LeaseRecord /\ Deadline(d, l) = l.left
          BY <1>3, <2>1 DEF Deadline, Leases
    <3> QED BY <1>3, <3>1, LeaseFields
  <2>2. CASE ~(l # None /\ l.owner = d.edit.owner /\ l.revision = d.edit.revision)
    <3>1. Deadline(d, l) = None
          BY <1>3, <2>2 DEF Deadline
    <3> QED BY <1>3, <3>1
  <2> QED BY <2>1, <2>2
<1>4. d.edit # None => d.edit.active \in BOOLEAN
      BY DocFields, EditFields
<1> QED BY <1>1, <1>2, <1>3, <1>4

LEMMA ArmedType ==
  ASSUME NEW d \in Doc, NEW l \in Leases, NEW tried
  PROVE  Armed(d, l, tried) \in Timer \cup {None}
<1>1. CASE Armed(d, l, tried) = None
      BY <1>1
<1>2. CASE Armed(d, l, tried) # None
  <2>1. /\ d.edit \in Edit /\ Deadline(d, l) # None
        /\ Armed(d, l, tried) = [left |-> AtLeastZero(Deadline(d, l)), revision |-> d.edit.revision,
                                 schedule |-> d.edit.schedule]
        BY <1>2, DocFields DEF Armed
  <2>2. Deadline(d, l) \in -Grace..Lease
        BY <2>1, DeadlineIs
  <2>3. AtLeastZero(Deadline(d, l)) \in 0..Lease
        BY <2>2, Periods DEF AtLeastZero
  <2>4. d.edit.revision \in Nat /\ d.edit.schedule \in Nat
        BY <2>1, EditFields
  <2> QED BY <2>1, <2>3, <2>4 DEF Timer, Revision
<1> QED BY <1>1, <1>2

(* The two forms of edit_window_values. *)
Opened(d, owner) == Windowed(d, owner, TRUE)
Closed(d, owner) == Windowed(d, owner, FALSE)

LEMMA OpenedIs ==
  ASSUME NEW d \in Doc, NEW owner \in Queues
  PROVE  /\ Opened(d, owner) \in Doc /\ Opened(d, owner).trev = d.trev
         /\ Opened(d, owner).edit # None =>
              /\ Opened(d, owner).edit.revision = d.trev
              /\ Opened(d, owner).edit.active
              /\ Opened(d, owner).edit.owner = owner
<1> DEFINE window == [owner |-> owner, active |-> TRUE, revision |-> d.trev,
                      schedule |-> d.request, left |-> None]
           opens == d.release /\ d.request # None
<1>1. Opened(d, owner) = [d EXCEPT !.edit = IF opens THEN window ELSE None]
      BY DEF Windowed, Opened, Closed
<1>2. CASE opens
  <2>1. d.request \in Nat /\ d.trev \in Nat
        BY <1>2, DocFields
  <2>2. window \in Edit
        BY <2>1, ActiveEdit
  <2>3. window.revision = d.trev /\ window.active /\ window.owner = owner
        OBVIOUS
  <2> HIDE DEF window, opens
  <2> QED BY <1>1, <1>2, <2>2, <2>3, OtherEdit
<1>3. CASE ~opens
  <2> HIDE DEF window, opens
  <2>1. Opened(d, owner) = [d EXCEPT !.edit = None]
        BY <1>1, <1>3
  <2> QED BY <2>1, OtherEdit
<1> QED BY <1>2, <1>3

LEMMA ClosedIs ==
  ASSUME NEW d \in Doc, NEW owner \in Queues \cup {None}
  PROVE  /\ Closed(d, owner) \in Doc /\ Closed(d, owner).trev = d.trev
         /\ Closed(d, owner).edit # None =>
              /\ Closed(d, owner).edit.revision = d.trev
              /\ ~Closed(d, owner).edit.active
              /\ Closed(d, owner).edit.left = Grace
<1> DEFINE window == [owner |-> owner, active |-> FALSE, revision |-> d.trev,
                      schedule |-> d.request, left |-> Grace]
           opens == d.release /\ d.request # None /\ Pending(d)
<1>1. Closed(d, owner) = [d EXCEPT !.edit = IF opens THEN window ELSE None]
      BY DEF Windowed, Opened, Closed
<1>2. CASE opens
  <2>1. d.request \in Nat /\ d.trev \in Nat
        BY <1>2, DocFields
  <2>2. window \in Edit
    <3>1. Grace \in 0..Grace
          BY Periods
    <3> QED BY <2>1, <3>1, EndedEdit
  <2>3. window.revision = d.trev /\ ~window.active /\ window.left = Grace
        OBVIOUS
  <2> HIDE DEF window, opens
  <2> QED BY <1>1, <1>2, <2>2, <2>3, OtherEdit
<1>3. CASE ~opens
  <2> HIDE DEF window, opens
  <2>1. Closed(d, owner) = [d EXCEPT !.edit = None]
        BY <1>1, <1>3
  <2> QED BY <2>1, OtherEdit
<1> QED BY <1>2, <1>3

LEMMA AbandonedIs ==
  ASSUME NEW d \in Doc, NEW l \in Leases, Abandoned(d, l)
  PROVE  d.edit \in Edit /\ d.edit.active /\ l \in LeaseRecord /\ l.left <= 0
         /\ AtLeastZero(l.left + Grace) \in 0..Grace
<1>1. d.edit \in Edit /\ d.edit.active /\ l \in LeaseRecord /\ l.left <= 0
      BY DocFields, DeadlineIs DEF Abandoned
<1>2. l.left \in -Grace..Lease
      BY <1>1, LeaseFields
<1> QED BY <1>1, <1>2, Periods DEF AtLeastZero

LEMMA RecoveredIs ==
  ASSUME NEW d \in Doc, NEW l \in Leases
  PROVE  /\ Recovered(d, l) \in Doc /\ RecoveredLease(d, l) \in Leases
         /\ ~Abandoned(d, l) => Recovered(d, l) = d /\ RecoveredLease(d, l) = l
         /\ Abandoned(d, l) =>
              /\ Recovered(d, l).trev = d.trev + 1 /\ RecoveredLease(d, l) = None
              /\ Recovered(d, l).edit # None =>
                   /\ Recovered(d, l).edit.revision = d.trev + 1 /\ ~Recovered(d, l).edit.active
                   /\ Recovered(d, l).edit.left = AtLeastZero(l.left + Grace)
<1>1. CASE ~Abandoned(d, l)
      BY <1>1 DEF Recovered, RecoveredLease
<1>2. CASE Abandoned(d, l)
  <2> DEFINE ended == Left(d.edit, d.trev + 1, AtLeastZero(l.left + Grace))
             e == IF Pending(d) THEN ended ELSE None
             next == [d EXCEPT !.trev = @ + 1]
  <2>1. d.trev \in Nat /\ d.trev + 1 \in Nat /\ d.edit \in Edit
        /\ AtLeastZero(l.left + Grace) \in 0..Grace
        BY <1>2, DocFields, AbandonedIs
  <2>2. ended \in Edit /\ ended.revision = d.trev + 1 /\ ~ended.active
        /\ ended.left = AtLeastZero(l.left + Grace)
        BY <2>1, EditLeft
  <2>4. next \in Doc /\ next.trev = d.trev + 1
        BY <2>1 DEF Doc, Revision
  <2>5. Recovered(d, l) = [next EXCEPT !.edit = e] /\ RecoveredLease(d, l) = None
        BY <1>2 DEF Recovered, RecoveredLease, Doc, Left
  <2>6. e \in Edit \cup {None} /\ (e # None => e.revision = d.trev + 1 /\ ~e.active
                                       /\ e.left = AtLeastZero(l.left + Grace))
    <3> HIDE DEF ended
    <3> QED BY <2>2
  <2> HIDE DEF e, next
  <2> QED BY <1>2, <2>4, <2>5, <2>6, OtherEdit DEF Leases
<1> QED BY <1>1, <1>2

LEMMA LeaseOfIs ==
  ASSUME NEW d \in Doc, NEW l \in Leases
  PROVE  /\ LeaseOf(d, l) \in Leases
         /\ d.edit = None \/ ~d.edit.active => LeaseOf(d, l) = None
         /\ d.edit # None /\ d.edit.active =>
              /\ LeaseOf(d, l) \in LeaseRecord
              /\ LeaseOf(d, l).owner = d.edit.owner /\ LeaseOf(d, l).revision = d.edit.revision
              /\ LeaseOf(d, l) # l => LeaseOf(d, l).left = Lease
              /\ l # None /\ l.owner = d.edit.owner /\ l.revision = d.edit.revision
                   => LeaseOf(d, l) = l
<1>1. CASE d.edit = None \/ ~d.edit.active
  <2>1. LeaseOf(d, l) = None
        BY <1>1 DEF LeaseOf
  <2> QED BY <1>1, <2>1 DEF Leases
<1>2. CASE d.edit # None /\ d.edit.active
  <2> DEFINE fresh == [owner |-> d.edit.owner, revision |-> d.edit.revision, left |-> Lease]
  <2>1. d.edit.owner \in Queues /\ d.edit.revision \in Nat
        BY <1>2, DocFields, EditFields
  <2>2. Lease \in -Grace..Lease
        BY Periods
  <2>3. fresh \in LeaseRecord
        BY <2>1, <2>2 DEF LeaseRecord, Revision
  <2>4. LeaseOf(d, l) = IF l # None /\ l.owner = d.edit.owner /\ l.revision = d.edit.revision
                        THEN l ELSE fresh
        BY <1>2 DEF LeaseOf
  <2> QED BY <1>2, <2>3, <2>4 DEF Leases
<1>3. d.edit # None => d.edit.active \in BOOLEAN
      BY DocFields, EditFields
<1> QED BY <1>1, <1>2, <1>3

LEMMA RetiredIs ==
  ASSUME NEW d \in Doc
  PROVE  Retired(d) \in Doc /\ Retired(d).edit = None /\ Retired(d).trev = d.trev
         /\ ~Retired(d).release
BY DEF Retired, Doc

LEMMA AgedIs ==
  ASSUME NEW d \in Doc
  PROVE  /\ Aged(d) \in Doc /\ Aged(d).trev = d.trev /\ Aged(d).release = d.release
         /\ d.edit = None => Aged(d).edit = None
         /\ d.edit # None => /\ Aged(d).edit # None => /\ Aged(d).edit.active = d.edit.active
                                                       /\ Aged(d).edit.revision = d.edit.revision
                                                       /\ Aged(d).edit.owner = d.edit.owner
                             /\ Aged(d).edit # None /\ ~d.edit.active =>
                                  Aged(d).edit.left = AtLeastZero(d.edit.left - 1)
<1>1. CASE d.edit = None \/ d.edit.active
      BY <1>1 DEF Aged
<1>2. CASE d.edit # None /\ ~d.edit.active
  <2> DEFINE older == [d.edit EXCEPT !.left = AtLeastZero(@ - 1)]
  <2>1. d.edit \in Edit
        BY <1>2, DocFields
  <2>2. /\ d.edit.left \in 0..Grace /\ d.edit.owner \in Queues \cup {None}
        /\ d.edit.revision \in Nat /\ d.edit.schedule \in Nat
        BY <1>2, <2>1, EditFields
  <2>3. AtLeastZero(d.edit.left - 1) \in 0..Grace
        BY <2>2, Periods DEF AtLeastZero
  <2>4. /\ older \in Edit /\ older.active = d.edit.active /\ older.revision = d.edit.revision
        /\ older.owner = d.edit.owner /\ older.left = AtLeastZero(d.edit.left - 1)
        BY <1>2, <2>1, <2>3, EditAges
  <2>5. Aged(d) = [d EXCEPT !.edit = older]
        BY <1>2 DEF Aged, Doc
  <2> HIDE DEF older
  <2>8. /\ Aged(d) \in Doc /\ Aged(d).edit = older /\ Aged(d).trev = d.trev
        /\ Aged(d).release = d.release
        BY <2>4, <2>5, OtherEdit
  <2> QED BY <1>2, <2>4, <2>8
<1>3. d.edit # None => d.edit.active \in BOOLEAN
      BY DocFields, EditFields
<1> QED BY <1>1, <1>2, <1>3

LEMMA AgedLeaseIs ==
  ASSUME NEW l \in Leases
  PROVE  /\ AgedLease(l) \in Leases
         /\ l = None => AgedLease(l) = None
         /\ l # None =>
              /\ AgedLease(l) \in LeaseRecord /\ AgedLease(l).owner = l.owner
              /\ AgedLease(l).revision = l.revision
              /\ AgedLease(l).left = IF l.left = -Grace THEN l.left ELSE l.left - 1
<1>1. CASE l = None
      BY <1>1 DEF AgedLease, Leases
<1>2. CASE l # None
  <2>1. l \in LeaseRecord
        BY <1>2 DEF Leases
  <2>2. l.left \in -Grace..Lease
        BY <2>1, LeaseFields
  <2>3. CASE l.left = -Grace
        BY <1>2, <2>1, <2>3 DEF AgedLease, Leases
  <2>4. CASE l.left # -Grace
    <3>1. l.left - 1 \in -Grace..Lease
          BY <2>2, <2>4, Periods
    <3>2. AgedLease(l) = [l EXCEPT !.left = @ - 1]
          BY <1>2, <2>4 DEF AgedLease
    <3> QED BY <1>2, <2>1, <2>4, <3>1, <3>2 DEF LeaseRecord, Leases
  <2> QED BY <2>3, <2>4
<1> QED BY <1>1, <1>2

-----------------------------------------------------------------------------
(* Every state is well typed *)

Typed ==
  /\ values \in Doc /\ lease \in Leases /\ holder \in Holder \cup {None} /\ queue \in Seq(Job)
  /\ timer \in Timer \cup {None} /\ attempted \in Nat \cup {None}
  /\ cards \in [Queues -> Card] /\ ops \in 0..MaxOps /\ due \in 0..Lease + Grace
  /\ fenced \subseteq Queues /\ kept \in Nat \cup {None} /\ twice \in Nat

LEMMA TypedIsTypeOK == Typed => TypeOK
BY DEF Typed, TypeOK, Holder, Timer, Card, Leases, Revision

LEMMA TypedInit == Init => Typed
<1> SUFFICES ASSUME Init PROVE Typed
    OBVIOUS
<1>1. values \in Doc
  <2>1. PICK on \in BOOLEAN :
          values = [release |-> on, request |-> IF on THEN 1 ELSE None, edit |-> None,
                    draft |-> Initial, approved |-> Initial, arev |-> 1, trev |-> 1]
        BY DEF Init
  <2> QED BY <2>1, InitialAssumption DEF Doc, Revision
<1>2. cards \in [Queues -> Card]
  <2>1. values.draft \in Times
        BY <1>1, DocFields
  <2> QED BY <2>1 DEF Init, Card, Verbs, Revision
<1>3. 0 \in 0..Lease + Grace /\ 0 \in 0..MaxOps
      BY Periods, FeaturesAssumption
<1> QED BY <1>1, <1>2, <1>3 DEF Init, Typed, Leases

LEMMA Spent ==
  ASSUME Typed, Spend
  PROVE  ops' \in 0..MaxOps
BY FeaturesAssumption DEF Typed, Spend

LEMMA CardFields ==
  ASSUME Typed, NEW q \in Queues
  PROVE  /\ cards[q] \in Card /\ cards[q].rev \in Nat /\ cards[q].verb \in Verbs
         /\ cards[q].value \in Times
BY DEF Typed, Card, Revision

(* A card of which one thing changes. *)
LEMMA CardChanges ==
  ASSUME Typed, NEW q \in Queues, NEW c \in Card, cards' = [cards EXCEPT ![q] = c]
  PROVE  /\ cards' \in [Queues -> Card] /\ cards'[q] = c
         /\ \A p \in Queues \ {q} : cards'[p] = cards[p]
BY DEF Typed

LEMMA FlightChanges ==
  ASSUME Typed, NEW q \in Queues, NEW answer \in {"no", "queued", "ok", "failed"},
         cards' = [cards EXCEPT ![q].flight = answer]
  PROVE  /\ cards' \in [Queues -> Card] /\ cards'[q].flight = answer
         /\ \A p \in Queues : cards'[p].rev = cards[p].rev
<1>1. cards[q] \in Card
      BY CardFields
<1>2. [cards[q] EXCEPT !.flight = answer] \in Card /\ [cards[q] EXCEPT !.flight = answer].flight = answer
      /\ [cards[q] EXCEPT !.flight = answer].rev = cards[q].rev
      BY <1>1 DEF Card
<1>3. cards' = [cards EXCEPT ![q] = [cards[q] EXCEPT !.flight = answer]]
      BY DEF Typed
<1> QED BY <1>2, <1>3, CardChanges

LEMMA TypedSends ==
  ASSUME Typed, NEW q \in Queues, NEW verb \in Verbs, NEW value \in Times,
         NEW st \in {"open", "ended"}, NEW rev \in Nat,
         Sends(q, verb, value, st, rev)
  PROVE  /\ cards' \in [Queues -> Card] /\ cards'[q].rev = rev
         /\ \A p \in Queues \ {q} : cards'[p] = cards[p]
<1> DEFINE c == [st |-> st, rev |-> rev, flight |-> "sent", verb |-> verb, value |-> value]
<1>1. c \in Card /\ c.rev = rev
      BY DEF Card, Revision
<1>2. cards' = [cards EXCEPT ![q] = c]
      BY DEF Sends
<1> HIDE DEF c
<1> QED BY <1>1, <1>2, CardChanges

(* What a card sends: its revision is the one it has, or the current one,  *)
(* which is then in its view.                                              *)
LEMMA CardSends ==
  ASSUME Typed, NEW q \in Queues, Begin(q) \/ Update(q) \/ Renew(q) \/ End(q)
  PROVE  /\ Typed' /\ UNCHANGED <<server, due, marks>>
         /\ \A p \in Queues \ {q} : cards'[p] = cards[p]
         /\ \/ cards'[q].rev = values.trev /\ fenced' = fenced \ {q}
            \/ cards'[q].rev = cards[q].rev /\ fenced' = fenced
<1>1. values.draft \in Times /\ values.trev \in Nat
      BY DocFields DEF Typed
<1>2. cards[q].rev \in Nat
      BY CardFields
<1>3. ASSUME cards' \in [Queues -> Card], Spend, fenced' \subseteq Queues,
             UNCHANGED <<server, due, marks>>
      PROVE  Typed'
      BY <1>3, Spent DEF Typed, server, marks
<1>4. CASE Begin(q)
  <2>1. Sends(q, "begin", values.draft, "open", values.trev) /\ fenced' = fenced \ {q} /\ Spend
        BY <1>4 DEF Begin
  <2>2. /\ cards' \in [Queues -> Card] /\ cards'[q].rev = values.trev
        /\ \A p \in Queues \ {q} : cards'[p] = cards[p]
        BY <1>1, <2>1, TypedSends DEF Verbs
  <2>3. fenced' \subseteq Queues /\ UNCHANGED <<server, due, marks>>
        BY <2>1 DEF Typed, Sends
  <2> QED BY <1>3, <2>1, <2>2, <2>3
<1>5. CASE Update(q)
  <2>1. PICK value \in Times : Sends(q, "update", value, "open", cards[q].rev)
        BY <1>5 DEF Update
  <2>2. /\ cards' \in [Queues -> Card] /\ cards'[q].rev = cards[q].rev
        /\ \A p \in Queues \ {q} : cards'[p] = cards[p]
        BY <1>2, <2>1, TypedSends DEF Verbs
  <2>3. fenced' = fenced /\ fenced' \subseteq Queues /\ Spend
        BY <1>5 DEF Typed, Update
  <2>4. UNCHANGED <<server, due, marks>>
        BY <2>1 DEF Sends
  <2> QED BY <1>3, <2>2, <2>3, <2>4
<1>6. CASE Renew(q)
  <2>1. Sends(q, "renew", values.draft, "open", cards[q].rev) /\ fenced' = fenced /\ Spend
        BY <1>6 DEF Renew
  <2>2. /\ cards' \in [Queues -> Card] /\ cards'[q].rev = cards[q].rev
        /\ \A p \in Queues \ {q} : cards'[p] = cards[p]
        BY <1>1, <1>2, <2>1, TypedSends DEF Verbs
  <2>3. fenced' \subseteq Queues /\ UNCHANGED <<server, due, marks>>
        BY <2>1 DEF Typed, Sends
  <2> QED BY <1>3, <2>1, <2>2, <2>3
<1>7. CASE End(q)
  <2>1. Sends(q, "end", values.draft, "ended", cards[q].rev) /\ fenced' = fenced /\ Spend
        BY <1>7 DEF End
  <2>2. /\ cards' \in [Queues -> Card] /\ cards'[q].rev = cards[q].rev
        /\ \A p \in Queues \ {q} : cards'[p] = cards[p]
        BY <1>1, <1>2, <2>1, TypedSends DEF Verbs
  <2>3. fenced' \subseteq Queues /\ UNCHANGED <<server, due, marks>>
        BY <2>1 DEF Typed, Sends
  <2> QED BY <1>3, <2>1, <2>2, <2>3
<1> QED BY <1>4, <1>5, <1>6, <1>7

LEMMA CardArrives ==
  ASSUME Typed, NEW q \in Queues, Arrives(q)
  PROVE  /\ Typed' /\ UNCHANGED <<values, lease, holder, due, fenced, marks>>
         /\ \A p \in Queues : cards'[p].rev = cards[p].rev
         /\ \E j \in Job : queue' = Append(queue, j) /\ j.kind = "edit" /\ j.by = q /\ j.rev = cards[q].rev
<1> DEFINE j == [kind |-> "edit", by |-> q, verb |-> cards[q].verb, rev |-> cards[q].rev,
                 value |-> cards[q].value]
<1>1. cards' \in [Queues -> Card] /\ \A p \in Queues : cards'[p].rev = cards[p].rev
      BY FlightChanges DEF Arrives
<1>2. j \in Job
      BY CardFields DEF Job, Revision
<1>3. queue' = Append(queue, j)
      BY DEF Arrives
<1>4. queue' \in Seq(Job)
      BY <1>2, <1>3 DEF Typed
<1>5. Typed'
      BY <1>1, <1>4 DEF Typed, Arrives, marks
<1>6. j.kind = "edit" /\ j.by = q /\ j.rev = cards[q].rev
      OBVIOUS
<1>7. UNCHANGED <<values, lease, holder, due, fenced, marks>>
      BY DEF Arrives
<1> HIDE DEF j
<1> QED BY <1>1, <1>2, <1>3, <1>5, <1>6, <1>7

LEMMA CardAnswered ==
  ASSUME Typed, NEW q \in Queues, Answered(q)
  PROVE  /\ Typed' /\ UNCHANGED <<server, due, marks>>
         /\ \A p \in Queues \ {q} : cards'[p] = cards[p]
         /\ \/ cards'[q].rev = cards[q].rev /\ fenced' = fenced
            \/ /\ cards'[q].rev = cards[q].rev + 1 /\ values.trev > cards[q].rev
               /\ fenced' = IF values.trev = cards[q].rev + 1 THEN fenced \ {q} ELSE fenced
<1>1. cards[q] \in Card /\ cards[q].rev \in Nat
      BY CardFields
<1>2. UNCHANGED <<server, ops, due, marks>>
      BY DEF Answered
<1>3. ASSUME NEW c \in Card, cards' = [cards EXCEPT ![q] = c], fenced' \subseteq Queues
      PROVE  Typed' /\ cards'[q] = c /\ \A p \in Queues \ {q} : cards'[p] = cards[p]
  <2>1. /\ cards' \in [Queues -> Card] /\ cards'[q] = c
        /\ \A p \in Queues \ {q} : cards'[p] = cards[p]
        BY <1>3, CardChanges
  <2> QED BY <1>2, <1>3, <2>1 DEF Typed, server, marks
<1>4. fenced \subseteq Queues
      BY DEF Typed
<1>5. CASE /\ cards' = [cards EXCEPT ![q].flight = "no", ![q].st = "dead"]
           /\ UNCHANGED fenced
  <2> DEFINE c == [cards[q] EXCEPT !.flight = "no", !.st = "dead"]
  <2>1. c \in Card /\ c.rev = cards[q].rev
        BY <1>1 DEF Card
  <2>2. cards' = [cards EXCEPT ![q] = c]
        BY <1>5 DEF Typed
  <2> HIDE DEF c
  <2> QED BY <1>2, <1>3, <1>4, <1>5, <2>1, <2>2
<1>6. CASE /\ cards' = [cards EXCEPT ![q].flight = "no"]
           /\ UNCHANGED fenced
  <2> DEFINE c == [cards[q] EXCEPT !.flight = "no"]
  <2>1. c \in Card /\ c.rev = cards[q].rev
        BY <1>1 DEF Card
  <2>2. cards' = [cards EXCEPT ![q] = c]
        BY <1>6 DEF Typed
  <2> HIDE DEF c
  <2> QED BY <1>2, <1>3, <1>4, <1>6, <2>1, <2>2
<1>7. CASE /\ values.trev > cards[q].rev
           /\ cards' = [cards EXCEPT ![q].flight = "no", ![q].rev = @ + 1]
           /\ fenced' = IF values.trev = cards[q].rev + 1 THEN fenced \ {q} ELSE fenced
  <2> DEFINE c == [cards[q] EXCEPT !.flight = "no", !.rev = cards[q].rev + 1]
  <2>1. c \in Card /\ c.rev = cards[q].rev + 1
        BY <1>1, cards[q].rev + 1 \in Nat DEF Card, Revision
  <2>2. cards' = [cards EXCEPT ![q] = c]
        BY <1>7 DEF Typed
  <2>3. fenced' \subseteq Queues
        BY <1>4, <1>7
  <2> HIDE DEF c
  <2> QED BY <1>2, <1>3, <1>7, <2>1, <2>2, <2>3
<1> QED BY <1>5, <1>6, <1>7 DEF Answered

(* Users without an editor change no revision; Stop retires the release. *)
SameHolder ==
  /\ holder = None => holder' = None
  /\ holder # None => /\ holder' \in Holder
                      /\ holder'.job = holder.job /\ holder'.doc = holder.doc
                      /\ holder'.lease = holder.lease /\ holder'.age = holder.age
                      /\ holder'.again = holder.again

LEMMA UserActs ==
  ASSUME Typed, Users
  PROVE  /\ Typed' /\ UNCHANGED <<lease, cards, due, fenced, marks>> /\ SameHolder
         /\ values' = values \/ values' = Retired(values)
         /\ \/ queue' = queue
            \/ \E j \in Job : queue' = Append(queue, j) /\ j.kind # "edit"
<1>1. ASSUME NEW j \in Job, Waits(j), Spend, UNCHANGED holder, timer' \in Timer \cup {None},
             j.kind # "edit"
      PROVE  /\ Typed' /\ UNCHANGED <<lease, cards, due, fenced, marks>> /\ SameHolder
             /\ values' = values /\ queue' = Append(queue, j)
  <2>1. queue' = Append(queue, j) /\ queue' \in Seq(Job)
        BY <1>1 DEF Waits, Typed
  <2>2. UNCHANGED <<values, lease, attempted, cards, due, fenced, marks>>
        BY <1>1 DEF Waits
  <2>3. Typed'
        BY <1>1, <2>1, <2>2, Spent DEF Typed, marks
  <2>4. SameHolder
        BY <1>1 DEF SameHolder, Typed
  <2> QED BY <2>1, <2>2, <2>3, <2>4
<1>2. timer \in Timer \cup {None} /\ Armed(values, lease, attempted) \in Timer \cup {None}
      BY ArmedType DEF Typed
<1>3. CASE SetText
  <2>1. PICK value \in Times : Waits([kind |-> "text", value |-> value])
        BY <1>3 DEF SetText
  <2>2. [kind |-> "text", value |-> value] \in Job
        BY DEF Job
  <2>3. Spend /\ UNCHANGED <<holder, timer>>
        BY <1>3 DEF SetText
  <2> QED BY <1>1, <1>2, <2>1, <2>2, <2>3
<1>4. CASE SetPower
  <2>1. [kind |-> "power"] \in Job
        BY DEF Job
  <2>2. Spend /\ UNCHANGED <<holder, timer>> /\ Waits([kind |-> "power"])
        BY <1>4 DEF SetPower
  <2> QED BY <1>1, <1>2, <2>1, <2>2
<1>5. CASE Start
  <2>1. [kind |-> "start"] \in Job
        BY DEF Job
  <2>2. Spend /\ UNCHANGED holder /\ Waits([kind |-> "start"])
        /\ timer' = Armed(values, lease, attempted)
        BY <1>5 DEF Start
  <2> QED BY <1>1, <1>2, <2>1, <2>2
<1>6. CASE Apply
  <2>1. [kind |-> "apply", request |-> values.request] \in Job
        BY DocFields DEF Job, Typed
  <2>2. Spend /\ UNCHANGED holder /\ Waits([kind |-> "apply", request |-> values.request])
        /\ timer' = Armed(values, lease, attempted)
        BY <1>6 DEF Apply
  <2> QED BY <1>1, <1>2, <2>1, <2>2
<1>7. CASE Stop
  <2>1. /\ Spend /\ UNCHANGED <<lease, attempted, cards, due, fenced, marks>>
        /\ timer' = Armed(values', lease, attempted)
        /\ holder' = IF holder = None THEN None ELSE [holder EXCEPT !.superseded = TRUE]
        BY <1>7 DEF Stop
  <2>2. \/ values' = Retired(values) /\ queue' = Append(queue, [kind |-> "stop", trev |-> values.trev])
        \/ values' = values /\ queue' = queue
        BY <1>7 DEF Stop
  <2>3. values' \in Doc
        BY <2>2, RetiredIs DEF Typed
  <2>4. [kind |-> "stop", trev |-> values.trev] \in Job
        BY DocFields DEF Job, Typed, Revision
  <2>5. queue' \in Seq(Job) /\ (queue' = queue \/ \E j \in Job : queue' = Append(queue, j) /\ j.kind # "edit")
    <3>1. CASE queue' = queue
          BY <3>1 DEF Typed
    <3>2. CASE queue' = Append(queue, [kind |-> "stop", trev |-> values.trev])
          BY <2>4, <3>2 DEF Typed
    <3> QED BY <2>2, <3>1, <3>2
  <2>6. SameHolder /\ holder' \in Holder \cup {None}
    <3>1. CASE holder = None
          BY <2>1, <3>1 DEF SameHolder
    <3>2. CASE holder # None
      <4>1. holder \in Holder
            BY <3>2 DEF Typed
      <4>2. holder' = [holder EXCEPT !.superseded = TRUE]
            BY <2>1, <3>2
      <4>3. /\ holder' \in Holder
            /\ holder'.job = holder.job /\ holder'.doc = holder.doc
            /\ holder'.lease = holder.lease /\ holder'.age = holder.age
            /\ holder'.again = holder.again
            BY <4>1, <4>2 DEF Holder
      <4> QED BY <3>2, <4>3 DEF SameHolder
    <3> QED BY <3>1, <3>2
  <2>7. timer' \in Timer \cup {None}
        BY <2>1, <2>3, ArmedType DEF Typed
  <2>8. Typed'
        BY <2>1, <2>3, <2>5, <2>6, <2>7, Spent DEF Typed, marks
  <2> QED BY <2>1, <2>2, <2>5, <2>6, <2>8
<1> QED BY <1>3, <1>4, <1>5, <1>6, <1>7 DEF Users

LEMMA TurnIs ==
  ASSUME Typed, Turn
  PROVE  /\ holder = None /\ queue # <<>> /\ job \in Job /\ job = queue[1] /\ 1 \in DOMAIN queue
         /\ queue' = Tail(queue) /\ queue' \in Seq(Job) /\ Free
         /\ UNCHANGED <<attempted, ops, marks>>
         /\ attempted' \in Nat \cup {None} /\ ops' \in 0..MaxOps
         /\ kept' \in Nat \cup {None} /\ twice' \in Nat
<1>1. holder = None /\ queue # <<>> /\ queue' = Tail(queue) /\ UNCHANGED <<attempted, ops, marks>>
      BY DEF Turn, Free
<1>2. Tail(queue) \in Seq(Job) /\ Head(queue) \in Job /\ 1 \in DOMAIN queue /\ Head(queue) = queue[1]
      BY <1>1, TailElements DEF Typed
<1> QED BY <1>1, <1>2 DEF Typed, marks, job, Free

LEMMA SavesIs ==
  ASSUME NEW doc \in Doc, NEW l \in Leases, job \in Job, Saves(doc, l)
  PROVE  /\ holder' \in Holder /\ holder'.job = job /\ holder'.doc = doc
         /\ holder'.lease = LeaseOf(doc, l) /\ holder'.age = 0 /\ ~holder'.again
<1>1. LeaseOf(doc, l) \in LeaseRecord \cup {None}
      BY LeaseOfIs DEF Leases
<1>2. 0 \in 0..Lease + Grace
      BY Periods
<1> QED BY <1>1, <1>2 DEF Saves, Holder

(* recover_timing_editor in front of an edit. *)
LEMMA RecoversIs ==
  ASSUME Typed, attempted' = attempted, Recovers
  PROVE  /\ values' \in Doc /\ lease' \in Leases /\ timer' \in Timer \cup {None}
         /\ values' = Recovered(values, lease) /\ lease' = RecoveredLease(values, lease)
         /\ fenced' \subseteq Queues
         /\ ~Abandoned(values, lease) => fenced' = fenced
<1>1. values' \in Doc /\ lease' \in Leases
      BY RecoveredIs DEF Typed, Recovers
<1>2. CASE Abandoned(values, lease)
  <2>1. timer' \in Timer \cup {None}
        BY <1>1, <1>2, ArmedType DEF Recovers
  <2> QED BY <1>1, <1>2, <2>1 DEF Recovers, Fences
<1>3. CASE ~Abandoned(values, lease)
      BY <1>1, <1>3 DEF Recovers, Typed
<1> QED BY <1>2, <1>3

LEMMA TurnRejected ==
  ASSUME Typed, EditRejected
  PROVE  /\ Typed' /\ holder' = None /\ UNCHANGED due /\ Turn /\ job.kind = "edit"
         /\ cards'[job.by].flight = "failed"
         /\ \A p \in Queues : cards'[p].rev = cards[p].rev
         /\ values' = Recovered(values, lease) /\ lease' = RecoveredLease(values, lease)
         /\ ~Abandoned(values, lease) => fenced' = fenced
<1>1. Turn /\ job.kind = "edit" /\ Recovers /\ Replies(job.by, "failed") /\ UNCHANGED <<holder, due>>
      BY DEF EditRejected, EditTurn
<1>2. job \in Job /\ job.by \in Queues
      BY <1>1, TurnIs, JobFields
<1>3. /\ cards' \in [Queues -> Card] /\ cards'[job.by].flight = "failed"
      /\ \A p \in Queues : cards'[p].rev = cards[p].rev
  <2> DEFINE q == job.by
  <2>1. cards' = [cards EXCEPT ![q].flight = "failed"] /\ q \in Queues
        BY <1>1, <1>2 DEF Replies
  <2> HIDE DEF q
  <2>2. /\ cards' \in [Queues -> Card] /\ cards'[q].flight = "failed"
        /\ \A p \in Queues : cards'[p].rev = cards[p].rev
        BY <2>1, FlightChanges
  <2> QED BY <2>2 DEF q
<1>4. /\ values' \in Doc /\ lease' \in Leases /\ timer' \in Timer \cup {None}
      /\ values' = Recovered(values, lease) /\ lease' = RecoveredLease(values, lease)
      /\ fenced' \subseteq Queues
      /\ ~Abandoned(values, lease) => fenced' = fenced
      BY <1>1, TurnIs, RecoversIs
<1>5. holder' = None
      BY <1>1, TurnIs
<1>6. Typed'
      BY <1>1, <1>3, <1>4, <1>5, TurnIs DEF Typed
<1> QED BY <1>1, <1>3, <1>4, <1>5, <1>6

LEMMA TurnRenewed ==
  ASSUME Typed, Renewed
  PROVE  /\ Typed' /\ UNCHANGED <<values, fenced>> /\ holder' = None /\ Turn
         /\ job.kind = "edit" /\ job.verb = "renew"
         /\ ~Abandoned(values, lease) /\ Current(values) /\ Renewable(values)
         /\ lease' = [owner |-> job.by, revision |-> job.rev, left |-> Lease]
         /\ lease' \in LeaseRecord /\ due' = Lease + Grace
         /\ \A p \in Queues : cards'[p].rev = cards[p].rev
<1>1. /\ Turn /\ job.kind = "edit" /\ job.verb = "renew" /\ Replies(job.by, "ok")
      /\ ~Abandoned(values, lease) /\ Current(values) /\ Renewable(values)
      /\ UNCHANGED <<values, holder, fenced>> /\ due' = Lease + Grace
      /\ lease' = [owner |-> job.by, revision |-> job.rev, left |-> Lease]
      /\ timer' = Armed(values, lease', attempted)
      BY DEF Renewed, EditTurn
<1>2. job \in Job /\ job.by \in Queues /\ job.rev \in Nat
      BY <1>1, TurnIs, JobFields
<1>3. lease' \in LeaseRecord
  <2>1. Lease \in -Grace..Lease
        BY Periods
  <2> QED BY <1>1, <1>2, <2>1 DEF LeaseRecord, Revision
<1>4. cards' \in [Queues -> Card] /\ \A p \in Queues : cards'[p].rev = cards[p].rev
  <2> DEFINE q == job.by
  <2>1. cards' = [cards EXCEPT ![q].flight = "ok"] /\ q \in Queues
        BY <1>1, <1>2 DEF Replies
  <2> HIDE DEF q
  <2> QED BY <2>1, FlightChanges
<1>5. timer' \in Timer \cup {None} /\ lease' \in Leases
      BY <1>1, <1>3, ArmedType DEF Typed, Leases
<1>6. due' \in 0..Lease + Grace
      BY <1>1, Periods
<1>7. holder' = None
      BY <1>1, TurnIs
<1>8. Typed'
      BY <1>1, <1>4, <1>5, <1>6, <1>7, TurnIs DEF Typed
<1> QED BY <1>1, <1>3, <1>4, <1>7, <1>8

(* The document that begin, update and end write. *)
EditedDoc(d) ==
  IF job.verb = "update"
  THEN Opened([[d EXCEPT !.trev = @ + 1] EXCEPT !.draft = job.value], job.by)
  ELSE IF job.verb = "begin" THEN Opened([d EXCEPT !.trev = @ + 1], job.by)
  ELSE Closed([d EXCEPT !.trev = @ + 1], job.by)

LEMMA EditedDocIs ==
  ASSUME NEW d \in Doc, job \in Job, job.kind = "edit"
  PROVE  /\ EditedDoc(d) \in Doc /\ EditedDoc(d).trev = d.trev + 1
         /\ EditedDoc(d).edit # None =>
              /\ EditedDoc(d).edit.revision = d.trev + 1
              /\ EditedDoc(d).edit.active <=> job.verb \in {"update", "begin"}
              /\ EditedDoc(d).edit.active => EditedDoc(d).edit.owner = job.by
              /\ ~EditedDoc(d).edit.active => EditedDoc(d).edit.left = Grace
<1>1. job.by \in Queues /\ job.value \in Times /\ d.trev \in Nat
      BY JobFields, DocFields
<1> DEFINE next == [d EXCEPT !.trev = @ + 1]
           drafted == [next EXCEPT !.draft = job.value]
           by == job.by
<1>2. next \in Doc /\ next.trev = d.trev + 1
      BY <1>1 DEF Doc, Revision
<1>3. drafted \in Doc /\ drafted.trev = d.trev + 1
      BY <1>1, <1>2 DEF Doc
<1>4. EditedDoc(d) = IF job.verb = "update" THEN Opened(drafted, by)
                     ELSE IF job.verb = "begin" THEN Opened(next, by) ELSE Closed(next, by)
      BY DEF EditedDoc
<1>5. by \in Queues
      BY <1>1
<1> HIDE DEF next, drafted, by
<1>6. CASE job.verb = "update"
  <2>1. EditedDoc(d) = Opened(drafted, by)
        BY <1>4, <1>6
  <2> QED BY <1>3, <1>5, <1>6, <2>1, OpenedIs DEF by
<1>7. CASE job.verb = "begin"
  <2>1. EditedDoc(d) = Opened(next, by)
        BY <1>4, <1>7
  <2> QED BY <1>2, <1>5, <1>7, <2>1, OpenedIs DEF by
<1>8. CASE job.verb \notin {"update", "begin"}
  <2>1. EditedDoc(d) = Closed(next, by)
        BY <1>4, <1>8
  <2> QED BY <1>2, <1>5, <1>8, <2>1, ClosedIs
<1> QED BY <1>6, <1>7, <1>8

LEMMA TurnEdits ==
  ASSUME Typed, EditSaves
  PROVE  /\ Typed' /\ UNCHANGED due /\ Turn /\ job.kind = "edit" /\ job.verb # "renew"
         /\ values' = Recovered(values, lease) /\ lease' = RecoveredLease(values, lease)
         /\ Current(Recovered(values, lease))
         /\ \A p \in Queues : cards'[p].rev = cards[p].rev
         /\ ~Abandoned(values, lease) => fenced' = fenced
         /\ \/ holder' = None
            \/ /\ holder' \in Holder /\ holder'.job = job /\ holder'.doc = EditedDoc(values')
               /\ holder'.lease = LeaseOf(EditedDoc(values'), lease')
               /\ holder'.age = 0 /\ ~holder'.again
<1> DEFINE d == Recovered(values, lease)
           next == [d EXCEPT !.trev = @ + 1]
           doc == IF job.verb = "update"
                  THEN Windowed([next EXCEPT !.draft = job.value], job.by, TRUE)
                  ELSE Windowed(next, job.by, job.verb = "begin")
<1>1. /\ Turn /\ job.kind = "edit" /\ Recovers /\ job.verb # "renew" /\ Current(d)
      /\ UNCHANGED due
      /\ \/ Replies(job.by, "ok") /\ UNCHANGED holder
         \/ Saves(doc, lease') /\ UNCHANGED cards
      BY DEF EditSaves, EditTurn
<1>2. job \in Job /\ job.by \in Queues /\ holder = None
      BY <1>1, TurnIs, JobFields
<1>3. /\ values' \in Doc /\ lease' \in Leases /\ timer' \in Timer \cup {None}
      /\ values' = d /\ lease' = RecoveredLease(values, lease)
      /\ fenced' \subseteq Queues
      /\ ~Abandoned(values, lease) => fenced' = fenced
      BY <1>1, TurnIs, RecoversIs
<1>4. doc = EditedDoc(d)
  <2> HIDE DEF d
  <2>1. CASE job.verb = "update"
        BY <2>1 DEF EditedDoc, Opened
  <2>2. CASE job.verb = "begin"
        BY <2>2 DEF EditedDoc, Opened
  <2>3. CASE job.verb \notin {"update", "begin"}
        BY <2>3 DEF EditedDoc, Closed
  <2> QED BY <2>1, <2>2, <2>3
<1>5. EditedDoc(d) \in Doc
      BY <1>1, <1>2, <1>3, EditedDocIs
<1> HIDE DEF d, doc
<1>6. CASE Replies(job.by, "ok") /\ UNCHANGED holder
  <2>1. cards' \in [Queues -> Card] /\ \A p \in Queues : cards'[p].rev = cards[p].rev
    <3> DEFINE q == job.by
    <3>1. cards' = [cards EXCEPT ![q].flight = "ok"] /\ q \in Queues
          BY <1>2, <1>6 DEF Replies
    <3> HIDE DEF q
    <3> QED BY <3>1, FlightChanges
  <2>2. holder' = None
        BY <1>2, <1>6
  <2>3. Typed'
        BY <1>1, <1>3, <2>1, <2>2, TurnIs DEF Typed
  <2> QED BY <1>1, <1>3, <2>1, <2>2, <2>3 DEF d
<1>7. CASE Saves(doc, lease') /\ UNCHANGED cards
  <2>1. Saves(EditedDoc(d), lease')
        BY <1>4, <1>7
  <2>2. /\ holder' \in Holder /\ holder'.job = job /\ holder'.doc = EditedDoc(d)
        /\ holder'.lease = LeaseOf(EditedDoc(d), lease') /\ holder'.age = 0 /\ ~holder'.again
    <3> DEFINE l == lease'
               e == EditedDoc(d)
    <3>1. Saves(e, l) /\ e \in Doc /\ l \in Leases
          BY <1>3, <1>5, <2>1
    <3> HIDE DEF l, e
    <3>2. /\ holder' \in Holder /\ holder'.job = job /\ holder'.doc = e
          /\ holder'.lease = LeaseOf(e, l) /\ holder'.age = 0 /\ ~holder'.again
          BY <1>2, <3>1, SavesIs
    <3> QED BY <3>2 DEF l, e
  <2>3. Typed'
        BY <1>1, <1>3, <1>7, <2>2, TurnIs DEF Typed
  <2>4. \A p \in Queues : cards'[p].rev = cards[p].rev
        BY <1>7
  <2> QED BY <1>1, <1>3, <2>2, <2>3, <2>4 DEF d
<1> QED BY <1>1, <1>6, <1>7

(* The other turns that save: what they write. *)
Drafted(d) == Closed([d EXCEPT !.draft = job.value, !.trev = @ + 1], None)
Putback(d) == [Retired(d) EXCEPT !.trev = job.trev]

LEMMA DraftedIs ==
  ASSUME NEW d \in Doc, job \in Job, job.kind = "text"
  PROVE  /\ Drafted(d) \in Doc /\ Drafted(d).trev = d.trev + 1
         /\ Drafted(d).edit # None =>
              /\ Drafted(d).edit.revision = d.trev + 1 /\ ~Drafted(d).edit.active
              /\ Drafted(d).edit.left = Grace
<1> DEFINE next == [d EXCEPT !.draft = job.value, !.trev = @ + 1]
<1>1. d.trev \in Nat /\ d.trev + 1 \in Nat /\ job.value \in Times
      BY DocFields, JobFields
<1>2. next \in Doc /\ next.trev = d.trev + 1
      BY <1>1 DEF Doc, Revision
<1>3. Drafted(d) = Closed(next, None)
      BY DEF Drafted
<1> HIDE DEF next
<1> QED BY <1>2, <1>3, ClosedIs

LEMMA PutbackIs ==
  ASSUME NEW d \in Doc, job \in Job, job.kind = "stop"
  PROVE  Putback(d) \in Doc /\ Putback(d).edit = None
<1>1. job.trev \in Nat
      BY JobFields
<1> QED BY <1>1 DEF Putback, Retired, Doc, Revision

LEMMA ApprovedIs ==
  ASSUME NEW d \in Doc
  PROVE  Approved(d) \in Doc /\ Approved(d).trev = d.trev + 1 /\ Approved(d).edit = None
<1>1. d.trev + 1 \in Nat /\ d.arev + 1 \in Nat
      BY DocFields
<1> QED BY <1>1 DEF Approved, Doc, Revision

LEMMA RollbackIs ==
  ASSUME NEW d \in Doc
  PROVE  Rollback(d) \in Doc /\ Rollback(d).trev = d.trev + 1 /\ Rollback(d).edit = None
<1>1. d.trev + 1 \in Nat
      BY DocFields
<1> QED BY <1>1 DEF Rollback, Doc, Revision

(* A turn of these kinds leaves document and lease as they are. *)
LEMMA TurnSaves ==
  ASSUME Typed, SettingSaves \/ ApprovalSaves \/ StopSaves \/ ExpirySaves
  PROVE  /\ Typed' /\ UNCHANGED <<values, lease, cards, due, fenced>> /\ Turn
         /\ job.kind # "edit" /\ (ExpirySaves <=> job.kind = "expire")
         /\ \/ holder' = None
            \/ /\ holder' \in Holder /\ holder'.job = job /\ holder'.age = 0 /\ ~holder'.again
               /\ holder'.lease = LeaseOf(holder'.doc, lease)
               /\ holder'.doc = CASE job.kind = "text" -> Drafted(values)
                                  [] job.kind = "power" -> values
                                  [] job.kind \in Approvals -> Approved(values)
                                  [] job.kind = "stop" -> Putback(values)
                                  [] job.kind = "expire" -> Rollback(values)
<1>1. /\ Turn /\ UNCHANGED <<values, lease, cards, due, fenced>>
      /\ timer' = timer \/ timer' = Armed(values, lease, attempted)
      BY DEF SettingSaves, ApprovalSaves, StopSaves, ExpirySaves
<1>2. job \in Job /\ holder = None /\ values \in Doc /\ lease \in Leases
      BY <1>1, TurnIs DEF Typed
<1>3. timer' \in Timer \cup {None}
      BY <1>1, ArmedType DEF Typed
<1>4. ASSUME holder' \in Holder \cup {None}
      PROVE  Typed'
      BY <1>1, <1>3, <1>4, TurnIs DEF Typed
<1>5. ASSUME NEW doc \in Doc, Saves(doc, lease)
      PROVE  /\ Typed' /\ holder' \in Holder /\ holder'.job = job /\ holder'.age = 0
             /\ ~holder'.again /\ holder'.doc = doc /\ holder'.lease = LeaseOf(holder'.doc, lease)
  <2>1. /\ holder' \in Holder /\ holder'.job = job /\ holder'.age = 0
        /\ ~holder'.again /\ holder'.doc = doc /\ holder'.lease = LeaseOf(doc, lease)
        BY <1>2, <1>5, SavesIs
  <2> QED BY <1>4, <2>1
<1>6. ASSUME UNCHANGED holder
      PROVE  holder' = None /\ Typed'
      BY <1>2, <1>4, <1>6
<1>7. CASE SettingSaves
  <2>1. job.kind \in {"text", "power"}
        BY <1>7 DEF SettingSaves
  <2>2. CASE job.kind = "text"
    <3>1. UNCHANGED holder \/ Saves(Drafted(values), lease)
          BY <1>7, <2>2 DEF SettingSaves, Drafted, Closed
    <3>2. Drafted(values) \in Doc
          BY <1>2, <2>2, DraftedIs
    <3> QED BY <1>1, <1>5, <1>6, <2>2, <3>1, <3>2 DEF ExpirySaves, Approvals
  <2>3. CASE job.kind = "power"
    <3>1. Saves(values, lease)
          BY <1>7, <2>3 DEF SettingSaves
    <3> QED BY <1>1, <1>2, <1>5, <2>3, <3>1 DEF ExpirySaves, Approvals
  <2> QED BY <2>1, <2>2, <2>3
<1>8. CASE ApprovalSaves
  <2>1. job.kind \in Approvals /\ (UNCHANGED holder \/ Saves(Approved(values), lease))
        BY <1>8 DEF ApprovalSaves
  <2>2. Approved(values) \in Doc
        BY <1>2, ApprovedIs
  <2> QED BY <1>1, <1>5, <1>6, <2>1, <2>2 DEF ExpirySaves, Approvals
<1>9. CASE StopSaves
  <2>1. job.kind = "stop" /\ Saves(Putback(values), lease)
        BY <1>9 DEF StopSaves, Putback
  <2>2. Putback(values) \in Doc
        BY <1>2, <2>1, PutbackIs
  <2> QED BY <1>1, <1>5, <2>1, <2>2 DEF ExpirySaves, Approvals
<1>10. CASE ExpirySaves
  <2>1. job.kind = "expire" /\ Saves(Rollback(values), lease)
        BY <1>10 DEF ExpirySaves
  <2>2. Rollback(values) \in Doc
        BY <1>2, RollbackIs
  <2> QED BY <1>1, <1>5, <1>10, <2>1, <2>2 DEF Approvals
<1> QED BY <1>7, <1>8, <1>9, <1>10

LEMMA TurnExpires ==
  ASSUME Typed, ExpiryEnds
  PROVE  /\ Typed' /\ UNCHANGED <<cards, due>> /\ holder' = None /\ Turn /\ job.kind = "expire"
         /\ \/ UNCHANGED <<values, lease>> /\ fenced' = fenced
            \/ /\ values' = Recovered(values, lease) /\ lease' = RecoveredLease(values, lease)
               /\ ~Abandoned(values, lease) => fenced' = fenced
<1>1. /\ Turn /\ job.kind = "expire" /\ UNCHANGED <<holder, cards, due>>
      /\ \/ UNCHANGED <<values, lease>>
         \/ values' = Recovered(values, lease) /\ lease' = RecoveredLease(values, lease)
      /\ timer' = Armed(values', lease', attempted)
      /\ IF values' # values THEN Fences(None) ELSE UNCHANGED fenced
      BY DEF ExpiryEnds
<1>2. values' \in Doc /\ lease' \in Leases
      BY <1>1, RecoveredIs DEF Typed
<1>3. timer' \in Timer \cup {None}
      BY <1>1, <1>2, ArmedType
<1>4. fenced' \subseteq Queues
      BY <1>1 DEF Fences, Typed
<1>5. holder' = None
      BY <1>1, TurnIs
<1>6. Typed'
      BY <1>1, <1>2, <1>3, <1>4, <1>5, TurnIs DEF Typed
<1>7. UNCHANGED <<values, lease>> => fenced' = fenced
      BY <1>1
<1>8. ~Abandoned(values, lease) => UNCHANGED <<values, lease>>
      BY <1>1, RecoveredIs DEF Typed
<1> QED BY <1>1, <1>5, <1>6, <1>7, <1>8

(* Storage has answered.  Done, Again and what follows. *)
LEMMA FreedIs ==
  ASSUME Typed, holder # None
  PROVE  /\ holder \in Holder /\ holder.job \in Job /\ holder.doc \in Doc /\ holder.lease \in Leases
         /\ holder.age \in 0..Lease + Grace /\ holder.again \in BOOLEAN /\ holder.superseded \in BOOLEAN
BY HolderFields DEF Typed

LEMMA DatedIs ==
  ASSUME Typed, holder # None, NEW period \in 0..Lease + Grace, Dated(period)
  PROVE  due' \in 0..Lease + Grace /\ due' = AtLeastZero(period - holder.age)
<1>1. holder.age \in 0..Lease + Grace
      BY FreedIs
<1>2. due' = AtLeastZero(period - holder.age)
      BY DEF Dated
<1> QED BY <1>1, <1>2, Periods DEF AtLeastZero

(* What every end of a save leaves alone. *)
LEMMA StoredTyped ==
  ASSUME Typed, values' \in Doc, lease' \in Leases, holder' \in Holder \cup {None},
         timer' \in Timer \cup {None}, UNCHANGED <<queue, attempted, ops>>,
         cards' \in [Queues -> Card], due' \in 0..Lease + Grace, fenced' \subseteq Queues,
         kept' \in Nat \cup {None}, twice' \in Nat
  PROVE  Typed'
BY DEF Typed

LEMMA EditIsStored ==
  ASSUME Typed, EditStored
  PROVE  /\ Typed' /\ UNCHANGED <<queue, marks>> /\ holder' = None
         /\ holder # None /\ holder.job.kind = "edit"
         /\ values' = holder.doc /\ lease' = holder.lease
         /\ \A p \in Queues : cards'[p].rev = cards[p].rev
         /\ due' = AtLeastZero((IF holder.job.verb = "end" THEN Grace ELSE Lease + Grace) - holder.age)
<1>1. /\ holder # None /\ holder.job.kind = "edit" /\ values' = holder.doc /\ lease' = holder.lease
      /\ timer' = Armed(values', lease', attempted) /\ holder' = None
      /\ UNCHANGED <<queue, attempted, ops, marks>>
      /\ fenced' = Queues \ {holder.job.by} /\ Replies(holder.job.by, "ok")
      /\ Dated(IF holder.job.verb = "end" THEN Grace ELSE Lease + Grace)
      BY DEF EditStored, Lands, Arms, Done, Fences
<1>2. holder.job \in Job /\ holder.doc \in Doc /\ holder.lease \in Leases
      BY <1>1, FreedIs
<1>3. timer' \in Timer \cup {None}
      BY <1>1, <1>2, ArmedType
<1>4. cards' \in [Queues -> Card] /\ \A p \in Queues : cards'[p].rev = cards[p].rev
  <2> DEFINE q == holder.job.by
  <2>1. cards' = [cards EXCEPT ![q].flight = "ok"] /\ q \in Queues
        BY <1>1, <1>2, JobFields DEF Replies
  <2> HIDE DEF q
  <2> QED BY <2>1, FlightChanges
<1> DEFINE period == IF holder.job.verb = "end" THEN Grace ELSE Lease + Grace
<1>5. period \in 0..Lease + Grace
      BY Periods
<1>6. due' \in 0..Lease + Grace /\ due' = AtLeastZero(period - holder.age)
  <2>1. Dated(period)
        BY <1>1
  <2> HIDE DEF period
  <2> QED BY <1>1, <1>5, <2>1, DatedIs
<1>7. Typed'
  <2> HIDE DEF period
  <2> QED BY <1>1, <1>2, <1>3, <1>4, <1>6 DEF Typed, marks
<1> QED BY <1>1, <1>4, <1>6, <1>7

LEMMA SettingIsStored ==
  ASSUME Typed, SettingStored
  PROVE  /\ Typed' /\ UNCHANGED <<queue, cards, marks>> /\ holder' = None
         /\ holder # None /\ holder.job.kind \in {"text", "power"}
         /\ values' = holder.doc /\ lease' = holder.lease
         /\ holder.job.kind = "text" => due' = AtLeastZero(Grace - holder.age)
         /\ holder.job.kind = "power" => UNCHANGED <<due, fenced>>
<1>1. /\ holder # None /\ holder.job.kind \in {"text", "power"}
      /\ values' = holder.doc /\ lease' = holder.lease /\ holder' = None
      /\ UNCHANGED <<queue, attempted, ops, marks, cards>>
      BY DEF SettingStored, Lands, Done
<1>2. holder.job \in Job /\ holder.doc \in Doc /\ holder.lease \in Leases
      BY <1>1, FreedIs
<1>3. CASE holder.job.kind = "text"
  <2>1. timer' = Armed(values', lease', attempted) /\ Dated(Grace) /\ fenced' = Queues \ {None}
        BY <1>3 DEF SettingStored, Arms, Fences
  <2>2. timer' \in Timer \cup {None}
        BY <1>1, <1>2, <2>1, ArmedType
  <2>3. Grace \in 0..Lease + Grace
        BY Periods
  <2>4. due' \in 0..Lease + Grace /\ due' = AtLeastZero(Grace - holder.age)
        BY <1>1, <2>1, <2>3, DatedIs
  <2>5. Typed'
        BY <1>1, <1>2, <2>1, <2>2, <2>4 DEF Typed, marks
  <2> QED BY <1>1, <1>3, <2>4, <2>5
<1>4. CASE holder.job.kind = "power"
  <2>1. UNCHANGED <<timer, due, fenced>>
        BY <1>4 DEF SettingStored
  <2>2. Typed'
        BY <1>1, <1>2, <2>1 DEF Typed, marks
  <2> QED BY <1>1, <1>4, <2>1, <2>2
<1> QED BY <1>1, <1>3, <1>4

LEMMA AgainIs ==
  ASSUME Typed, holder # None, NEW doc \in Doc, doc.edit = None, Again(doc)
  PROVE  /\ holder' \in Holder /\ holder'.job = holder.job /\ holder'.doc = doc
         /\ holder'.lease = None /\ holder'.age = holder.age /\ holder'.again
         /\ UNCHANGED <<queue, attempted, ops, marks>>
<1>1. holder \in Holder
      BY FreedIs
<1>2. LeaseOf(doc, holder.lease) = None
      BY FreedIs, LeaseOfIs
<1>3. holder' = [holder EXCEPT !.doc = doc, !.lease = None, !.again = TRUE]
      BY <1>2 DEF Again
<1> QED BY <1>1, <1>3 DEF Again, Holder

LEMMA ApprovalIsStored ==
  ASSUME Typed, ApprovalStored
  PROVE  /\ Typed' /\ UNCHANGED <<queue, cards, due, marks>>
         /\ holder # None /\ holder.job.kind \in Approvals /\ ~holder.again
         /\ values'.trev = holder.doc.trev /\ values'.edit = holder.doc.edit /\ lease' = holder.lease
         /\ \/ holder' = None
            \/ /\ holder' \in Holder /\ holder'.job = holder.job /\ holder'.again
               /\ holder'.doc.edit = None /\ holder'.doc.trev = values'.trev
               /\ holder'.lease = None
<1>1. /\ holder # None /\ holder.job.kind \in Approvals /\ ~holder.again /\ lease' = holder.lease
      /\ timer' = Armed(values', lease', attempted) /\ fenced' = Queues \ {None}
      /\ UNCHANGED <<cards, due>>
      BY DEF ApprovalStored, Arms, Fences
<1>2. holder.job \in Job /\ holder.doc \in Doc /\ holder.lease \in Leases
      /\ holder.superseded \in BOOLEAN
      BY <1>1, FreedIs
<1>3. ASSUME values' \in Doc, holder' \in Holder \cup {None}, UNCHANGED <<queue, attempted, ops, marks>>
      PROVE  Typed'
  <2>1. timer' \in Timer \cup {None}
        BY <1>1, <1>2, <1>3, ArmedType
  <2> QED BY <1>1, <1>2, <1>3, <2>1 DEF Typed, marks
<1>4. CASE ~holder.superseded
  <2>1. values' = holder.doc /\ holder' = None /\ UNCHANGED <<queue, attempted, ops, marks>>
        BY <1>4 DEF ApprovalStored, Done
  <2> QED BY <1>1, <1>2, <1>3, <2>1
<1>5. CASE holder.superseded
  <2> DEFINE doc == [Retired(values') EXCEPT !.approved = values.approved, !.arev = values.arev]
  <2>1. values' = [holder.doc EXCEPT !.release = FALSE] /\ Again(doc)
        BY <1>5 DEF ApprovalStored
  <2>2. values' \in Doc /\ values'.trev = holder.doc.trev /\ values'.edit = holder.doc.edit
        BY <1>2, <2>1 DEF Doc
  <2>3. Retired(values') \in Doc /\ Retired(values').edit = None /\ Retired(values').trev = values'.trev
    <3>1. ASSUME NEW v \in Doc
          PROVE  Retired(v) \in Doc /\ Retired(v).edit = None /\ Retired(v).trev = v.trev
          BY RetiredIs
    <3> QED BY <2>2, <3>1
  <2>4. doc \in Doc /\ doc.edit = None /\ doc.trev = values'.trev
    <3>1. values.approved \in Times /\ values.arev \in Nat
          BY DocFields DEF Typed
    <3> DEFINE r == Retired(values')
    <3> HIDE DEF r
    <3>2. doc = [r EXCEPT !.approved = values.approved, !.arev = values.arev]
          BY DEF r
    <3>3. r \in Doc /\ r.edit = None /\ r.trev = values'.trev
          BY <2>3 DEF r
    <3> HIDE DEF doc
    <3> QED BY <3>1, <3>2, <3>3 DEF Doc
  <2> HIDE DEF doc
  <2>5. /\ holder' \in Holder /\ holder'.job = holder.job /\ holder'.doc = doc
        /\ holder'.lease = None /\ holder'.again /\ UNCHANGED <<queue, attempted, ops, marks>>
    <3> DEFINE e == doc
    <3>1. e \in Doc /\ e.edit = None /\ Again(e)
          BY <2>1, <2>4
    <3> HIDE DEF e
    <3>2. /\ holder' \in Holder /\ holder'.job = holder.job /\ holder'.doc = e
          /\ holder'.lease = None /\ holder'.again /\ UNCHANGED <<queue, attempted, ops, marks>>
          BY <1>1, <3>1, AgainIs
    <3> QED BY <3>2 DEF e
  <2>6. Typed'
        BY <1>3, <2>2, <2>5
  <2> QED BY <1>1, <2>2, <2>4, <2>5, <2>6
<1> QED BY <1>2, <1>4, <1>5

LEMMA ExpiryIsStored ==
  ASSUME Typed, ExpiryStored
  PROVE  /\ Typed' /\ UNCHANGED <<queue, cards, due, marks>>
         /\ holder # None /\ holder.job.kind = "expire" /\ ~holder.again /\ lease' = holder.lease
         /\ \/ values' = holder.doc /\ holder' = None
            \/ /\ values' = Retired(values) /\ fenced' = fenced
               /\ holder' \in Holder /\ holder'.job = holder.job /\ holder'.again
               /\ holder'.doc = values' /\ holder'.lease = None
<1>1. /\ holder # None /\ holder.job.kind = "expire" /\ ~holder.again /\ lease' = holder.lease
      /\ timer' = Armed(values', lease', attempted) /\ UNCHANGED <<cards, due>>
      BY DEF ExpiryStored, Arms
<1>2. holder.job \in Job /\ holder.doc \in Doc /\ holder.lease \in Leases
      /\ values \in Doc /\ values.release \in BOOLEAN
      BY <1>1, FreedIs, DocFields DEF Typed
<1>3. ASSUME values' \in Doc, holder' \in Holder \cup {None}, fenced' \subseteq Queues,
             UNCHANGED <<queue, attempted, ops, marks>>
      PROVE  Typed'
  <2>1. timer' \in Timer \cup {None}
        BY <1>1, <1>2, <1>3, ArmedType
  <2> QED BY <1>1, <1>2, <1>3, <2>1 DEF Typed, marks
<1>4. CASE values.release
  <2>1. values' = holder.doc /\ holder' = None /\ UNCHANGED <<queue, attempted, ops, marks>>
        /\ fenced' = Queues \ {None}
        BY <1>4 DEF ExpiryStored, Done, Fences
  <2> QED BY <1>1, <1>2, <1>3, <2>1
<1>5. CASE ~values.release
  <2>1. values' = Retired(values) /\ Again(values') /\ fenced' = fenced
        BY <1>5 DEF ExpiryStored
  <2>2. /\ holder' \in Holder /\ holder'.job = holder.job /\ holder'.doc = values'
        /\ holder'.lease = None /\ holder'.again /\ UNCHANGED <<queue, attempted, ops, marks>>
        /\ values' \in Doc
    <3> DEFINE e == values'
    <3>1. e \in Doc /\ e.edit = None /\ Again(e)
          BY <1>2, <2>1, RetiredIs
    <3> HIDE DEF e
    <3>2. /\ holder' \in Holder /\ holder'.job = holder.job /\ holder'.doc = e
          /\ holder'.lease = None /\ holder'.again /\ UNCHANGED <<queue, attempted, ops, marks>>
          BY <1>1, <3>1, AgainIs
    <3> QED BY <3>1, <3>2 DEF e
  <2>3. fenced' \subseteq Queues
        BY <2>1 DEF Typed
  <2>4. Typed'
        BY <1>3, <2>2, <2>3
  <2> QED BY <1>1, <2>1, <2>2, <2>4
<1> QED BY <1>2, <1>4, <1>5

LEMMA StopIsStored ==
  ASSUME Typed, StopStored
  PROVE  /\ Typed' /\ UNCHANGED <<queue, cards, due, fenced>> /\ holder' = None
         /\ holder # None /\ holder.job.kind = "stop"
         /\ values' = holder.doc /\ lease' = holder.lease
         /\ twice' = IF holder.doc.trev < values.trev /\ twice < values.trev
                     THEN values.trev ELSE twice
<1>1. /\ holder # None /\ holder.job.kind = "stop" /\ holder' = None
      /\ values' = holder.doc /\ lease' = holder.lease
      /\ timer' = Armed(values', lease', attempted)
      /\ UNCHANGED <<queue, attempted, ops, cards, due, fenced, kept>>
      /\ twice' = IF holder.doc.trev < values.trev /\ twice < values.trev
                  THEN values.trev ELSE twice
      BY DEF StopStored, Lands, Arms
<1>2. holder.doc \in Doc /\ holder.lease \in Leases
      BY <1>1, FreedIs
<1>3. timer' \in Timer \cup {None}
      BY <1>1, <1>2, ArmedType
<1>4. twice' \in Nat
      BY <1>1, DocFields DEF Typed
<1>5. Typed'
      BY <1>1, <1>2, <1>3, <1>4 DEF Typed
<1> QED BY <1>1, <1>5

LEMMA AgainIsStored ==
  ASSUME Typed, AgainStored
  PROVE  /\ Typed' /\ UNCHANGED <<queue, cards, due, fenced, marks>> /\ holder' = None
         /\ holder # None /\ holder.again
         /\ values' = holder.doc /\ lease' = holder.lease
<1>1. /\ holder # None /\ holder.again /\ holder' = None
      /\ values' = holder.doc /\ lease' = holder.lease
      /\ timer' = Armed(values', lease', attempted)
      /\ UNCHANGED <<queue, attempted, ops, cards, due, fenced, marks>>
      BY DEF AgainStored, Lands, Arms, Done
<1>2. holder.doc \in Doc /\ holder.lease \in Leases
      BY <1>1, FreedIs
<1>3. timer' \in Timer \cup {None}
      BY <1>1, <1>2, ArmedType
<1>4. Typed'
      BY <1>1, <1>2, <1>3 DEF Typed, marks
<1> QED BY <1>1, <1>4

LEMMA NothingStored ==
  ASSUME Typed, NotStored
  PROVE  /\ Typed' /\ UNCHANGED <<values, lease, queue, due, fenced, twice>> /\ holder' = None
         /\ \A p \in Queues : cards'[p].rev = cards[p].rev
<1>1. /\ ops < MaxOps /\ ops' = ops + 1 /\ holder # None /\ holder' = None
      /\ timer' = timer \/ timer' = Armed(values, lease, attempted)
      /\ kept' = kept \/ (values.edit # None /\ kept' = values.edit.revision)
      /\ UNCHANGED <<values, lease, queue, attempted, due, fenced, twice>>
      BY DEF NotStored
<1>2. timer' \in Timer \cup {None}
      BY <1>1, ArmedType DEF Typed
<1>3. kept' \in Nat \cup {None}
      BY <1>1, DocFields, EditFields DEF Typed
<1>4. cards' \in [Queues -> Card] /\ \A p \in Queues : cards'[p].rev = cards[p].rev
  <2>1. CASE holder.job.kind = "edit"
    <3> DEFINE q == holder.job.by
    <3>1. cards' = [cards EXCEPT ![q].flight = "failed"] /\ q \in Queues
          BY <1>1, <2>1, FreedIs, JobFields DEF NotStored, Replies
    <3> HIDE DEF q
    <3> QED BY <3>1, FlightChanges
  <2>2. CASE holder.job.kind # "edit"
        BY <2>2 DEF NotStored, Typed
  <2> QED BY <2>1, <2>2
<1>5. ops' \in 0..MaxOps
      BY <1>1, FeaturesAssumption DEF Typed
<1>6. Typed'
      BY <1>1, <1>2, <1>3, <1>4, <1>5 DEF Typed
<1> QED BY <1>1, <1>4, <1>6

LEMMA TimerFires ==
  ASSUME Typed, Fires
  PROVE  /\ Typed' /\ UNCHANGED <<values, lease, holder, cards, due, fenced, marks>>
         /\ \E j \in Job : queue' = Append(queue, j) /\ j.kind = "expire"
<1> DEFINE j == [kind |-> "expire", revision |-> timer.revision, schedule |-> timer.schedule]
<1>1. /\ timer # None /\ attempted' = timer.revision /\ queue' = Append(queue, j)
      /\ timer' = Armed(values, lease, attempted')
      /\ UNCHANGED <<values, lease, holder, cards, ops, due, fenced, marks>>
      BY DEF Fires
<1>2. timer.revision \in Nat /\ timer.schedule \in Nat
      BY <1>1 DEF Typed, Timer, Revision
<1>3. j \in Job /\ j.kind = "expire"
      BY <1>2 DEF Job, Revision
<1> HIDE DEF j
<1>4. timer' \in Timer \cup {None}
      BY <1>1, ArmedType DEF Typed
<1>5. queue' \in Seq(Job)
      BY <1>1, <1>3 DEF Typed
<1>6. Typed'
      BY <1>1, <1>2, <1>4, <1>5 DEF Typed, marks
<1> QED BY <1>1, <1>3, <1>6

LEMMA TimePasses ==
  ASSUME Typed, Tick
  PROVE  /\ Typed' /\ UNCHANGED <<queue, cards, fenced, marks>>
         /\ values' = Aged(values) /\ lease' = AgedLease(lease) /\ due' = AtLeastZero(due - 1)
         /\ holder = None => holder' = None
         /\ holder # None =>
              /\ holder' \in Holder /\ holder'.job = holder.job /\ holder'.again = holder.again
              /\ holder'.doc = Aged(holder.doc) /\ holder'.lease = AgedLease(holder.lease)
              /\ holder'.age = IF holder.age = Lease + Grace THEN holder.age ELSE holder.age + 1
<1>1. /\ values' = Aged(values) /\ lease' = AgedLease(lease) /\ due' = AtLeastZero(due - 1)
      /\ UNCHANGED <<queue, attempted, cards, ops, fenced, marks>>
      BY DEF Tick
<1>2. values' \in Doc /\ lease' \in Leases
      BY <1>1, AgedIs, AgedLeaseIs DEF Typed
<1>3. timer' \in Timer \cup {None}
  <2>1. CASE timer = None
        BY <2>1 DEF Tick
  <2>2. CASE timer # None
    <3>1. timer \in Timer /\ timer' = [timer EXCEPT !.left = AtLeastZero(timer.left - 1)]
          BY <2>2 DEF Tick, Typed
    <3>2. timer.left \in 0..Lease
          BY <3>1 DEF Timer
    <3>3. AtLeastZero(timer.left - 1) \in 0..Lease
          BY <3>2, Periods DEF AtLeastZero
    <3> QED BY <3>1, <3>3 DEF Timer
  <2> QED BY <2>1, <2>2
<1>4. due' \in 0..Lease + Grace
      BY <1>1, Periods DEF Typed, AtLeastZero
<1>5. CASE holder = None
  <2>1. holder' = None
        BY <1>5 DEF Tick
  <2>2. Typed'
        BY <1>1, <1>2, <1>3, <1>4, <2>1 DEF Typed, marks
  <2> QED BY <1>1, <1>5, <2>1, <2>2
<1>6. CASE holder # None
  <2> DEFINE age == IF holder.age = Lease + Grace THEN holder.age ELSE holder.age + 1
             doc == Aged(holder.doc)
             left == AgedLease(holder.lease)
  <2>1. holder \in Holder
        BY <1>6 DEF Typed
  <2>2. holder' = [holder EXCEPT !.doc = doc, !.lease = left, !.age = age]
        BY <1>6 DEF Tick
  <2>3. doc \in Doc /\ left \in Leases
        BY <1>6, FreedIs, AgedIs, AgedLeaseIs
  <2>4. age \in 0..Lease + Grace
    <3>1. holder.age \in 0..Lease + Grace
          BY <1>6, FreedIs
    <3> QED BY <3>1, Periods
  <2> HIDE DEF age, doc, left
  <2>5. /\ holder' \in Holder /\ holder'.job = holder.job /\ holder'.again = holder.again
        /\ holder'.doc = doc /\ holder'.lease = left /\ holder'.age = age
        BY <2>1, <2>2, <2>3, <2>4 DEF Holder, Leases
  <2>6. Typed'
        BY <1>1, <1>2, <1>3, <1>4, <2>5 DEF Typed, marks
  <2> QED BY <1>1, <1>6, <2>5, <2>6 DEF age, doc, left
<1> QED BY <1>5, <1>6

LEMMA TypedStep ==
  ASSUME Typed, [Next]_vars
  PROVE  Typed'
<1>1. CASE Cards
  <2>1. PICK q \in Queues : Begin(q) \/ Update(q) \/ Renew(q) \/ End(q) \/ Arrives(q) \/ Answered(q)
        BY <1>1 DEF Cards
  <2> QED BY <2>1, CardSends, CardArrives, CardAnswered
<1>2. CASE Users
      BY <1>2, UserActs
<1>3. CASE Turns
      BY <1>3, TurnRejected, TurnRenewed, TurnEdits, TurnSaves, TurnExpires DEF Turns
<1>4. CASE Stored
      BY <1>4, EditIsStored, SettingIsStored, ApprovalIsStored, ExpiryIsStored, StopIsStored,
         AgainIsStored DEF Stored
<1>5. CASE NotStored \/ Fires \/ Tick
      BY <1>5, NothingStored, TimerFires, TimePasses
<1>6. CASE UNCHANGED vars
      BY <1>6 DEF vars, server, marks, Typed
<1> QED BY <1>1, <1>2, <1>3, <1>4, <1>5, <1>6 DEF Next

(* The state is well typed: an active edit has an owner and no deadline of *)
(* its own, an ended one has one of at most the grace period, whatever     *)
(* waits at the lock has the form its turn expects (Settings, Grid.schedule*)
(* and the card's queue).                                                  *)
THEOREM TypeCorrect == Spec => []TypeOK
<1> QED BY TypedInit, TypedStep, TypedIsTypeOK, PTL DEF Spec

-----------------------------------------------------------------------------
(* The fence *)

(* A revision that was overtaken, or that may occur twice; one that is not *)
(* ahead of the document. *)
Old(n) == n < values.trev \/ n <= twice
Seen(n) == n <= values.trev \/ n <= twice
(* A request of q with revision n that is under way. *)
Behind(q, n) == Seen(n) /\ (q \in fenced => Old(n))
Knows ==
  /\ \A q \in Queues : Behind(q, cards[q].rev)
  /\ \A k \in DOMAIN queue : queue[k].kind = "edit" => Behind(queue[k].by, queue[k].rev)

(* What storage works on is one revision ahead, or of the same one, but    *)
(* for a Stop. *)
Raising ==
  \/ holder.job.kind \in {"edit", "text"}
  \/ holder.job.kind \in Approvals \cup {"expire"} /\ ~holder.again
Holding ==
  holder # None =>
    /\ Raising => holder.doc.trev = values.trev + 1
    /\ ~Raising /\ holder.job.kind # "stop" => holder.doc.trev = values.trev
    /\ holder.again => holder.job.kind \in Approvals \cup {"expire"}

LEMMA HoldingStep ==
  ASSUME Typed, Holding, [Next]_vars
  PROVE  Holding'
<1>1. values \in Doc /\ values.trev \in Nat /\ (holder # None => holder \in Holder /\ holder.doc \in Doc)
      BY DocFields, FreedIs DEF Typed
<1>2. ASSUME holder' = None
      PROVE  Holding'
      BY <1>2 DEF Holding
<1>3. ASSUME SameHolder, values'.trev = values.trev
      PROVE  Holding'
      BY <1>3 DEF Holding, SameHolder, Raising
<1>4. ASSUME UNCHANGED <<values, holder>>
      PROVE  Holding'
      BY <1>4 DEF Holding, Raising
<1>5. CASE Cards
  <2>1. PICK q \in Queues : Begin(q) \/ Update(q) \/ Renew(q) \/ End(q) \/ Arrives(q) \/ Answered(q)
        BY <1>5 DEF Cards
  <2>2. CASE Arrives(q)
        BY <1>4, <2>2, CardArrives
  <2>3. CASE Answered(q)
        BY <1>4, <2>3, CardAnswered DEF server
  <2>4. CASE Begin(q) \/ Update(q) \/ Renew(q) \/ End(q)
        BY <1>4, <2>4, CardSends DEF server
  <2> QED BY <2>1, <2>2, <2>3, <2>4
<1>6. CASE Users
  <2>1. SameHolder /\ (values' = values \/ values' = Retired(values))
        BY <1>6, UserActs
  <2>2. values'.trev = values.trev
        BY <1>1, <2>1, RetiredIs
  <2> QED BY <1>3, <2>1, <2>2
<1>7. CASE EditRejected \/ Renewed \/ ExpiryEnds
      BY <1>2, <1>7, TurnRejected, TurnRenewed, TurnExpires
<1>8. CASE EditSaves
  <2>1. CASE holder' = None
        BY <1>2, <2>1
  <2>2. CASE holder' # None
    <3>1. /\ Turn /\ job.kind = "edit" /\ values' = Recovered(values, lease)
          /\ holder'.job = job /\ holder'.doc = EditedDoc(values') /\ ~holder'.again
          BY <1>8, <2>2, TurnEdits
    <3>2. job \in Job
          BY <3>1, TurnIs
    <3>3. values' \in Doc
          BY <3>1, RecoveredIs DEF Typed
    <3>4. EditedDoc(values').trev = values'.trev + 1
      <4>1. ASSUME NEW d \in Doc
            PROVE  EditedDoc(d).trev = d.trev + 1
            BY <3>1, <3>2, EditedDocIs
      <4> QED BY <3>3, <4>1
    <3>5. holder'.job.kind = "edit" /\ holder'.doc.trev = values'.trev + 1 /\ ~holder'.again
          BY <3>1, <3>4
    <3> QED BY <3>5 DEF Holding, Raising
  <2> QED BY <2>1, <2>2
<1>9. CASE SettingSaves \/ ApprovalSaves \/ StopSaves \/ ExpirySaves
  <2>1. CASE holder' = None
        BY <1>2, <2>1
  <2>2. CASE holder' # None
    <3>1. /\ Turn /\ values' = values /\ holder'.job = job /\ ~holder'.again /\ job.kind # "edit"
          /\ holder'.doc = CASE job.kind = "text" -> Drafted(values)
                             [] job.kind = "power" -> values
                             [] job.kind \in Approvals -> Approved(values)
                             [] job.kind = "stop" -> Putback(values)
                             [] job.kind = "expire" -> Rollback(values)
          BY <1>9, <2>2, TurnSaves
    <3>2. job \in Job /\ job.kind \in {"text", "power", "start", "apply", "stop", "expire"}
          BY <3>1, TurnIs, JobFields
    <3>3. CASE job.kind = "text"
      <4>1. holder'.doc.trev = values'.trev + 1 /\ holder'.job.kind = "text" /\ ~holder'.again
            BY <1>1, <3>1, <3>2, <3>3, DraftedIs DEF Approvals
      <4> QED BY <4>1 DEF Holding, Raising
    <3>4. CASE job.kind = "power"
      <4>1. holder'.doc.trev = values'.trev /\ holder'.job.kind = "power" /\ ~holder'.again
            BY <3>1, <3>4 DEF Approvals
      <4> QED BY <4>1 DEF Holding, Raising, Approvals
    <3>5. CASE job.kind \in Approvals
      <4>1. holder'.doc = Approved(values)
            BY <3>1, <3>5 DEF Approvals
      <4>2. holder'.doc.trev = values'.trev + 1 /\ holder'.job.kind \in Approvals /\ ~holder'.again
            BY <1>1, <3>1, <3>5, <4>1, ApprovedIs
      <4> QED BY <4>2 DEF Holding, Raising, Approvals
    <3>6. CASE job.kind = "stop"
      <4>1. holder'.job.kind = "stop" /\ ~holder'.again
            BY <3>1, <3>6
      <4> QED BY <4>1 DEF Holding, Raising, Approvals
    <3>7. CASE job.kind = "expire"
      <4>1. holder'.doc = Rollback(values)
            BY <3>1, <3>7 DEF Approvals
      <4>2. holder'.doc.trev = values'.trev + 1 /\ holder'.job.kind = "expire" /\ ~holder'.again
            BY <1>1, <3>1, <3>7, <4>1, RollbackIs
      <4> QED BY <4>2 DEF Holding, Raising
    <3> QED BY <3>2, <3>3, <3>4, <3>5, <3>6, <3>7 DEF Approvals
  <2> QED BY <2>1, <2>2
<1>10. CASE EditStored \/ SettingStored \/ StopStored \/ AgainStored \/ NotStored
      BY <1>2, <1>10, EditIsStored, SettingIsStored, StopIsStored, AgainIsStored, NothingStored
<1>11. CASE ApprovalStored
  <2>1. CASE holder' = None
        BY <1>2, <2>1
  <2>2. CASE holder' # None
    <3>1. /\ holder.job.kind \in Approvals /\ holder'.job = holder.job /\ holder'.again
          /\ holder'.doc.trev = values'.trev
          BY <1>11, <2>2, ApprovalIsStored
    <3> QED BY <3>1 DEF Holding, Raising, Approvals
  <2> QED BY <2>1, <2>2
<1>12. CASE ExpiryStored
  <2>1. CASE holder' = None
        BY <1>2, <2>1
  <2>2. CASE holder' # None
    <3>1. /\ holder.job.kind = "expire" /\ holder'.job = holder.job /\ holder'.again
          /\ holder'.doc = values'
          BY <1>12, <2>2, ExpiryIsStored
    <3> QED BY <3>1 DEF Holding, Raising, Approvals
  <2> QED BY <2>1, <2>2
<1>13. CASE Fires
      BY <1>4, <1>13, TimerFires
<1>14. CASE Tick
  <2>1. CASE holder = None
        BY <1>2, <1>14, <2>1, TimePasses
  <2>2. CASE holder # None
    <3>1. /\ holder'.job = holder.job /\ holder'.again = holder.again
          /\ holder'.doc = Aged(holder.doc) /\ values' = Aged(values)
          BY <1>14, <2>2, TimePasses
    <3>2. holder'.doc.trev = holder.doc.trev /\ values'.trev = values.trev
          BY <1>1, <2>2, <3>1, AgedIs
    <3> QED BY <2>2, <3>1, <3>2 DEF Holding, Raising
  <2> QED BY <2>1, <2>2
<1>15. CASE UNCHANGED vars
      BY <1>4, <1>15 DEF vars, server
<1> QED BY <1>5, <1>6, <1>7, <1>8, <1>9, <1>10, <1>11, <1>12, <1>13, <1>14, <1>15
        DEF Next, Turns, Stored

(* What a step does to the revision, as far as the fence is concerned: it  *)
(* goes up, and stays where nobody new is fenced, unless a Stop puts it    *)
(* back and so marks what it passed. *)
Moves ==
  \/ values'.trev >= values.trev /\ twice' = twice /\ fenced' \subseteq fenced
  \/ values'.trev > values.trev /\ twice' = twice
  \/ values.trev <= twice' /\ twice <= twice' /\ fenced' = fenced

LEMMA StillBehind ==
  ASSUME Typed, Typed', Moves, NEW q \in Queues, NEW n \in Nat, Behind(q, n)
  PROVE  Behind(q, n)'
<1>1. values.trev \in Nat /\ values'.trev \in Nat /\ twice \in Nat /\ twice' \in Nat
      BY DocFields DEF Typed, Doc, Revision
<1> QED BY <1>1 DEF Moves, Behind, Old, Seen

LEMMA RecoveryMoves ==
  ASSUME Typed, values' = Recovered(values, lease), twice' = twice,
         ~Abandoned(values, lease) => fenced' = fenced
  PROVE  Moves
<1>1. values.trev \in Nat
      BY DocFields DEF Typed
<1>2. CASE Abandoned(values, lease)
      BY <1>1, <1>2, RecoveredIs DEF Typed, Moves
<1>3. CASE ~Abandoned(values, lease)
      BY <1>1, <1>3, RecoveredIs DEF Typed, Moves
<1> QED BY <1>2, <1>3

LEMMA StepMoves ==
  ASSUME Typed, Holding, [Next]_vars
  PROVE  Moves
<1>1. values \in Doc /\ values.trev \in Nat /\ twice \in Nat
      BY DocFields DEF Typed
<1>2. ASSUME holder # None
      PROVE  holder.job.kind \in {"edit", "text", "power", "start", "apply", "stop", "expire"}
             /\ holder.again \in BOOLEAN /\ holder.doc.trev \in Nat
  <2>1. holder.job \in Job /\ holder.doc \in Doc /\ holder.again \in BOOLEAN
        BY <1>2, FreedIs
  <2> QED BY <2>1, JobFields, DocFields
<1>3. CASE Cards
  <2>1. PICK q \in Queues : Begin(q) \/ Update(q) \/ Renew(q) \/ End(q) \/ Arrives(q) \/ Answered(q)
        BY <1>3 DEF Cards
  <2>2. CASE Arrives(q)
        BY <1>1, <2>2, CardArrives DEF Moves, marks
  <2>3. CASE Answered(q)
        BY <1>1, <2>3, CardAnswered DEF Moves, server, marks
  <2>4. CASE Begin(q) \/ Update(q) \/ Renew(q) \/ End(q)
        BY <1>1, <2>4, CardSends DEF Moves, server, marks
  <2> QED BY <2>1, <2>2, <2>3, <2>4
<1>4. CASE Users
      BY <1>1, <1>4, UserActs, RetiredIs DEF Moves, marks
<1>5. CASE EditRejected
      BY <1>5, TurnRejected, TurnIs, RecoveryMoves DEF marks
<1>6. CASE EditSaves
      BY <1>6, TurnEdits, TurnIs, RecoveryMoves DEF marks
<1>7. CASE Renewed
      BY <1>1, <1>7, TurnRenewed, TurnIs DEF Moves, marks
<1>8. CASE ExpiryEnds
  <2>1. twice' = twice
        BY <1>8, TurnExpires, TurnIs DEF marks
  <2>2. CASE values' = values /\ fenced' = fenced
        BY <1>1, <2>1, <2>2 DEF Moves
  <2> QED BY <1>8, <2>1, <2>2, TurnExpires, RecoveryMoves
<1>9. CASE SettingSaves \/ ApprovalSaves \/ StopSaves \/ ExpirySaves
      BY <1>1, <1>9, TurnSaves, TurnIs DEF Moves, marks
<1>10. CASE EditStored
  <2>1. /\ holder # None /\ holder.job.kind = "edit" /\ values' = holder.doc /\ UNCHANGED marks
        BY <1>10, EditIsStored
  <2> QED BY <1>1, <2>1 DEF Holding, Raising, Moves, marks
<1>11. CASE SettingStored
  <2>1. /\ holder # None /\ holder.job.kind \in {"text", "power"} /\ values' = holder.doc
        /\ UNCHANGED marks /\ (holder.job.kind = "power" => fenced' = fenced)
        BY <1>11, SettingIsStored
  <2> QED BY <1>1, <2>1 DEF Holding, Raising, Moves, marks, Approvals
<1>12. CASE ApprovalStored
  <2>1. /\ holder # None /\ holder.job.kind \in Approvals /\ ~holder.again
        /\ values'.trev = holder.doc.trev /\ UNCHANGED marks
        BY <1>12, ApprovalIsStored
  <2> QED BY <1>1, <2>1 DEF Holding, Raising, Moves, marks
<1>13. CASE ExpiryStored
  <2>1. /\ holder # None /\ holder.job.kind = "expire" /\ ~holder.again /\ UNCHANGED marks
        /\ values' = holder.doc \/ (values' = Retired(values) /\ fenced' = fenced)
        BY <1>13, ExpiryIsStored
  <2>2. CASE values' = holder.doc
        BY <1>1, <2>1, <2>2 DEF Holding, Raising, Moves, marks
  <2>3. CASE values' = Retired(values) /\ fenced' = fenced
        BY <1>1, <2>1, <2>3, RetiredIs DEF Moves, marks
  <2> QED BY <2>1, <2>2, <2>3
<1>14. CASE StopStored
  <2>1. /\ holder # None /\ values' = holder.doc /\ fenced' = fenced
        /\ twice' = IF holder.doc.trev < values.trev /\ twice < values.trev
                    THEN values.trev ELSE twice
        BY <1>14, StopIsStored
  <2> QED BY <1>1, <1>2, <2>1 DEF Moves
<1>15. CASE AgainStored
  <2>1. /\ holder # None /\ holder.again /\ values' = holder.doc /\ fenced' = fenced
        /\ UNCHANGED marks
        BY <1>15, AgainIsStored
  <2>2. values'.trev = values.trev
        BY <1>2, <2>1 DEF Holding, Raising, Approvals
  <2> QED BY <1>1, <2>1, <2>2 DEF Moves, marks
<1>16. CASE NotStored \/ Fires
      BY <1>1, <1>16, NothingStored, TimerFires DEF Moves, marks
<1>17. CASE Tick
      BY <1>1, <1>17, TimePasses, AgedIs DEF Moves, marks
<1>18. CASE UNCHANGED vars
      BY <1>1, <1>18 DEF Moves, vars, server, marks
<1> QED BY <1>3, <1>4, <1>5, <1>6, <1>7, <1>8, <1>9, <1>10, <1>11, <1>12, <1>13, <1>14, <1>15,
           <1>16, <1>17, <1>18 DEF Next, Turns, Stored

(* The requests at the lock after a step, and the cards. *)
Requests ==
  \/ queue' = queue
  \/ Turns /\ Turn /\ queue # <<>> /\ queue' = Tail(queue)
  \/ \E j \in Job : /\ queue' = Append(queue, j)
                    /\ j.kind = "edit" => j.by \in Queues /\ j.rev = cards[j.by].rev

LEMMA StepRequests ==
  ASSUME Typed, [Next]_vars
  PROVE  Requests
<1>1. CASE Cards
  <2>1. PICK q \in Queues : Begin(q) \/ Update(q) \/ Renew(q) \/ End(q) \/ Arrives(q) \/ Answered(q)
        BY <1>1 DEF Cards
  <2>2. CASE Arrives(q)
        BY <2>2, CardArrives DEF Requests
  <2>3. CASE Answered(q)
        BY <2>3, CardAnswered DEF Requests, server
  <2>4. CASE Begin(q) \/ Update(q) \/ Renew(q) \/ End(q)
        BY <2>4, CardSends DEF Requests, server
  <2> QED BY <2>1, <2>2, <2>3, <2>4
<1>2. CASE Users
      BY <1>2, UserActs DEF Requests
<1>3. CASE Turns
  <2>1. Turn
        BY <1>3, TurnRejected, TurnRenewed, TurnEdits, TurnSaves, TurnExpires DEF Turns
  <2> QED BY <1>3, <2>1, TurnIs DEF Requests
<1>4. CASE Stored
      BY <1>4, EditIsStored, SettingIsStored, ApprovalIsStored, ExpiryIsStored, StopIsStored,
         AgainIsStored DEF Stored, Requests
<1>5. CASE NotStored \/ Tick
      BY <1>5, NothingStored, TimePasses DEF Requests
<1>6. CASE Fires
      BY <1>6, TimerFires DEF Requests
<1>7. CASE UNCHANGED vars
      BY <1>7 DEF Requests, vars, server
<1> QED BY <1>1, <1>2, <1>3, <1>4, <1>5, <1>6, <1>7 DEF Next

Views ==
  \A q \in Queues :
    \/ cards'[q].rev = cards[q].rev
    \/ cards'[q].rev = values.trev /\ values' = values /\ q \notin fenced'
    \/ /\ cards'[q].rev = cards[q].rev + 1 /\ values.trev > cards[q].rev /\ values' = values
       /\ q \in fenced' => values.trev # cards[q].rev + 1

LEMMA StepViews ==
  ASSUME Typed, [Next]_vars
  PROVE  Views
<1>1. CASE Cards
  <2>1. PICK q \in Queues : Begin(q) \/ Update(q) \/ Renew(q) \/ End(q) \/ Arrives(q) \/ Answered(q)
        BY <1>1 DEF Cards
  <2>2. CASE Arrives(q)
        BY <2>2, CardArrives DEF Views
  <2>3. CASE Answered(q)
    <3>1. /\ values' = values /\ \A p \in Queues \ {q} : cards'[p] = cards[p]
          /\ \/ cards'[q].rev = cards[q].rev /\ fenced' = fenced
             \/ /\ cards'[q].rev = cards[q].rev + 1 /\ values.trev > cards[q].rev
                /\ fenced' = IF values.trev = cards[q].rev + 1 THEN fenced \ {q} ELSE fenced
          BY <2>3, CardAnswered DEF server
    <3> QED BY <3>1 DEF Views
  <2>4. CASE Begin(q) \/ Update(q) \/ Renew(q) \/ End(q)
    <3>1. /\ values' = values /\ \A p \in Queues \ {q} : cards'[p] = cards[p]
          /\ \/ cards'[q].rev = values.trev /\ fenced' = fenced \ {q}
             \/ cards'[q].rev = cards[q].rev /\ fenced' = fenced
          BY <2>4, CardSends DEF server
    <3> QED BY <3>1 DEF Views
  <2> QED BY <2>1, <2>2, <2>3, <2>4
<1>2. ASSUME \A q \in Queues : cards'[q].rev = cards[q].rev
      PROVE  Views
      BY <1>2 DEF Views
<1>3. CASE Users
      BY <1>2, <1>3, UserActs
<1>4. CASE Turns
      BY <1>2, <1>4, TurnRejected, TurnRenewed, TurnEdits, TurnSaves, TurnExpires DEF Turns
<1>5. CASE Stored
      BY <1>2, <1>5, EditIsStored, SettingIsStored, ApprovalIsStored, ExpiryIsStored, StopIsStored,
         AgainIsStored DEF Stored
<1>6. CASE NotStored \/ Tick \/ Fires
      BY <1>2, <1>6, NothingStored, TimePasses, TimerFires
<1>7. CASE UNCHANGED vars
      BY <1>2, <1>7 DEF vars
<1> QED BY <1>1, <1>3, <1>4, <1>5, <1>6, <1>7 DEF Next

LEMMA KnowsStep ==
  ASSUME Typed, Typed', Holding, Knows, [Next]_vars
  PROVE  Knows'
<1>1. Moves /\ Requests /\ Views
      BY StepMoves, StepRequests, StepViews
<1>2. values.trev \in Nat /\ values'.trev \in Nat /\ twice \in Nat /\ twice' \in Nat
      BY DocFields DEF Typed, Doc, Revision
<1>3. ASSUME NEW q \in Queues
      PROVE  Behind(q, cards[q].rev)'
  <2>1. Behind(q, cards[q].rev) /\ cards[q].rev \in Nat
        BY CardFields DEF Knows
  <2>2. \A n \in Nat : Behind(q, n) => Behind(q, n)'
        BY <1>1, StillBehind
  <2>3. PICK n : n = cards[q].rev
        OBVIOUS
  <2>4. Behind(q, n)' /\ n \in Nat
        BY <2>1, <2>2, <2>3
  <2>5. CASE cards'[q].rev = cards[q].rev
        BY <2>3, <2>4, <2>5 DEF Behind, Old, Seen
  <2>6. CASE cards'[q].rev = values.trev /\ values' = values /\ q \notin fenced'
        BY <1>2, <2>6 DEF Behind, Old, Seen
  <2>7. CASE /\ cards'[q].rev = cards[q].rev + 1 /\ values.trev > cards[q].rev /\ values' = values
             /\ q \in fenced' => values.trev # cards[q].rev + 1
        BY <1>2, <2>1, <2>7 DEF Behind, Old, Seen
  <2> QED BY <1>1, <2>5, <2>6, <2>7 DEF Views
<1>4. ASSUME NEW j \in Job, j.kind = "edit", Behind(j.by, j.rev)
      PROVE  Behind(j.by, j.rev)'
  <2>1. j.by \in Queues /\ j.rev \in Nat
        BY <1>4, JobFields
  <2> QED BY <1>1, <1>4, <2>1, StillBehind
<1>5. \A k \in DOMAIN queue : queue[k] \in Job
      BY DEF Typed
<1>6. ASSUME NEW k \in DOMAIN queue', queue'[k].kind = "edit"
      PROVE  Behind(queue[k].by, queue[k].rev)'
  <2>1. ASSUME NEW m \in DOMAIN queue, queue'[k] = queue[m]
        PROVE  Behind(queue[k].by, queue[k].rev)'
    <3>1. PICK j \in Job : j = queue[m]
          BY <1>5
    <3>2. j.kind = "edit" /\ Behind(j.by, j.rev)
          BY <1>6, <2>1, <3>1 DEF Knows
    <3>3. Behind(j.by, j.rev)'
          BY <1>4, <3>2
    <3> QED BY <2>1, <3>1, <3>3
  <2>2. CASE queue' = queue
        BY <2>1, <2>2
  <2>3. CASE queue # <<>> /\ queue' = Tail(queue)
    <3>1. k + 1 \in DOMAIN queue /\ queue'[k] = queue[k + 1]
          BY <2>3, TailElements DEF Typed
    <3> QED BY <2>1, <3>1
  <2>4. ASSUME NEW j \in Job, queue' = Append(queue, j),
               j.kind = "edit" => j.by \in Queues /\ j.rev = cards[j.by].rev
        PROVE  Behind(queue[k].by, queue[k].rev)'
    <3>1. (k \in DOMAIN queue /\ queue'[k] = queue[k]) \/ queue'[k] = j
          BY <2>4, AppendElements DEF Typed
    <3>2. CASE queue'[k] = j
      <4>1. j.kind = "edit" /\ Behind(j.by, j.rev)
            BY <1>6, <2>4, <3>2 DEF Knows
      <4>2. Behind(j.by, j.rev)'
            BY <1>4, <4>1
      <4> QED BY <3>2, <4>2
    <3> QED BY <2>1, <3>1, <3>2
  <2> QED BY <1>1, <2>2, <2>3, <2>4 DEF Requests
<1>7. \A q \in Queues : Behind(q, cards[q].rev)'
      BY <1>3
<1>8. \A k \in DOMAIN queue' : queue'[k].kind = "edit" => Behind(queue[k].by, queue[k].rev)'
      BY <1>6
<1> QED BY <1>7, <1>8 DEF Knows

(* Nobody but the next turn takes a task from the queue. *)
LEMMA TakenByTurn ==
  ASSUME Typed, [Next]_vars, Free, queue' = Tail(queue)
  PROVE  Turns /\ Turn
<1>1. Requests
      BY StepRequests
<1>2. queue \in Seq(Job) /\ queue # <<>> /\ Len(Tail(queue)) = Len(queue) - 1 /\ Len(queue) \in Nat
      BY TailElements DEF Typed, Free
<1>3. CASE queue' = queue
      BY <1>2, <1>3
<1>4. CASE \E j \in Job : queue' = Append(queue, j)
  <2>1. PICK j \in Job : queue' = Append(queue, j)
        BY <1>4
  <2>2. Len(Append(queue, j)) = Len(queue) + 1
        BY <1>2, AppendElements
  <2> QED BY <1>2, <2>1, <2>2
<1> QED BY <1>1, <1>3, <1>4 DEF Requests

LEMMA FencedStep ==
  ASSUME Typed, Knows, [Next]_vars
  PROVE  Free /\ queue' = Tail(queue) /\ job.kind = "edit" /\ job.by \in fenced
           /\ job.rev > twice => EditAnswered("failed")
<1> SUFFICES ASSUME Free, queue' = Tail(queue), job.kind = "edit", job.by \in fenced, job.rev > twice
             PROVE  EditAnswered("failed")
    OBVIOUS
<1>1. Turns /\ Turn
      BY TakenByTurn
<1>2. job \in Job /\ job.rev \in Nat /\ values.trev \in Nat /\ twice \in Nat
      BY <1>1, TurnIs, JobFields, DocFields DEF Typed
<1>3. job.rev < values.trev
  <2>1. job = queue[1] /\ 1 \in DOMAIN queue
        BY <1>1, TurnIs
  <2>2. Behind(job.by, job.rev)
        BY <2>1 DEF Knows
  <2> QED BY <1>2, <2>2 DEF Behind, Old
<1>4. Recovered(values, lease).trev >= values.trev
      BY <1>2, RecoveredIs DEF Typed
<1>5. CASE EditRejected
      BY <1>5, TurnRejected DEF EditAnswered
<1>6. CASE Renewed
  <2>1. job.rev = values.trev
        BY <1>6, TurnRenewed DEF Current
  <2> QED BY <1>2, <1>3, <2>1
<1>7. CASE EditSaves
  <2>1. job.rev = Recovered(values, lease).trev
        BY <1>7, TurnEdits DEF Current
  <2>2. Recovered(values, lease).trev \in Nat
        BY <1>2, <2>1
  <2> QED BY <1>2, <1>3, <1>4, <2>1, <2>2
<1>8. CASE SettingSaves \/ ApprovalSaves \/ StopSaves \/ ExpiryEnds \/ ExpirySaves
      BY <1>8, TurnSaves, TurnExpires
<1> QED BY <1>1, <1>5, <1>6, <1>7, <1>8 DEF Turns

Fence == Typed /\ Holding /\ Knows

LEMMA FenceInit == Init => Fence
<1> SUFFICES ASSUME Init PROVE Fence
    OBVIOUS
<1>1. Typed
      BY TypedInit
<1>2. holder = None /\ queue = <<>> /\ twice = 0 /\ fenced = {}
      /\ \A q \in Queues : cards[q].rev = 0
      BY DEF Init
<1>3. Knows
      BY <1>2 DEF Knows, Behind, Old, Seen
<1> QED BY <1>1, <1>2, <1>3 DEF Fence, Holding

LEMMA FenceStep ==
  ASSUME Fence, [Next]_vars
  PROVE  Fence'
BY TypedStep, HoldingStep, KnowsStep DEF Fence

(* What anybody else did to the times since a browser took them into view  *)
(* fences its requests: they are refused, however late they arrive         *)
(* (Settings.edit_timing), unless a Stop has put an older revision back.   *)
THEOREM FencedHolds == Spec => Fenced
<1>1. Fence /\ [Next]_vars =>
        [Free /\ queue' = Tail(queue) /\ job.kind = "edit" /\ job.by \in fenced
           /\ job.rev > twice => EditAnswered("failed")]_vars
      BY FencedStep DEF Fence
<1>2. Init => Fence
      BY FenceInit
<1>3. Fence /\ [Next]_vars => Fence'
      BY FenceStep
<1> QED BY <1>1, <1>2, <1>3, PTL DEF Spec, Fenced

-----------------------------------------------------------------------------
(* Time *)

(* Edit and lease belong together, and count down to where left does: the  *)
(* edit has the revision of the document, an active one has its lease. *)
Fits(d, l, left) ==
  /\ l # None => l.revision <= d.trev
  /\ d.edit # None =>
       /\ d.edit.revision = d.trev
       /\ d.edit.active => /\ l # None /\ l.owner = d.edit.owner /\ l.revision = d.edit.revision
                           /\ left = AtLeastZero(l.left + Grace)
       /\ ~d.edit.active => left = d.edit.left

(* What is left when the save is over. *)
Promise(h) ==
  IF h.job.kind = "text" \/ (h.job.kind = "edit" /\ h.job.verb = "end") THEN Grace
  ELSE Lease + Grace
Promised == IF holder.job.kind \in {"edit", "text"} THEN AtLeastZero(Promise(holder) - holder.age) ELSE due

Timely ==
  /\ Fits(values, lease, due)
  /\ holder # None =>
       /\ Fits(holder.doc, holder.lease, Promised)
       /\ holder.job.kind \notin {"edit", "text", "power"} =>
            holder.doc.edit = None /\ holder.lease = None

LEMMA FitsWithout ==
  ASSUME NEW d, NEW left, d.edit = None
  PROVE  Fits(d, None, left)
BY DEF Fits

LEMMA FitsAfter ==
  ASSUME NEW d, NEW e, NEW l, NEW left, Fits(d, l, left), e.trev = d.trev, e.edit = None
  PROVE  Fits(e, l, left)
BY DEF Fits

LEMMA LeaseIsNotNone == None \notin LeaseRecord
BY NoneAssumption

LEMMA FitsKept ==
  ASSUME NEW d \in Doc, NEW l \in Leases, NEW left, Fits(d, l, left)
  PROVE  /\ Fits(d, LeaseOf(d, l), left)
         /\ d.edit = None => LeaseOf(d, l) = None
<1>1. CASE d.edit = None
  <2>1. LeaseOf(d, l) = None
        BY <1>1, LeaseOfIs
  <2> QED BY <1>1, <2>1, FitsWithout
<1>2. CASE d.edit # None /\ ~d.edit.active
  <2>1. LeaseOf(d, l) = None
        BY <1>2, LeaseOfIs
  <2> QED BY <1>2, <2>1 DEF Fits
<1>3. CASE d.edit # None /\ d.edit.active
  <2>1. l # None /\ l.owner = d.edit.owner /\ l.revision = d.edit.revision
        BY <1>3 DEF Fits
  <2>2. LeaseOf(d, l) = l
        BY <1>3, <2>1, LeaseOfIs
  <2> QED BY <1>3, <2>2
<1>4. d.edit # None => d.edit.active \in BOOLEAN
      BY DocFields, EditFields
<1> QED BY <1>1, <1>2, <1>3, <1>4

(* A new edit has a new lease, or the grace period. *)
LEMMA FitsFresh ==
  ASSUME NEW d \in Doc, NEW l \in Leases, l # None => l.revision < d.trev,
         d.edit # None => d.edit.revision = d.trev /\ (~d.edit.active => d.edit.left = Grace),
         NEW left \in Nat,
         d.edit # None => left = IF d.edit.active THEN Lease + Grace ELSE Grace
  PROVE  /\ Fits(d, LeaseOf(d, l), left)
         /\ d.edit = None => LeaseOf(d, l) = None
<1>1. CASE d.edit = None
  <2>1. LeaseOf(d, l) = None
        BY <1>1, LeaseOfIs
  <2> QED BY <1>1, <2>1, FitsWithout
<1>2. CASE d.edit # None /\ ~d.edit.active
  <2>1. LeaseOf(d, l) = None
        BY <1>2, LeaseOfIs
  <2> QED BY <1>2, <2>1 DEF Fits
<1>3. CASE d.edit # None /\ d.edit.active
  <2>1. /\ LeaseOf(d, l) \in LeaseRecord
        /\ LeaseOf(d, l).owner = d.edit.owner /\ LeaseOf(d, l).revision = d.edit.revision
        /\ LeaseOf(d, l) # l => LeaseOf(d, l).left = Lease
        BY <1>3, LeaseOfIs
  <2>2. d.trev \in Nat /\ d.edit.revision = d.trev
        BY <1>3, DocFields
  <2>3. LeaseOf(d, l) # None /\ LeaseOf(d, l).revision <= d.trev
        BY <2>1, <2>2, LeaseIsNotNone
  <2>4. l # LeaseOf(d, l)
    <3>1. CASE l = None
          BY <2>3, <3>1
    <3>2. CASE l # None
      <4>1. l.revision \in Nat
            BY <3>2, LeaseFields DEF Leases
      <4> QED BY <2>1, <2>2, <3>2, <4>1
    <3> QED BY <3>1, <3>2
  <2>5. left = AtLeastZero(LeaseOf(d, l).left + Grace)
        BY <1>3, <2>1, <2>4, Periods DEF AtLeastZero
  <2> QED BY <1>3, <2>1, <2>2, <2>3, <2>5 DEF Fits
<1>4. d.edit # None => d.edit.active \in BOOLEAN
      BY DocFields, EditFields
<1> QED BY <1>1, <1>2, <1>3, <1>4

LEMMA FitsAges ==
  ASSUME NEW d \in Doc, NEW l \in Leases, NEW left \in Nat, Fits(d, l, left)
  PROVE  Fits(Aged(d), AgedLease(l), AtLeastZero(left - 1))
<1> DEFINE e == Aged(d)
           m == AgedLease(l)
<1>1. /\ e.trev = d.trev /\ d.trev \in Nat
      /\ d.edit = None => e.edit = None
      /\ e.edit # None => /\ e.edit.active = d.edit.active /\ e.edit.revision = d.edit.revision
                          /\ e.edit.owner = d.edit.owner
                          /\ ~d.edit.active => e.edit.left = AtLeastZero(d.edit.left - 1)
      BY AgedIs, DocFields
<1>2. /\ l = None => m = None
      /\ l # None => /\ m \in LeaseRecord /\ m.owner = l.owner /\ m.revision = l.revision
                     /\ m.left = IF l.left = -Grace THEN l.left ELSE l.left - 1
      BY AgedLeaseIs
<1>3. l # None => l.left \in -Grace..Lease /\ l.left \in Int
      BY LeaseFields DEF Leases
<1> HIDE DEF e, m
<1>4. m # None => m.revision <= e.trev
      BY <1>1, <1>2 DEF Fits
<1>5. ASSUME e.edit # None
      PROVE  e.edit.revision = e.trev
      BY <1>1, <1>5 DEF Fits
<1>6. ASSUME e.edit # None, d.edit.active
      PROVE  /\ m # None /\ m.owner = e.edit.owner /\ m.revision = e.edit.revision
             /\ AtLeastZero(left - 1) = AtLeastZero(m.left + Grace)
  <2>1. /\ l # None /\ l.owner = d.edit.owner /\ l.revision = d.edit.revision
        /\ left = AtLeastZero(l.left + Grace)
        BY <1>1, <1>6 DEF Fits
  <2>2. AtLeastZero(left - 1) = AtLeastZero(m.left + Grace)
        BY <1>2, <1>3, <2>1, Periods DEF AtLeastZero
  <2> QED BY <1>1, <1>2, <1>6, <2>1, <2>2, LeaseIsNotNone
<1>7. ASSUME e.edit # None, ~d.edit.active
      PROVE  AtLeastZero(left - 1) = e.edit.left
      BY <1>1, <1>7 DEF Fits
<1>8. d.edit # None => d.edit.active \in BOOLEAN
      BY DocFields, EditFields
<1>9. Fits(e, m, AtLeastZero(left - 1))
      BY <1>1, <1>4, <1>5, <1>6, <1>7, <1>8 DEF Fits
<1> QED BY <1>9 DEF e, m

LEMMA FitsRecovered ==
  ASSUME NEW d \in Doc, NEW l \in Leases, NEW left, Fits(d, l, left)
  PROVE  Fits(Recovered(d, l), RecoveredLease(d, l), left)
<1>1. CASE ~Abandoned(d, l)
      BY <1>1, RecoveredIs
<1>2. CASE Abandoned(d, l)
  <2>1. d.edit \in Edit /\ d.edit.active /\ d.edit # None
        BY <1>2, AbandonedIs DEF Abandoned
  <2>2. left = AtLeastZero(l.left + Grace)
        BY <2>1 DEF Fits
  <2>3. /\ Recovered(d, l).trev = d.trev + 1 /\ RecoveredLease(d, l) = None
        /\ Recovered(d, l).edit # None =>
             /\ Recovered(d, l).edit.revision = d.trev + 1 /\ ~Recovered(d, l).edit.active
             /\ Recovered(d, l).edit.left = AtLeastZero(l.left + Grace)
        BY <1>2, RecoveredIs
  <2> QED BY <2>2, <2>3 DEF Fits
<1> QED BY <1>1, <1>2

LEMMA TimelyFree ==
  ASSUME holder' = None, Fits(values', lease', due')
  PROVE  Timely'
<1>1. Fits(values, lease, due)'
      BY DEF Fits
<1> QED BY <1>1 DEF Timely

(* A new save promises what it has just been given. *)
LEMMA TimelySaves ==
  ASSUME Typed', Fits(values', lease', due'), holder' # None, holder'.age = 0,
         holder'.lease = LeaseOf(holder'.doc, lease'),
         \/ /\ holder'.job.kind \in {"edit", "text"}
            /\ lease' # None => lease'.revision < holder'.doc.trev
            /\ holder'.doc.edit # None =>
                 /\ holder'.doc.edit.revision = holder'.doc.trev
                 /\ ~holder'.doc.edit.active => holder'.doc.edit.left = Grace
                 /\ Promise(holder') = IF holder'.doc.edit.active THEN Lease + Grace ELSE Grace
         \/ holder'.job.kind = "power" /\ holder'.doc = values'
         \/ holder'.job.kind \notin {"edit", "text", "power"} /\ holder'.doc.edit = None
  PROVE  Timely'
<1> DEFINE d == holder'.doc
           l == lease'
           p == IF holder'.job.kind \in {"edit", "text"} THEN AtLeastZero(Promise(holder') - 0) ELSE due'
<1>1. d \in Doc /\ l \in Leases /\ values' \in Doc
      BY DEF Typed, Holder
<1>2. Promise(holder') \in Nat /\ AtLeastZero(Promise(holder') - 0) = Promise(holder')
      BY Periods DEF Promise, AtLeastZero
<1>3. Fits(d, LeaseOf(d, l), p) /\ (d.edit = None => LeaseOf(d, l) = None)
      /\ (holder'.job.kind \notin {"edit", "text", "power"} => d.edit = None)
  <2>1. CASE holder'.job.kind \in {"edit", "text"}
    <3> DEFINE left == Promise(holder')
    <3>1. /\ l # None => l.revision < d.trev
          /\ d.edit # None => d.edit.revision = d.trev /\ (~d.edit.active => d.edit.left = Grace)
          /\ d.edit # None => left = IF d.edit.active THEN Lease + Grace ELSE Grace
          /\ left \in Nat /\ p = left
          BY <1>2, <2>1
    <3> HIDE DEF d, l, left, p
    <3>2. Fits(d, LeaseOf(d, l), left) /\ (d.edit = None => LeaseOf(d, l) = None)
          BY <1>1, <3>1, FitsFresh
    <3> QED BY <2>1, <3>1, <3>2
  <2>2. CASE holder'.job.kind = "power"
    <3>1. d = values' /\ Fits(d, l, due') /\ p = due'
          BY <2>2
    <3> HIDE DEF d, l, p
    <3>2. Fits(d, LeaseOf(d, l), due') /\ (d.edit = None => LeaseOf(d, l) = None)
          BY <1>1, <3>1, FitsKept
    <3> QED BY <2>2, <3>1, <3>2
  <2>3. CASE holder'.job.kind \notin {"edit", "text", "power"}
    <3>1. d.edit = None
          BY <2>3
    <3> HIDE DEF d, l, p
    <3>2. LeaseOf(d, l) = None
          BY <1>1, <3>1, LeaseOfIs
    <3> QED BY <3>1, <3>2, FitsWithout
  <2> QED BY <2>1, <2>2, <2>3
<1>4. holder'.lease = LeaseOf(d, l)
      OBVIOUS
<1>5. p = Promised'
      BY DEF Promised, Promise
<1>6. Fits(holder'.doc, holder'.lease, Promised')
      BY <1>3, <1>4, <1>5
<1>7. Fits(values, lease, due)' /\ Fits(holder.doc, holder.lease, Promised)'
      BY <1>6 DEF Fits
<1>8. holder'.job.kind \notin {"edit", "text", "power"} =>
        holder'.doc.edit = None /\ holder'.lease = None
      BY <1>3, <1>4
<1> QED BY <1>7, <1>8 DEF Timely

LEMMA TimelyStays ==
  ASSUME Timely, SameHolder, UNCHANGED <<lease, due>>,
         values' = values \/ (values'.edit = None /\ values'.trev = values.trev)
  PROVE  Timely'
<1>1. Fits(values', lease', due')
      BY FitsAfter DEF Timely
<1>2. CASE holder = None
      BY <1>1, <1>2, TimelyFree DEF SameHolder
<1>3. CASE holder # None
  <2>1. /\ Fits(holder.doc, holder.lease, Promised)
        /\ holder.job.kind \notin {"edit", "text", "power"} =>
             holder.doc.edit = None /\ holder.lease = None
        BY <1>3 DEF Timely
  <2>2. /\ holder'.job = holder.job /\ holder'.doc = holder.doc
        /\ holder'.lease = holder.lease /\ holder'.age = holder.age
        BY <1>3 DEF SameHolder
  <2>3. Promised' = Promised
        BY <2>2 DEF Promised, Promise
  <2>4. Fits(values, lease, due)' /\ Fits(holder.doc, holder.lease, Promised)'
        BY <1>1, <2>1, <2>2, <2>3 DEF Fits
  <2> QED BY <2>1, <2>2, <2>4 DEF Timely
<1> QED BY <1>2, <1>3

(* A second write, and what it finds. *)
LEMMA TimelyAgain ==
  ASSUME Fits(values', lease', due'), holder' # None,
         holder'.doc.edit = None, holder'.lease = None
  PROVE  Timely'
<1>1. Fits(holder'.doc, None, Promised')
      BY FitsWithout
<1>2. Fits(values, lease, due)' /\ Fits(holder.doc, holder.lease, Promised)'
      BY <1>1 DEF Fits
<1> QED BY <1>2 DEF Timely

LEMMA TimelyTick ==
  ASSUME Typed, Timely, Tick
  PROVE  Timely'
<1>1. /\ values' = Aged(values) /\ lease' = AgedLease(lease) /\ due' = AtLeastZero(due - 1)
      /\ values \in Doc /\ lease \in Leases /\ due \in Nat
      BY TimePasses DEF Typed
<1>2. Fits(values', lease', due')
      BY <1>1, FitsAges DEF Timely
<1>3. CASE holder = None
      BY <1>2, <1>3, TimePasses, TimelyFree
<1>4. CASE holder # None
  <2>1. /\ holder'.job = holder.job /\ holder'.doc = Aged(holder.doc)
        /\ holder'.lease = AgedLease(holder.lease)
        /\ holder'.age = IF holder.age = Lease + Grace THEN holder.age ELSE holder.age + 1
        BY <1>4, TimePasses
  <2>2. holder.doc \in Doc /\ holder.lease \in Leases /\ holder.age \in 0..Lease + Grace
        BY <1>4, FreedIs
  <2>3. Promise(holder) \in Nat /\ Promise(holder) <= Lease + Grace /\ Promise(holder') = Promise(holder)
        BY <2>1, Periods DEF Promise
  <2>4. Promised \in Nat /\ Promised' = AtLeastZero(Promised - 1)
        BY <1>1, <2>1, <2>2, <2>3, Periods DEF Promised, AtLeastZero
  <2>5. Fits(holder'.doc, holder'.lease, Promised')
        BY <1>4, <2>1, <2>2, <2>4, FitsAges DEF Timely
  <2>6. Fits(values, lease, due)' /\ Fits(holder.doc, holder.lease, Promised)'
        BY <1>2, <2>5 DEF Fits
  <2>7. holder.doc.edit = None /\ holder.lease = None => holder'.doc.edit = None /\ holder'.lease = None
        BY <2>1, <2>2, AgedIs, AgedLeaseIs
  <2> QED BY <1>4, <2>1, <2>6, <2>7 DEF Timely
<1> QED BY <1>3, <1>4

LEMMA TimelyTurn ==
  ASSUME Typed, Typed', Timely, Turns
  PROVE  Timely'
<1>1. values \in Doc /\ lease \in Leases /\ values' \in Doc /\ lease' \in Leases
      BY DEF Typed
<1>2. ASSUME values' = Recovered(values, lease), lease' = RecoveredLease(values, lease), due' = due
      PROVE  Fits(values', lease', due')
      BY <1>1, <1>2, FitsRecovered DEF Timely
<1>3. ASSUME UNCHANGED <<values, lease, due>>
      PROVE  Fits(values', lease', due')
      BY <1>3 DEF Timely
<1>4. ASSUME Fits(values', lease', due'), lease' # None, NEW n \in Nat, values'.trev < n
      PROVE  lease'.revision < n
  <2>1. lease'.revision \in Nat /\ values'.trev \in Nat /\ lease'.revision <= values'.trev
        BY <1>1, <1>4, LeaseFields, DocFields DEF Leases, Fits
  <2> QED BY <1>4, <2>1
<1>5. CASE EditRejected
      BY <1>2, <1>5, TurnRejected, TimelyFree
<1>6. CASE ExpiryEnds
  <2>1. holder' = None /\ due' = due
        BY <1>6, TurnExpires
  <2>2. UNCHANGED <<values, lease>>
        \/ (values' = Recovered(values, lease) /\ lease' = RecoveredLease(values, lease))
        BY <1>6, TurnExpires
  <2> QED BY <1>2, <1>3, <2>1, <2>2, TimelyFree
<1>7. CASE Renewed
  <2>1. /\ holder' = None /\ values' = values /\ Turn /\ job.verb = "renew"
        /\ Current(values) /\ Renewable(values) /\ lease' \in LeaseRecord /\ due' = Lease + Grace
        /\ lease' = [owner |-> job.by, revision |-> job.rev, left |-> Lease]
        BY <1>7, TurnRenewed
  <2>2. /\ values.edit # None /\ values.edit.active /\ values.edit.owner = job.by
        /\ job.rev = values.trev
        BY <2>1 DEF Current, Renewable
  <2>3. values.edit.revision = values.trev /\ values.trev \in Nat
        BY <1>1, <2>2, DocFields DEF Timely, Fits
  <2>4. /\ lease'.owner = values'.edit.owner /\ lease'.revision = values'.edit.revision
        /\ lease'.revision <= values'.trev /\ lease' # None /\ lease'.left = Lease
        BY <2>1, <2>2, <2>3, LeaseIsNotNone
  <2>5. due' = AtLeastZero(lease'.left + Grace)
        BY <2>1, <2>4, Periods DEF AtLeastZero
  <2>6. Fits(values', lease', due')
        BY <2>1, <2>2, <2>3, <2>4, <2>5 DEF Fits
  <2> QED BY <2>1, <2>6, TimelyFree
<1>8. CASE EditSaves
  <2>1. Fits(values', lease', due')
        BY <1>2, <1>8, TurnEdits
  <2>2. CASE holder' = None
        BY <2>1, <2>2, TimelyFree
  <2>3. CASE holder' # None
    <3>1. /\ Turn /\ job.kind = "edit" /\ job.verb # "renew" /\ holder'.job = job
          /\ holder'.doc = EditedDoc(values') /\ holder'.age = 0
          /\ holder'.lease = LeaseOf(EditedDoc(values'), lease')
          BY <1>8, <2>3, TurnEdits
    <3>2. job \in Job /\ job.verb \in {"begin", "update", "end"}
          BY <3>1, TurnIs, JobFields DEF Verbs
    <3>3. PICK d \in Doc : d = values'
          BY <1>1
    <3>4. /\ EditedDoc(d) \in Doc /\ EditedDoc(d).trev = d.trev + 1
          /\ EditedDoc(d).edit # None =>
               /\ EditedDoc(d).edit.revision = d.trev + 1
               /\ EditedDoc(d).edit.active <=> job.verb \in {"update", "begin"}
               /\ ~EditedDoc(d).edit.active => EditedDoc(d).edit.left = Grace
          BY <3>1, <3>2, EditedDocIs
    <3>5. holder'.doc = EditedDoc(d) /\ d.trev \in Nat
          BY <3>1, <3>3, DocFields
    <3>6. lease' # None => lease'.revision < holder'.doc.trev
          BY <1>4, <2>1, <3>3, <3>4, <3>5
    <3>7. holder'.doc.edit # None =>
            /\ holder'.doc.edit.revision = holder'.doc.trev
            /\ ~holder'.doc.edit.active => holder'.doc.edit.left = Grace
            /\ Promise(holder') = IF holder'.doc.edit.active THEN Lease + Grace ELSE Grace
          BY <3>1, <3>2, <3>4, <3>5 DEF Promise
    <3>8. holder'.lease = LeaseOf(holder'.doc, lease') /\ holder'.job.kind \in {"edit", "text"}
          BY <3>1
    <3> QED BY <2>1, <2>3, <3>1, <3>6, <3>7, <3>8, TimelySaves
  <2> QED BY <2>2, <2>3
<1>9. CASE SettingSaves \/ ApprovalSaves \/ StopSaves \/ ExpirySaves
  <2>1. Fits(values', lease', due')
        BY <1>3, <1>9, TurnSaves
  <2>2. CASE holder' = None
        BY <2>1, <2>2, TimelyFree
  <2>3. CASE holder' # None
    <3>1. /\ Turn /\ values' = values /\ holder'.job = job /\ job.kind # "edit" /\ holder'.age = 0
          /\ holder'.lease = LeaseOf(holder'.doc, lease')
          /\ holder'.doc = CASE job.kind = "text" -> Drafted(values)
                             [] job.kind = "power" -> values
                             [] job.kind \in Approvals -> Approved(values)
                             [] job.kind = "stop" -> Putback(values)
                             [] job.kind = "expire" -> Rollback(values)
          BY <1>9, <2>3, TurnSaves
    <3>2. job \in Job /\ job.kind \in {"text", "power", "start", "apply", "stop", "expire"}
          BY <3>1, TurnIs, JobFields
    <3>3. CASE job.kind = "text"
      <4>1. holder'.doc = Drafted(values) /\ values' = values
            BY <3>1, <3>3 DEF Approvals
      <4>2. /\ Drafted(values).trev = values.trev + 1 /\ values.trev \in Nat
            /\ Drafted(values).edit # None =>
                 /\ Drafted(values).edit.revision = values.trev + 1 /\ ~Drafted(values).edit.active
                 /\ Drafted(values).edit.left = Grace
            BY <1>1, <3>2, <3>3, DraftedIs, DocFields
      <4>3. lease' # None => lease'.revision < holder'.doc.trev
        <5>1. holder'.doc.trev \in Nat /\ values'.trev < holder'.doc.trev
              BY <4>1, <4>2
        <5> QED BY <1>4, <2>1, <5>1
      <4>4. holder'.doc.edit # None =>
              /\ holder'.doc.edit.revision = holder'.doc.trev
              /\ ~holder'.doc.edit.active => holder'.doc.edit.left = Grace
              /\ Promise(holder') = IF holder'.doc.edit.active THEN Lease + Grace ELSE Grace
            BY <3>1, <3>3, <4>1, <4>2 DEF Promise
      <4>5. holder'.job.kind \in {"edit", "text"}
            BY <3>1, <3>3
      <4> QED BY <2>1, <2>3, <3>1, <4>3, <4>4, <4>5, TimelySaves
    <3>4. CASE job.kind = "power"
      <4>1. holder'.doc = values' /\ holder'.job.kind = "power"
            BY <3>1, <3>4 DEF Approvals
      <4> QED BY <2>1, <2>3, <3>1, <4>1, TimelySaves
    <3>5. CASE job.kind \in {"start", "apply", "stop", "expire"}
      <4>1. holder'.doc \in {Approved(values), Putback(values), Rollback(values)}
            BY <3>1, <3>5 DEF Approvals
      <4>2. Approved(values).edit = None /\ Rollback(values).edit = None
            BY <1>1, ApprovedIs, RollbackIs
      <4>3. Putback(values).edit = None
            BY <1>1, RetiredIs DEF Putback, Retired, Doc
      <4>4. holder'.doc.edit = None /\ holder'.job.kind \notin {"edit", "text", "power"}
            BY <3>1, <3>5, <4>1, <4>2, <4>3
      <4> QED BY <2>1, <2>3, <3>1, <4>4, TimelySaves
    <3> QED BY <3>2, <3>3, <3>4, <3>5
  <2> QED BY <2>2, <2>3
<1> QED BY <1>5, <1>6, <1>7, <1>8, <1>9 DEF Turns

LEMMA TimelyStored ==
  ASSUME Typed, Typed', Holding, Timely, Stored
  PROVE  Timely'
<1>1. /\ holder # None => Fits(holder.doc, holder.lease, Promised)
      /\ holder # None /\ holder.job.kind \notin {"edit", "text", "power"} =>
           holder.doc.edit = None /\ holder.lease = None
      BY DEF Timely
<1>2. ASSUME holder # None, values' = holder.doc, lease' = holder.lease, due' = Promised, holder' = None
      PROVE  Timely'
      BY <1>1, <1>2, TimelyFree
<1>3. ASSUME holder # None, holder.job.kind \notin {"edit", "text", "power"},
             values' = holder.doc, lease' = holder.lease, holder' = None
      PROVE  Timely'
  <2>1. Fits(values', lease', due')
        BY <1>1, <1>3, FitsWithout
  <2> QED BY <1>3, <2>1, TimelyFree
<1>4. CASE EditStored
  <2>1. /\ holder # None /\ holder.job.kind = "edit" /\ holder' = None
        /\ values' = holder.doc /\ lease' = holder.lease
        /\ due' = AtLeastZero((IF holder.job.verb = "end" THEN Grace ELSE Lease + Grace) - holder.age)
        BY <1>4, EditIsStored
  <2>2. due' = Promised
        BY <2>1 DEF Promised, Promise
  <2> QED BY <1>2, <2>1, <2>2
<1>5. CASE SettingStored
  <2>1. /\ holder # None /\ holder.job.kind \in {"text", "power"} /\ holder' = None
        /\ values' = holder.doc /\ lease' = holder.lease
        /\ holder.job.kind = "text" => due' = AtLeastZero(Grace - holder.age)
        /\ holder.job.kind = "power" => due' = due
        BY <1>5, SettingIsStored
  <2>2. due' = Promised
        BY <2>1 DEF Promised, Promise
  <2> QED BY <1>2, <2>1, <2>2
<1>6. CASE ApprovalStored
  <2>1. /\ holder # None /\ holder.job.kind \in Approvals
        /\ values'.edit = holder.doc.edit /\ lease' = holder.lease
        /\ holder' # None => holder'.doc.edit = None /\ holder'.lease = None
        BY <1>6, ApprovalIsStored
  <2>2. values'.edit = None /\ lease' = None
        BY <1>1, <2>1 DEF Approvals
  <2>3. Fits(values', lease', due')
        BY <2>2, FitsWithout
  <2> QED BY <2>1, <2>3, TimelyFree, TimelyAgain
<1>7. CASE ExpiryStored
  <2>1. /\ holder # None /\ holder.job.kind = "expire" /\ lease' = holder.lease
        /\ \/ values' = holder.doc /\ holder' = None
           \/ values' = Retired(values) /\ holder'.doc = values' /\ holder'.lease = None
        BY <1>7, ExpiryIsStored
  <2>2. CASE values' = holder.doc /\ holder' = None
        BY <1>3, <2>1, <2>2
  <2>3. CASE values' = Retired(values) /\ holder'.doc = values' /\ holder'.lease = None
    <3>1. values'.edit = None /\ lease' = None
          BY <1>1, <2>1, <2>3, RetiredIs DEF Typed
    <3>2. Fits(values', lease', due')
          BY <3>1, FitsWithout
    <3> QED BY <2>3, <3>1, <3>2, TimelyFree, TimelyAgain
  <2> QED BY <2>1, <2>2, <2>3
<1>8. CASE StopStored
  <2>1. /\ holder # None /\ holder.job.kind = "stop" /\ holder' = None
        /\ values' = holder.doc /\ lease' = holder.lease
        BY <1>8, StopIsStored
  <2> QED BY <1>3, <2>1
<1>9. CASE AgainStored
  <2>1. /\ holder # None /\ holder.again /\ holder' = None
        /\ values' = holder.doc /\ lease' = holder.lease
        BY <1>9, AgainIsStored
  <2>2. holder.job.kind \notin {"edit", "text", "power"}
        BY <2>1 DEF Holding, Approvals
  <2> QED BY <1>3, <2>1, <2>2
<1> QED BY <1>4, <1>5, <1>6, <1>7, <1>8, <1>9 DEF Stored

LEMMA TimelyStep ==
  ASSUME Typed, Typed', Holding, Timely, [Next]_vars
  PROVE  Timely'
<1>1. ASSUME UNCHANGED <<values, lease, holder, due>>
      PROVE  Timely'
  <2>1. SameHolder
        BY <1>1 DEF SameHolder, Typed
  <2> QED BY <1>1, <2>1, TimelyStays
<1>2. CASE Cards
  <2>1. PICK q \in Queues : Begin(q) \/ Update(q) \/ Renew(q) \/ End(q) \/ Arrives(q) \/ Answered(q)
        BY <1>2 DEF Cards
  <2>2. UNCHANGED <<values, lease, holder, due>>
    <3>1. CASE Arrives(q)
          BY <3>1, CardArrives
    <3>2. CASE Answered(q)
          BY <3>2, CardAnswered DEF server
    <3>3. CASE Begin(q) \/ Update(q) \/ Renew(q) \/ End(q)
          BY <3>3, CardSends DEF server
    <3> QED BY <2>1, <3>1, <3>2, <3>3
  <2> QED BY <1>1, <2>2
<1>3. CASE Users
  <2>1. /\ SameHolder /\ UNCHANGED <<lease, due>>
        /\ values' = values \/ values' = Retired(values)
        BY <1>3, UserActs
  <2>2. Retired(values).edit = None /\ Retired(values).trev = values.trev
        BY RetiredIs DEF Typed
  <2> QED BY <2>1, <2>2, TimelyStays
<1>4. CASE Turns
      BY <1>4, TimelyTurn
<1>5. CASE Stored
      BY <1>5, TimelyStored
<1>6. CASE NotStored
  <2>1. UNCHANGED <<values, lease, due>> /\ holder' = None
        BY <1>6, NothingStored
  <2> QED BY <2>1, TimelyFree DEF Timely
<1>7. CASE Fires
      BY <1>1, <1>7, TimerFires
<1>8. CASE Tick
      BY <1>8, TimelyTick
<1>9. CASE UNCHANGED vars
      BY <1>1, <1>9 DEF vars, server
<1> QED BY <1>2, <1>3, <1>4, <1>5, <1>6, <1>7, <1>8, <1>9 DEF Next

LEMMA GoesOnInTime ==
  ASSUME Typed, Knows, Timely, [Next]_vars, GoesOn
  PROVE  due > Grace
<1>1. /\ Free /\ queue' = Tail(queue) /\ job.kind = "edit" /\ job.verb # "begin"
      /\ job.rev > twice /\ values.edit # None /\ values.edit.active /\ ~EditAnswered("failed")
      BY DEF GoesOn
<1>2. Turns /\ Turn
      BY <1>1, TakenByTurn
<1>3. job \in Job /\ job.rev \in Nat /\ values.trev \in Nat /\ twice \in Nat
      BY <1>1, <1>2, TurnIs, JobFields, DocFields DEF Typed
<1>4. job.rev <= values.trev
  <2>1. job = queue[1] /\ 1 \in DOMAIN queue
        BY <1>2, TurnIs
  <2>2. Behind(job.by, job.rev)
        BY <1>1, <2>1 DEF Knows
  <2> QED BY <1>1, <1>3, <2>2 DEF Behind, Seen
<1>5. /\ lease # None /\ lease.owner = values.edit.owner /\ lease.revision = values.edit.revision
      /\ due = AtLeastZero(lease.left + Grace)
      BY <1>1 DEF Timely, Fits
<1>6. Deadline(values, lease) = lease.left /\ lease \in LeaseRecord /\ lease.left \in Int
  <2>1. lease \in LeaseRecord /\ lease.left \in Int
        BY <1>5, LeaseFields DEF Typed, Leases
  <2>2. Deadline(values, lease) = lease.left
        BY <1>1, <1>5 DEF Deadline
  <2> QED BY <2>1, <2>2
<1>7. ~Abandoned(values, lease)
  <2>1. CASE EditRejected
        BY <1>1, <2>1, TurnRejected DEF EditAnswered
  <2>2. CASE Renewed
        BY <2>2, TurnRenewed
  <2>3. CASE EditSaves
    <3>1. job.rev = Recovered(values, lease).trev
          BY <2>3, TurnEdits DEF Current
    <3> QED BY <1>3, <1>4, <3>1, RecoveredIs DEF Typed
  <2>4. CASE SettingSaves \/ ApprovalSaves \/ StopSaves \/ ExpiryEnds \/ ExpirySaves
        BY <1>1, <2>4, TurnSaves, TurnExpires
  <2> QED BY <1>2, <2>1, <2>2, <2>3, <2>4 DEF Turns
<1>8. lease.left # None
      BY <1>6, NoneAssumption
<1>9. lease.left > 0
      BY <1>1, <1>6, <1>7, <1>8 DEF Abandoned
<1> QED BY <1>5, <1>6, <1>9, Periods DEF AtLeastZero

LEMMA RollsBackInTime ==
  ASSUME Typed, Timely, [Next]_vars, RollsBack
  PROVE  due = 0
<1>1. holder = None /\ holder' # None /\ holder'.job.kind = "expire"
      BY DEF RollsBack
<1>2. CASE Turns
  <2>1. ExpirySaves
    <3>1. CASE EditRejected \/ Renewed \/ ExpiryEnds
          BY <1>1, <3>1, TurnRejected, TurnRenewed, TurnExpires
    <3>2. CASE EditSaves
          BY <1>1, <3>2, TurnEdits
    <3>3. CASE SettingSaves \/ ApprovalSaves \/ StopSaves \/ ExpirySaves
          BY <1>1, <3>3, TurnSaves
    <3> QED BY <1>2, <3>1, <3>2, <3>3 DEF Turns
  <2>2. /\ values.edit # None /\ ~values.edit.active /\ Deadline(values, lease) <= 0
        BY <2>1 DEF ExpirySaves, Overdue
  <2>3. Deadline(values, lease) = values.edit.left /\ values.edit.left \in 0..Grace
        BY <2>2, DeadlineIs, DocFields, EditFields DEF Typed
  <2>4. due = values.edit.left
        BY <2>2 DEF Timely, Fits
  <2> QED BY <2>2, <2>3, <2>4, Periods
<1>3. CASE Cards
  <2>1. PICK q \in Queues : Begin(q) \/ Update(q) \/ Renew(q) \/ End(q) \/ Arrives(q) \/ Answered(q)
        BY <1>3 DEF Cards
  <2>2. holder' = holder
    <3>1. CASE Arrives(q)
          BY <3>1, CardArrives
    <3>2. CASE Answered(q)
          BY <3>2, CardAnswered DEF server
    <3>3. CASE Begin(q) \/ Update(q) \/ Renew(q) \/ End(q)
          BY <3>3, CardSends DEF server
    <3> QED BY <2>1, <3>1, <3>2, <3>3
  <2> QED BY <1>1, <2>2
<1>4. CASE Users
      BY <1>1, <1>4, UserActs DEF SameHolder
<1>5. CASE Stored \/ NotStored
      BY <1>1, <1>5, EditIsStored, SettingIsStored, ApprovalIsStored, ExpiryIsStored, StopIsStored,
         AgainIsStored, NothingStored DEF Stored
<1>6. CASE Fires \/ Tick
      BY <1>1, <1>6, TimerFires, TimePasses
<1>7. CASE UNCHANGED vars
      BY <1>1, <1>7 DEF vars, server
<1> QED BY <1>2, <1>3, <1>4, <1>5, <1>6, <1>7 DEF Next

LEMMA TimelyInit == Init => Timely
BY DEF Init, Timely, Fits

(* An editor that was silent for a lease does not go on, and no draft is   *)
(* discarded before the grace period is over, too, whatever else was saved *)
(* and however long that took (Settings._save, recover_timing_editor,      *)
(* expire_timing_edit).                                                    *)
THEOREM OverInTimeHolds == Spec => OverInTime
<1>1. Fence /\ Timely /\ [Next]_vars => [(GoesOn => due > Grace) /\ (RollsBack => due = 0)]_vars
      BY GoesOnInTime, RollsBackInTime DEF Fence
<1>2. Init => Fence /\ Timely
      BY FenceInit, TimelyInit
<1>3. Fence /\ Timely /\ [Next]_vars => (Fence /\ Timely)'
      BY FenceStep, TimelyStep DEF Fence
<1> QED BY <1>1, <1>2, <1>3, PTL DEF Spec, OverInTime

=============================================================================
