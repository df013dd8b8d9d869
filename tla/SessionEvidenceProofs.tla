------------------------ MODULE SessionEvidenceProofs ------------------------
(***************************************************************************)
(* Theorems about SessionEvidence, for every length of time, every number  *)
(* of faults and reports on their way, and every age that a reading may    *)
(* have at the borders of a session.  The state stays well typed; energy   *)
(* is what the counter of the session counted; and what is shown when all  *)
(* reports have arrived, an active session or idleness, is true.           *)
(***************************************************************************)
EXTENDS SessionEvidence, TLAPS

-----------------------------------------------------------------------------
(* Reports *)

Kinds == {"Started", "Updated", "Ended"}
Happened(x) == x.kind \in Kinds

EventReport == [kind: Kinds, id: Ids, at: Time, seq: Nat,
                charging: Maybe({"charging", "idle"}), reading: Maybe(Reading)]
StatusReport == [kind: {"status"}, at: Time, value: {"available", "occupied"}]
MeterReport == [kind: {"meter"}, reading: Reading]
State == [session: Maybe(Session), closed: SUBSET Ids, barrier: Maybe(Time),
          connector: Maybe(Observation({"available", "occupied"})),
          charging: Maybe(Observation({"charging", "idle"})),
          parent: Maybe(Observation(Nat))]
Truth == [now: Time, plug: {"available", "occupied"}, active: Maybe(Ids),
          begun: [Ids -> Maybe(Time)], seq: Nat, offset: Offsets, plugged: Time]
Link == [up: BOOLEAN, gen: Generation, registered: Maybe(Generation), epoch: Time]

(* The kind of a report tells its form. *)
LEMMA ReportForms ==
  \A x \in Report :
    /\ Happened(x) => x \in EventReport
    /\ x.kind = "status" => x \in StatusReport
    /\ x.kind = "meter" => x \in MeterReport
    /\ Happened(x) \/ x.kind \in {"status", "meter", "boot"}
    /\ "id" \in DOMAIN x <=> Happened(x)
<1> TAKE x \in Report
<1>1. CASE x \in [kind: {"boot"}]
      BY <1>1 DEF Happened, Kinds
<1>2. CASE x \in StatusReport
      BY <1>2 DEF Happened, Kinds, StatusReport
<1>3. CASE x \in MeterReport
      BY <1>3 DEF Happened, Kinds, MeterReport
<1>4. CASE x \in EventReport
      BY <1>4 DEF Happened, Kinds, EventReport
<1> QED BY <1>1, <1>2, <1>3, <1>4 DEF Report, StatusReport, MeterReport, EventReport, Kinds

LEMMA Typing ==
  TypeOK <=> /\ truth \in Truth /\ queue \in Seq(Report) /\ link \in Link /\ state \in State
             /\ saved \in Document /\ ops \in 0..MaxOps
BY DEF TypeOK, Truth, Link, State

(* What has been handled is taken off the queue; an event may come again. *)
Moved(old, new) ==
  \E n \in Nat :
    /\ Len(old) = n + 1 /\ DOMAIN old = 1..n+1
    /\ \/ Len(new) = n /\ DOMAIN new = 1..n
       \/ Len(new) = n + 1 /\ DOMAIN new = 1..n+1 /\ new[n+1] = old[1] /\ Happened(old[1])
    /\ \A k \in 1..n : new[k] = old[k+1]

LEMMA Moves ==
  ASSUME queue \in Seq(Report), queue # <<>>, Handled
  PROVE  /\ Moved(queue, queue') /\ queue' \in Seq(Report)
         /\ Head(queue) = queue[1] /\ Head(queue) \in Report /\ 1 \in DOMAIN queue
<1> DEFINE n == Len(queue) - 1
<1>1. /\ n \in Nat /\ Len(queue) = n + 1 /\ DOMAIN queue = 1..n+1 /\ 1 \in DOMAIN queue
      /\ Head(queue) = queue[1] /\ Head(queue) \in Report
      /\ Tail(queue) \in Seq(Report) /\ Len(Tail(queue)) = n
      /\ DOMAIN Tail(queue) = 1..n
      /\ \A k \in 1..n : Tail(queue)[k] = queue[k+1]
      OBVIOUS
<1> DEFINE again == Append(Tail(queue), Head(queue))
<1>2. /\ again \in Seq(Report) /\ Len(again) = n + 1 /\ DOMAIN again = 1..n+1
      /\ again[n+1] = queue[1] /\ \A k \in 1..n : again[k] = queue[k+1]
      BY <1>1
<1> HIDE DEF n, again
<1>3. CASE queue' = Tail(queue)
      BY <1>1, <1>3 DEF Moved
<1>4. CASE queue' = again /\ "id" \in DOMAIN Head(queue)
  <2>1. Happened(queue[1])
        BY <1>1, <1>4, ReportForms
  <2> QED BY <1>1, <1>2, <1>4, <2>1 DEF Moved
<1> QED BY <1>3, <1>4 DEF Handled, again

-----------------------------------------------------------------------------
(* What a session counted *)

(* A start reading is the counter at the start; what the session shows now *)
(* is the counter at its last reading, and, when it ended, at its end.     *)
Counting(s) ==
  /\ s.startMeter # None =>
       /\ s.startMeter = truth.begun[s.id] /\ s.startMeter > 0 /\ s.stream = "transaction"
       /\ s.current # None /\ s.current >= s.startMeter
       /\ ~s.invalid => s.at = s.current
       /\ s.linked # None => truth.offset = 0
       /\ s.endMeter # None => s.ended # None /\ s.endMeter >= s.startMeter
       /\ s.endMeter # None /\ ~s.invalid => s.ended - s.endMeter \in 0..BOUNDARY_AGE
  /\ s.ended # None => s.ended = s.updated
LastMeter(s) == IF s.ended = None THEN s.current ELSE s.endMeter
Fits(s) ==
  s.energy # None =>
    /\ s.startMeter # None /\ ~s.invalid /\ LastMeter(s) # None
    /\ s.energy = LastMeter(s) - s.startMeter
MeterTrue(s) == Counting(s) /\ Fits(s)

(* A session that is just beginning has counted nothing. *)
Fresh(s) == s.startMeter = None /\ s.linked = None /\ s.endMeter = None

(* What the transaction reports, and the meter of the EVSE. *)
Honest(s, r, boundary, stream) ==
  /\ stream = "transaction" =>
       /\ r.value = r.at \/ (~boundary /\ r.value \in {0, None})
       /\ boundary /\ s.ended = None =>
            /\ Fresh(s) /\ truth.begun[s.id] = s.updated /\ s.updated > 0
            /\ r.at = s.updated \/ r.at < s.updated - BOUNDARY_AGE
  /\ stream = "parent" => ~boundary /\ r.value = r.at + truth.offset

(* What readings do not change. *)
Keeps(s, t) ==
  /\ t.id = s.id /\ t.start = s.start /\ t.updated = s.updated /\ t.ended = s.ended
  /\ t.seq = s.seq /\ t.gen = s.gen

ParentTrue(o) == o # None /\ o.value # None => o.value = o.at + truth.offset

LEMMA EnergyTruth ==
  ASSUME truth \in Truth, NEW s \in Session, Counting(s)
  PROVE  LET t == Energy(s, LastMeter(s))
         IN  t \in Session /\ Keeps(s, t) /\ MeterTrue(t)
             /\ t.stream = s.stream /\ t.startMeter = s.startMeter /\ t.current = s.current
             /\ t.at = s.at /\ t.atGen = s.atGen /\ t.invalid = s.invalid /\ t.linked = s.linked
<1> DEFINE m == LastMeter(s)
           e == IF s.startMeter # None /\ m # None /\ ~s.invalid THEN m - s.startMeter ELSE None
<1>1. m \in Maybe(Nat) /\ s.startMeter \in Maybe(Nat)
      BY DEF LastMeter, Session
<1>2. e \in Maybe(Nat)
  <2>1. s.startMeter # None /\ m # None => m >= s.startMeter
        BY DEF LastMeter, Counting
  <2> QED BY <1>1, <2>1, NoneAssumption DEF Maybe
<1> HIDE DEF e
<1>3. Energy(s, m) = [s EXCEPT !.energy = e]
      BY DEF Energy, e
<1>4. LET t == [s EXCEPT !.energy = e]
      IN  /\ t \in Session /\ Keeps(s, t) /\ t.energy = e
          /\ t.stream = s.stream /\ t.startMeter = s.startMeter /\ t.current = s.current
          /\ t.at = s.at /\ t.atGen = s.atGen /\ t.invalid = s.invalid /\ t.linked = s.linked
          /\ t.endMeter = s.endMeter
      BY <1>2 DEF Session, Keeps
<1> DEFINE t == [s EXCEPT !.energy = e]
<1> HIDE DEF t
<1>5. LastMeter(t) = m
      BY <1>4 DEF t, LastMeter, Keeps
<1>6. Counting(t)
      BY <1>4 DEF t, Counting, Keeps
<1>7. Fits(t)
      BY <1>4, <1>5 DEF t, Fits, e
<1> QED BY <1>3, <1>4, <1>6, <1>7 DEF t, MeterTrue

(* A link is a proof that both meters show the same. *)
LEMMA LinkedTruth ==
  ASSUME truth \in Truth, link \in Link, NEW st \in State, ParentTrue(st.parent),
         NEW s \in Session, Counting(s), NEW stream \in Stream, NEW r \in Reading,
         r.value = r.at \/ r.value \in {0, None} \/ stream = "parent",
         stream = "parent" => r.value = r.at + truth.offset
  PROVE  LET t == Linked(st, s, stream, r)
         IN  t \in Session /\ Keeps(s, t) /\ Counting(t) /\ (Fits(s) => Fits(t))
             /\ t.stream = s.stream /\ t.startMeter = s.startMeter /\ t.current = s.current
             /\ t.at = s.at /\ t.invalid = s.invalid /\ t.endMeter = s.endMeter
             /\ t.reported = s.reported /\ t.energy = s.energy
             /\ (t = s \/ (s.stream = "transaction" /\ t.linked = link.gen))
<1> DEFINE u == [s EXCEPT !.linked = link.gen]
<1>1. /\ u \in Session /\ Keeps(s, u) /\ u.linked = link.gen
      /\ u.stream = s.stream /\ u.startMeter = s.startMeter /\ u.current = s.current
      /\ u.at = s.at /\ u.invalid = s.invalid /\ u.endMeter = s.endMeter
      /\ u.reported = s.reported /\ u.energy = s.energy
      BY DEF Link, Session, Keeps, Maybe
<1> DEFINE Proof == /\ r.value # None /\ ~s.invalid
                    /\ IF stream = "parent" THEN s.at = r.at /\ s.current = r.value
                       ELSE /\ st.parent # None /\ st.parent.at = r.at
                            /\ st.parent.value = r.value
<1>2. Linked(st, s, stream, r) = s \/
        (Linked(st, s, stream, r) = u /\ s.stream = "transaction" /\ Proof)
      BY DEF Linked, Linkable
<1> HIDE DEF u
<1>3. CASE Linked(st, s, stream, r) = s
      BY <1>3 DEF Keeps
<1>4. ASSUME Proof, s.startMeter # None
      PROVE  truth.offset = 0
  <2>1. truth.offset \in Nat /\ r.at \in Nat /\ r.value \in Nat
        BY <1>4, BoundsAssumption DEF Truth, Offsets, Reading, Time, Maybe
  <2>2. CASE stream = "parent"
    <3>1. r.at = r.value /\ r.value = r.at + truth.offset
          BY <1>4, <2>2 DEF Counting
    <3> QED BY <3>1, <2>1
  <2>3. CASE stream # "parent"
    <3>1. st.parent.at = r.at /\ st.parent.value = r.value /\ r.value = r.at + truth.offset
          BY <1>4, <2>3 DEF ParentTrue
    <3>2. r.value = r.at \/ r.value = 0
          BY <2>1, <2>3, NoneAssumption
    <3> QED BY <3>1, <3>2, <2>1
  <2> QED BY <2>2, <2>3
<1>5. CASE Linked(st, s, stream, r) = u /\ s.stream = "transaction" /\ Proof
  <2>1. Counting(u)
        BY <1>1, <1>4, <1>5 DEF Counting, Keeps
  <2>2. LastMeter(u) = LastMeter(s)
        BY <1>1 DEF LastMeter, Keeps
  <2>3. Fits(s) => Fits(u)
        BY <1>1, <2>2 DEF Fits
  <2> QED BY <1>1, <1>5, <2>1, <2>3
<1> QED BY <1>2, <1>3, <1>5

(* A reading that is taken keeps the count. *)
LEMMA TakenTruth ==
  ASSUME truth \in Truth, link \in Link,
         NEW s \in Session, Counting(s), s.stream # None,
         NEW boundary \in BOOLEAN, NEW r \in Reading, Concerns(s, r, boundary),
         s.startMeter # None => r.value = r.at \/ r.value \in {0, None},
         boundary => r.value = r.at /\ s.stream = "transaction",
         boundary /\ s.ended = None =>
           /\ s.startMeter = None /\ s.linked = None /\ s.endMeter = None
           /\ truth.begun[s.id] = s.updated /\ s.updated > 0
           /\ r.at = s.updated \/ r.at < s.updated - BOUNDARY_AGE
  PROVE  LET t == Taken(s, r, boundary)
         IN  t \in Session /\ Keeps(s, t) /\ Counting(t) /\ t.stream = s.stream
<1> DEFINE t == Taken(s, r, boundary)
<1>0. /\ r.at \in Nat /\ r.at \in Time /\ r.value \in Maybe(Nat) /\ s.updated \in Nat
      /\ s.current \in Maybe(Nat) /\ s.startMeter \in Maybe(Nat) /\ BOUNDARY_AGE \in Nat
      /\ link.gen \in Generation /\ s.endMeter \in Maybe(Nat) /\ None \notin Int
      /\ s.ended \in Maybe(Time) /\ Time \subseteq Nat
      BY BoundsAssumption, NoneAssumption DEF Reading, Session, Time, Link, Maybe
<1>1. CASE Spoils(s, r)
  <2> DEFINE end == IF s.ended # None THEN None ELSE s.endMeter
             u == [s EXCEPT !.invalid = TRUE, !.reported = r.at, !.endMeter = end]
  <2>0. end \in Maybe(Nat) /\ t = u
        BY <1>0, <1>1 DEF Taken, Maybe
  <2> HIDE DEF end, t
  <2>1. /\ t \in Session /\ Keeps(s, t) /\ t.stream = s.stream /\ t.startMeter = s.startMeter
        /\ t.current = s.current /\ t.at = s.at /\ t.invalid = TRUE /\ t.linked = s.linked
        /\ t.endMeter = end
        BY <1>0, <2>0 DEF Session, Keeps, Maybe
  <2>2. Counting(t)
        BY <2>1 DEF Counting, Keeps, end
  <2> QED BY <2>1, <2>2 DEF t
<1>2. CASE ~Spoils(s, r)
  <2> DEFINE starts == boundary /\ s.start = s.updated /\ s.ended = None /\ s.reported = None
             first == IF starts THEN r.value ELSE s.startMeter
             end == IF s.ended # None /\ ~s.invalid THEN r.value ELSE s.endMeter
             u == [s EXCEPT !.startMeter = first, !.current = r.value, !.at = r.at,
                            !.atGen = link.gen, !.reported = r.at, !.endMeter = end]
  <2>0. first \in Maybe(Nat) /\ end \in Maybe(Nat) /\ t = u
        BY <1>0, <1>2 DEF Taken, Maybe
  <2> HIDE DEF t, first, end
  <2>1. /\ t \in Session /\ Keeps(s, t) /\ t.stream = s.stream
        /\ t.startMeter = first
        /\ t.current = r.value /\ t.at = r.at /\ t.invalid = s.invalid /\ t.linked = s.linked
        /\ t.endMeter = end
        BY <1>0, <2>0 DEF Session, Keeps, Maybe
  <2>2. r.value \in Nat /\ (s.current # None => r.value >= s.current)
        BY <1>0, <1>2, NoneAssumption DEF Spoils, Maybe
  <2>3. CASE starts
    <3>1. r.at = s.updated
          BY <2>3, <1>0 DEF Concerns
    <3>2. t.startMeter = r.value /\ r.value = s.updated /\ t.endMeter = None /\ t.ended = None
          BY <2>1, <2>3, <3>1, <1>0 DEF Keeps, first, end
    <3>3. t.updated = s.updated /\ t.id = s.id /\ t.current = r.value /\ t.at = r.at
          /\ t.linked = None /\ t.stream = "transaction"
          BY <2>1, <2>3 DEF Keeps
    <3>4. Counting(t)
          BY <1>0, <2>2, <2>3, <3>1, <3>2, <3>3 DEF Counting
    <3> QED BY <2>1, <3>4 DEF t
  <2>4. CASE ~starts
    <3>1. t.startMeter = s.startMeter
          BY <2>1, <2>4 DEF first
    <3>2. CASE s.startMeter = None
          BY <2>1, <3>1, <3>2 DEF t, Counting, Keeps
    <3>3. CASE s.startMeter # None
      <4>1. /\ s.startMeter \in Nat /\ s.startMeter > 0 /\ s.current \in Nat
            /\ r.value >= s.startMeter /\ r.value = r.at
            BY <1>0, <2>2, <3>3 DEF Counting, Maybe
      <4>2. CASE s.ended = None
            BY <2>1, <3>1, <4>1, <4>2, <1>0, NoneAssumption DEF t, end, Counting, Keeps
      <4>3. CASE s.ended # None
        <5>1. boundary /\ s.updated - r.at \in 0..BOUNDARY_AGE /\ s.ended = s.updated
              BY <4>3 DEF Concerns, Counting
        <5>2. /\ t.endMeter # None /\ ~t.invalid => t.endMeter = r.value
              /\ t.endMeter # None => t.endMeter >= s.startMeter
          <6>1. s.invalid \in BOOLEAN /\ t.invalid = s.invalid /\ t.endMeter = end
                BY <2>1 DEF Session
          <6>2. CASE s.invalid
            <7>1. end = s.endMeter
                  BY <6>2 DEF end
            <7> QED BY <6>1, <6>2, <7>1, <3>3 DEF Counting
          <6>3. CASE ~s.invalid
            <7>1. end = r.value
                  BY <6>3, <4>3 DEF end
            <7> QED BY <6>1, <6>3, <7>1, <4>1
          <6> QED BY <6>1, <6>2, <6>3
        <5>3. /\ t.id = s.id /\ t.updated = s.updated /\ t.ended = s.ended /\ t.stream = s.stream
              /\ t.linked = s.linked /\ t.at = r.at /\ t.current = r.value
              BY <2>1 DEF Keeps
        <5>4. /\ t.endMeter # None /\ ~t.invalid => t.ended - t.endMeter \in 0..BOUNDARY_AGE
              BY <4>1, <4>3, <5>1, <5>2, <5>3, <1>0, NoneAssumption
        <5>5. /\ t.startMeter = truth.begun[t.id] /\ t.startMeter > 0 /\ t.stream = "transaction"
              /\ t.linked # None => truth.offset = 0
              BY <3>1, <5>3, <3>3 DEF Counting
        <5>6. t.current # None /\ t.current >= t.startMeter /\ t.at = t.current
              BY <3>1, <4>1, <5>3, <1>0
        <5>7. Counting(t)
              BY <3>1, <4>3, <5>1, <5>2, <5>3, <5>4, <5>5, <5>6 DEF Counting
        <5> QED BY <2>1, <5>7 DEF t
      <4> QED BY <4>2, <4>3
    <3> QED BY <3>2, <3>3
  <2> QED BY <2>3, <2>4
<1> QED BY <1>1, <1>2

LEMMA MeterTruth ==
  ASSUME truth \in Truth, link \in Link, NEW st \in State, ParentTrue(st.parent),
         st.session # None => MeterTrue(st.session),
         NEW r \in Reading, NEW boundary \in BOOLEAN, NEW stream \in Stream,
         st.session # None => Honest(st.session, r, boundary, stream)
  PROVE  \E s \in Maybe(Session) :
           /\ Meter(st, r, boundary, stream) = [st EXCEPT !.session = s]
           /\ st.session = None <=> s = None
           /\ s # None => Keeps(st.session, s) /\ MeterTrue(s)
<1> DEFINE s == st.session
<1>0. s \in Maybe(Session) /\ st = [st EXCEPT !.session = s]
      BY DEF State
<1>1. CASE ~Concerns(s, r, boundary)
      BY <1>0, <1>1 DEF Meter, Keeps
<1>2. CASE Concerns(s, r, boundary)
  <2> DEFINE joined == IF s.stream \in {None, stream} THEN s ELSE Linked(st, s, stream, r)
             own == [joined EXCEPT !.stream = IF joined.stream = None THEN stream ELSE @]
             taken == Taken(own, r, boundary)
             counted == Energy(taken, LastMeter(taken))
             linked == Linked(st, counted, "transaction", r)
  <2>0. s \in Session /\ s # None /\ None \notin Session /\ None \notin Stream
        BY <1>0, <1>2, NoneAssumption DEF Concerns, Maybe
  <2>1. Meter(st, r, boundary, stream) =
          IF s.stream \notin {None, stream} /\ ~MayJoin(joined) THEN st
          ELSE IF own.reported # None /\ r.at < own.reported THEN [st EXCEPT !.session = own]
          ELSE [st EXCEPT !.session = IF stream = "transaction" THEN linked ELSE counted]
        BY <1>2 DEF Meter, Metered, LastMeter
  <2>2. MeterTrue(s) /\ Counting(s) /\ Fits(s) /\ Honest(s, r, boundary, stream)
        BY <2>0 DEF MeterTrue
  <2>3. /\ r.value = r.at \/ r.value \in {0, None} \/ stream = "parent"
        /\ stream = "parent" => r.value = r.at + truth.offset
        BY <2>2 DEF Honest, Stream
  <2>4. /\ joined \in Session /\ Keeps(s, joined) /\ Counting(joined) /\ Fits(joined)
        /\ joined.stream = s.stream /\ joined.startMeter = s.startMeter
        /\ joined.endMeter = s.endMeter /\ joined.reported = s.reported
        /\ s.stream \in {None, stream} => joined = s
        /\ joined = s \/ s.stream = "transaction"
    <3>1. CASE s.stream \in {None, stream}
          BY <2>0, <2>2, <3>1 DEF Keeps
    <3>2. CASE s.stream \notin {None, stream}
          BY <2>0, <2>2, <2>3, <3>2, LinkedTruth
    <3> QED BY <3>1, <3>2
  <2> HIDE DEF joined
  <2> DEFINE str == IF joined.stream = None THEN stream ELSE joined.stream
  <2>5. own = [joined EXCEPT !.stream = str] /\ str \in Stream
        BY <2>4 DEF Session, Maybe
  <2> HIDE DEF str, own
  <2>6. /\ own \in Session /\ Keeps(s, own) /\ own.stream = str
        /\ own.startMeter = joined.startMeter /\ own.linked = joined.linked
        /\ own.endMeter = joined.endMeter /\ own.current = joined.current /\ own.at = joined.at
        /\ own.invalid = joined.invalid /\ own.energy = joined.energy
        BY <2>4, <2>5 DEF Session, Keeps, Maybe
  <2>7. joined.startMeter # None => joined.stream = "transaction" /\ str = "transaction"
        BY <2>0, <2>4 DEF Counting, str, Stream
  <2>8. Counting(own) /\ Fits(own)
    <3>1. Counting(own)
          BY <2>4, <2>6, <2>7 DEF Counting, Keeps
    <3>2. LastMeter(own) = LastMeter(joined)
          BY <2>4, <2>6 DEF LastMeter, Keeps
    <3> QED BY <2>4, <2>6, <3>1, <3>2 DEF Fits
  <2>9. CASE s.stream \notin {None, stream} /\ ~MayJoin(joined)
        BY <1>0, <2>0, <2>1, <2>2, <2>9 DEF Keeps
  <2>10. CASE s.stream \in {None, stream} \/ MayJoin(joined)
    <3>1. own.startMeter # None => r.value = r.at \/ r.value \in {0, None}
      <4>1. CASE stream = "transaction"
            BY <2>3, <4>1, NoneAssumption DEF Stream
      <4>2. CASE stream = "parent" /\ own.startMeter # None
        <5>1. joined.startMeter # None /\ joined.stream = "transaction" /\ s.stream = "transaction"
              BY <2>4, <2>6, <2>7, <4>2
        <5>2. MayJoin(joined)
              BY <2>0, <2>10, <4>2, <5>1 DEF Stream
        <5>3. joined.linked # None
              BY <5>2, NoneAssumption DEF MayJoin, Link
        <5>4. truth.offset = 0
              BY <2>4, <5>1, <5>3 DEF Counting
        <5>5. r.value = r.at
              BY <2>3, <4>2, <5>4 DEF Reading, Time
        <5> QED BY <5>5
      <4> QED BY <4>1, <4>2 DEF Stream
    <3>2. boundary => r.value = r.at /\ own.stream = "transaction"
      <4> HAVE boundary
      <4>1. stream = "transaction"
            BY <2>2 DEF Honest, Stream
      <4>2. r.value = r.at
            BY <2>2, <4>1 DEF Honest
      <4>3. own.stream = "transaction"
        <5>1. CASE s.stream \in {None, stream}
              BY <2>4, <2>6, <4>1, <5>1 DEF str
        <5>2. CASE MayJoin(joined)
              BY <2>0, <2>4, <2>6, <5>2 DEF str, MayJoin, Linkable, Stream
        <5> QED BY <2>10, <5>1, <5>2
      <4> QED BY <4>2, <4>3
    <3>3. boundary /\ own.ended = None =>
            /\ own.startMeter = None /\ own.linked = None /\ own.endMeter = None
            /\ truth.begun[own.id] = own.updated /\ own.updated > 0
            /\ r.at = own.updated \/ r.at < own.updated - BOUNDARY_AGE
      <4> HAVE boundary /\ own.ended = None
      <4>1. stream = "transaction" /\ s.ended = None
            BY <2>2, <2>6 DEF Honest, Stream, Keeps
      <4>2. /\ Fresh(s) /\ truth.begun[s.id] = s.updated /\ s.updated > 0
            /\ r.at = s.updated \/ r.at < s.updated - BOUNDARY_AGE
            BY <2>2, <4>1 DEF Honest
      <4>3. joined = s
        <5>1. CASE s.stream \in {None, stream}
              BY <2>4, <5>1
        <5>2. CASE s.stream \notin {None, stream}
              BY <2>4, <4>1, <5>2
        <5> QED BY <5>1, <5>2
      <4> QED BY <2>6, <4>2, <4>3 DEF Fresh, Keeps
    <3>4. Concerns(own, r, boundary)
          BY <1>2, <2>0, <2>6, NoneAssumption DEF Concerns, Keeps
    <3>5. own.stream # None
          BY <2>0, <2>5, <2>6
    <3>6. /\ taken \in Session /\ Keeps(own, taken) /\ Counting(taken)
          /\ taken.stream = own.stream
          BY <2>6, <2>8, <3>1, <3>2, <3>3, <3>4, <3>5, TakenTruth
    <3> HIDE DEF taken
    <3>7. /\ counted \in Session /\ Keeps(taken, counted) /\ MeterTrue(counted)
          BY <3>6, EnergyTruth
    <3> HIDE DEF counted
    <3>8. stream = "transaction" =>
            linked \in Session /\ Keeps(counted, linked) /\ MeterTrue(linked)
      <4> HAVE stream = "transaction"
      <4>1. r.value = r.at \/ r.value \in {0, None}
            BY <2>3 DEF Stream
      <4>2. "transaction" \in Stream /\ "transaction" # "parent"
            BY DEF Stream
      <4>3. Counting(counted) /\ Fits(counted)
            BY <3>7 DEF MeterTrue
      <4> QED BY <3>7, <4>1, <4>2, <4>3, LinkedTruth DEF MeterTrue
    <3> HIDE DEF linked
    <3>9. Keeps(s, counted) /\ (stream = "transaction" => Keeps(s, linked))
          BY <2>6, <3>6, <3>7, <3>8 DEF Keeps
    <3>10. MeterTrue(own)
          BY <2>8 DEF MeterTrue
    <3>11. Meter(st, r, boundary, stream) \in
             {[st EXCEPT !.session = own]}
             \cup {[st EXCEPT !.session = IF stream = "transaction" THEN linked ELSE counted]}
          BY <2>1, <2>10
    <3> QED BY <2>0, <2>6, <3>7, <3>8, <3>9, <3>10, <3>11 DEF Maybe
  <2> QED BY <2>9, <2>10
<1> QED BY <1>1, <1>2

-----------------------------------------------------------------------------
(* What an event does *)

LEMMA UpdatedType ==
  ASSUME NEW s \in Session
  PROVE  /\ \A a \in Maybe(Time), end \in Maybe(Nat) :
              [s EXCEPT !.ended = a, !.endMeter = end] \in Session
         /\ \A a \in Time, n \in Nat, g \in Maybe(Generation), li \in Maybe(Generation) :
              [s EXCEPT !.updated = a, !.seq = n, !.gen = g, !.linked = li] \in Session
BY DEF Session

(* The session that an event begins or continues, as far as it says. *)
Tells(x, s) ==
  /\ s.id = x.id /\ s.updated = x.at /\ s.seq = x.seq /\ s.gen = link.gen
  /\ s.ended = IF x.kind = "Ended" THEN x.at ELSE None

(* A Started event is the first of its transaction. *)
Begins(x) == x.kind = "Started" => x.seq = 0 /\ x.at > 0 /\ truth.begun[x.id] = x.at

ClosedBy(st, x) ==
  st.closed \cup (IF ~Known(st, x) /\ st.session # None THEN {st.session.id} ELSE {})
            \cup (IF x.kind = "Ended" THEN {x.id} ELSE {})
BarredBy(st, x) == IF Known(st, x) THEN st.barrier ELSE Barred(st.barrier, x.at)

LEMMA EndedTruth ==
  ASSUME truth \in Truth, link \in Link, NEW s \in Session, MeterTrue(s),
         NEW x \in EventReport, s.updated = x.at, s.ended = None
  PROVE  LET t == Ended(s, x)
         IN  /\ t \in Session /\ MeterTrue(t) /\ t.id = s.id /\ t.updated = s.updated
             /\ t.seq = s.seq /\ t.gen = s.gen /\ t.ended = x.at
<1> DEFINE end == IF s.at = x.at /\ s.atGen = link.gen /\ ~s.invalid THEN s.current ELSE None
           u == [s EXCEPT !.ended = x.at, !.endMeter = end]
<1>1. end \in Maybe(Nat) /\ x.at \in Maybe(Time) /\ x.at \in Time /\ x.at \in Nat /\ x.at # None
      BY NoneAssumption DEF Session, EventReport, Time, Maybe
<1> HIDE DEF end
<1>2. /\ u \in Session /\ u.id = s.id /\ u.updated = s.updated /\ u.seq = s.seq /\ u.gen = s.gen
      /\ u.ended = x.at /\ u.endMeter = end /\ u.startMeter = s.startMeter
      /\ u.stream = s.stream /\ u.current = s.current /\ u.at = s.at
      /\ u.invalid = s.invalid /\ u.linked = s.linked
  <2>1. u \in Session
        BY <1>1, UpdatedType
  <2>2. /\ u.id = s.id /\ u.updated = s.updated /\ u.seq = s.seq /\ u.gen = s.gen
        /\ u.ended = x.at /\ u.endMeter = end /\ u.startMeter = s.startMeter
        /\ u.stream = s.stream /\ u.current = s.current /\ u.at = s.at
        /\ u.invalid = s.invalid /\ u.linked = s.linked
        BY DEF Session
  <2> QED BY <2>1, <2>2
<1> HIDE DEF u
<1>3. Counting(u)
  <2>1. Counting(s) BY DEF MeterTrue
  <2>2. CASE s.startMeter = None
        BY <1>2, <2>2 DEF Counting
  <2>3. CASE s.startMeter # None
    <3>1. CASE end # None
      <4>1. end = s.current /\ s.at = x.at /\ ~s.invalid
            BY <3>1 DEF end
      <4>2. end = x.at /\ end >= s.startMeter
            BY <2>1, <2>3, <4>1 DEF Counting
      <4>3. x.at - end \in 0..BOUNDARY_AGE
            BY <1>1, <4>2, BoundsAssumption
      <4> QED BY <1>1, <1>2, <2>1, <2>3, <4>2, <4>3 DEF Counting
    <3>2. CASE end = None
          BY <1>1, <1>2, <2>1, <2>3, <3>2 DEF Counting
    <3> QED BY <3>1, <3>2
  <2> QED BY <2>2, <2>3
<1>4. LastMeter(u) = end
      BY <1>1, <1>2 DEF LastMeter
<1>5. Ended(s, x) = Energy(u, end)
      BY DEF Ended, u, end
<1> QED BY <1>2, <1>3, <1>4, <1>5, EnergyTruth DEF Keeps

LEMMA EventTruth ==
  ASSUME truth \in Truth, link \in Link, state \in State,
         state.session # None => MeterTrue(state.session),
         NEW x \in EventReport, Heard(state, x), Begins(x)
  PROVE  \E s \in Session :
           /\ EventState(state, x) = [state EXCEPT !.session = s, !.closed = ClosedBy(state, x),
                                                   !.barrier = BarredBy(state, x)]
           /\ Tells(x, s) /\ MeterTrue(s)
           /\ x.kind = "Started" => Fresh(s)
<1>0. /\ x.at \in Time /\ x.at \in Nat /\ x.id \in Ids /\ x.seq \in Nat /\ link.gen \in Generation
      /\ state.session \in Maybe(Session) /\ None \notin Session /\ None \notin Nat
      BY NoneAssumption DEF EventReport, Time, Link, State, Maybe
<1> DEFINE s == IF Known(state, x) THEN Continued(state.session, x) ELSE NewSession(x)
<1>1. /\ s \in Session /\ MeterTrue(s) /\ s.id = x.id /\ s.updated = x.at /\ s.seq = x.seq
      /\ s.gen = link.gen /\ s.ended = None /\ (x.kind = "Started" => Fresh(s))
  <2>1. CASE Known(state, x)
    <3> DEFINE o == state.session
               li == IF o.gen = link.gen THEN o.linked ELSE None
               t == [o EXCEPT !.updated = x.at, !.seq = x.seq, !.gen = link.gen, !.linked = li]
    <3>1. o \in Session /\ o.id = x.id /\ o.ended = None /\ x.seq > o.seq /\ MeterTrue(o)
          BY <1>0, <2>1 DEF Known, Heard, Maybe
    <3>2. li \in Maybe(Generation) /\ s = t
          BY <1>0, <2>1, <3>1 DEF Continued, Session, Maybe
    <3>9. link.gen \in Maybe(Generation)
          BY <1>0 DEF Maybe
    <3>3. li # None => li = o.linked
          OBVIOUS
    <3> HIDE DEF li, s, o
    <3>4. /\ t \in Session /\ t.id = x.id /\ t.updated = x.at /\ t.seq = x.seq /\ t.gen = link.gen
          /\ t.ended = None /\ t.startMeter = o.startMeter /\ t.stream = o.stream
          /\ t.current = o.current /\ t.at = o.at /\ t.invalid = o.invalid /\ t.linked = li
          /\ t.endMeter = o.endMeter /\ t.energy = o.energy
      <4>1. t \in Session
            BY <1>0, <3>1, <3>2, <3>9, UpdatedType
      <4>2. /\ t.id = o.id /\ t.updated = x.at /\ t.seq = x.seq /\ t.gen = link.gen
            /\ t.ended = o.ended /\ t.startMeter = o.startMeter /\ t.stream = o.stream
            /\ t.current = o.current /\ t.at = o.at /\ t.invalid = o.invalid /\ t.linked = li
            /\ t.endMeter = o.endMeter /\ t.energy = o.energy
            BY <3>1 DEF Session
      <4> QED BY <3>1, <4>1, <4>2
    <3> HIDE DEF t
    <3>5. Counting(t)
          BY <3>1, <3>3, <3>4 DEF Counting, MeterTrue
    <3>6. LastMeter(t) = LastMeter(o)
          BY <3>1, <3>4 DEF LastMeter
    <3>7. Fits(t)
          BY <3>1, <3>4, <3>6 DEF Fits, MeterTrue
    <3>8. x.kind # "Started"
          BY <1>0, <3>1 DEF Begins, Session
    <3> QED BY <3>2, <3>4, <3>5, <3>7, <3>8 DEF MeterTrue
  <2>2. CASE ~Known(state, x)
    <3>1. /\ s \in Session /\ s.id = x.id /\ s.updated = x.at /\ s.seq = x.seq
          /\ s.gen = link.gen /\ s.ended = None /\ Fresh(s) /\ s.energy = None
          BY <1>0, <2>2 DEF NewSession, Session, Fresh, Maybe
    <3>2. MeterTrue(s)
          BY <3>1 DEF MeterTrue, Counting, Fits, Fresh
    <3> QED BY <3>1, <3>2
  <2> QED BY <2>1, <2>2
<1>2. EventState(state, x) =
        [state EXCEPT !.session = IF x.kind = "Ended" THEN Ended(s, x) ELSE s,
                      !.closed = ClosedBy(state, x), !.barrier = BarredBy(state, x)]
      BY DEF EventState, ClosedBy, BarredBy
<1> HIDE DEF s
<1>3. CASE x.kind = "Ended"
  <2>1. /\ Ended(s, x) \in Session /\ MeterTrue(Ended(s, x)) /\ Tells(x, Ended(s, x))
        BY <1>1, <1>3, EndedTruth DEF Tells
  <2> QED BY <1>2, <1>3, <2>1
<1>4. CASE x.kind # "Ended"
      BY <1>1, <1>2, <1>4 DEF Tells
<1> QED BY <1>3, <1>4

-----------------------------------------------------------------------------
(* The invariant of energy, and what each handler does *)

(* A report tells the truth, except that a reading may be nonsense. *)
ReportTrue(x) ==
  /\ Happened(x) =>
       /\ Begins(x)
       /\ x.reading # None =>
            /\ x.reading.value = x.reading.at \/ (x.kind = "Updated" /\ x.reading.value \in {0, None})
            /\ x.kind = "Started" =>
                 x.reading.at = x.at \/ x.reading.at < x.at - BOUNDARY_AGE
  /\ x.kind = "meter" => x.reading.value = x.reading.at + truth.offset
Counted ==
  /\ \A k \in DOMAIN queue : ReportTrue(queue[k])
  /\ ParentTrue(state.parent)
  /\ state.session # None => MeterTrue(state.session)
  /\ saved.session # None => MeterTrue(saved.session)
Metering == TypeOK /\ Counted

LEMMA ObserveType ==
  ASSUME link \in Link, NEW V, NEW o \in Maybe(Observation(V)), NEW v \in Maybe(V), NEW at \in Time
  PROVE  /\ Observe(o, v, at) \in Maybe(Observation(V))
         /\ Observe(o, v, at) = o \/
              Observe(o, v, at) = [value |-> IF Same(o) /\ at = o.at THEN None ELSE v,
                                   at |-> at, gen |-> link.gen]
BY DEF Observe, Link, Observation, Maybe

EventEffect ==
  LET x == Head(queue) IN
  /\ x \in EventReport /\ Receives(Kinds) /\ Handled /\ state' \in State
  /\ UNCHANGED <<truth, link, saved, ops>>
  /\ ~Heard(state, x) => state' = state
  /\ Heard(state, x) =>
       /\ state'.session # None /\ Tells(x, state'.session) /\ MeterTrue(state'.session)
       /\ state'.closed = ClosedBy(state, x) /\ state'.barrier = BarredBy(state, x)
       /\ state'.connector = state.connector /\ state'.parent = state.parent
       /\ state'.charging = IF x.charging = None THEN state.charging
                            ELSE Observe(state.charging, x.charging, x.at)

LEMMA EventDoes ==
  ASSUME Metering, TransactionEvent
  PROVE  EventEffect
<1> DEFINE x == Head(queue)
<1>1. /\ truth \in Truth /\ link \in Link /\ state \in State /\ queue \in Seq(Report)
      /\ ParentTrue(state.parent) /\ (state.session # None => MeterTrue(state.session))
      BY Typing DEF Metering, Counted
<1>2. /\ Receives(Kinds) /\ Handled /\ queue # <<>>
      /\ UNCHANGED <<truth, link, saved, ops>>
      BY DEF TransactionEvent, Receives, Kinds
<1>3. x \in EventReport /\ Happened(x) /\ ReportTrue(x)
  <2>1. x \in Report /\ x = queue[1] /\ 1 \in DOMAIN queue
        BY <1>1, <1>2, Moves
  <2>2. Happened(x)
        BY <1>2 DEF Receives, Happened
  <2> QED BY <2>1, <2>2, ReportForms DEF Metering, Counted
<1> DEFINE known == EventState(state, x)
           observed == IF x.charging = None THEN known
                       ELSE [known EXCEPT !.charging = Observe(@, x.charging, x.at)]
           b == x.kind # "Updated"
<1>4. state' = IF ~Heard(state, x) THEN state
               ELSE IF x.reading = None \/ x.reading.at > x.at THEN observed
               ELSE Meter(observed, x.reading, b, "transaction")
      BY DEF TransactionEvent
<1> HIDE DEF b, x
<1>5. CASE ~Heard(state, x)
      BY <1>1, <1>2, <1>3, <1>4, <1>5 DEF EventEffect, x
<1>6. CASE Heard(state, x)
  <2>1. PICK s \in Session :
           /\ known = [state EXCEPT !.session = s, !.closed = ClosedBy(state, x),
                                    !.barrier = BarredBy(state, x)]
           /\ Tells(x, s) /\ MeterTrue(s)
           /\ x.kind = "Started" => Fresh(s)
        BY <1>1, <1>3, <1>6, EventTruth DEF ReportTrue
  <2>2. ClosedBy(state, x) \in SUBSET Ids /\ BarredBy(state, x) \in Maybe(Time)
        BY <1>1, <1>3 DEF ClosedBy, BarredBy, Barred, State, EventReport, Session, Maybe
  <2> DEFINE ch == IF x.charging = None THEN state.charging
                   ELSE Observe(state.charging, x.charging, x.at)
             C == ClosedBy(state, x)
             B == BarredBy(state, x)
  <2>3. ch \in Maybe(Observation({"charging", "idle"}))
        BY <1>1, <1>3, ObserveType DEF State, EventReport
  <2> DEFINE o == [state EXCEPT !.session = s, !.closed = C, !.barrier = B, !.charging = ch]
  <2>4. observed = o
        BY <1>1, <2>1 DEF State
  <2> HIDE DEF known, ch, C, B
  <2>5. /\ o \in State /\ o.session = s /\ o.closed = C /\ o.barrier = B /\ o.charging = ch
        /\ o.connector = state.connector /\ o.parent = state.parent
        BY <1>1, <2>2, <2>3 DEF State, C, B, Maybe
  <2> HIDE DEF o, observed
  <2>6. s # None
        BY NoneAssumption
  <2>7. CASE x.reading = None \/ x.reading.at > x.at
    <3>1. state' = o
          BY <1>4, <1>6, <2>4, <2>7
    <3> QED BY <1>2, <1>3, <1>6, <2>1, <2>5, <2>6, <3>1 DEF EventEffect, x, C, B, ch
  <2>8. CASE ~(x.reading = None \/ x.reading.at > x.at)
    <3>1. state' = Meter(o, x.reading, b, "transaction")
          BY <1>4, <1>6, <2>4, <2>8
    <3>2. x.reading \in Reading /\ b \in BOOLEAN
          BY <1>3, <2>8 DEF EventReport, Maybe, b
    <3>3. Honest(s, x.reading, b, "transaction")
      <4>1. x.reading.value = x.reading.at \/ (~b /\ x.reading.value \in {0, None})
            BY <1>3, <2>8 DEF ReportTrue, b
      <4>2. ASSUME b, s.ended = None
            PROVE  /\ Fresh(s) /\ truth.begun[s.id] = s.updated /\ s.updated > 0
                   /\ x.reading.at = s.updated \/ x.reading.at < s.updated - BOUNDARY_AGE
        <5>1. x.kind = "Started"
              BY <1>3, <2>1, <4>2, NoneAssumption
                 DEF b, Tells, Happened, Kinds, EventReport, Time
        <5> QED BY <1>3, <2>1, <2>8, <5>1 DEF ReportTrue, Begins, Tells
      <4> QED BY <4>1, <4>2 DEF Honest
    <3>4. PICK t \in Maybe(Session) :
            /\ state' = [o EXCEPT !.session = t]
            /\ t # None /\ Keeps(s, t) /\ MeterTrue(t)
      <4>1. "transaction" \in Stream /\ ParentTrue(o.parent) /\ o.session = s
            BY <1>1, <2>5 DEF Stream
      <4> QED BY <1>1, <2>1, <2>5, <2>6, <3>1, <3>2, <3>3, <4>1, MeterTruth
    <3>5. /\ state' \in State /\ state'.session = t /\ state'.closed = C /\ state'.barrier = B
          /\ state'.charging = ch /\ state'.connector = state.connector
          /\ state'.parent = state.parent
          BY <2>5, <3>4 DEF State
    <3>6. Tells(x, t)
          BY <2>1, <3>4 DEF Tells, Keeps
    <3> QED BY <1>2, <1>3, <1>6, <3>4, <3>5, <3>6 DEF EventEffect, x, C, B, ch
  <2> QED BY <2>7, <2>8
<1> QED BY <1>5, <1>6

MeterEffect ==
  /\ Receives({"meter"}) /\ Handled /\ state' \in State /\ ParentTrue(state'.parent)
  /\ UNCHANGED <<truth, link, saved, ops>>
  /\ state'.session = None <=> state.session = None
  /\ state'.session # None =>
       Keeps(state.session, state'.session) /\ MeterTrue(state'.session)
  /\ state'.closed = state.closed /\ state'.barrier = state.barrier
  /\ state'.connector = state.connector /\ state'.charging = state.charging

LEMMA MeterDoes ==
  ASSUME Metering, MeterValues
  PROVE  MeterEffect
<1> DEFINE r == Head(queue).reading
<1>1. /\ truth \in Truth /\ link \in Link /\ state \in State /\ queue \in Seq(Report)
      /\ ParentTrue(state.parent) /\ (state.session # None => MeterTrue(state.session))
      BY Typing DEF Metering, Counted
<1>2. /\ Receives({"meter"}) /\ Handled /\ queue # <<>> /\ UNCHANGED <<truth, link, saved, ops>>
      BY DEF MeterValues, Receives
<1>3. r \in Reading /\ r.value = r.at + truth.offset
  <2>1. Head(queue) \in Report /\ Head(queue) = queue[1] /\ 1 \in DOMAIN queue
        BY <1>1, <1>2, Moves
  <2>2. Head(queue).kind = "meter"
        BY <1>2 DEF Receives
  <2>3. Head(queue) \in MeterReport /\ ReportTrue(Head(queue))
        BY <2>1, <2>2, ReportForms DEF Metering, Counted
  <2> QED BY <2>2, <2>3 DEF MeterReport, ReportTrue
<1> HIDE DEF r
<1> DEFINE p == Observe(state.parent, r.value, r.at)
           o == [state EXCEPT !.parent = p]
           m == Meter(o, r, FALSE, "parent")
<1>4. state' = IF Observable(state.parent, r.value, r.at) THEN m ELSE state
      BY <1>1 DEF MeterValues, r, State
<1>5. p \in Maybe(Observation(Nat)) /\ ParentTrue(p)
  <2>1. r.value \in Maybe(Nat) /\ r.at \in Time /\ state.parent \in Maybe(Observation(Nat))
        BY <1>1, <1>3 DEF Reading, State
  <2>2. \/ p = state.parent
        \/ p = [value |-> IF Same(state.parent) /\ r.at = state.parent.at THEN None ELSE r.value,
                at |-> r.at, gen |-> link.gen]
        BY <1>1, <2>1, ObserveType
  <2>3. p \in Maybe(Observation(Nat))
        BY <1>1, <2>1, ObserveType
  <2> QED BY <1>1, <1>3, <2>2, <2>3 DEF ParentTrue
<1> HIDE DEF p
<1>6. /\ o \in State /\ o.session = state.session /\ o.closed = state.closed
      /\ o.barrier = state.barrier /\ o.connector = state.connector
      /\ o.charging = state.charging /\ o.parent = p
      BY <1>1, <1>5 DEF State
<1> HIDE DEF o
<1>7. CASE ~Observable(state.parent, r.value, r.at)
      BY <1>1, <1>2, <1>4, <1>7 DEF MeterEffect, Keeps
<1>8. CASE Observable(state.parent, r.value, r.at)
  <2>1. PICK b \in BOOLEAN : b = FALSE
        OBVIOUS
  <2>2. state' = Meter(o, r, b, "parent")
        BY <1>4, <1>8, <2>1
  <2>3. Honest(o.session, r, b, "parent") /\ "parent" \in Stream
        BY <1>3, <2>1 DEF Honest, Stream
  <2>4. PICK t \in Maybe(Session) :
          /\ state' = [o EXCEPT !.session = t]
          /\ o.session = None <=> t = None
          /\ t # None => Keeps(o.session, t) /\ MeterTrue(t)
    <3> HIDE DEF m
    <3> QED BY <1>1, <1>3, <1>5, <1>6, <2>2, <2>3, MeterTruth
  <2>5. /\ state' \in State /\ state'.session = t /\ state'.closed = o.closed
        /\ state'.barrier = o.barrier /\ state'.connector = o.connector
        /\ state'.charging = o.charging /\ state'.parent = o.parent
        BY <1>6, <2>4 DEF State
  <2> QED BY <1>2, <1>5, <1>6, <2>4, <2>5 DEF MeterEffect
<1> QED BY <1>7, <1>8

StatusEffect ==
  LET m == Head(queue)
      new == Observe(state.connector, m.value, m.at)
  IN  /\ m \in StatusReport /\ Receives({"status"}) /\ Handled /\ state' \in State
      /\ UNCHANGED <<truth, link, saved, ops>>
      /\ state'.session = state.session /\ state'.closed = state.closed
      /\ state'.charging = state.charging /\ state'.parent = state.parent
      /\ state'.connector = new
      /\ state'.barrier = IF /\ Observable(state.connector, m.value, m.at)
                             /\ Value(state.connector) = "available" /\ Value(new) # "available"
                          THEN Barred(state.barrier, m.at) ELSE state.barrier

LEMMA StatusDoes ==
  ASSUME Metering, StatusNotification
  PROVE  StatusEffect
<1> DEFINE m == Head(queue)
           new == Observe(state.connector, m.value, m.at)
           bar == IF /\ Observable(state.connector, m.value, m.at)
                     /\ Value(state.connector) = "available" /\ Value(new) # "available"
                  THEN Barred(state.barrier, m.at) ELSE state.barrier
<1>1. /\ truth \in Truth /\ link \in Link /\ state \in State /\ queue \in Seq(Report)
      BY Typing DEF Metering
<1>2. /\ Receives({"status"}) /\ Handled /\ queue # <<>> /\ UNCHANGED <<truth, link, saved, ops>>
      BY DEF StatusNotification, Receives
<1>3. m \in StatusReport
  <2>1. m \in Report
        BY <1>1, <1>2, Moves
  <2> QED BY <1>2, <2>1, ReportForms DEF Receives
<1>4. state' = [state EXCEPT !.connector = new, !.barrier = bar]
      BY <1>1 DEF StatusNotification, State
<1>5. m.value \in Maybe({"available", "occupied"}) /\ m.at \in Time
      BY <1>3 DEF StatusReport, Maybe
<1> HIDE DEF m
<1>6. new \in Maybe(Observation({"available", "occupied"})) /\ bar \in Maybe(Time)
  <2>1. state.connector \in Maybe(Observation({"available", "occupied"}))
        BY <1>1 DEF State
  <2>2. new \in Maybe(Observation({"available", "occupied"}))
        BY <1>1, <1>5, <2>1, ObserveType
  <2> QED BY <1>1, <1>5, <2>2 DEF Barred, State, Maybe
<1> HIDE DEF new, bar
<1>7. /\ state' \in State /\ state'.session = state.session /\ state'.closed = state.closed
      /\ state'.charging = state.charging /\ state'.parent = state.parent
      /\ state'.connector = new /\ state'.barrier = bar
      BY <1>1, <1>4, <1>6 DEF State
<1> QED BY <1>2, <1>3, <1>7 DEF StatusEffect, m, new, bar

-----------------------------------------------------------------------------
(* What the station does *)

Appended(old, new, x) ==
  \E n \in Nat : /\ Len(old) = n /\ DOMAIN old = 1..n /\ Len(new) = n + 1 /\ DOMAIN new = 1..n+1
                 /\ new[n+1] = x /\ \A k \in 1..n : new[k] = old[k]
Grows(x) == IF link.up THEN Appended(queue, queue', x) ELSE queue' = queue

LEMMA Appending ==
  ASSUME NEW q \in Seq(Report), NEW x \in Report
  PROVE  /\ q \o <<x>> \in Seq(Report) /\ Appended(q, q \o <<x>>, x)
         /\ Append(q, x) \in Seq(Report) /\ Appended(q, Append(q, x), x)
<1>1. /\ q \o <<x>> \in Seq(Report) /\ Len(q \o <<x>>) = Len(q) + 1
      /\ DOMAIN (q \o <<x>>) = 1..Len(q)+1 /\ (q \o <<x>>)[Len(q)+1] = x
      /\ \A k \in 1..Len(q) : (q \o <<x>>)[k] = q[k]
      OBVIOUS
<1>2. /\ Append(q, x) \in Seq(Report) /\ Len(Append(q, x)) = Len(q) + 1
      /\ DOMAIN Append(q, x) = 1..Len(q)+1 /\ Append(q, x)[Len(q)+1] = x
      /\ \A k \in 1..Len(q) : Append(q, x)[k] = q[k]
      OBVIOUS
<1>3. Len(q) \in Nat /\ DOMAIN q = 1..Len(q)
      OBVIOUS
<1> QED BY <1>1, <1>2, <1>3 DEF Appended

LEMMA TickGrows ==
  ASSUME queue \in Seq(Report), truth \in Truth, NEW x \in Report, Tick(<<x>>)
  PROVE  /\ Grows(x) /\ queue' \in Seq(Report) /\ UNCHANGED <<link, state, saved>>
         /\ Now \in Time /\ Now \in Nat /\ Now > 0 /\ Now = truth.now + 1 /\ truth.now \in Nat
<1>1. /\ truth.now < MaxTime /\ UNCHANGED <<link, state, saved>>
      /\ queue' = IF link.up THEN queue \o <<x>> ELSE queue
      BY DEF Tick
<1>2. Now \in Time /\ Now \in Nat /\ Now > 0 /\ Now = truth.now + 1 /\ truth.now \in Nat
      BY <1>1, BoundsAssumption DEF Now, Time, Truth
<1> QED BY <1>1, <1>2, Appending DEF Grows

(* How the truth goes on with each report. *)
Stays(t) ==
  /\ t.begun = truth.begun /\ t.plug = truth.plug /\ t.plugged = truth.plugged
Plugging(x, t) ==
  /\ x \in StatusReport /\ truth.active = None
  /\ x.at = Now /\ x.value # truth.plug
  /\ t.now = Now /\ t.plug = x.value /\ t.plugged = Now /\ t.active = None
  /\ t.begun = truth.begun /\ t.seq = truth.seq
Starting(x, t) ==
  /\ x \in EventReport /\ x.kind = "Started" /\ truth.active = None /\ truth.plug = "occupied"
  /\ x.at = Now /\ truth.begun[x.id] = None /\ x.seq = 0 /\ x.charging = "charging"
  /\ t.now = Now /\ t.active = x.id /\ t.begun = [truth.begun EXCEPT ![x.id] = Now]
  /\ t.seq = 0 /\ t.plug = truth.plug /\ t.plugged = truth.plugged
Updating(x, t) ==
  /\ x \in EventReport /\ x.kind = "Updated" /\ link.up /\ truth.active # None
  /\ x.id = truth.active /\ x.at = Now /\ x.seq = truth.seq + 1 /\ x.charging = "charging"
  /\ t.now = Now /\ t.active = truth.active /\ t.seq = truth.seq + 1 /\ Stays(t)
Ending(x, t) ==
  /\ x \in EventReport /\ x.kind = "Ended" /\ truth.active # None
  /\ x.id = truth.active /\ x.at = Now /\ x.seq = truth.seq + 1 /\ x.charging \in {"idle", None}
  /\ t.now = Now /\ t.active = None /\ t.seq = truth.seq + 1 /\ Stays(t)
Measuring(x, t) ==
  /\ x \in MeterReport /\ link.up /\ t.now \in {truth.now, Now}
  /\ t.active = truth.active /\ t.seq = truth.seq /\ Stays(t)
Booting(x, t) ==
  /\ x = [kind |-> "boot"] /\ link.up /\ t.now = Now /\ t.active \in {truth.active, None}
  /\ t.seq = truth.seq /\ Stays(t)

Station == \/ \E v \in {"available", "occupied"} : Plug(v)
           \/ Starts \/ Updates \/ Ends \/ Meters \/ StationBoots
Happens(x, t) == \/ Plugging(x, t) \/ Starting(x, t) \/ Updating(x, t) \/ Ending(x, t)
                 \/ Measuring(x, t) \/ Booting(x, t)

StationEffect ==
  /\ UNCHANGED <<link, state, saved>> /\ queue' \in Seq(Report) /\ truth' \in Truth
  /\ truth'.offset = truth.offset /\ ops' \in 0..MaxOps
  /\ truth.now \in Nat /\ Now = truth.now + 1
  /\ \E x \in Report, t \in Truth : t = truth' /\ Grows(x) /\ Happens(x, t) /\ ReportTrue(x)'

LEMMA FaultType == ASSUME ops \in 0..MaxOps PROVE (Fault => ops' \in 0..MaxOps) /\ (UNCHANGED ops => ops' \in 0..MaxOps)
BY BoundsAssumption DEF Fault

LEMMA Witnessed ==
  ASSUME NEW x \in Report, NEW t \in Truth, t = truth', TypeOK, Tick(<<x>>), Happens(x, t),
         t.offset = truth.offset, ReportTrue(x)', ops' \in 0..MaxOps
  PROVE  StationEffect
<1>1. truth \in Truth /\ queue \in Seq(Report)
      BY Typing
<1>2. /\ Grows(x) /\ queue' \in Seq(Report) /\ UNCHANGED <<link, state, saved>>
      /\ Now = truth.now + 1 /\ truth.now \in Nat
      BY <1>1, TickGrows
<1> QED BY <1>2 DEF StationEffect

LEMMA Clock ==
  ASSUME TypeOK, truth.now < MaxTime
  PROVE  /\ Now \in Time /\ Now \in Nat /\ Now > 0 /\ Now = truth.now + 1
         /\ truth.now \in Nat /\ truth \in Truth
BY Typing, BoundsAssumption DEF Truth, Time, Now

LEMMA PlugDoes ==
  ASSUME TypeOK, NEW v \in {"available", "occupied"}, Plug(v)
  PROVE  StationEffect
<1>1. Now \in Time /\ truth \in Truth
      BY Clock DEF Plug, Tick
<1>2. ops' \in 0..MaxOps
      BY Typing, FaultType DEF Plug
<1>3. PICK x \in Report : x = [kind |-> "status", at |-> Now, value |-> v]
      BY <1>1 DEF Report
<1>4a. /\ truth' \in Truth /\ truth'.now = Now /\ truth'.plug = v /\ truth'.plugged = Now
                         /\ truth'.active = truth.active /\ truth'.begun = truth.begun
                         /\ truth'.seq = truth.seq /\ truth'.offset = truth.offset
      BY <1>1 DEF Plug, Truth
<1>4. PICK t \in Truth : /\ t = truth' /\ t.now = Now /\ t.plug = v /\ t.plugged = Now
                         /\ t.active = truth.active /\ t.begun = truth.begun
                         /\ t.seq = truth.seq /\ t.offset = truth.offset
      BY <1>4a
<1>5. x \in StatusReport /\ ~Happened(x) /\ x.at = Now /\ x.value = v /\ x.kind = "status"
      BY <1>1, <1>3 DEF StatusReport, Happened, Kinds
<1>6. Tick(<<x>>) /\ truth.active = None /\ truth.plug # v
      BY <1>3 DEF Plug
<1>7. Happens(x, t)
      BY <1>4, <1>5, <1>6 DEF Happens, Plugging
<1>8. ReportTrue(x)'
      BY <1>5 DEF ReportTrue, Happened
<1> QED BY <1>2, <1>4, <1>6, <1>7, <1>8, Witnessed

(* What is common to the reports of a transaction. *)
LEMMA EventForm ==
  ASSUME NEW kind \in Kinds, NEW id \in Ids, NEW seq \in Nat,
         NEW charging \in Maybe({"charging", "idle"}), NEW r \in Maybe(Reading), Now \in Time
  PROVE  \E x \in Report :
           /\ x = Event(kind, id, seq, charging, r) /\ x \in EventReport /\ Happened(x)
           /\ x.kind = kind /\ x.id = id /\ x.at = Now /\ x.seq = seq
           /\ x.charging = charging /\ x.reading = r
<1> DEFINE x == Event(kind, id, seq, charging, r)
<1>1. /\ x \in EventReport /\ x.kind = kind /\ x.id = id /\ x.at = Now /\ x.seq = seq
      /\ x.charging = charging /\ x.reading = r
      BY DEF Event, EventReport, Kinds
<1>2. x \in Report
      BY <1>1 DEF Report, EventReport, Kinds
<1> HIDE DEF x
<1> QED BY <1>1, <1>2 DEF x, Happened

LEMMA BoundaryForm ==
  ASSUME Now \in Time, Now \in Nat, NEW r \in Boundary
  PROVE  r \in Reading /\ r.value = r.at /\ (r.at = Now \/ r.at < Now - BOUNDARY_AGE)
<1>1. PICK n \in {Now, Now - BOUNDARY_AGE - 1} \cap Nat : r = [value |-> n, at |-> n]
      BY DEF Boundary, Sample
<1>2. n \in Time /\ n \in Nat /\ (n = Now \/ n < Now - BOUNDARY_AGE)
      BY <1>1, BoundsAssumption DEF Time
<1> QED BY <1>1, <1>2 DEF Reading, Maybe

LEMMA StartsDoes ==
  ASSUME TypeOK, Starts
  PROVE  StationEffect
<1>1. PICK id \in Ids, r \in Boundary :
        /\ truth.active = None /\ truth.plug = "occupied" /\ truth.begun[id] = None
        /\ truth' = [truth EXCEPT !.now = Now, !.active = id, !.begun[id] = Now, !.seq = 0]
        /\ Tick(<<Event("Started", id, 0, "charging", r)>>)
      BY DEF Starts
<1>2. Now \in Time /\ Now \in Nat /\ Now > 0 /\ truth \in Truth
      BY <1>1, Clock DEF Tick
<1>3. ops' \in 0..MaxOps
      BY Typing, FaultType DEF Starts
<1>4. r \in Reading /\ r.value = r.at /\ (r.at = Now \/ r.at < Now - BOUNDARY_AGE)
      BY <1>2, BoundaryForm
<1>5. PICK x \in Report :
           /\ x = Event("Started", id, 0, "charging", r) /\ x \in EventReport
           /\ x.kind = "Started" /\ x.id = id /\ x.at = Now /\ x.seq = 0
           /\ x.charging = "charging" /\ x.reading = r
      BY <1>2, <1>4, EventForm DEF Kinds, Maybe
<1>6a. /\ truth' \in Truth /\ truth'.now = Now /\ truth'.active = id
         /\ truth'.begun = [truth.begun EXCEPT ![id] = Now] /\ truth'.seq = 0
         /\ truth'.plug = truth.plug /\ truth'.plugged = truth.plugged /\ truth'.offset = truth.offset
      BY <1>1, <1>2 DEF Truth, Maybe
<1>6. PICK t \in Truth :
         /\ t = truth' /\ t.now = Now /\ t.active = id
         /\ t.begun = [truth.begun EXCEPT ![id] = Now] /\ t.seq = 0
         /\ t.plug = truth.plug /\ t.plugged = truth.plugged /\ t.offset = truth.offset
      BY <1>6a
<1>7. Happens(x, t)
      BY <1>1, <1>5, <1>6 DEF Happens, Starting
<1>8. t.begun[id] = Now
      BY <1>2, <1>6 DEF Truth
<1>9. ReportTrue(x)'
  <2>1. truth'.begun[x.id] = x.at
        BY <1>5, <1>6, <1>8
  <2> QED BY <1>2, <1>4, <1>5, <2>1 DEF ReportTrue, Begins
<1> QED BY <1>1, <1>3, <1>5, <1>6, <1>7, <1>9, Witnessed

LEMMA UpdatesDoes ==
  ASSUME TypeOK, Updates
  PROVE  StationEffect
<1>1. PICK r \in {Sample(Now)} \cup {[value |-> v, at |-> Now] : v \in {None, 0}} :
        /\ link.up /\ truth.active # None
        /\ truth' = [truth EXCEPT !.now = Now, !.seq = @ + 1]
        /\ Tick(<<Event("Updated", truth.active, truth.seq + 1, "charging", r)>>)
        /\ Fault \/ UNCHANGED ops
      BY DEF Updates
<1>2. Now \in Time /\ Now \in Nat /\ truth \in Truth
      BY <1>1, Clock DEF Tick
<1>3. ops' \in 0..MaxOps
      BY <1>1, Typing, FaultType
<1>4. r \in Reading /\ (r.value = r.at \/ r.value \in {0, None})
      BY <1>1, <1>2 DEF Reading, Sample, Maybe
<1>5. truth.active \in Ids /\ truth.seq + 1 \in Nat
      BY <1>1, <1>2 DEF Truth, Maybe
<1>6. PICK x \in Report :
           /\ x = Event("Updated", truth.active, truth.seq + 1, "charging", r) /\ x \in EventReport
           /\ x.kind = "Updated" /\ x.id = truth.active /\ x.at = Now /\ x.seq = truth.seq + 1
           /\ x.charging = "charging" /\ x.reading = r
      BY <1>2, <1>4, <1>5, EventForm DEF Kinds, Maybe
<1>7a. /\ truth' \in Truth /\ truth'.now = Now /\ truth'.active = truth.active /\ truth'.seq = truth.seq + 1
         /\ truth'.begun = truth.begun
         /\ truth'.plug = truth.plug /\ truth'.plugged = truth.plugged /\ truth'.offset = truth.offset
      BY <1>1, <1>2, <1>5 DEF Truth
<1>7. PICK t \in Truth :
         /\ t = truth' /\ t.now = Now /\ t.active = truth.active /\ t.seq = truth.seq + 1
         /\ t.begun = truth.begun
         /\ t.plug = truth.plug /\ t.plugged = truth.plugged /\ t.offset = truth.offset
      BY <1>7a
<1>8. Happens(x, t)
      BY <1>1, <1>6, <1>7 DEF Happens, Updating, Stays
<1>9. ReportTrue(x)'
      BY <1>4, <1>6 DEF ReportTrue, Begins
<1> QED BY <1>1, <1>3, <1>6, <1>7, <1>8, <1>9, Witnessed

LEMMA EndsDoes ==
  ASSUME TypeOK, Ends
  PROVE  StationEffect
<1>1. PICK r \in Boundary \cup {None}, c \in {"idle", None} :
        /\ truth.active # None
        /\ truth' = [truth EXCEPT !.now = Now, !.active = None, !.seq = @ + 1]
        /\ Tick(<<Event("Ended", truth.active, truth.seq + 1, c, r)>>)
      BY DEF Ends
<1>2. Now \in Time /\ Now \in Nat /\ truth \in Truth
      BY <1>1, Clock DEF Tick
<1>3. ops' \in 0..MaxOps
      BY Typing, FaultType DEF Ends
<1>4. r \in Maybe(Reading) /\ (r # None => r.value = r.at)
      BY <1>2, BoundaryForm DEF Maybe
<1>5. truth.active \in Ids /\ truth.seq + 1 \in Nat
      BY <1>1, <1>2 DEF Truth, Maybe
<1>6. PICK x \in Report :
           /\ x = Event("Ended", truth.active, truth.seq + 1, c, r) /\ x \in EventReport
           /\ x.kind = "Ended" /\ x.id = truth.active /\ x.at = Now /\ x.seq = truth.seq + 1
           /\ x.charging = c /\ x.reading = r
      BY <1>2, <1>4, <1>5, EventForm DEF Kinds, Maybe
<1>7a. /\ truth' \in Truth /\ truth'.now = Now /\ truth'.active = None /\ truth'.seq = truth.seq + 1
         /\ truth'.begun = truth.begun
         /\ truth'.plug = truth.plug /\ truth'.plugged = truth.plugged /\ truth'.offset = truth.offset
      BY <1>1, <1>2, <1>5 DEF Truth, Maybe
<1>7. PICK t \in Truth :
         /\ t = truth' /\ t.now = Now /\ t.active = None /\ t.seq = truth.seq + 1
         /\ t.begun = truth.begun
         /\ t.plug = truth.plug /\ t.plugged = truth.plugged /\ t.offset = truth.offset
      BY <1>7a
<1>8. Happens(x, t)
      BY <1>1, <1>6, <1>7 DEF Happens, Ending, Stays
<1>9. ReportTrue(x)'
      BY <1>4, <1>6 DEF ReportTrue, Begins
<1> QED BY <1>1, <1>3, <1>6, <1>7, <1>8, <1>9, Witnessed

LEMMA MetersDoes ==
  ASSUME TypeOK, Meters
  PROVE  StationEffect
<1>1. PICK at \in {truth.now, Now} :
        /\ link.up /\ truth' = [truth EXCEPT !.now = at]
        /\ Tick(<<[kind |-> "meter", reading |-> [value |-> at + truth.offset, at |-> at]]>>)
      BY DEF Meters
<1>2. Now \in Time /\ truth \in Truth /\ at \in Time /\ at \in Nat
      BY <1>1, Clock DEF Tick, Truth
<1>3. ops' \in 0..MaxOps
      BY Typing, FaultType DEF Meters
<1> DEFINE r == [value |-> at + truth.offset, at |-> at]
<1>4. r \in Reading /\ r.value = r.at + truth.offset
      BY <1>2, BoundsAssumption DEF Reading, Truth, Offsets, Maybe
<1> HIDE DEF r
<1>5. PICK x \in Report : x = [kind |-> "meter", reading |-> r]
      BY <1>4 DEF Report
<1>6. x \in MeterReport /\ x.kind = "meter" /\ ~Happened(x) /\ x.reading = r
      BY <1>4, <1>5 DEF MeterReport, Happened, Kinds
<1>7a. /\ truth' \in Truth /\ truth'.now = at /\ truth'.active = truth.active /\ truth'.seq = truth.seq
         /\ truth'.begun = truth.begun
         /\ truth'.plug = truth.plug /\ truth'.plugged = truth.plugged /\ truth'.offset = truth.offset
      BY <1>1, <1>2 DEF Truth
<1>7. PICK t \in Truth :
         /\ t = truth' /\ t.now = at /\ t.active = truth.active /\ t.seq = truth.seq
         /\ t.begun = truth.begun
         /\ t.plug = truth.plug /\ t.plugged = truth.plugged /\ t.offset = truth.offset
      BY <1>7a
<1>8. Happens(x, t)
      BY <1>1, <1>6, <1>7 DEF Happens, Measuring, Stays
<1>9. ReportTrue(x)'
  <2>1. x.reading.value = x.reading.at + truth'.offset
        BY <1>4, <1>6, <1>7
  <2> QED BY <1>6, <2>1 DEF ReportTrue, Happened
<1>10. Tick(<<x>>)
      BY <1>1, <1>5 DEF r
<1> QED BY <1>3, <1>7, <1>8, <1>9, <1>10, Witnessed

LEMMA StationBootsDoes ==
  ASSUME TypeOK, StationBoots
  PROVE  StationEffect
<1>1. PICK active \in {truth.active, None} :
        /\ link.up /\ Fault /\ truth' = [truth EXCEPT !.now = Now, !.active = active]
        /\ Tick(<<[kind |-> "boot"]>>)
      BY DEF StationBoots
<1>2. Now \in Time /\ truth \in Truth
      BY <1>1, Clock DEF Tick
<1>3. ops' \in 0..MaxOps
      BY <1>1, Typing, FaultType
<1>4. PICK x \in Report : x = [kind |-> "boot"]
      BY DEF Report
<1>5a. /\ truth' \in Truth /\ truth'.now = Now /\ truth'.active = active /\ truth'.seq = truth.seq
         /\ truth'.begun = truth.begun
         /\ truth'.plug = truth.plug /\ truth'.plugged = truth.plugged /\ truth'.offset = truth.offset
      BY <1>1, <1>2 DEF Truth, Maybe
<1>5. PICK t \in Truth :
         /\ t = truth' /\ t.now = Now /\ t.active = active /\ t.seq = truth.seq
         /\ t.begun = truth.begun
         /\ t.plug = truth.plug /\ t.plugged = truth.plugged /\ t.offset = truth.offset
      BY <1>5a
<1>6. Happens(x, t)
      BY <1>1, <1>4, <1>5 DEF Happens, Booting, Stays
<1>7. ReportTrue(x)'
      BY <1>4 DEF ReportTrue, Happened, Kinds
<1> QED BY <1>1, <1>3, <1>4, <1>5, <1>6, <1>7, Witnessed

LEMMA StationDoes ==
  ASSUME TypeOK, Station
  PROVE  StationEffect
BY PlugDoes, StartsDoes, UpdatesDoes, EndsDoes, MetersDoes, StationBootsDoes DEF Station

-----------------------------------------------------------------------------
(* Connections, boots, saves and restarts *)

SameState == /\ state'.session = state.session /\ state'.closed = state.closed
             /\ state'.connector = state.connector /\ state'.charging = state.charging
             /\ state'.parent = state.parent /\ state'.barrier = None /\ state' \in State
BootEffect ==
  /\ Receives({"boot"}) /\ SameState /\ link' \in Link /\ queue' \in Seq(Report)
  /\ UNCHANGED <<truth, saved, ops>>
  /\ link'.up /\ link'.gen = <<link.gen[1], link.gen[2] + 1>> /\ link'.registered = link'.gen
  /\ link'.epoch = truth.now
  /\ \E n \in Nat, x \in StatusReport :
       /\ DOMAIN queue = 1..n+1 /\ DOMAIN queue' = 1..n+1
       /\ \A k \in 1..n : queue'[k] = queue[k+1]
       /\ queue'[n+1] = x /\ x.at = truth.now /\ x.value = truth.plug
ConnectEffect ==
  /\ ~link.up /\ SameState /\ link' \in Link /\ queue' \in Seq(Report)
  /\ UNCHANGED <<truth, saved, ops>>
  /\ link'.up /\ link'.gen = <<link.gen[1] + 1, 0>> /\ link'.registered = link.registered
  /\ link'.epoch = truth.now
  /\ \A k \in DOMAIN queue' : \/ k \in DOMAIN queue /\ queue'[k] = queue[k]
                              \/ queue'[k].kind = "boot"
  /\ \/ \A k \in DOMAIN queue : k \in DOMAIN queue' /\ queue'[k] = queue[k]
     \/ \A k \in DOMAIN queue' : queue'[k].kind = "boot"
DisconnectEffect ==
  /\ SameState /\ link' \in Link /\ ~link'.up /\ link'.gen = link.gen /\ link'.epoch = truth.now
  /\ UNCHANGED <<truth, queue, saved>> /\ ops' \in 0..MaxOps
SaveEffect ==
  /\ saved' \in Document /\ saved'.session = state.session /\ saved'.closed = state.closed
  /\ UNCHANGED <<truth, queue, link, state, ops>>
RestartEffect ==
  /\ state' \in State /\ link' \in Link /\ ~link'.up /\ link'.epoch = 0
  /\ UNCHANGED <<truth, queue, saved>> /\ ops' \in 0..MaxOps
  /\ state'.closed = saved.closed /\ state'.parent = None
  /\ state'.connector = None /\ state'.charging = None
  /\ state'.session = None <=> saved.session = None
  /\ state'.session # None => /\ state'.session.gen = None
                              /\ state'.session = [saved.session EXCEPT !.gen = None]

LEMMA ResetDoes ==
  ASSUME TypeOK, NEW gen \in Generation, NEW registered \in Maybe(Generation), Reset(gen, registered)
  PROVE  /\ SameState /\ link' \in Link
         /\ link'.up /\ link'.gen = gen /\ link'.registered = registered /\ link'.epoch = truth.now
<1>1. state \in State /\ truth.now \in Time
      BY Typing DEF Truth
<1>2. SameState
      BY <1>1 DEF Reset, SameState, State, Maybe
<1> QED BY <1>1, <1>2 DEF Reset, Link

LEMMA BootDoes ==
  ASSUME TypeOK, Boot
  PROVE  BootEffect
<1>1. queue \in Seq(Report) /\ truth \in Truth /\ link \in Link
      BY Typing
<1> DEFINE gen == <<link.gen[1], link.gen[2] + 1>>
<1>2. gen \in Generation /\ gen \in Maybe(Generation)
      BY <1>1 DEF Link, Generation, Maybe
<1>3. Receives({"boot"}) /\ queue # <<>> /\ queue' = Append(Tail(queue), Status)
      /\ Reset(gen, gen) /\ UNCHANGED <<truth, saved, ops>>
      BY DEF Boot, Receives
<1> HIDE DEF gen
<1>4. /\ SameState /\ link' \in Link
      /\ link'.up /\ link'.gen = gen /\ link'.registered = gen /\ link'.epoch = truth.now
      BY <1>2, <1>3, ResetDoes
<1>5. Status \in StatusReport /\ Status \in Report /\ Status.at = truth.now /\ Status.value = truth.plug
      BY <1>1 DEF Status, StatusReport, Report, Truth
<1> DEFINE n == Len(queue) - 1
<1>6. /\ n \in Nat /\ DOMAIN queue = 1..n+1 /\ Tail(queue) \in Seq(Report) /\ Len(Tail(queue)) = n
      /\ \A k \in 1..n : Tail(queue)[k] = queue[k+1]
      BY <1>1, <1>3
<1> HIDE DEF n
<1>7. /\ queue' \in Seq(Report) /\ DOMAIN queue' = 1..n+1 /\ queue'[n+1] = Status
      /\ \A k \in 1..n : queue'[k] = queue[k+1]
      BY <1>3, <1>5, <1>6
<1> QED BY <1>3, <1>4, <1>5, <1>6, <1>7 DEF BootEffect, gen

LEMMA ConnectDoes ==
  ASSUME TypeOK, Connect
  PROVE  ConnectEffect
<1>1. queue \in Seq(Report) /\ link \in Link
      BY Typing
<1> DEFINE gen == <<link.gen[1] + 1, 0>>
<1>2. gen \in Generation /\ link.registered \in Maybe(Generation)
      BY <1>1 DEF Link, Generation
<1>3. /\ ~link.up /\ Reset(gen, link.registered) /\ UNCHANGED <<truth, saved, ops>>
      BY DEF Connect
<1> HIDE DEF gen
<1>4. /\ SameState /\ link' \in Link
      /\ link'.up /\ link'.gen = gen /\ link'.registered = link.registered
      /\ link'.epoch = truth.now
      BY <1>2, <1>3, ResetDoes
<1>5. PICK old \in {queue, <<>>}, boot \in {<<>>, <<[kind |-> "boot"]>>} : queue' = old \o boot
      BY DEF Connect
<1>6. [kind |-> "boot"] \in Report
      BY DEF Report
<1>7. /\ old \in Seq(Report) /\ Len(old) \in Nat /\ DOMAIN old = 1..Len(old)
      /\ boot \in Seq(Report) /\ Len(boot) \in Nat /\ DOMAIN boot = 1..Len(boot)
      /\ \A k \in DOMAIN boot : boot[k].kind = "boot"
  <2>1. \A q \in Seq(Report) : Len(q) \in Nat /\ DOMAIN q = 1..Len(q)
        OBVIOUS
  <2>2. <<>> \in Seq(Report) /\ Len(<<>>) = 0
        OBVIOUS
  <2>3. PICK b \in Report : b = [kind |-> "boot"] /\ b.kind = "boot"
        BY <1>6
  <2>4. <<b>> \in Seq(Report) /\ Len(<<b>>) = 1 /\ <<b>>[1] = b
        OBVIOUS
  <2>5. old \in Seq(Report)
        BY <1>1, <2>2
  <2>6. boot = <<>> \/ boot = <<b>>
        BY <2>3
  <2>7. CASE boot = <<>>
    <3>1. boot \in Seq(Report) /\ Len(boot) = 0
          BY <2>2, <2>7
    <3> QED BY <2>1, <2>5, <3>1
  <2>8. CASE boot = <<b>>
    <3>1. boot \in Seq(Report) /\ Len(boot) = 1 /\ boot[1] = b
          BY <2>4, <2>8
    <3>2. \A k \in DOMAIN boot : boot[k].kind = "boot"
          BY <2>1, <2>3, <3>1
    <3> QED BY <2>1, <2>5, <3>1, <3>2
  <2> QED BY <2>6, <2>7, <2>8
<1>8. /\ queue' \in Seq(Report) /\ DOMAIN queue' = 1..Len(old) + Len(boot)
      /\ \A k \in 1..Len(old) : queue'[k] = old[k]
      /\ \A k \in 1..Len(boot) : queue'[Len(old) + k] = boot[k]
      BY <1>5, <1>7
<1>9. \A k \in DOMAIN queue' : \/ k \in DOMAIN queue /\ queue'[k] = queue[k]
                               \/ queue'[k].kind = "boot"
  <2> TAKE k \in DOMAIN queue'
  <2>1. CASE k <= Len(old)
    <3>1. k \in DOMAIN old /\ queue'[k] = old[k]
          BY <1>7, <1>8, <2>1
    <3>2. old = queue
          BY <1>7, <3>1
    <3> QED BY <3>1, <3>2
  <2>2. CASE ~(k <= Len(old))
    <3>1. k - Len(old) \in 1..Len(boot) /\ k = Len(old) + (k - Len(old))
          BY <1>7, <1>8, <2>2
    <3>2. queue'[k] = boot[k - Len(old)]
          BY <1>8, <3>1
    <3> QED BY <1>7, <3>1, <3>2
  <2> QED BY <2>1, <2>2
<1>10. \/ \A k \in DOMAIN queue : k \in DOMAIN queue' /\ queue'[k] = queue[k]
       \/ \A k \in DOMAIN queue' : queue'[k].kind = "boot"
  <2>1. CASE old = queue
    <3>1. \A k \in DOMAIN queue : k \in DOMAIN queue' /\ queue'[k] = queue[k]
          BY <1>7, <1>8, <2>1
    <3> QED BY <3>1
  <2>2. CASE old = <<>>
    <3>1. Len(old) = 0
          BY <2>2
    <3>2. ASSUME NEW k \in DOMAIN queue'
          PROVE  queue'[k].kind = "boot"
      <4>1. k \in 1..Len(boot) /\ 0 + k = k
            BY <1>7, <1>8, <3>1, <3>2
      <4>2. queue'[k] = boot[k]
            BY <1>8, <3>1, <4>1
      <4> QED BY <1>7, <4>1, <4>2
    <3> QED BY <3>2
  <2> QED BY <2>1, <2>2
<1> QED BY <1>3, <1>4, <1>8, <1>9, <1>10 DEF ConnectEffect, gen

LEMMA DisconnectDoes ==
  ASSUME TypeOK, Disconnect
  PROVE  DisconnectEffect
<1>1. state \in State /\ link \in Link /\ truth.now \in Time /\ ops' \in 0..MaxOps
      BY Typing, FaultType DEF Truth, Disconnect
<1>2. SameState
      BY <1>1 DEF Disconnect, SameState, State, Maybe
<1>3. link' \in Link /\ ~link'.up /\ link'.gen = link.gen /\ link'.epoch = truth.now
      BY <1>1 DEF Disconnect, Link
<1> QED BY <1>1, <1>2, <1>3 DEF DisconnectEffect, Disconnect

LEMMA SaveDoes ==
  ASSUME TypeOK, Save
  PROVE  SaveEffect
<1>1. state \in State
      BY Typing
<1> QED BY <1>1 DEF Save, SaveEffect, Document, State

LEMMA RestartDoes ==
  ASSUME TypeOK, Restart
  PROVE  RestartEffect
<1>1. saved \in Document /\ ops' \in 0..MaxOps
      BY Typing, FaultType DEF Restart
<1> DEFINE s == IF saved.session = None THEN None ELSE [saved.session EXCEPT !.gen = None]
<1>2. s \in Maybe(Session) /\ (s = None <=> saved.session = None)
  <2>1. CASE saved.session = None
        BY <2>1 DEF Maybe
  <2>2. CASE saved.session # None
    <3>1. saved.session \in Session
          BY <1>1, <2>2 DEF Document, Maybe
    <3>2. None \in Maybe(Generation)
          BY DEF Maybe
    <3>3. s \in Session
          BY <2>2, <3>1, <3>2 DEF Session
    <3> QED BY <2>2, <3>3, NoneAssumption DEF Maybe
  <2> QED BY <2>1, <2>2
<1>3. s # None => s.gen = None /\ s = [saved.session EXCEPT !.gen = None]
  <2>1. saved.session # None => saved.session \in Session
        BY <1>1 DEF Document, Maybe
  <2> QED BY <2>1 DEF Session
<1>4. state' = [Blank EXCEPT !.closed = saved.closed, !.session = s]
      BY DEF Restart
<1> HIDE DEF s
<1>5. /\ state' \in State /\ state'.session = s /\ state'.closed = saved.closed /\ state'.parent = None
      /\ state'.connector = None /\ state'.charging = None
      BY <1>1, <1>2, <1>4 DEF Blank, State, Document, Maybe
<1>6. link' \in Link /\ ~link'.up /\ link'.epoch = 0
      BY BoundsAssumption DEF Restart, Offline, Link, Generation, Maybe, Time
<1> QED BY <1>1, <1>2, <1>3, <1>5, <1>6 DEF RestartEffect, Restart

-----------------------------------------------------------------------------
(* The invariant of energy is inductive *)

LEMMA StillTrue ==
  ASSUME truth \in Truth, truth' \in Truth, truth'.offset = truth.offset,
         \A i \in Ids : truth.begun[i] # None => truth'.begun[i] = truth.begun[i]
  PROVE  /\ \A x \in Report : ReportTrue(x) => ReportTrue(x)'
         /\ \A s \in Session : MeterTrue(s) => MeterTrue(s)'
         /\ \A o : ParentTrue(o) => ParentTrue(o)'
<1>1. ASSUME NEW x \in Report, ReportTrue(x)
      PROVE  ReportTrue(x)'
  <2>1. CASE x.kind = "Started"
    <3>1. Happened(x) /\ x.id \in Ids /\ x.at \in Nat
          BY <2>1, ReportForms DEF Happened, Kinds, EventReport, Time
    <3>2. truth'.begun[x.id] = truth.begun[x.id]
          BY <1>1, <2>1, <3>1, NoneAssumption DEF ReportTrue, Begins
    <3> QED BY <1>1, <2>1, <3>1, <3>2 DEF ReportTrue, Begins, Happened, Kinds
  <2>2. CASE x.kind # "Started"
        BY <1>1, <2>2 DEF ReportTrue, Begins, Happened, Kinds
  <2> QED BY <2>1, <2>2
<1>2. ASSUME NEW s \in Session, MeterTrue(s)
      PROVE  MeterTrue(s)'
  <2>1. s.startMeter # None => truth'.begun[s.id] = truth.begun[s.id]
    <3> HAVE s.startMeter # None
    <3>1. s.id \in Ids /\ truth.begun[s.id] = s.startMeter
          BY <1>2 DEF MeterTrue, Counting, Session
    <3> QED BY <3>1
  <2>2. Counting(s)'
        BY <1>2, <2>1 DEF MeterTrue, Counting
  <2>3. Fits(s)'
        BY <1>2 DEF MeterTrue, Fits, LastMeter
  <2> QED BY <2>2, <2>3 DEF MeterTrue
<1>3. ASSUME NEW o, ParentTrue(o)
      PROVE  ParentTrue(o)'
      BY <1>3 DEF ParentTrue
<1> QED BY <1>1, <1>2, <1>3

(* Reports that are on their way were there before, or are true. *)
Kept ==
  \A k \in DOMAIN queue' : \E x \in Report :
    x = queue'[k] /\ ((\E j \in DOMAIN queue : x = queue[j]) \/ ReportTrue(x)')

LEMMA CountedStays ==
  ASSUME Metering, TypeOK', truth'.offset = truth.offset,
         \A i \in Ids : truth.begun[i] # None => truth'.begun[i] = truth.begun[i],
         Kept,
         NEW o, o = state'.parent, ParentTrue(o),
         NEW s, s = state'.session, s # None => MeterTrue(s),
         NEW v, v = saved'.session, v # None => MeterTrue(v)
  PROVE  Metering'
<1>1. truth \in Truth /\ truth' \in Truth
      BY Typing DEF Metering, TypeOK, Truth
<1>2. ASSUME NEW k \in DOMAIN queue'
      PROVE  ReportTrue(queue[k])'
  <2>1. PICK x \in Report : x = queue'[k] /\ ((\E j \in DOMAIN queue : x = queue[j]) \/ ReportTrue(x)')
        BY <1>2 DEF Kept
  <2>2. ReportTrue(x)'
    <3>1. CASE \E j \in DOMAIN queue : x = queue[j]
      <4>1. ReportTrue(x)
            BY <3>1 DEF Metering, Counted
      <4> QED BY <1>1, <4>1, StillTrue
    <3> QED BY <2>1, <3>1
  <2> QED BY <2>1, <2>2 DEF ReportTrue, Begins, Happened
<1>3. ParentTrue(state.parent)'
  <2>1. ParentTrue(o)'
        BY <1>1, StillTrue
  <2> QED BY <2>1 DEF ParentTrue
<1>4. (state.session # None => MeterTrue(state.session))'
  <2>1. s # None => s \in Session
        BY DEF TypeOK, Maybe
  <2>2. s # None => MeterTrue(s)'
        BY <1>1, <2>1, StillTrue
  <2> QED BY <2>2 DEF MeterTrue, Counting, Fits, LastMeter
<1>5. (saved.session # None => MeterTrue(saved.session))'
  <2>1. v # None => v \in Session
        BY DEF TypeOK, Document, Maybe
  <2>2. v # None => MeterTrue(v)'
        BY <1>1, <2>1, StillTrue
  <2> QED BY <2>2 DEF MeterTrue, Counting, Fits, LastMeter
<1> QED BY <1>2, <1>3, <1>4, <1>5 DEF Metering, Counted

LEMMA MovedKept ==
  ASSUME queue \in Seq(Report), queue # <<>>, Handled
  PROVE  Kept /\ queue' \in Seq(Report)
<1>1. Moved(queue, queue') /\ queue' \in Seq(Report)
      BY Moves
<1>2. PICK n \in Nat :
        /\ DOMAIN queue = 1..n+1
        /\ \/ DOMAIN queue' = 1..n
           \/ DOMAIN queue' = 1..n+1 /\ queue'[n+1] = queue[1]
        /\ \A k \in 1..n : queue'[k] = queue[k+1]
      BY <1>1 DEF Moved
<1>3. ASSUME NEW k \in DOMAIN queue'
      PROVE  queue'[k] \in Report /\ \E j \in DOMAIN queue : queue'[k] = queue[j]
  <2>1. CASE k \in 1..n
        BY <1>1, <1>2, <2>1
  <2>2. CASE k = n + 1
        BY <1>1, <1>2, <1>3, <2>2
  <2> QED BY <1>2, <1>3, <2>1, <2>2
<1> QED BY <1>1, <1>3 DEF Kept

LEMMA SameKept ==
  ASSUME queue \in Seq(Report), queue' \in Seq(Report),
         \A k \in DOMAIN queue' :
            \/ k \in DOMAIN queue /\ queue'[k] = queue[k]
            \/ queue'[k].kind \in {"boot", "status"}
  PROVE  Kept
<1>1. ASSUME NEW k \in DOMAIN queue'
      PROVE  \E x \in Report : x = queue'[k] /\ ((\E j \in DOMAIN queue : x = queue[j]) \/ ReportTrue(x)')
  <2>1. PICK x \in Report : x = queue'[k]
        BY <1>1
  <2>2. CASE x.kind \in {"boot", "status"}
        BY <2>1, <2>2 DEF ReportTrue, Happened, Kinds
  <2> QED BY <1>1, <2>1, <2>2
<1> QED BY <1>1 DEF Kept

LEMMA GrowsKept ==
  ASSUME queue \in Seq(Report), queue' \in Seq(Report), NEW x \in Report, Grows(x), ReportTrue(x)'
  PROVE  Kept
<1>1. CASE ~link.up
      BY <1>1, SameKept DEF Grows
<1>2. CASE link.up
  <2>1. PICK n \in Nat : /\ DOMAIN queue = 1..n /\ DOMAIN queue' = 1..n+1
                         /\ queue'[n+1] = x /\ \A k \in 1..n : queue'[k] = queue[k]
        BY <1>2 DEF Grows, Appended
  <2>2. ASSUME NEW k \in DOMAIN queue'
        PROVE  \E y \in Report : y = queue'[k] /\ ((\E j \in DOMAIN queue : y = queue[j]) \/ ReportTrue(y)')
    <3>1. CASE k \in 1..n
          BY <2>1, <2>2, <3>1
    <3>2. CASE k = n + 1
          BY <2>1, <3>2
    <3> QED BY <2>1, <2>2, <3>1, <3>2
  <2> QED BY <2>2 DEF Kept
<1> QED BY <1>1, <1>2

LEMMA MeteringInit ==
  ASSUME Init
  PROVE  Metering
<1>0. 0 \in Time /\ None \in Maybe(Time) /\ None \in Maybe(Ids) /\ <<0, 0>> \in Generation
      /\ "occupied" \in {"available", "occupied"}
      BY BoundsAssumption DEF Time, Maybe, Generation
<1>1. truth \in Truth
  <2>1. [i \in Ids |-> None] \in [Ids -> Maybe(Time)]
        BY <1>0
  <2> QED BY <1>0, <2>1 DEF Init, Truth
<1>2. queue \in Seq(Report) /\ DOMAIN queue = {}
      BY DEF Init
<1>3. link \in Link
      BY <1>0 DEF Init, Offline, Link, Maybe
<1>4. state \in State /\ state.session = None /\ state.parent = None
      BY DEF Init, Blank, State, Maybe
<1>5. saved \in Document /\ saved.session = None /\ ops \in 0..MaxOps
      BY BoundsAssumption DEF Init, Document, Maybe
<1>6. TypeOK
      BY <1>1, <1>2, <1>3, <1>4, <1>5, Typing
<1> QED BY <1>2, <1>4, <1>5, <1>6 DEF Metering, Counted, ParentTrue

LEMMA HandlersKeepCount ==
  ASSUME Metering, EventEffect \/ MeterEffect \/ StatusEffect
  PROVE  Metering'
<1>1. TypeOK /\ queue \in Seq(Report) /\ truth \in Truth /\ state \in State /\ Counted
      BY Typing DEF Metering
<1>2. queue # <<>> /\ Handled /\ UNCHANGED <<truth, link, saved, ops>> /\ state' \in State
      BY DEF EventEffect, MeterEffect, StatusEffect, Receives
<1>3. Kept /\ queue' \in Seq(Report)
      BY <1>1, <1>2, MovedKept
<1>4. TypeOK'
      BY <1>1, <1>2, <1>3 DEF TypeOK, State
<1>5. saved'.session # None => MeterTrue(saved.session)
      BY <1>1, <1>2 DEF Counted
<1>6. ParentTrue(state'.parent) /\ (state'.session # None => MeterTrue(state'.session))
  <2>1. CASE EventEffect
    <3>1. CASE Heard(state, Head(queue))
          BY <1>1, <2>1, <3>1 DEF EventEffect, Counted
    <3>2. CASE ~Heard(state, Head(queue))
          BY <1>1, <2>1, <3>2 DEF EventEffect, Counted
    <3> QED BY <3>1, <3>2
  <2>2. CASE MeterEffect
        BY <2>2 DEF MeterEffect
  <2>3. CASE StatusEffect
        BY <1>1, <2>3 DEF StatusEffect, Counted
  <2> QED BY <2>1, <2>2, <2>3
<1>7. PICK o, s, v : o = state'.parent /\ s = state'.session /\ v = saved'.session /\ v = saved.session
      BY <1>2
<1> QED BY <1>2, <1>3, <1>4, <1>5, <1>6, <1>7, CountedStays

LEMMA StationKeepsCount ==
  ASSUME Metering, StationEffect
  PROVE  Metering'
<1>1. TypeOK /\ queue \in Seq(Report) /\ truth \in Truth /\ Counted
      BY Typing DEF Metering
<1>2. PICK x \in Report, t \in Truth : t = truth' /\ Grows(x) /\ Happens(x, t) /\ ReportTrue(x)'
      BY DEF StationEffect
<1>3. /\ UNCHANGED <<link, state, saved>> /\ queue' \in Seq(Report) /\ truth' \in Truth
      /\ truth'.offset = truth.offset /\ ops' \in 0..MaxOps
      BY DEF StationEffect
<1>4. Kept
      BY <1>1, <1>2, <1>3, GrowsKept
<1>5. TypeOK'
      BY <1>1, <1>3 DEF TypeOK, Truth
<1>6. ASSUME NEW i \in Ids, truth.begun[i] # None
      PROVE  truth'.begun[i] = truth.begun[i]
  <2>1. CASE Starting(x, t)
        BY <1>1, <1>2, <1>6, <2>1 DEF Starting, Truth
  <2>2. CASE ~Starting(x, t)
        BY <1>2, <2>2 DEF Happens, Plugging, Updating, Ending, Measuring, Booting, Stays
  <2> QED BY <2>1, <2>2
<1>7. PICK o, s, v : /\ o = state'.parent /\ s = state'.session /\ v = saved'.session
                     /\ o = state.parent /\ s = state.session /\ v = saved.session
      BY <1>3
<1> QED BY <1>1, <1>3, <1>4, <1>5, <1>6, <1>7, CountedStays DEF Counted

LEMMA LinkKeepsCount ==
  ASSUME Metering, BootEffect \/ ConnectEffect \/ DisconnectEffect \/ SaveEffect \/ RestartEffect
  PROVE  Metering'
<1>1. /\ TypeOK /\ queue \in Seq(Report) /\ truth \in Truth /\ link \in Link /\ state \in State
      /\ saved \in Document /\ ops \in 0..MaxOps /\ Counted
      BY Typing DEF Metering
<1>2. /\ UNCHANGED truth /\ ops' \in 0..MaxOps /\ queue' \in Seq(Report) /\ link' \in Link
      /\ state' \in State /\ saved' \in Document
      BY <1>1 DEF BootEffect, ConnectEffect, DisconnectEffect, SaveEffect, RestartEffect, SameState
<1>3. TypeOK'
      BY <1>1, <1>2 DEF TypeOK, State, Link
<1>4. Kept
  <2>1. CASE BootEffect
    <3>1. PICK n \in Nat, x \in StatusReport :
            /\ DOMAIN queue = 1..n+1 /\ DOMAIN queue' = 1..n+1
            /\ \A k \in 1..n : queue'[k] = queue[k+1]
            /\ queue'[n+1] = x
          BY <2>1 DEF BootEffect
    <3>2. ASSUME NEW k \in DOMAIN queue'
          PROVE  \E y \in Report : y = queue'[k] /\ ((\E j \in DOMAIN queue : y = queue[j]) \/ ReportTrue(y)')
      <4>1. PICK y \in Report : y = queue'[k]
            BY <1>2, <3>2
      <4>2. CASE k \in 1..n
            BY <3>1, <4>1, <4>2
      <4>3. CASE k = n + 1
            BY <3>1, <4>1, <4>3 DEF StatusReport, ReportTrue, Happened, Kinds
      <4> QED BY <3>1, <3>2, <4>2, <4>3
    <3> QED BY <3>2 DEF Kept
  <2>2. CASE ConnectEffect
        BY <1>1, <1>2, <2>2, SameKept DEF ConnectEffect
  <2>3. CASE DisconnectEffect \/ SaveEffect \/ RestartEffect
        BY <1>1, <2>3, SameKept DEF DisconnectEffect, SaveEffect, RestartEffect
  <2> QED BY <2>1, <2>2, <2>3
<1>5. PICK o, s, v : o = state'.parent /\ s = state'.session /\ v = saved'.session
      OBVIOUS
<1>6. ParentTrue(o)
  <2>1. o = state.parent \/ o = None
        BY <1>5 DEF BootEffect, ConnectEffect, DisconnectEffect, SaveEffect, RestartEffect, SameState
  <2> QED BY <1>1, <2>1 DEF Counted, ParentTrue
<1>7. s # None => MeterTrue(s)
  <2>1. CASE RestartEffect
    <3> HAVE s # None
    <3>1. saved.session \in Session /\ MeterTrue(saved.session) /\ s = [saved.session EXCEPT !.gen = None]
          BY <1>1, <1>5, <2>1 DEF RestartEffect, Document, Maybe, Counted
    <3>2. \A d \in Session : MeterTrue(d) => MeterTrue([d EXCEPT !.gen = None])
      <4> TAKE d \in Session
      <4> HAVE MeterTrue(d)
      <4> DEFINE e == [d EXCEPT !.gen = None]
      <4>1. /\ e.id = d.id /\ e.updated = d.updated /\ e.ended = d.ended
            /\ e.startMeter = d.startMeter /\ e.stream = d.stream
            /\ e.current = d.current /\ e.at = d.at /\ e.invalid = d.invalid
            /\ e.linked = d.linked /\ e.endMeter = d.endMeter /\ e.energy = d.energy
            BY DEF Session
      <4> HIDE DEF e
      <4>2. LastMeter(e) = LastMeter(d)
            BY <4>1 DEF LastMeter
      <4> QED BY <4>1, <4>2 DEF MeterTrue, Counting, Fits, e
    <3> QED BY <3>1, <3>2
  <2>2. CASE ~RestartEffect
    <3>1. s = state.session
          BY <1>5, <2>2 DEF BootEffect, ConnectEffect, DisconnectEffect, SaveEffect, SameState
    <3> QED BY <1>1, <3>1 DEF Counted
  <2> QED BY <2>1, <2>2
<1>8. v # None => MeterTrue(v)
  <2>1. v = saved.session \/ v = state.session
        BY <1>5 DEF BootEffect, ConnectEffect, DisconnectEffect, SaveEffect, RestartEffect, SameState
  <2> QED BY <1>1, <2>1 DEF Counted
<1> QED BY <1>2, <1>3, <1>4, <1>5, <1>6, <1>7, <1>8, CountedStays

Effects == \/ EventEffect \/ MeterEffect \/ StatusEffect \/ StationEffect
           \/ BootEffect \/ ConnectEffect \/ DisconnectEffect \/ SaveEffect \/ RestartEffect

LEMMA Steps ==
  ASSUME Metering, Next
  PROVE  Effects
<1>1. TypeOK
      BY DEF Metering
<1> QED BY <1>1, EventDoes, MeterDoes, StatusDoes, StationDoes, BootDoes, ConnectDoes, DisconnectDoes,
           SaveDoes, RestartDoes
    DEF Next, Handlers, World, Station, Effects

LEMMA MeteringHolds == Spec => []Metering
<1>1. Init => Metering
      BY MeteringInit
<1>2. Metering /\ [Next]_vars => Metering'
  <2> SUFFICES ASSUME Metering, [Next]_vars PROVE Metering'
      OBVIOUS
  <2>1. CASE Next
    <3>1. Effects
          BY <2>1, Steps
    <3> QED BY <3>1, HandlersKeepCount, StationKeepsCount, LinkKeepsCount DEF Effects
  <2>2. CASE UNCHANGED vars
        BY <2>2 DEF vars, Metering, TypeOK, Counted, ReportTrue, Begins, Happened, ParentTrue,
                    MeterTrue, Counting, Fits, LastMeter
  <2> QED BY <2>1, <2>2
<1> QED BY <1>1, <1>2, PTL DEF Spec

(* Every reachable state is well typed: reports, sessions and observations *)
(* have the form that their handlers expect, and no energy is negative.    *)
THEOREM TypeCorrect == Spec => []TypeOK
<1>1. Metering => TypeOK
      BY DEF Metering
<1> QED BY <1>1, MeteringHolds, PTL

(* The energy of a session is what its own counter counted since it began, *)
(* up to the last reading or its end, whatever is lost, repeated, spoilt,  *)
(* linked or restored (session.py calculate_energy, meter, linked_energy). *)
THEOREM EnergyTrueHolds == Spec => []EnergyTrue
<1>1. Metering => EnergyTrue
  <2> SUFFICES ASSUME Metering, state.session # None, state.session.energy # None
      PROVE  state.session.energy
               - ((IF state.session.ended # None THEN state.session.ended ELSE state.session.at)
                    - truth.begun[state.session.id])
                 \in -BOUNDARY_AGE..BOUNDARY_AGE
      BY DEF EnergyTrue
  <2> DEFINE s == state.session
  <2>1. s \in Session /\ MeterTrue(s)
        BY DEF Metering, TypeOK, Counted, Maybe
  <2> HIDE DEF s
  <2>2. /\ s.energy # None /\ s.startMeter = truth.begun[s.id] /\ ~s.invalid /\ s.startMeter \in Nat
        /\ s.energy = LastMeter(s) - s.startMeter /\ LastMeter(s) # None
        BY <2>1 DEF s, MeterTrue, Counting, Fits, Session, Maybe
  <2>3. CASE s.ended = None
    <3>1. s.energy = s.at - s.startMeter /\ s.at \in Nat
      <4>1. LastMeter(s) = s.current /\ s.current # None /\ s.startMeter # None
            BY <2>2, <2>3, NoneAssumption DEF LastMeter
      <4>2. s.at = s.current
            BY <2>1, <2>2, <4>1 DEF MeterTrue, Counting
      <4>3. s.current \in Nat
            BY <2>1, <4>1 DEF Session, Maybe
      <4> QED BY <2>2, <4>1, <4>2, <4>3
    <3> QED BY <2>2, <2>3, <3>1, BoundsAssumption DEF s
  <2>4. CASE s.ended # None
    <3>1. /\ s.energy = s.endMeter - s.startMeter /\ s.endMeter \in Nat /\ s.ended \in Nat
          /\ s.ended - s.endMeter \in 0..BOUNDARY_AGE
          BY <2>1, <2>2, <2>4, NoneAssumption DEF MeterTrue, Counting, LastMeter, Session, Maybe, Time
    <3> QED BY <2>2, <2>4, <3>1, BoundsAssumption DEF s
  <2> QED BY <2>3, <2>4
<1> QED BY <1>1, MeteringHolds, PTL

-----------------------------------------------------------------------------
(* Time and order *)

Clocks ==
  /\ link.epoch <= truth.now /\ truth.plugged <= truth.now
  /\ \A i \in Ids : truth.begun[i] # None => truth.begun[i] <= truth.now
  /\ truth.active # None =>
       /\ truth.begun[truth.active] # None /\ truth.plug = "occupied"
       /\ truth.plugged < truth.begun[truth.active]

(* What was said of a transaction, by a report or in a session. *)
Evident(i, n, t) ==
  \/ \E k \in DOMAIN queue : Happened(queue[k]) /\ queue[k].id = i /\ queue[k].seq = n /\ queue[k].at = t
  \/ state.session # None /\ state.session.id = i /\ state.session.seq = n /\ state.session.updated = t
  \/ saved.session # None /\ saved.session.id = i /\ saved.session.seq = n /\ saved.session.updated = t
(* It lies in the past, and in the time of its own transaction. *)
Past(i, n, t) ==
  /\ truth.begun[i] # None /\ t <= truth.now
  /\ i = truth.active => n <= truth.seq /\ t >= truth.begun[i]
  /\ i # truth.active /\ truth.active # None => t < truth.begun[truth.active]
(* Within a transaction time and sequence number agree. *)
Ordered ==
  \A i \in Ids, n \in Nat, t \in Time : Evident(i, n, t) =>
    /\ Past(i, n, t)
    /\ \A m \in Nat, u \in Time : Evident(i, m, u) => (n <= m <=> t <= u)
InOrder == Metering /\ Clocks /\ Ordered

LEMMA ClocksTypes ==
  ASSUME TypeOK
  PROVE  /\ truth.now \in Nat /\ truth.plugged \in Nat /\ link.epoch \in Nat /\ truth.seq \in Nat
         /\ truth.active \in Maybe(Ids) /\ truth.plug \in {"available", "occupied"}
         /\ \A i \in Ids : truth.begun[i] \in Maybe(Time)
         /\ Time \subseteq Nat /\ None \notin Nat /\ None \notin Ids /\ None \notin Time
BY Typing, BoundsAssumption, NoneAssumption DEF Truth, Link, Time, Ids

LEMMA ClocksStays ==
  ASSUME Metering, Metering', Clocks, Effects
  PROVE  Clocks'
<1>1. TypeOK /\ TypeOK'
      BY DEF Metering
<1>2. CASE StationEffect
  <2>1. PICK x \in Report, t \in Truth : t = truth' /\ Happens(x, t)
        BY <1>2 DEF StationEffect
  <2>2. UNCHANGED link /\ Now = truth.now + 1
        BY <1>2 DEF StationEffect
  <2>3. CASE Plugging(x, t)
        BY <1>1, <2>1, <2>2, <2>3, ClocksTypes DEF Plugging, Clocks, Maybe
  <2>4. CASE Starting(x, t)
    <3>1. x.id \in Ids /\ truth' = t /\ t.active = x.id /\ t.now = truth.now + 1
          /\ t.plug = "occupied" /\ t.plugged = truth.plugged
          BY <2>1, <2>2, <2>4 DEF Starting, EventReport
    <3>2. /\ t.begun[x.id] = truth.now + 1
          /\ \A i \in Ids : i # x.id => t.begun[i] = truth.begun[i]
          BY <1>1, <2>2, <2>4, <3>1 DEF Starting, TypeOK
    <3>3. truth.now + 1 # None /\ truth.now \in Nat
          BY <1>1, ClocksTypes
    <3>4. \A i \in Ids : t.begun[i] # None => t.begun[i] <= t.now
      <4> TAKE i \in Ids
      <4>1. CASE i = x.id
            BY <3>1, <3>2, <3>3, <4>1
      <4>2. CASE i # x.id
        <5>1. t.begun[i] = truth.begun[i] /\ truth.begun[i] \in Maybe(Time)
              BY <1>1, <3>2, <4>2, ClocksTypes
        <5>2. truth.begun[i] # None => truth.begun[i] \in Nat /\ truth.begun[i] <= truth.now
              BY <1>1, <5>1, ClocksTypes DEF Clocks, Maybe
        <5> QED BY <3>1, <3>3, <5>1, <5>2
      <4> QED BY <4>1, <4>2
    <3> QED BY <1>1, <2>1, <2>2, <3>1, <3>2, <3>3, <3>4, ClocksTypes DEF Clocks
  <2>5. CASE Updating(x, t) \/ Ending(x, t) \/ Measuring(x, t) \/ Booting(x, t)
    <3>1. /\ truth'.begun = truth.begun /\ truth'.plug = truth.plug /\ truth'.plugged = truth.plugged
          /\ truth'.now \in {truth.now, truth.now + 1} /\ truth'.active \in {truth.active, None}
          BY <2>1, <2>2, <2>5 DEF Updating, Ending, Measuring, Booting, Stays
    <3>2. \A i \in Ids : truth.begun[i] # None => truth.begun[i] \in Nat /\ truth.begun[i] <= truth.now
          BY <1>1, ClocksTypes DEF Clocks, Maybe
    <3> QED BY <1>1, <2>2, <3>1, <3>2, ClocksTypes DEF Clocks
  <2> QED BY <2>1, <2>3, <2>4, <2>5 DEF Happens
<1>3. CASE ~StationEffect
  <2>1. UNCHANGED truth /\ link'.epoch \in {link.epoch, truth.now, 0}
        BY <1>3 DEF Effects, EventEffect, MeterEffect, StatusEffect, BootEffect, ConnectEffect,
                    DisconnectEffect, SaveEffect, RestartEffect
  <2>2. link'.epoch <= truth.now
        BY <1>1, <2>1, ClocksTypes DEF Clocks
  <2> QED BY <2>1, <2>2 DEF Clocks
<1> QED BY <1>2, <1>3

(* Only the station says anything new. *)
LEMMA NothingNew ==
  ASSUME Metering, Effects, ~StationEffect
  PROVE  \A i \in Ids, n \in Nat, t \in Time : Evident(i, n, t)' => Evident(i, n, t)
<1>0. queue \in Seq(Report) /\ (queue' \in Seq(Report) \/ UNCHANGED queue)
      BY Typing, MovedKept DEF Metering, Effects, EventEffect, MeterEffect, StatusEffect, BootEffect,
         ConnectEffect, DisconnectEffect, SaveEffect, RestartEffect, Receives
<1> SUFFICES ASSUME NEW i \in Ids, NEW n \in Nat, NEW t \in Time, Evident(i, n, t)'
             PROVE  Evident(i, n, t)
    OBVIOUS
<1> DEFINE InQueue == \E k \in DOMAIN queue : Happened(queue[k]) /\ queue[k].id = i /\ queue[k].seq = n
                                              /\ queue[k].at = t
           InState == state.session # None /\ state.session.id = i /\ state.session.seq = n
                      /\ state.session.updated = t
           InSaved == saved.session # None /\ saved.session.id = i /\ saved.session.seq = n
                      /\ saved.session.updated = t
<1>1. Evident(i, n, t) <=> InQueue \/ InState \/ InSaved
      BY DEF Evident
<1>2. InQueue' \/ InState' \/ InSaved'
      BY DEF Evident
<1>3. InQueue' => InQueue
  <2> SUFFICES ASSUME NEW k \in DOMAIN queue', Happened(queue'[k]), queue'[k].id = i,
                      queue'[k].seq = n, queue'[k].at = t
               PROVE  \E j \in DOMAIN queue : queue'[k] = queue[j]
      BY DEF Happened
  <2>1. CASE EventEffect \/ MeterEffect \/ StatusEffect
    <3>1. queue \in Seq(Report) /\ queue # <<>> /\ Handled
          BY <2>1, Typing DEF Metering, EventEffect, MeterEffect, StatusEffect, Receives
    <3>2. PICK m \in Nat :
            /\ DOMAIN queue = 1..m+1
            /\ \/ DOMAIN queue' = 1..m
               \/ DOMAIN queue' = 1..m+1 /\ queue'[m+1] = queue[1]
            /\ \A j \in 1..m : queue'[j] = queue[j+1]
          BY <3>1, Moves DEF Moved
    <3>3. CASE k \in 1..m
      <4>1. k + 1 \in DOMAIN queue /\ queue'[k] = queue[k+1]
            BY <3>2, <3>3
      <4> QED BY <4>1
    <3>4. CASE k = m + 1
          BY <3>2, <3>4
    <3> QED BY <3>2, <3>3, <3>4
  <2>2. CASE BootEffect
    <3>1. PICK m \in Nat, x \in StatusReport :
            /\ DOMAIN queue = 1..m+1 /\ DOMAIN queue' = 1..m+1
            /\ \A j \in 1..m : queue'[j] = queue[j+1]
            /\ queue'[m+1] = x
          BY <2>2 DEF BootEffect
    <3>2. ~Happened(x)
          BY DEF Happened, Kinds, StatusReport
    <3>3. k # m + 1
          BY <3>1, <3>2 DEF Happened
    <3>4. k + 1 \in DOMAIN queue /\ queue'[k] = queue[k+1]
          BY <3>1, <3>3
    <3> QED BY <3>4
  <2>3. CASE ConnectEffect
        BY <2>3 DEF ConnectEffect, Happened, Kinds
  <2>4. CASE DisconnectEffect \/ SaveEffect \/ RestartEffect
        BY <2>4 DEF DisconnectEffect, SaveEffect, RestartEffect
  <2> QED BY <2>1, <2>2, <2>3, <2>4 DEF Effects
<1>4. InState' => InQueue \/ InState \/ InSaved
  <2> HAVE InState'
  <2>1. CASE EventEffect
    <3> DEFINE x == Head(queue)
    <3>1. CASE Heard(state, x)
      <4>1. x = queue[1] /\ 1 \in DOMAIN queue /\ Happened(x)
        <5>1. queue \in Seq(Report) /\ queue # <<>> /\ Handled
              BY <2>1, Typing DEF Metering, EventEffect, Receives
        <5> QED BY <2>1, <5>1, Moves DEF EventEffect, Receives, Happened
      <4>2. state'.session.id = x.id /\ state'.session.seq = x.seq /\ state'.session.updated = x.at
            BY <2>1, <3>1 DEF EventEffect, Tells
      <4> QED BY <4>1, <4>2
    <3>2. CASE ~Heard(state, x)
          BY <2>1, <3>2 DEF EventEffect
    <3> QED BY <3>1, <3>2
  <2>2. CASE MeterEffect
        BY <2>2 DEF MeterEffect, Keeps
  <2>3. CASE RestartEffect
    <3>1. saved.session \in Session /\ state'.session = [saved.session EXCEPT !.gen = None]
          BY <2>3 DEF RestartEffect, Metering, TypeOK, Document, Maybe
    <3>2. InSaved
          BY <2>3, <3>1 DEF RestartEffect, Session
    <3> QED BY <3>2
  <2>4. CASE \/ StatusEffect \/ BootEffect \/ ConnectEffect \/ DisconnectEffect \/ SaveEffect
        BY <2>4 DEF StatusEffect, BootEffect, ConnectEffect, DisconnectEffect, SaveEffect, SameState
  <2> QED BY <2>1, <2>2, <2>3, <2>4 DEF Effects
<1>5. InSaved' => InSaved \/ InState
  <2>1. UNCHANGED saved \/ saved'.session = state.session
        BY DEF Effects, EventEffect, MeterEffect, StatusEffect, BootEffect, ConnectEffect,
               DisconnectEffect, SaveEffect, RestartEffect
  <2> QED BY <2>1
<1> QED BY <1>1, <1>2, <1>3, <1>4, <1>5

LEMMA OneNew ==
  ASSUME Metering, StationEffect
  PROVE  \E x \in Report, s \in Truth : s = truth' /\ Grows(x) /\ Happens(x, s) /\
           \A i \in Ids, n \in Nat, t \in Time :
             Evident(i, n, t)' => \/ Evident(i, n, t)
                                  \/ Happened(x) /\ link.up /\ i = x.id /\ n = x.seq /\ t = x.at
<1>1. PICK x \in Report, s \in Truth : s = truth' /\ Grows(x) /\ Happens(x, s)
      BY DEF StationEffect
<1>2. UNCHANGED <<link, state, saved>>
      BY DEF StationEffect
<1>3. ASSUME NEW i \in Ids, NEW n \in Nat, NEW t \in Time, Evident(i, n, t)'
      PROVE  \/ Evident(i, n, t)
             \/ Happened(x) /\ link.up /\ i = x.id /\ n = x.seq /\ t = x.at
  <2>1. CASE link.up
    <3>1. PICK m \in Nat : /\ DOMAIN queue = 1..m /\ DOMAIN queue' = 1..m+1
                           /\ queue'[m+1] = x /\ \A k \in 1..m : queue'[k] = queue[k]
          BY <1>1, <2>1 DEF Grows, Appended
    <3>2. ASSUME NEW k \in DOMAIN queue', Happened(queue'[k]), queue'[k].id = i,
                 queue'[k].seq = n, queue'[k].at = t
          PROVE  \/ k \in DOMAIN queue /\ queue'[k] = queue[k]
                 \/ queue'[k] = x
          BY <3>1
    <3>3. ASSUME NEW k \in DOMAIN queue', Happened(queue'[k]), queue'[k].id = i,
                 queue'[k].seq = n, queue'[k].at = t
          PROVE  \/ Evident(i, n, t)
                 \/ Happened(x) /\ link.up /\ i = x.id /\ n = x.seq /\ t = x.at
          BY <2>1, <3>2, <3>3 DEF Evident
    <3> QED BY <1>2, <1>3, <3>3 DEF Evident, Happened
  <2>2. CASE ~link.up
        BY <1>1, <1>2, <1>3, <2>2 DEF Grows, Evident, Happened
  <2> QED BY <2>1, <2>2
<1> QED BY <1>1, <1>3

LEMMA OrderedStays ==
  ASSUME InOrder, Metering', Effects
  PROVE  Ordered'
<1>0. TypeOK /\ TypeOK' /\ Clocks /\ Ordered /\ Metering
      BY DEF InOrder, Metering
<1>1. CASE ~StationEffect
  <2>1. UNCHANGED truth
        BY <1>1 DEF Effects, EventEffect, MeterEffect, StatusEffect, BootEffect, ConnectEffect,
                    DisconnectEffect, SaveEffect, RestartEffect
  <2>2. \A i \in Ids, n \in Nat, t \in Time : Evident(i, n, t)' => Evident(i, n, t)
        BY <1>0, <1>1, NothingNew
  <2>3. ASSUME NEW i \in Ids, NEW n \in Nat, NEW t \in Time, Evident(i, n, t)'
        PROVE  /\ Past(i, n, t)'
               /\ \A m \in Nat, u \in Time : Evident(i, m, u)' => (n <= m <=> t <= u)
    <3>1. Past(i, n, t)
          BY <1>0, <2>2, <2>3 DEF Ordered
    <3>2. Past(i, n, t)'
          BY <2>1, <3>1 DEF Past
    <3> QED BY <1>0, <2>2, <2>3, <3>2 DEF Ordered
  <2> QED BY <2>3 DEF Ordered
<1>2. CASE StationEffect
  <2>1. PICK x \in Report, s \in Truth : s = truth' /\ Happens(x, s) /\
           \A i \in Ids, n \in Nat, t \in Time :
             Evident(i, n, t)' => \/ Evident(i, n, t)
                                  \/ Happened(x) /\ link.up /\ i = x.id /\ n = x.seq /\ t = x.at
        BY <1>0, <1>2, OneNew
  <2>2. Now = truth.now + 1
        BY <1>2 DEF StationEffect
  <2>3. /\ truth.now \in Nat /\ truth.seq \in Nat /\ Time \subseteq Nat
        /\ None \notin Nat /\ None \notin Ids
        /\ truth.active \in Maybe(Ids) /\ \A i \in Ids : truth.begun[i] \in Maybe(Time)
        BY <1>0, ClocksTypes
  <2>4. ASSUME NEW i \in Ids, NEW n \in Nat, NEW t \in Time, Evident(i, n, t)
        PROVE  Past(i, n, t)'
    <3>1. Past(i, n, t)
          BY <1>0, <2>4 DEF Ordered
    <3>2. CASE Starting(x, s)
      <4>1. /\ truth.begun[x.id] = None /\ truth'.begun = [truth.begun EXCEPT ![x.id] = truth.now + 1]
            /\ truth'.active = x.id /\ truth'.now = truth.now + 1 /\ x.id \in Ids
            BY <2>1, <2>2, <3>2 DEF Starting, EventReport
      <4>2. i # x.id /\ t <= truth.now
            BY <3>1, <4>1 DEF Past
      <4>3. truth'.begun[i] = truth.begun[i] /\ truth'.begun[x.id] = truth.now + 1
            BY <1>0, <4>1, <4>2 DEF TypeOK
      <4> QED BY <2>3, <3>1, <4>1, <4>2, <4>3 DEF Past
    <3>3. CASE Plugging(x, s)
          BY <2>1, <2>2, <2>3, <3>1, <3>3 DEF Plugging, Past
    <3>4. CASE Updating(x, s) \/ Ending(x, s) \/ Measuring(x, s) \/ Booting(x, s)
      <4>1. /\ truth'.begun = truth.begun /\ truth'.active \in {truth.active, None}
            /\ truth'.now \in {truth.now, truth.now + 1} /\ truth'.seq \in {truth.seq, truth.seq + 1}
            BY <2>1, <2>2, <3>4 DEF Updating, Ending, Measuring, Booting, Stays
      <4> QED BY <2>3, <3>1, <4>1 DEF Past
    <3> QED BY <2>1, <3>2, <3>3, <3>4 DEF Happens
  <2>5. ASSUME Happened(x)
        PROVE  /\ x.id \in Ids /\ x.seq \in Nat /\ x.at = truth.now + 1
               /\ Past(x.id, x.seq, x.at)'
               /\ \A m \in Nat, u \in Time : Evident(x.id, m, u) => m < x.seq /\ u < x.at
    <3>1. x \in EventReport /\ x.id \in Ids /\ x.seq \in Nat
          BY <2>5, ReportForms DEF EventReport
    <3>2. CASE Starting(x, s)
      <4>1. /\ truth.begun[x.id] = None /\ truth'.begun = [truth.begun EXCEPT ![x.id] = truth.now + 1]
            /\ truth'.active = x.id /\ truth'.now = truth.now + 1 /\ x.at = truth.now + 1
            /\ x.seq = 0 /\ truth'.seq = 0
            BY <2>1, <2>2, <3>2 DEF Starting
      <4>2. truth'.begun[x.id] = truth.now + 1
            BY <1>0, <3>1, <4>1 DEF TypeOK
      <4>3. \A m \in Nat, u \in Time : ~Evident(x.id, m, u)
            BY <1>0, <3>1, <4>1 DEF Ordered, Past
      <4> QED BY <2>3, <3>1, <4>1, <4>2, <4>3 DEF Past
    <3>3. CASE Updating(x, s) \/ Ending(x, s)
      <4>1. /\ truth'.begun = truth.begun /\ truth'.active \in {truth.active, None}
            /\ truth.active = x.id /\ truth'.now = truth.now + 1 /\ x.at = truth.now + 1
            /\ x.seq = truth.seq + 1 /\ truth'.seq = truth.seq + 1
            BY <2>1, <2>2, <3>3 DEF Updating, Ending, Stays
      <4>2. \A m \in Nat, u \in Time : Evident(x.id, m, u) => m <= truth.seq /\ u <= truth.now
            BY <1>0, <3>1, <4>1 DEF Ordered, Past
      <4>3. truth.begun[x.id] # None /\ truth.begun[x.id] <= truth.now /\ truth.begun[x.id] \in Nat
            BY <1>0, <2>3, <3>1, <4>1 DEF Clocks, Maybe
      <4>4. Past(x.id, x.seq, x.at)'
            BY <2>3, <3>1, <4>1, <4>3 DEF Past
      <4>5. \A m \in Nat, u \in Time : Evident(x.id, m, u) => m < x.seq /\ u < x.at
            BY <2>3, <4>1, <4>2
      <4> QED BY <3>1, <4>1, <4>4, <4>5
    <3> QED BY <2>1, <2>5, <3>2, <3>3
         DEF Happens, Plugging, Measuring, Booting, StatusReport, MeterReport, Happened, Kinds
  <2>6. ASSUME NEW i \in Ids, NEW n \in Nat, NEW t \in Time, Evident(i, n, t)'
        PROVE  /\ Past(i, n, t)'
               /\ \A m \in Nat, u \in Time : Evident(i, m, u)' => (n <= m <=> t <= u)
    <3>1. CASE Evident(i, n, t)
      <4>1. ASSUME NEW m \in Nat, NEW u \in Time, Evident(i, m, u)'
            PROVE  n <= m <=> t <= u
        <5>1. CASE Evident(i, m, u)
              BY <1>0, <3>1, <5>1 DEF Ordered
        <5>2. CASE Happened(x) /\ i = x.id /\ m = x.seq /\ u = x.at
          <6>1. n < m /\ t < u
                BY <2>5, <3>1, <5>2
          <6> QED BY <6>1, <2>3
        <5> QED BY <2>1, <4>1, <5>1, <5>2
      <4> QED BY <2>4, <3>1, <4>1
    <3>2. CASE Happened(x) /\ i = x.id /\ n = x.seq /\ t = x.at
      <4>1. ASSUME NEW m \in Nat, NEW u \in Time, Evident(i, m, u)'
            PROVE  n <= m <=> t <= u
        <5>1. CASE Evident(i, m, u)
          <6>1. m < n /\ u < t
                BY <2>5, <3>2, <5>1
          <6> QED BY <6>1, <2>3
        <5>2. CASE m = x.seq /\ u = x.at
              BY <2>3, <3>2, <5>2
        <5> QED BY <2>1, <4>1, <5>1, <5>2
      <4>2. Past(i, n, t)'
            BY <2>5, <3>2 DEF Past
      <4> QED BY <4>1, <4>2
    <3> QED BY <2>1, <2>6, <3>1, <3>2
  <2> QED BY <2>6 DEF Ordered
<1> QED BY <1>1, <1>2

LEMMA InOrderHolds == Spec => []InOrder
<1>1. ASSUME Init
      PROVE  InOrder
  <2>1. Metering
        BY <1>1, MeteringInit
  <2>2. \A i \in Ids, n \in Nat, t \in Time : ~Evident(i, n, t)
        BY <1>1 DEF Init, Evident, Blank
  <2>3. Clocks
        BY <1>1 DEF Init, Clocks, Offline
  <2> QED BY <2>1, <2>2, <2>3 DEF InOrder, Ordered
<1>2. ASSUME InOrder, [Next]_vars, Metering'
      PROVE  InOrder'
  <2>1. CASE Next
    <3>1. Metering /\ Clocks /\ Effects
          BY <1>2, <2>1, Steps DEF InOrder
    <3> QED BY <1>2, <3>1, ClocksStays, OrderedStays DEF InOrder
  <2>2. CASE UNCHANGED vars
        BY <1>2, <2>2 DEF vars, InOrder, Clocks, Ordered, Evident, Happened, Past
  <2> QED BY <1>2, <2>1, <2>2
<1> QED BY <1>1, <1>2, MeteringHolds, PTL DEF Spec

-----------------------------------------------------------------------------
(* Generations and closed transactions *)

GenLe(g, h) == g[1] < h[1] \/ (g[1] = h[1] /\ g[2] <= h[2])
(* The session ended if its transaction is closed. *)
Closes(s, closed) == s # None => (s.ended # None <=> s.id \in closed)
(* What is closed is over. *)
Begun(closed) == \A i \in closed : truth.begun[i] # None /\ i # truth.active
Current ==
  state.session # None /\ state.session.gen # None =>
    /\ GenLe(state.session.gen, link.gen)
    /\ state.session.gen = link.gen /\ link.up => state.session.updated >= link.epoch
(* A report of this moment says what is; a transaction that ended is over. *)
Latest ==
  \A k \in DOMAIN queue : Happened(queue[k]) =>
    /\ queue[k].at = truth.now =>
         truth.active = IF queue[k].kind = "Ended" THEN None ELSE queue[k].id
    /\ queue[k].kind = "Ended" => queue[k].id # truth.active
Book == /\ Closes(state.session, state.closed) /\ Closes(saved.session, saved.closed)
        /\ Begun(state.closed) /\ Begun(saved.closed) /\ Current
Closed == InOrder /\ Book /\ Latest

(* An event that was not on its way before is new. *)
LEMMA SameEvents ==
  ASSUME Metering, Effects, ~StationEffect
  PROVE  \A k \in DOMAIN queue' : Happened(queue'[k]) =>
           \E j \in DOMAIN queue : queue'[k] = queue[j]
<1> SUFFICES ASSUME NEW k \in DOMAIN queue', Happened(queue'[k])
             PROVE  \E j \in DOMAIN queue : queue'[k] = queue[j]
    BY DEF Happened
<1>1. CASE EventEffect \/ MeterEffect \/ StatusEffect
  <2>1. queue \in Seq(Report) /\ queue # <<>> /\ Handled
        BY <1>1, Typing DEF Metering, EventEffect, MeterEffect, StatusEffect, Receives
  <2>2. PICK m \in Nat :
          /\ DOMAIN queue = 1..m+1
          /\ \/ DOMAIN queue' = 1..m
             \/ DOMAIN queue' = 1..m+1 /\ queue'[m+1] = queue[1]
          /\ \A j \in 1..m : queue'[j] = queue[j+1]
        BY <2>1, Moves DEF Moved
  <2>3. CASE k \in 1..m
    <3>1. k + 1 \in DOMAIN queue /\ queue'[k] = queue[k+1]
          BY <2>2, <2>3
    <3> QED BY <3>1
  <2>4. CASE k = m + 1
        BY <2>2, <2>4
  <2> QED BY <2>2, <2>3, <2>4
<1>2. CASE BootEffect
  <2>1. PICK m \in Nat, x \in StatusReport :
          /\ DOMAIN queue = 1..m+1 /\ DOMAIN queue' = 1..m+1
          /\ \A j \in 1..m : queue'[j] = queue[j+1]
          /\ queue'[m+1] = x
        BY <1>2 DEF BootEffect
  <2>2. k # m + 1
        BY <2>1 DEF Happened, Kinds, StatusReport
  <2> QED BY <2>1, <2>2
<1>3. CASE ConnectEffect
      BY <1>3 DEF ConnectEffect, Happened, Kinds
<1>4. CASE DisconnectEffect \/ SaveEffect \/ RestartEffect
      BY <1>4 DEF DisconnectEffect, SaveEffect, RestartEffect
<1> QED BY <1>1, <1>2, <1>3, <1>4 DEF Effects

(* The form of the events on their way, and what is known of them. *)
LEMMA EventsForm ==
  ASSUME InOrder
  PROVE  \A k \in DOMAIN queue : Happened(queue[k]) =>
           /\ queue[k] \in EventReport /\ queue[k].id \in Ids /\ queue[k].seq \in Nat
           /\ queue[k].at \in Time /\ queue[k].at \in Nat
           /\ Evident(queue[k].id, queue[k].seq, queue[k].at)
           /\ Past(queue[k].id, queue[k].seq, queue[k].at)
<1> SUFFICES ASSUME NEW k \in DOMAIN queue, Happened(queue[k])
             PROVE  /\ queue[k] \in EventReport /\ queue[k].id \in Ids /\ queue[k].seq \in Nat
                    /\ queue[k].at \in Time /\ queue[k].at \in Nat
                    /\ Evident(queue[k].id, queue[k].seq, queue[k].at)
                    /\ Past(queue[k].id, queue[k].seq, queue[k].at)
    OBVIOUS
<1>1. queue[k] \in EventReport
      BY ReportForms, Typing DEF InOrder, Metering
<1>2. /\ queue[k].id \in Ids /\ queue[k].seq \in Nat
      /\ queue[k].at \in Time /\ queue[k].at \in Nat
      BY <1>1 DEF EventReport, Time
<1>3. Evident(queue[k].id, queue[k].seq, queue[k].at)
      BY DEF Evident
<1> QED BY <1>1, <1>2, <1>3 DEF InOrder, Ordered

LEMMA SessionForm ==
  ASSUME InOrder, state.session # None
  PROVE  LET s == state.session
         IN  /\ s \in Session /\ s.id \in Ids /\ s.seq \in Nat /\ s.updated \in Time /\ s.updated \in Nat
             /\ Evident(s.id, s.seq, s.updated) /\ Past(s.id, s.seq, s.updated)
<1>1. state.session \in Session
      BY DEF InOrder, Metering, TypeOK, Maybe
<1>2. /\ state.session.id \in Ids /\ state.session.seq \in Nat
      /\ state.session.updated \in Time /\ state.session.updated \in Nat
      BY <1>1 DEF Session, Time
<1>3. Evident(state.session.id, state.session.seq, state.session.updated)
      BY DEF Evident
<1> QED BY <1>1, <1>2, <1>3 DEF InOrder, Ordered

LEMMA LatestStays ==
  ASSUME InOrder, InOrder', Latest, Effects
  PROVE  Latest'
<1>0. Metering /\ TypeOK /\ \A k \in DOMAIN queue' : queue'[k] \in Report
      BY Typing DEF InOrder, Metering, TypeOK
<1>1. CASE ~StationEffect
  <2>1. UNCHANGED truth
        BY <1>1 DEF Effects, EventEffect, MeterEffect, StatusEffect, BootEffect, ConnectEffect,
                    DisconnectEffect, SaveEffect, RestartEffect
  <2>2. \A k \in DOMAIN queue' : Happened(queue'[k]) => \E j \in DOMAIN queue : queue'[k] = queue[j]
        BY <1>0, <1>1, SameEvents
  <2>3. ASSUME NEW k \in DOMAIN queue', Happened(queue'[k])
        PROVE  /\ queue'[k].at = truth.now =>
                    truth.active = IF queue'[k].kind = "Ended" THEN None ELSE queue'[k].id
               /\ queue'[k].kind = "Ended" => queue'[k].id # truth.active
    <3>1. PICK j \in DOMAIN queue : queue'[k] = queue[j]
          BY <2>2, <2>3
    <3>2. Happened(queue[j])
          BY <2>3, <3>1 DEF Happened
    <3> QED BY <3>1, <3>2 DEF Latest
  <2> QED BY <2>1, <2>3 DEF Latest, Happened
<1>2. CASE StationEffect
  <2>1. PICK x \in Report, s \in Truth : s = truth' /\ Grows(x) /\ Happens(x, s)
        BY <1>2 DEF StationEffect
  <2>2. truth.now \in Nat /\ Now = truth.now + 1 /\ None \notin Ids
        BY <1>0, <1>2, ClocksTypes DEF StationEffect
  <2>3. ASSUME NEW y \in Report, Happened(y), NEW j \in DOMAIN queue, y = queue[j]
        PROVE  /\ y.at = s.now => s.active = IF y.kind = "Ended" THEN None ELSE y.id
               /\ y.kind = "Ended" => y.id # s.active
    <3>1. y.id \in Ids /\ y.at \in Nat /\ y.at <= truth.now /\ truth.begun[y.id] # None
          BY <2>3, EventsForm DEF Past
    <3>2. /\ y.at = truth.now => truth.active = IF y.kind = "Ended" THEN None ELSE y.id
          /\ y.kind = "Ended" => y.id # truth.active
          BY <2>3 DEF Latest
    <3>3. CASE Starting(x, s)
          BY <2>2, <3>1, <3>3 DEF Starting
    <3>4. CASE Measuring(x, s)
          BY <2>2, <3>1, <3>2, <3>4 DEF Measuring
    <3>5. CASE Plugging(x, s) \/ Updating(x, s) \/ Ending(x, s) \/ Booting(x, s)
      <4>1. s.now = truth.now + 1 /\ s.active \in {truth.active, None}
            BY <2>2, <3>5 DEF Plugging, Updating, Ending, Booting
      <4> QED BY <2>2, <3>1, <3>2, <4>1
    <3> QED BY <2>1, <3>3, <3>4, <3>5 DEF Happens
  <2>4. ASSUME Happened(x)
        PROVE  /\ x.at = s.now => s.active = IF x.kind = "Ended" THEN None ELSE x.id
               /\ x.kind = "Ended" => x.id # s.active
    <3>1. Starting(x, s) \/ Updating(x, s) \/ Ending(x, s)
          BY <2>1, <2>4 DEF Happens, Plugging, Measuring, Booting, StatusReport, MeterReport, Happened, Kinds
    <3>2. x.id \in Ids
          BY <3>1 DEF Starting, Updating, Ending, EventReport
    <3> QED BY <2>2, <3>1, <3>2 DEF Starting, Updating, Ending
  <2>5. ASSUME NEW k \in DOMAIN queue', NEW y \in Report, y = queue'[k]
        PROVE  (\E j \in DOMAIN queue : y = queue[j]) \/ y = x
    <3>1. CASE ~link.up
          BY <2>1, <2>5, <3>1 DEF Grows
    <3>2. CASE link.up
      <4>1. PICK m \in Nat : /\ DOMAIN queue = 1..m /\ DOMAIN queue' = 1..m+1
                             /\ queue'[m+1] = x /\ \A i \in 1..m : queue'[i] = queue[i]
            BY <2>1, <3>2 DEF Grows, Appended
      <4> QED BY <2>5, <4>1
    <3> QED BY <3>1, <3>2
  <2>6. ASSUME NEW k \in DOMAIN queue', Happened(queue'[k])
        PROVE  /\ queue'[k].at = truth'.now =>
                    truth'.active = IF queue'[k].kind = "Ended" THEN None ELSE queue'[k].id
               /\ queue'[k].kind = "Ended" => queue'[k].id # truth'.active
    <3>1. PICK y \in Report : y = queue'[k]
          BY <1>0, <2>6
    <3>2. Happened(y)
          BY <2>6, <3>1 DEF Happened
    <3>3. (\E j \in DOMAIN queue : y = queue[j]) \/ y = x
          BY <2>5, <3>1
    <3> QED BY <2>1, <2>3, <2>4, <3>1, <3>2, <3>3
  <2> QED BY <2>6 DEF Latest, Happened
<1> QED BY <1>1, <1>2

LEMMA CurrentStays ==
  ASSUME InOrder, InOrder', Book, Effects
  PROVE  Current'
<1>0. TypeOK /\ TypeOK' /\ link.gen \in Generation /\ link'.gen \in Generation /\ None \notin Generation
      BY NoneAssumption, Typing DEF InOrder, Metering, TypeOK, Link
<1>1. CASE EventEffect \/ MeterEffect \/ StatusEffect \/ StationEffect \/ SaveEffect
  <2>1. UNCHANGED link
        BY <1>1 DEF EventEffect, MeterEffect, StatusEffect, StationEffect, SaveEffect
  <2>2. CASE EventEffect /\ Heard(state, Head(queue))
    <3>1. state'.session.gen = link.gen /\ state'.session.updated >= link.epoch
          BY <2>2 DEF EventEffect, Tells, Heard
    <3>2. GenLe(link.gen, link.gen)
          BY <1>0 DEF GenLe, Generation
    <3> QED BY <2>1, <3>1, <3>2 DEF Current, GenLe
  <2>3. CASE ~(EventEffect /\ Heard(state, Head(queue)))
    <3>1. \/ state'.session = state.session
          \/ /\ state.session # None /\ state'.session # None
             /\ state'.session.gen = state.session.gen
             /\ state'.session.updated = state.session.updated
          \/ state'.session = None
          BY <1>1, <2>3 DEF EventEffect, MeterEffect, StatusEffect, StationEffect, SaveEffect, Keeps
    <3> QED BY <2>1, <3>1 DEF Book, Current, GenLe
  <2> QED BY <2>2, <2>3
<1>2. CASE BootEffect \/ ConnectEffect
  <2>1. state'.session = state.session /\
        (link'.gen = <<link.gen[1], link.gen[2] + 1>> \/ link'.gen = <<link.gen[1] + 1, 0>>)
        BY <1>2 DEF BootEffect, ConnectEffect, SameState
  <2>2. ASSUME state.session # None, state.session.gen # None
        PROVE  GenLe(state.session.gen, link'.gen) /\ state.session.gen # link'.gen
    <3>1. state.session.gen \in Generation /\ GenLe(state.session.gen, link.gen)
          BY <1>0, <2>2, SessionForm DEF Book, Current, Session, Maybe
    <3> QED BY <1>0, <2>1, <3>1 DEF GenLe, Generation
  <2> QED BY <2>1, <2>2 DEF Current, GenLe
<1>3. CASE DisconnectEffect
      BY <1>3 DEF DisconnectEffect, SameState, Book, Current, GenLe
<1>4. CASE RestartEffect
      BY <1>4 DEF RestartEffect, Current
<1> QED BY <1>1, <1>2, <1>3, <1>4 DEF Effects

(* What an event closes is over. *)
LEMMA EventCloses ==
  ASSUME InOrder, Book, Latest, EventEffect, Heard(state, Head(queue))
  PROVE  Closes(state'.session, state'.closed) /\ Begun(state'.closed)
<1> DEFINE x == Head(queue)
           s == state.session
<1>1. x = queue[1] /\ 1 \in DOMAIN queue /\ Happened(x)
  <2>1. queue \in Seq(Report) /\ queue # <<>> /\ Handled
        BY Typing DEF InOrder, Metering, EventEffect, Receives
  <2> QED BY <2>1, Moves DEF EventEffect, Receives, Happened
<1>2. /\ x \in EventReport /\ x.id \in Ids /\ x.seq \in Nat /\ x.at \in Nat /\ x.at # None
      /\ Past(x.id, x.seq, x.at)
      BY <1>1, EventsForm, NoneAssumption
<1>3. /\ Tells(x, state'.session) /\ state'.closed = ClosedBy(state, x)
      BY DEF EventEffect
<1>4. s # None => s.id \in Ids /\ s.updated \in Nat /\ Past(s.id, s.seq, s.updated)
      BY SessionForm
<1>5. x.kind = "Ended" => x.id # truth.active
      BY <1>1 DEF Latest
<1> HIDE DEF x
<1>6. Heard(state, x)
      BY DEF x
<1>7. ASSUME ~Known(state, x), s # None
      PROVE  s.id # x.id /\ s.id # truth.active /\ truth.begun[s.id] # None
  <2>1. s.id # x.id /\ x.at > s.updated
        BY <1>6, <1>7 DEF Known, Heard
  <2>2. s.id # truth.active
    <3> SUFFICES ASSUME s.id = truth.active PROVE FALSE
        OBVIOUS
    <3>1. truth.active # None /\ x.id # truth.active /\ truth.begun[truth.active] \in Nat
      <4>1. truth.active \in Ids /\ truth.begun[truth.active] # None
            BY <1>4, <1>7 DEF Past
      <4> QED BY <2>1, <4>1, ClocksTypes DEF InOrder, Metering, Maybe
    <3> QED BY <1>2, <1>4, <1>7, <2>1, <3>1 DEF Past
  <2> QED BY <1>4, <1>7, <2>1, <2>2 DEF Past
<1>8. Begun(state'.closed)
  <2> SUFFICES ASSUME NEW i \in ClosedBy(state, x)
               PROVE  truth.begun[i] # None /\ i # truth.active
      BY <1>3 DEF Begun
  <2>1. CASE i \in state.closed
        BY <2>1 DEF Book, Begun
  <2>2. CASE ~Known(state, x) /\ s # None /\ i = s.id
        BY <1>7, <2>2
  <2>3. CASE x.kind = "Ended" /\ i = x.id
        BY <1>2, <1>5, <2>3 DEF Past
  <2> QED BY <2>1, <2>2, <2>3 DEF ClosedBy
<1>9. Closes(state'.session, state'.closed)
  <2>1. state'.session.id = x.id /\ (state'.session.ended # None <=> x.kind = "Ended")
        BY <1>2, <1>3 DEF Tells
  <2>2. x.id \notin state.closed
        BY <1>6 DEF Heard
  <2> QED BY <1>3, <1>7, <2>1, <2>2 DEF Closes, ClosedBy
<1> QED BY <1>8, <1>9

LEMMA BookStays ==
  ASSUME InOrder, InOrder', Book, Latest, Effects
  PROVE  Book'
<1>0. TypeOK /\ TypeOK'
      BY DEF InOrder, Metering
<1>1. Current'
      BY CurrentStays
<1>2. ASSUME NEW c \in SUBSET Ids, Begun(c)
      PROVE  Begun(c)'
  <2>1. CASE StationEffect
    <3>1. PICK x \in Report, s \in Truth : s = truth' /\ Happens(x, s)
          BY <2>1 DEF StationEffect
    <3>2. ASSUME NEW i \in c
          PROVE  s.begun[i] # None /\ i # s.active
      <4>1. truth.begun[i] # None /\ i # truth.active /\ i \in Ids /\ i # None
            BY <1>0, <1>2, <3>2, ClocksTypes DEF Begun
      <4>2. CASE Starting(x, s)
        <5>1. i # x.id
              BY <4>1, <4>2 DEF Starting
        <5> QED BY <1>0, <4>1, <4>2, <5>1 DEF Starting, TypeOK
      <4>3. CASE ~Starting(x, s)
            BY <3>1, <4>1, <4>3 DEF Happens, Plugging, Updating, Ending, Measuring, Booting, Stays
      <4> QED BY <4>2, <4>3
    <3> QED BY <3>1, <3>2 DEF Begun
  <2>2. CASE ~StationEffect
    <3>1. UNCHANGED truth
          BY <2>2 DEF Effects, EventEffect, MeterEffect, StatusEffect, BootEffect, ConnectEffect,
                      DisconnectEffect, SaveEffect, RestartEffect
    <3> QED BY <1>2, <3>1 DEF Begun
  <2> QED BY <2>1, <2>2
<1>3. state.closed \in SUBSET Ids /\ saved.closed \in SUBSET Ids
      BY <1>0 DEF TypeOK, Document
<1>4. PICK c \in SUBSET Ids, d \in SUBSET Ids : c = state'.closed /\ d = saved'.closed
      BY <1>0 DEF TypeOK, Document
<1>5. CASE EventEffect /\ Heard(state, Head(queue))
  <2>1. Closes(state'.session, state'.closed) /\ Begun(c)
        BY <1>4, <1>5, EventCloses
  <2>2. UNCHANGED saved
        BY <1>5 DEF EventEffect
  <2>3. Begun(c)' /\ Begun(d)'
        BY <1>2, <1>4, <2>1, <2>2 DEF Book
  <2> QED BY <1>1, <1>4, <2>1, <2>2, <2>3 DEF Book, Closes, Begun
<1>6. CASE ~(EventEffect /\ Heard(state, Head(queue)))
  <2>1. /\ c \in {state.closed, saved.closed} /\ d \in {state.closed, saved.closed}
        BY <1>4, <1>6 DEF Effects, EventEffect, MeterEffect, StatusEffect, StationEffect, BootEffect,
             ConnectEffect, DisconnectEffect, SaveEffect, RestartEffect, SameState
  <2>2. Begun(c)' /\ Begun(d)'
        BY <1>2, <2>1 DEF Book
  <2>3. Closes(state'.session, state'.closed)
    <3>1. CASE RestartEffect
      <4>1. saved.session # None => saved.session \in Session
            BY <1>0 DEF TypeOK, Document, Maybe
      <4>2. state'.session # None => /\ saved.session # None /\ state'.session.id = saved.session.id
                                     /\ state'.session.ended = saved.session.ended
            BY <3>1, <4>1 DEF RestartEffect, Session
      <4> QED BY <3>1, <4>2 DEF RestartEffect, Book, Closes
    <3>2. CASE MeterEffect
          BY <3>2 DEF MeterEffect, Keeps, Book, Closes
    <3>3. CASE ~RestartEffect /\ ~MeterEffect
      <4>1. state'.session = state.session /\ state'.closed = state.closed
            BY <1>6, <3>3 DEF Effects, EventEffect, StatusEffect, StationEffect, BootEffect,
               ConnectEffect, DisconnectEffect, SaveEffect, SameState
      <4> QED BY <4>1 DEF Book, Closes
    <3> QED BY <3>1, <3>2, <3>3
  <2>4. Closes(saved'.session, saved'.closed)
    <3>1. CASE SaveEffect
          BY <3>1 DEF SaveEffect, Book, Closes
    <3>2. CASE ~SaveEffect
      <4>1. UNCHANGED saved
            BY <3>2 DEF Effects, EventEffect, MeterEffect, StatusEffect, StationEffect, BootEffect,
               ConnectEffect, DisconnectEffect, RestartEffect
      <4> QED BY <4>1 DEF Book, Closes
    <3> QED BY <3>1, <3>2
  <2> QED BY <1>1, <1>4, <2>2, <2>3, <2>4 DEF Book, Closes, Begun
<1> QED BY <1>5, <1>6

-----------------------------------------------------------------------------
(* What ended is told *)

BootWaits == \E k \in DOMAIN queue : queue[k].kind = "boot"
(* A later end of the transaction is on its way. *)
Awaits(i, n, k) == \E j \in DOMAIN queue : /\ j > k /\ queue[j].kind = "Ended"
                                          /\ queue[j].id = i /\ queue[j].seq > n
(* An event that will not be heard. *)
Outdated(i, n, t) ==
  \/ i \in state.closed
  \/ state.session # None /\ IF state.session.id = i THEN n <= state.session.seq
                             ELSE t <= state.session.updated
Opens(k, i, n, t) == /\ Happened(queue[k]) /\ queue[k].kind # "Ended"
                     /\ queue[k].id = i /\ queue[k].seq = n /\ queue[k].at = t
(* What would show a transaction as active that is over is followed by its end. *)
Followed == \A k \in DOMAIN queue, i \in Ids, n \in Nat, t \in Time :
  Opens(k, i, n, t) /\ t >= link.epoch /\ i # truth.active => Awaits(i, n, k) \/ Outdated(i, n, t)
Corrected == \A i \in Ids, n \in Nat :
  ViewActive(state) /\ state.session.id = i /\ state.session.seq = n /\ i # truth.active
    => Awaits(i, n, 0)
Told == link.up /\ ~BootWaits => Followed /\ Corrected

LEMMA Shifts ==
  ASSUME queue \in Seq(Report), queue # <<>>, Handled
  PROVE  /\ \A i \in Ids, n \in Nat, k \in Nat : Awaits(i, n, k + 1) => Awaits(i, n, k)'
         /\ \A i, n, t : \A k \in DOMAIN queue' : Opens(k, i, n, t)' =>
              \/ k \in Nat /\ k + 1 \in DOMAIN queue /\ Opens(k + 1, i, n, t)
              \/ Opens(1, i, n, t)
         /\ ~BootWaits' => \A k \in DOMAIN queue : k > 1 => queue[k].kind # "boot"
<1>1. PICK m \in Nat :
        /\ DOMAIN queue = 1..m+1
        /\ \/ DOMAIN queue' = 1..m
           \/ DOMAIN queue' = 1..m+1 /\ queue'[m+1] = queue[1]
        /\ \A j \in 1..m : queue'[j] = queue[j+1]
      BY Moves DEF Moved
<1>2. ASSUME NEW j \in DOMAIN queue, j > 1
      PROVE  j - 1 \in DOMAIN queue' /\ queue'[j-1] = queue[j] /\ j \in Nat
      BY <1>1, <1>2
<1>3. ASSUME NEW i \in Ids, NEW n \in Nat, NEW k \in Nat, Awaits(i, n, k + 1)
      PROVE  Awaits(i, n, k)'
  <2>1. PICK j \in DOMAIN queue : /\ j > k + 1 /\ queue[j].kind = "Ended"
                                  /\ queue[j].id = i /\ queue[j].seq > n
        BY <1>3 DEF Awaits
  <2>2. j > 1 /\ j - 1 > k
        BY <1>1, <2>1
  <2>3. j - 1 \in DOMAIN queue' /\ queue'[j-1] = queue[j]
        BY <1>2, <2>2
  <2> QED BY <2>1, <2>2, <2>3 DEF Awaits
<1>4. ASSUME NEW i, NEW n, NEW t, NEW k \in DOMAIN queue', Opens(k, i, n, t)'
      PROVE  \/ k \in Nat /\ k + 1 \in DOMAIN queue /\ Opens(k + 1, i, n, t)
             \/ Opens(1, i, n, t)
  <2>1. CASE k \in 1..m
    <3>1. k \in Nat /\ k + 1 \in DOMAIN queue /\ queue'[k] = queue[k+1]
          BY <1>1, <2>1
    <3> QED BY <1>4, <3>1 DEF Opens, Happened
  <2>2. CASE k = m + 1 /\ queue'[m+1] = queue[1]
        BY <1>4, <2>2 DEF Opens, Happened
  <2> QED BY <1>1, <1>4, <2>1, <2>2
<1>5. ASSUME ~BootWaits', NEW k \in DOMAIN queue, k > 1
      PROVE  queue[k].kind # "boot"
  <2>1. k - 1 \in DOMAIN queue' /\ queue'[k-1] = queue[k]
        BY <1>2, <1>5
  <2> QED BY <1>5, <2>1 DEF BootWaits
<1> QED BY <1>3, <1>4, <1>5

(* What the head of the queue is, and that it was no boot. *)
LEMMA HeadForm ==
  ASSUME InOrder, EventEffect \/ MeterEffect \/ StatusEffect
  PROVE  /\ queue \in Seq(Report) /\ queue # <<>> /\ Handled
         /\ 1 \in DOMAIN queue /\ Head(queue) = queue[1] /\ DOMAIN queue \subseteq Nat
         /\ queue[1].kind # "boot" /\ (EventEffect => Happened(queue[1]))
         /\ (~EventEffect => ~Happened(queue[1])) /\ link.up
         /\ ~BootWaits' => ~BootWaits
<1>1. /\ queue \in Seq(Report) /\ queue # <<>> /\ Handled /\ link.up
      BY Typing DEF InOrder, Metering, EventEffect, MeterEffect, StatusEffect, Receives
<1>2. 1 \in DOMAIN queue /\ Head(queue) = queue[1] /\ DOMAIN queue \subseteq Nat \ {0}
      BY <1>1, Moves
<1>3. /\ queue[1].kind # "boot" /\ (EventEffect => Happened(queue[1]))
      /\ (~EventEffect => ~Happened(queue[1]))
      BY <1>2 DEF EventEffect, MeterEffect, StatusEffect, Receives, Happened, Kinds
<1>4. ~BootWaits' => ~BootWaits
      BY <1>1, <1>2, <1>3, Shifts DEF BootWaits
<1> QED BY <1>1, <1>2, <1>3, <1>4

(* Once handled, an event is outdated. *)
LEMMA HandledOutdated ==
  ASSUME Closed, EventEffect, NEW x \in EventReport, x = queue[1], x.kind # "Ended",
         x.at >= link.epoch
  PROVE  Outdated(x.id, x.seq, x.at)'
<1>1. /\ InOrder /\ x = Head(queue) /\ 1 \in DOMAIN queue /\ Happened(x) /\ link.up
      BY HeadForm DEF Closed
<1>2. x.id \in Ids /\ x.seq \in Nat /\ x.at \in Nat /\ x.at \in Time /\ Evident(x.id, x.seq, x.at)
      BY <1>1, EventsForm
<1>3. CASE Heard(state, x)
  <2>1. state'.session # None /\ state'.session.id = x.id /\ state'.session.seq = x.seq
        BY <1>1, <1>3 DEF EventEffect, Tells
  <2> QED BY <1>2, <2>1 DEF Outdated
<1>4. CASE ~Heard(state, x)
  <2>1. state' = state
        BY <1>1, <1>4 DEF EventEffect
  <2>2. Outdated(x.id, x.seq, x.at)
    <3> DEFINE s == state.session
    <3>1. CASE x.id \in state.closed
          BY <3>1 DEF Outdated
    <3>2. CASE x.id \notin state.closed /\ Known(state, x)
      <4>1. s # None /\ s.id = x.id /\ s.ended = None
            BY <3>2 DEF Known, Closed, Book, Closes
      <4>2. s.seq \in Nat /\ s.updated \in Nat /\ s.updated \in Time /\ Evident(x.id, s.seq, s.updated)
            BY <1>1, <4>1, SessionForm
      <4>3. x.seq <= s.seq \/ x.at < s.updated
            BY <1>1, <1>2, <1>4, <3>2, <4>1, <4>2 DEF Heard
      <4>4. s.seq <= x.seq <=> s.updated <= x.at
            BY <1>1, <1>2, <4>2 DEF InOrder, Ordered
      <4>5. x.seq <= s.seq
            BY <1>2, <4>2, <4>3, <4>4
      <4> QED BY <4>1, <4>5 DEF Outdated
    <3>3. CASE x.id \notin state.closed /\ ~Known(state, x)
      <4>1. s # None /\ ~(x.at > s.updated) /\ s.id # x.id
            BY <1>1, <1>4, <3>3 DEF Heard, Known
      <4>2. s.updated \in Nat
            BY <1>1, <4>1, SessionForm
      <4> QED BY <1>2, <4>1, <4>2 DEF Outdated
    <3> QED BY <3>1, <3>2, <3>3
  <2> QED BY <2>1, <2>2 DEF Outdated
<1> QED BY <1>3, <1>4

(* What was outdated stays so, for sessions only go on. *)
LEMMA OutdatedStays ==
  ASSUME Closed, EventEffect \/ MeterEffect \/ StatusEffect,
         NEW i \in Ids, NEW n \in Nat, NEW t \in Time, Evident(i, n, t), Outdated(i, n, t)
  PROVE  Outdated(i, n, t)'
<1>1. InOrder /\ 1 \in DOMAIN queue /\ Head(queue) = queue[1]
      BY HeadForm DEF Closed
<1>2. CASE ~(EventEffect /\ Heard(state, Head(queue)))
  <2>1. \/ state' = state
        \/ /\ state'.closed = state.closed
           /\ state'.session = state.session \/
              (state.session # None /\ state'.session # None /\ Keeps(state.session, state'.session))
        \/ state'.closed = state.closed /\ state'.session = None /\ state.session = None
        BY <1>2 DEF EventEffect, MeterEffect, StatusEffect
  <2> QED BY <2>1 DEF Outdated, Keeps
<1>3. CASE EventEffect /\ Heard(state, Head(queue))
  <2> DEFINE x == Head(queue)
             s == state.session
  <2>1. Happened(x)
        BY <1>1, <1>3, HeadForm
  <2>2. /\ state'.session # None /\ state'.session.id = x.id /\ state'.session.seq = x.seq
        /\ state'.session.updated = x.at /\ state'.closed = ClosedBy(state, x)
        BY <1>3 DEF EventEffect, Tells
  <2>3. x.id \in Ids /\ x.seq \in Nat /\ x.at \in Nat /\ x.at \in Time /\ Evident(x.id, x.seq, x.at)
        BY <1>1, <2>1, EventsForm
  <2>4. Heard(state, x) BY <1>3
  <2>5. t \in Nat BY DEF Time
  <2> HIDE DEF x
  <2>6. CASE i \in state.closed
        BY <2>2, <2>6 DEF Outdated, ClosedBy
  <2>7. CASE i \notin state.closed /\ Known(state, x)
    <3>1. s # None /\ s.id = x.id /\ x.seq > s.seq /\ x.at >= s.updated
          BY <2>4, <2>7 DEF Known, Heard
    <3>2. s.seq \in Nat /\ s.updated \in Nat
          BY <1>1, <3>1, SessionForm
    <3> QED BY <2>2, <2>3, <2>5, <2>7, <3>1, <3>2 DEF Outdated
  <2>8. CASE i \notin state.closed /\ ~Known(state, x)
    <3>1. s # None /\ s.id # x.id /\ x.at > s.updated
          BY <2>4, <2>8 DEF Known, Heard, Outdated
    <3>2. s.updated \in Nat /\ s.id \in state'.closed
          BY <1>1, <2>2, <2>8, <3>1, SessionForm DEF ClosedBy
    <3>3. CASE s.id = i
          BY <3>2, <3>3 DEF Outdated
    <3>4. CASE s.id # i
      <4>1. t <= s.updated /\ t <= x.at
            BY <2>3, <2>5, <2>8, <3>1, <3>2, <3>4 DEF Outdated
      <4>2. i = x.id => n <= x.seq
            BY <1>1, <2>3, <4>1 DEF InOrder, Ordered
      <4> QED BY <2>2, <4>1, <4>2 DEF Outdated
    <3> QED BY <3>3, <3>4
  <2> QED BY <2>6, <2>7, <2>8
<1> QED BY <1>2, <1>3

LEMMA HandlersTell ==
  ASSUME Closed, Told, EventEffect \/ MeterEffect \/ StatusEffect
  PROVE  Told'
<1>1. /\ queue \in Seq(Report) /\ queue # <<>> /\ Handled
      /\ 1 \in DOMAIN queue /\ Head(queue) = queue[1] /\ DOMAIN queue \subseteq Nat
      /\ link.up /\ InOrder /\ UNCHANGED <<truth, link>> /\ (~EventEffect => ~Happened(queue[1]))
      BY HeadForm DEF Closed, EventEffect, MeterEffect, StatusEffect
<1> SUFFICES ASSUME link'.up, ~BootWaits'
             PROVE  Followed' /\ Corrected'
    BY DEF Told
<1>2. Followed /\ Corrected
      BY <1>1, HeadForm DEF Told
<1>3. ASSUME NEW k \in DOMAIN queue', NEW i \in Ids, NEW n \in Nat, NEW t \in Time,
             Opens(k, i, n, t)', t >= link.epoch, i # truth.active
      PROVE  Awaits(i, n, k)' \/ Outdated(i, n, t)'
  <2>1. CASE k \in Nat /\ k + 1 \in DOMAIN queue /\ Opens(k + 1, i, n, t)
    <3>1. Awaits(i, n, k + 1) \/ Outdated(i, n, t)
          BY <1>2, <1>3, <2>1 DEF Followed
    <3>2. Evident(i, n, t)
          BY <2>1 DEF Opens, Evident
    <3> QED BY <1>1, <2>1, <3>1, <3>2, Shifts, OutdatedStays
  <2>2. CASE Opens(1, i, n, t)
    <3>1. PICK x \in EventReport : x = queue[1] /\ x.id = i /\ x.seq = n /\ x.at = t /\ x.kind # "Ended"
          BY <1>1, <2>2, EventsForm DEF Opens
    <3>2. EventEffect
          BY <1>1, <2>2 DEF Opens
    <3> QED BY <1>3, <3>1, <3>2, HandledOutdated
  <2> QED BY <1>1, <1>3, <2>1, <2>2, Shifts
<1>4. ASSUME NEW i \in Ids, NEW n \in Nat, ViewActive(state)', state'.session.id = i,
             state'.session.seq = n, i # truth.active
      PROVE  Awaits(i, n, 0)'
  <2> DEFINE x == Head(queue)
             s == state.session
  <2>1. CASE EventEffect /\ Heard(state, x)
    <3>1. /\ x.id = i /\ x.seq = n /\ x.kind # "Ended" /\ Happened(x)
          /\ x.at \in Time /\ x.at \in Nat /\ x.at # None
      <4>1. Happened(x)
            BY <1>1, <2>1, HeadForm
      <4>2. x.at \in Time /\ x.at \in Nat /\ x.at # None
            BY <1>1, <4>1, EventsForm, NoneAssumption
      <4> QED BY <1>4, <2>1, <4>1, <4>2 DEF EventEffect, Tells, ViewActive
    <3>2. x.at >= link.epoch /\ Opens(1, i, n, x.at)
          BY <1>1, <2>1, <3>1 DEF Heard, Opens
    <3>3. Awaits(i, n, 1) \/ Outdated(i, n, x.at)
          BY <1>1, <1>2, <1>4, <3>1, <3>2 DEF Followed
    <3>4. ~Outdated(i, n, x.at)
      <4>1. Heard(state, x)
            BY <2>1
      <4>2. s # None => s.seq \in Nat /\ s.updated \in Nat
            BY <1>1, SessionForm
      <4> HIDE DEF x
      <4> QED BY <3>1, <4>1, <4>2 DEF Heard, Known, Outdated
    <3>5. Awaits(i, n, 0 + 1)
          BY <3>3, <3>4
    <3> QED BY <1>1, <3>5, Shifts
  <2>2. CASE ~(EventEffect /\ Heard(state, x))
    <3>1. ViewActive(state) /\ s.id = i /\ s.seq = n
          BY <1>1, <1>4, <2>2 DEF EventEffect, MeterEffect, StatusEffect, ViewActive, Keeps
    <3>2. Awaits(i, n, 0)
          BY <1>2, <1>4, <3>1 DEF Corrected
    <3>3. PICK j \in DOMAIN queue : queue[j].kind = "Ended" /\ queue[j].id = i /\ queue[j].seq > n /\ j > 0
          BY <3>2 DEF Awaits
    <3>4. CASE j = 1
      <4>1. Happened(x) /\ EventEffect /\ x.kind = "Ended" /\ x.id = i /\ x.seq > n /\ x = queue[1]
            BY <1>1, <3>3, <3>4 DEF Happened, Kinds
      <4>2. x.at \in Time /\ x.at \in Nat /\ x.seq \in Nat /\ Evident(i, x.seq, x.at)
            BY <1>1, <4>1, EventsForm
      <4>3. s # None /\ s.updated \in Time /\ s.updated \in Nat /\ Evident(i, n, s.updated)
            BY <1>1, <3>1, SessionForm DEF ViewActive
      <4>4. x.seq <= n <=> x.at <= s.updated
            BY <1>1, <4>2, <4>3 DEF InOrder, Ordered
      <4>5. x.at > s.updated
            BY <4>1, <4>2, <4>3, <4>4
      <4>6. s.gen # None /\ s.updated >= link.epoch /\ i \notin state.closed
        <5>1. link.gen \in Generation /\ s.gen = link.gen
              BY <3>1, Typing DEF Closed, InOrder, Metering, Link, ViewActive
        <5>2. s.gen # None
              BY <5>1, NoneAssumption
        <5> QED BY <1>1, <3>1, <4>3, <5>1, <5>2 DEF Closed, Book, Current, Closes, ViewActive
      <4>7. link.epoch \in Nat
            BY <1>1, ClocksTypes DEF InOrder, Metering
      <4>8. x.at >= link.epoch
            BY <4>2, <4>3, <4>5, <4>6, <4>7
      <4>9. Heard(state, x)
        <5> HIDE DEF x
        <5> QED BY <1>1, <3>1, <4>1, <4>2, <4>3, <4>5, <4>6, <4>8 DEF Heard, Known, ViewActive
      <4> QED BY <2>2, <4>1, <4>9
    <3>5. CASE j # 1
      <4>1. j > 0 + 1 /\ 0 \in Nat
            BY <1>1, <3>3, <3>5
      <4>2. Awaits(i, n, 0 + 1)
            BY <3>3, <4>1 DEF Awaits
      <4> QED BY <1>1, <4>1, <4>2, Shifts
    <3> QED BY <3>4, <3>5
  <2> QED BY <2>1, <2>2
<1> QED BY <1>1, <1>3, <1>4 DEF Followed, Corrected

LEMMA StationTells ==
  ASSUME Closed, Told, StationEffect
  PROVE  Told'
<1> SUFFICES ASSUME link'.up, ~BootWaits'
             PROVE  Followed' /\ Corrected'
    BY DEF Told
<1>1. PICK x \in Report, s \in Truth : s = truth' /\ Grows(x) /\ Happens(x, s)
      BY DEF StationEffect
<1>2. UNCHANGED <<link, state, saved>> /\ link.up
      BY DEF StationEffect
<1>3. PICK m \in Nat : /\ DOMAIN queue = 1..m /\ DOMAIN queue' = 1..m+1
                       /\ queue'[m+1] = x /\ \A k \in 1..m : queue'[k] = queue[k]
      BY <1>1, <1>2 DEF Grows, Appended
<1>4. ~BootWaits /\ x.kind # "boot"
  <2>1. \A k \in DOMAIN queue : k \in DOMAIN queue' /\ queue'[k] = queue[k]
        BY <1>3
  <2>2. m + 1 \in DOMAIN queue'
        BY <1>3
  <2> QED BY <1>3, <2>1, <2>2 DEF BootWaits
<1>5. Followed /\ Corrected /\ InOrder
      BY <1>2, <1>4 DEF Told, Closed
<1>6. ASSUME NEW i \in Ids, NEW n \in Nat, NEW k \in Nat, Awaits(i, n, k)
      PROVE  Awaits(i, n, k)'
      BY <1>3, <1>6 DEF Awaits
<1>7. None \notin Ids /\ truth.active \in Maybe(Ids) /\ truth.seq \in Nat
      BY <1>5, ClocksTypes DEF InOrder, Metering
(* A transaction that is not active was not active, or ended now. *)
<1>8. ASSUME NEW i \in Ids, i # s.active
      PROVE  \/ i # truth.active
             \/ /\ i = truth.active /\ x.kind = "Ended" /\ x.id = i /\ x.seq = truth.seq + 1
  <2>1. CASE Plugging(x, s) \/ Starting(x, s)
        BY <1>7, <2>1 DEF Plugging, Starting
  <2>2. CASE Updating(x, s) \/ Measuring(x, s)
        BY <1>8, <2>2 DEF Updating, Measuring
  <2>3. CASE Ending(x, s)
        BY <2>3 DEF Ending
  <2>4. CASE Booting(x, s)
        BY <1>4, <2>4 DEF Booting
  <2> QED BY <1>1, <2>1, <2>2, <2>3, <2>4 DEF Happens
<1>9. ASSUME NEW i \in Ids, NEW n \in Nat, NEW t \in Time, NEW k \in 0..m, Evident(i, n, t),
             i = truth.active, x.kind = "Ended", x.id = i, x.seq = truth.seq + 1
      PROVE  Awaits(i, n, k)'
  <2>1. n <= truth.seq
        BY <1>5, <1>9 DEF InOrder, Ordered, Past
  <2>2. x.seq > n
        BY <1>7, <1>9, <2>1
  <2>3. m + 1 \in DOMAIN queue' /\ m + 1 > k
        BY <1>3
  <2> QED BY <1>3, <1>9, <2>2, <2>3 DEF Awaits
<1>10. ASSUME NEW k \in DOMAIN queue', NEW i \in Ids, NEW n \in Nat, NEW t \in Time,
             Opens(k, i, n, t)', t >= link.epoch, i # s.active
      PROVE  Awaits(i, n, k)' \/ Outdated(i, n, t)'
  <2>1. CASE k \in 1..m
    <3>1. Opens(k, i, n, t) /\ k \in DOMAIN queue /\ k \in Nat /\ k \in 0..m
          BY <1>3, <1>10, <2>1 DEF Opens, Happened
    <3>2. Evident(i, n, t)
          BY <3>1 DEF Opens, Evident
    <3>3. CASE i # truth.active
      <4>1. Awaits(i, n, k) \/ Outdated(i, n, t)
            BY <1>5, <1>10, <3>1, <3>3 DEF Followed
      <4> QED BY <1>2, <1>6, <3>1, <4>1 DEF Outdated
    <3>4. CASE i = truth.active
          BY <1>8, <1>9, <1>10, <3>1, <3>2, <3>4
    <3> QED BY <3>3, <3>4
  <2>2. CASE k = m + 1
    <3>1. Happened(x) /\ x.kind # "Ended" /\ x.id = i
          BY <1>3, <1>10, <2>2 DEF Opens, Happened
    <3>2. Starting(x, s) \/ Updating(x, s)
          BY <1>1, <3>1 DEF Happens, Plugging, Ending, Measuring, Booting, StatusReport, MeterReport,
                            Happened, Kinds
    <3> QED BY <1>10, <3>1, <3>2 DEF Starting, Updating
  <2> QED BY <1>3, <1>10, <2>1, <2>2
<1>11. ASSUME NEW i \in Ids, NEW n \in Nat, ViewActive(state)', state'.session.id = i,
             state'.session.seq = n, i # s.active
      PROVE  Awaits(i, n, 0)'
  <2>1. ViewActive(state) /\ state.session.id = i /\ state.session.seq = n
        BY <1>2, <1>11 DEF ViewActive
  <2>2. CASE i # truth.active
    <3>1. Awaits(i, n, 0)
          BY <1>5, <2>1, <2>2 DEF Corrected
    <3> QED BY <1>6, <3>1
  <2>3. CASE i = truth.active
    <3>1. state.session.updated \in Time /\ Evident(i, n, state.session.updated)
          BY <1>5, <2>1, SessionForm DEF ViewActive
    <3>2. 0 \in 0..m
          BY <1>3
    <3> QED BY <1>8, <1>9, <1>11, <2>3, <3>1, <3>2
  <2> QED BY <2>2, <2>3
<1> QED BY <1>1, <1>2, <1>10, <1>11 DEF Followed, Corrected

(* A new connection or boot: only what is said of this moment counts. *)
LEMMA ResetTells ==
  ASSUME Closed, InOrder', Latest', BootEffect \/ ConnectEffect
  PROVE  Told'
<1>1. /\ InOrder /\ UNCHANGED truth /\ link'.epoch = truth.now /\ state'.session = state.session
      /\ (link'.gen = <<link.gen[1], link.gen[2] + 1>> \/ link'.gen = <<link.gen[1] + 1, 0>>)
      BY DEF Closed, BootEffect, ConnectEffect, SameState
<1>2. ASSUME NEW k \in DOMAIN queue', NEW i \in Ids, NEW n \in Nat, NEW t \in Time,
             Opens(k, i, n, t)', t >= truth.now
      PROVE  i = truth.active
  <2>1. Evident(i, n, t)'
        BY <1>2 DEF Opens, Evident
  <2>2. t <= truth.now
        BY <1>1, <2>1 DEF InOrder, Ordered, Past
  <2>3. t = truth.now
        BY <1>1, <1>2, <2>2, ClocksTypes DEF InOrder, Metering
  <2> QED BY <1>1, <1>2, <2>3 DEF Latest, Opens
<1>3. ~ViewActive(state)'
  <2> SUFFICES ASSUME ViewActive(state)'
               PROVE  FALSE
      OBVIOUS
  <2>1. state.session # None /\ state.session.gen = link'.gen
        BY <1>1 DEF ViewActive
  <2>2. link.gen \in Generation /\ link'.gen \in Generation /\ None \notin Generation
    <3>1. link \in Link /\ link' \in Link
          BY <1>1, Typing DEF InOrder, Metering, BootEffect, ConnectEffect
    <3> QED BY <3>1, NoneAssumption DEF Link
  <2>3. GenLe(link'.gen, link.gen)
        BY <2>1, <2>2 DEF Closed, Book, Current
  <2> QED BY <1>1, <2>2, <2>3 DEF GenLe, Generation
<1> QED BY <1>1, <1>2, <1>3 DEF Told, Followed, Corrected

Telling == Closed /\ Told

LEMMA TellingHolds == Spec => []Telling
<1>1. ASSUME Init, InOrder
      PROVE  Telling
  <2>1. queue = <<>> /\ state.session = None /\ saved.session = None /\ state.closed = {}
        /\ saved.closed = {} /\ ~link.up
        BY <1>1 DEF Init, Blank, Offline
  <2> QED BY <1>1, <2>1 DEF Telling, Closed, Book, Closes, Begun, Current, Latest, Told
<1>2. ASSUME Telling, InOrder', [Next]_vars
      PROVE  Telling'
  <2>1. CASE Next
    <3>1. Effects /\ InOrder /\ Book /\ Latest /\ Told
          BY <2>1, <1>2, Steps DEF Telling, Closed, InOrder
    <3>2. Book' /\ Latest'
          BY <1>2, <3>1, BookStays, LatestStays
    <3>3. Told'
      <4>1. CASE SaveEffect
            BY <3>1, <4>1 DEF SaveEffect, Told, BootWaits, Followed, Corrected, Opens, Awaits, Outdated,
                              ViewActive, Happened
      <4>2. CASE DisconnectEffect \/ RestartEffect
            BY <4>2 DEF DisconnectEffect, RestartEffect, Told
      <4> QED BY <1>2, <3>1, <3>2, <4>1, <4>2, HandlersTell, StationTells, ResetTells
              DEF Effects, Telling
    <3> QED BY <1>2, <3>2, <3>3 DEF Telling, Closed
  <2>2. CASE UNCHANGED vars
        BY <1>2, <2>2 DEF vars, Telling, Closed, Book, Closes, Begun, Current, GenLe, Latest, Told,
             BootWaits, Followed, Corrected, Opens, Awaits, Outdated, ViewActive, Happened
  <2> QED BY <1>2, <2>1, <2>2
<1> QED BY <1>1, <1>2, InOrderHolds, PTL DEF Spec

(* When no report is on its way, a session shown as active is the           *)
(* transaction that the station really has, however reports were held back, *)
(* repeated or lost with a connection, the station booted or the manager    *)
(* was restarted (session.py event, view; store.py closed_transactions).    *)
THEOREM ActiveIsTrueHolds == Spec => []ActiveIsTrue
<1>1. Telling => ActiveIsTrue
  <2> SUFFICES ASSUME Telling, queue = <<>>, ViewActive(state), truth.active # state.session.id
               PROVE  FALSE
      BY DEF ActiveIsTrue
  <2>1. state.session.id \in Ids /\ state.session.seq \in Nat
        BY SessionForm DEF Telling, Closed, ViewActive
  <2>2. Awaits(state.session.id, state.session.seq, 0)
        BY <2>1 DEF Telling, Told, BootWaits, Corrected, ViewActive
  <2> QED BY <2>2 DEF Awaits
<1> QED BY <1>1, TellingHolds, PTL

-----------------------------------------------------------------------------
(* The plug, as it is reported *)

IsStatus(k) == queue[k].kind = "status"
Last(k) == k \in DOMAIN queue /\ IsStatus(k) /\ \A j \in DOMAIN queue : j > k => ~IsStatus(j)
(* Reports of the plug arrive in their order; one of this moment is true. *)
Statuses == \A k \in DOMAIN queue : IsStatus(k) =>
  /\ queue[k].at <= truth.now /\ (queue[k].at = truth.now => queue[k].value = truth.plug)
  /\ \E l \in DOMAIN queue : Last(l)
  /\ \A j \in DOMAIN queue : j < k /\ IsStatus(j) =>
       queue[j].at <= queue[k].at /\ (queue[j].at = queue[k].at => queue[j].value = queue[k].value)
(* An observation belongs to this generation of the connection or to one before. *)
Placed(o) ==
  o # None => /\ GenLe(o.gen, link.gen) /\ o.at <= truth.now
              /\ o.gen = link.gen /\ link.up => o.at >= link.epoch
Connected == state.connector # None /\ state.connector.gen = link.gen
Behind == Connected =>
  /\ state.connector.value # None
  /\ \A k \in DOMAIN queue : IsStatus(k) =>
       /\ queue[k].at >= state.connector.at
       /\ queue[k].at = state.connector.at => queue[k].value = state.connector.value
(* What was reported last is so. *)
Plugs == link.up /\ ~BootWaits =>
  /\ \A k \in DOMAIN queue : Last(k) /\ queue[k].at >= link.epoch =>
       queue[k].value = truth.plug /\ queue[k].at >= truth.plugged
  /\ Connected /\ (\A k \in DOMAIN queue : ~IsStatus(k)) => state.connector.value = truth.plug

(* The reports on their way move on, and one may follow. *)
Carries(d, x) ==
  \E n \in Nat, m \in {0, 1} :
    /\ DOMAIN queue = 1..n+d /\ DOMAIN queue' = 1..n+m
    /\ \A k \in 1..n : queue'[k] = queue[k+d]
    /\ m = 1 => queue'[n+1] = x

LEMMA HandlersCarry ==
  ASSUME InOrder, EventEffect \/ MeterEffect \/ StatusEffect
  PROVE  \E x \in Report : Carries(1, x) /\ x.kind # "status" /\ x.kind # "boot"
            /\ (Happened(x) => x = queue[1])
<1>1. /\ queue \in Seq(Report) /\ queue # <<>> /\ Handled /\ 1 \in DOMAIN queue
      BY HeadForm
<1>2. PICK n \in Nat :
        /\ DOMAIN queue = 1..n+1
        /\ \/ DOMAIN queue' = 1..n
           \/ DOMAIN queue' = 1..n+1 /\ queue'[n+1] = queue[1] /\ Happened(queue[1])
        /\ \A k \in 1..n : queue'[k] = queue[k+1]
      BY <1>1, Moves DEF Moved
<1>3. CASE DOMAIN queue' = 1..n
  <2>1. PICK r \in Reading : TRUE
    <3>1. 0 \in Time
          BY BoundsAssumption DEF Time
    <3>2. [value |-> None, at |-> 0] \in Reading
          BY <3>1 DEF Reading, Maybe
    <3> QED BY <3>2
  <2>2. PICK x \in Report : x = [kind |-> "meter", reading |-> r]
        BY DEF Report
  <2>3. x.kind = "meter" /\ ~Happened(x)
        BY <2>2 DEF Happened, Kinds
  <2>4. DOMAIN queue' = 1..n+0
        BY <1>3
  <2>5. Carries(1, x)
        BY <1>2, <2>4 DEF Carries
  <2> QED BY <2>3, <2>5
<1>4. CASE DOMAIN queue' = 1..n+1 /\ queue'[n+1] = queue[1] /\ Happened(queue[1])
  <2>1. PICK x \in Report : x = queue[1]
        BY <1>1
  <2>2. Carries(1, x)
        BY <1>2, <1>4, <2>1 DEF Carries
  <2> QED BY <1>4, <2>1, <2>2 DEF Happened, Kinds
<1> QED BY <1>2, <1>3, <1>4

LEMMA SameCarries ==
  ASSUME queue \in Seq(Report), queue' = queue, NEW x
  PROVE  Carries(0, x)
<1>1. PICK n \in Nat : DOMAIN queue = 1..n
      OBVIOUS
<1>1a. n + 0 = n /\ \A k \in 1..n : k + 0 = k
      OBVIOUS
<1>2. PICK m \in {0, 1} : m = 0
      OBVIOUS
<1>3. /\ DOMAIN queue = 1..n+0 /\ DOMAIN queue' = 1..n+m
      /\ \A k \in 1..n : queue'[k] = queue[k+0]
      /\ m = 1 => queue'[n+1] = x
      BY <1>1, <1>1a, <1>2
<1> QED BY <1>3 DEF Carries

LEMMA StationCarries ==
  ASSUME InOrder, NEW x \in Report, Grows(x)
  PROVE  Carries(0, x)
<1>1. queue \in Seq(Report)
      BY Typing DEF InOrder, Metering
<1>2. CASE link.up
  <2>1. PICK n \in Nat : /\ DOMAIN queue = 1..n /\ DOMAIN queue' = 1..n+1
                         /\ queue'[n+1] = x /\ \A k \in 1..n : queue'[k] = queue[k]
        BY <1>2 DEF Grows, Appended
  <2>2. n + 0 = n /\ \A k \in 1..n : k + 0 = k
        OBVIOUS
  <2>3. PICK m \in {0, 1} : m = 1
        OBVIOUS
  <2>4. /\ DOMAIN queue = 1..n+0 /\ DOMAIN queue' = 1..n+m
        /\ \A k \in 1..n : queue'[k] = queue[k+0]
        /\ m = 1 => queue'[n+1] = x
        BY <2>1, <2>2, <2>3
  <2> QED BY <2>4 DEF Carries
<1>3. CASE ~link.up
  <2> QED BY <1>1, <1>3, SameCarries DEF Grows
<1> QED BY <1>2, <1>3

LEMMA StatusForm ==
  ASSUME InOrder
  PROVE  /\ \A k \in DOMAIN queue : IsStatus(k) =>
              /\ queue[k] \in StatusReport /\ queue[k].at \in Nat /\ queue[k].at \in Time
              /\ queue[k].value \in {"available", "occupied"}
         /\ DOMAIN queue \subseteq Nat
<1>1. queue \in Seq(Report)
      BY Typing DEF InOrder, Metering
<1>2. ASSUME NEW k \in DOMAIN queue, IsStatus(k)
      PROVE  /\ queue[k] \in StatusReport /\ queue[k].at \in Nat /\ queue[k].at \in Time
             /\ queue[k].value \in {"available", "occupied"}
  <2>1. queue[k] \in StatusReport
        BY <1>1, <1>2, ReportForms DEF IsStatus
  <2> QED BY <2>1 DEF StatusReport, Time
<1> QED BY <1>1, <1>2

(* Statuses that move on stay in order. *)
LEMMA StatusesStay ==
  ASSUME InOrder, InOrder', Statuses, NEW d \in {0, 1}, NEW x \in Report, Carries(d, x),
         truth'.now > truth.now \/ (truth'.now = truth.now /\ truth'.plug = truth.plug),
         x.kind = "status" => x.at = truth'.now /\ x.value = truth'.plug
  PROVE  Statuses'
<1>1. PICK n \in Nat, m \in {0, 1} :
        /\ DOMAIN queue = 1..n+d /\ DOMAIN queue' = 1..n+m
        /\ \A k \in 1..n : queue'[k] = queue[k+d]
        /\ m = 1 => queue'[n+1] = x
      BY DEF Carries
<1>2. truth.now \in Nat /\ truth'.now \in Nat
  <2>1. truth \in Truth /\ truth' \in Truth
        BY Typing DEF InOrder, Metering, TypeOK, Truth
  <2> QED BY <2>1 DEF Truth, Time
<1>3. ASSUME NEW k \in 1..n
      PROVE  k + d \in DOMAIN queue /\ (IsStatus(k)' <=> IsStatus(k + d)) /\ queue'[k] = queue[k+d]
      BY <1>1 DEF IsStatus
<1>4. ASSUME NEW k \in DOMAIN queue', IsStatus(k)'
      PROVE  \/ k \in 1..n
             \/ /\ k = n + 1 /\ m = 1 /\ queue'[k] = x /\ queue'[k].at = truth'.now
                /\ queue'[k].value = truth'.plug
      BY <1>1, <1>4 DEF IsStatus
<1>5. ASSUME NEW k \in 1..n, IsStatus(k)'
      PROVE  /\ queue'[k].at \in Nat /\ queue'[k].at <= truth.now
             /\ queue'[k].at = truth.now => queue'[k].value = truth.plug
  <2>1. k + d \in DOMAIN queue /\ IsStatus(k + d) /\ queue'[k] = queue[k+d]
        BY <1>3, <1>5
  <2> QED BY <2>1, StatusForm DEF Statuses
<1>6. ASSUME NEW k \in DOMAIN queue', IsStatus(k)'
      PROVE  \E l \in DOMAIN queue' : Last(l)'
  <2>1. CASE m = 1 /\ x.kind = "status"
    <3>1. n + 1 \in DOMAIN queue' /\ IsStatus(n+1)' /\ \A j \in DOMAIN queue' : ~(j > n + 1)
          BY <1>1, <2>1 DEF IsStatus
    <3> QED BY <3>1 DEF Last
  <2>2. CASE ~(m = 1 /\ x.kind = "status")
    <3>1. k \in 1..n /\ k + d \in DOMAIN queue /\ IsStatus(k + d)
          BY <1>1, <1>3, <1>4, <1>6, <2>2 DEF IsStatus
    <3>2. PICK l \in DOMAIN queue : Last(l)
          BY <3>1 DEF Statuses
    <3>3. l >= k + d /\ l - d \in 1..n /\ l = (l - d) + d
      <4>1. k + d \in Nat /\ l \in 1..n+d /\ ~(k + d > l)
            BY <1>1, <3>1, <3>2 DEF Last
      <4> QED BY <3>1, <4>1
    <3>4. IsStatus(l - d)'
          BY <1>3, <3>2, <3>3 DEF Last
    <3>5. ASSUME NEW j \in DOMAIN queue', j > l - d, IsStatus(j)'
          PROVE  FALSE
      <4>1. j \in 1..n
            BY <1>1, <1>4, <2>2, <3>5 DEF IsStatus
      <4>2. j + d \in DOMAIN queue /\ IsStatus(j + d)
            BY <1>3, <3>5, <4>1
      <4>3. j + d > l
        <5>1. j \in Nat /\ l - d \in Nat /\ l = (l - d) + d /\ j > l - d
              BY <3>3, <3>5, <4>1
        <5> QED BY <5>1
      <4> QED BY <3>2, <4>2, <4>3 DEF Last
    <3>6. l - d \in DOMAIN queue'
          BY <1>1, <3>3
    <3> QED BY <3>4, <3>5, <3>6 DEF Last
  <2> QED BY <2>1, <2>2
<1>7. ASSUME NEW k \in DOMAIN queue', IsStatus(k)', NEW j \in DOMAIN queue', j < k, IsStatus(j)'
      PROVE  /\ queue'[j].at <= queue'[k].at
             /\ queue'[j].at = queue'[k].at => queue'[j].value = queue'[k].value
  <2>1. j \in 1..n
        BY <1>1, <1>4, <1>7
  <2>2. CASE k \in 1..n
    <3>1. j + d < k + d /\ k + d \in DOMAIN queue /\ j + d \in DOMAIN queue
          /\ IsStatus(k + d) /\ IsStatus(j + d) /\ queue'[j] = queue[j+d] /\ queue'[k] = queue[k+d]
          BY <1>3, <1>7, <2>1, <2>2
    <3> QED BY <3>1 DEF Statuses
  <2>3. CASE k = n + 1 /\ queue'[k].at = truth'.now /\ queue'[k].value = truth'.plug
        BY <1>2, <1>5, <1>7, <2>1, <2>3
  <2> QED BY <1>4, <1>7, <2>2, <2>3
<1>8. ASSUME NEW k \in DOMAIN queue', IsStatus(k)'
      PROVE  /\ queue'[k].at <= truth'.now
             /\ queue'[k].at = truth'.now => queue'[k].value = truth'.plug
      BY <1>2, <1>4, <1>5, <1>8
<1> QED BY <1>6, <1>7, <1>8 DEF Statuses

(* Time goes on; at one moment the plug is what it is. *)
LEMMA TimeGoesOn ==
  ASSUME InOrder, InOrder', Effects
  PROVE  /\ truth.now \in Nat /\ truth'.now \in Nat
         /\ truth'.now > truth.now \/ (truth'.now = truth.now /\ truth'.plug = truth.plug)
<1>1. truth.now \in Nat /\ truth'.now \in Nat
  <2>1. truth \in Truth /\ truth' \in Truth
        BY Typing DEF InOrder, Metering, TypeOK, Truth
  <2> QED BY <2>1 DEF Truth, Time
<1>2. CASE StationEffect
  <2>1. PICK x \in Report, s \in Truth : s = truth' /\ Happens(x, s)
        BY <1>2 DEF StationEffect
  <2>2. Now = truth.now + 1
        BY <1>2 DEF StationEffect
  <2> QED BY <1>1, <2>1, <2>2 DEF Happens, Plugging, Starting, Updating, Ending, Measuring, Booting, Stays
<1>3. CASE ~StationEffect
  <2>1. UNCHANGED truth
        BY <1>3 DEF Effects, EventEffect, MeterEffect, StatusEffect, BootEffect, ConnectEffect,
                    DisconnectEffect, SaveEffect, RestartEffect
  <2> QED BY <1>1, <2>1
<1> QED BY <1>1, <1>2, <1>3

LEMMA PlacedOn ==
  ASSUME InOrder, InOrder', Effects, ~RestartEffect, NEW o, Placed(o),
         o # None => o.gen \in Generation /\ o.at \in Nat
  PROVE  Placed(o)'
<1>1. /\ truth.now \in Nat /\ truth'.now \in Nat /\ truth'.now >= truth.now
      BY TimeGoesOn
<1>2. link.gen \in Generation
      BY Typing DEF InOrder, Metering, Link
<1>3. CASE BootEffect \/ ConnectEffect
  <2>1. link'.gen = <<link.gen[1], link.gen[2] + 1>> \/ link'.gen = <<link.gen[1] + 1, 0>>
        BY <1>3 DEF BootEffect, ConnectEffect
  <2>2. o # None => GenLe(o.gen, link'.gen) /\ o.gen # link'.gen
        BY <1>2, <2>1 DEF Placed, GenLe, Generation
  <2> QED BY <1>1, <2>2 DEF Placed, GenLe
<1>4. CASE DisconnectEffect
      BY <1>1, <1>4 DEF DisconnectEffect, Placed, GenLe
<1>5. CASE ~(BootEffect \/ ConnectEffect) /\ ~DisconnectEffect
  <2>1. UNCHANGED link
        BY <1>5 DEF Effects, EventEffect, MeterEffect, StatusEffect, StationEffect, SaveEffect
  <2> QED BY <1>1, <2>1 DEF Placed, GenLe
<1> QED BY <1>3, <1>4, <1>5

LEMMA ObservedPlaced ==
  ASSUME InOrder, NEW o, Placed(o), NEW v, NEW at \in Nat, at <= truth.now
  PROVE  Placed(Observe(o, v, at))
<1>1. GenLe(link.gen, link.gen)
      BY Typing DEF InOrder, Metering, Link, GenLe, Generation
<1> QED BY <1>1 DEF Observe, Observable, Placed

LEMMA PlacedStays ==
  ASSUME InOrder, InOrder', Statuses, Effects, Placed(state.connector), Placed(state.charging)
  PROVE  Placed(state.connector)' /\ Placed(state.charging)'
<1>1. CASE RestartEffect
      BY <1>1 DEF RestartEffect, Placed
<1>2. CASE ~RestartEffect
  <2> DEFINE x == Head(queue)
  <2>1. PICK c, h : c = state'.connector /\ h = state'.charging
        OBVIOUS
  <2>2. /\ c # None => c.gen \in Generation /\ c.at \in Nat
        /\ h # None => h.gen \in Generation /\ h.at \in Nat
    <3>1. TypeOK' BY DEF InOrder, Metering
    <3> QED BY <2>1, <3>1 DEF TypeOK, Maybe, Observation, Time
  <2>3. Placed(c)
    <3>1. CASE StatusEffect
      <4>1. 1 \in DOMAIN queue /\ x = queue[1] /\ IsStatus(1)
            BY <3>1, HeadForm DEF StatusEffect, Receives, IsStatus
      <4>2. x.at \in Nat /\ x.at <= truth.now
            BY <4>1, StatusForm DEF Statuses
      <4>3. c = Observe(state.connector, x.value, x.at)
            BY <2>1, <3>1 DEF StatusEffect
      <4> QED BY <4>2, <4>3, ObservedPlaced
    <3>2. CASE ~StatusEffect
      <4>1. c = state.connector
            BY <1>2, <2>1, <3>2 DEF Effects, EventEffect, MeterEffect, StationEffect, BootEffect, ConnectEffect,
                  DisconnectEffect, SaveEffect, SameState
      <4> QED BY <4>1
    <3> QED BY <3>1, <3>2
  <2>4. Placed(h)
    <3>1. CASE EventEffect /\ h # state.charging
      <4>1. 1 \in DOMAIN queue /\ x = queue[1] /\ Happened(x)
            BY <3>1, HeadForm
      <4>2. x.at \in Nat /\ x.at <= truth.now
            BY <4>1, EventsForm DEF Past
      <4>3. h = Observe(state.charging, x.charging, x.at)
            BY <2>1, <3>1 DEF EventEffect
      <4> QED BY <4>2, <4>3, ObservedPlaced
    <3>2. CASE ~(EventEffect /\ h # state.charging)
      <4>1. h = state.charging
            BY <1>2, <2>1, <3>2 DEF Effects, MeterEffect, StatusEffect, StationEffect, BootEffect, ConnectEffect,
                  DisconnectEffect, SaveEffect, SameState
      <4> QED BY <4>1
    <3> QED BY <3>1, <3>2
  <2>5. Placed(c)' /\ Placed(h)'
        BY <1>2, <2>2, <2>3, <2>4, PlacedOn
  <2> QED BY <2>1, <2>5 DEF Placed, GenLe
<1> QED BY <1>1, <1>2

(* A status that is observed becomes what the connector shows. *)
LEMMA StatusSeen ==
  ASSUME InOrder, StatusEffect, Behind, Placed(state.connector)
  PROVE  LET m == queue[1] IN
         /\ \/ /\ state'.connector = state.connector
               /\ m.at >= link.epoch => Connected /\ m.at = state.connector.at /\ m.value = state.connector.value
            \/ /\ state'.connector # None /\ state'.connector.gen = link.gen
               /\ state'.connector.value = m.value /\ state'.connector.at = m.at
               /\ m.at >= link.epoch /\ (Connected => m.at > state.connector.at)
               /\ Observable(state.connector, m.value, m.at)
         /\ m.value \in {"available", "occupied"} /\ m.at \in Nat /\ 1 \in DOMAIN queue /\ IsStatus(1)
<1> DEFINE m == Head(queue)
           c == state.connector
<1>1. /\ 1 \in DOMAIN queue /\ m = queue[1] /\ IsStatus(1) /\ link.up
      BY HeadForm DEF StatusEffect, Receives, IsStatus
<1>2. m.value \in {"available", "occupied"} /\ m.at \in Nat
      BY <1>1, StatusForm
<1>3. state'.connector = Observe(c, m.value, m.at)
      BY DEF StatusEffect
<1>4. Connected => m.at >= c.at /\ (m.at = c.at => m.value = c.value) /\ c.at \in Nat
  <2>1. Connected => c.at \in Nat
        BY Typing DEF Connected, InOrder, Metering, State, Maybe, Observation, Time
  <2> QED BY <1>1, <2>1 DEF Behind
<1>5. Same(c) <=> Connected
      BY DEF Same, Connected
<1>6. None \notin {"available", "occupied"}
      BY NoneAssumption DEF Valued
<1> HIDE DEF m
<1>7. CASE Observable(c, m.value, m.at)
  <2>1. m.at >= link.epoch /\ (Connected => m.at > c.at)
        BY <1>2, <1>4, <1>5, <1>7 DEF Observable
  <2>2. ~(Same(c) /\ m.at = c.at)
        BY <1>2, <1>4, <1>5, <2>1
  <2>3. state'.connector = [value |-> m.value, at |-> m.at, gen |-> link.gen]
        BY <1>3, <1>7, <2>2 DEF Observe
  <2>4. state'.connector # None
    <3>1. state'.connector \in Maybe(Observation({"available", "occupied"}))
          BY Typing DEF StatusEffect, State
    <3>2. link.gen \in Generation /\ m.at \in Time
          BY <1>1, StatusForm, Typing DEF InOrder, Metering, Link
    <3>3. state'.connector \in Observation(Valued)
          BY <1>2, <2>3, <3>2 DEF Observation, Valued, Maybe
    <3> QED BY <3>3, NoneAssumption
  <2> QED BY <1>1, <1>2, <1>7, <2>1, <2>3, <2>4
<1>8. CASE ~Observable(c, m.value, m.at)
  <2>1. state'.connector = c
        BY <1>3, <1>8 DEF Observe
  <2>2. m.at >= link.epoch => Connected /\ m.at = c.at /\ m.value = c.value
        BY <1>1, <1>2, <1>4, <1>5, <1>8 DEF Observable
  <2> QED BY <1>1, <1>2, <2>1, <2>2
<1> QED BY <1>7, <1>8

(* Where the statuses on their way come from. *)
LEMMA StatusesFrom ==
  ASSUME NEW d \in {0, 1}, NEW x \in Report, Carries(d, x)
  PROVE  /\ \A k \in DOMAIN queue' : IsStatus(k)' =>
              \/ k + d \in DOMAIN queue /\ IsStatus(k + d) /\ queue'[k] = queue[k+d] /\ k \in Nat
              \/ x.kind = "status" /\ queue'[k] = x
         /\ \A k \in DOMAIN queue : k > d =>
              k - d \in DOMAIN queue' /\ queue'[k-d] = queue[k] /\ (IsStatus(k - d)' <=> IsStatus(k))
         /\ \A k : Last(k)' =>
              \/ k + d \in DOMAIN queue /\ Last(k + d) /\ queue'[k] = queue[k+d] /\ k \in Nat
              \/ x.kind = "status" /\ queue'[k] = x
<1>1. PICK n \in Nat, m \in {0, 1} :
        /\ DOMAIN queue = 1..n+d /\ DOMAIN queue' = 1..n+m
        /\ \A k \in 1..n : queue'[k] = queue[k+d]
        /\ m = 1 => queue'[n+1] = x
      BY DEF Carries
<1>2. ASSUME NEW k \in DOMAIN queue', IsStatus(k)'
      PROVE  \/ k + d \in DOMAIN queue /\ IsStatus(k + d) /\ queue'[k] = queue[k+d] /\ k \in Nat
             \/ x.kind = "status" /\ queue'[k] = x
  <2>1. CASE k \in 1..n
    <3>1. k + d \in 1..n+d /\ k \in Nat
          BY <2>1
    <3> QED BY <1>1, <1>2, <2>1, <3>1 DEF IsStatus
  <2>2. CASE k = n + 1 /\ m = 1
        BY <1>1, <1>2, <2>2 DEF IsStatus
  <2> QED BY <1>1, <1>2, <2>1, <2>2
<1>3. ASSUME NEW k \in DOMAIN queue, k > d
      PROVE  k - d \in DOMAIN queue' /\ queue'[k-d] = queue[k] /\ (IsStatus(k - d)' <=> IsStatus(k))
  <2>1. k - d \in 1..n /\ (k - d) + d = k
    <3>1. k \in 1..n+d /\ k > d
          BY <1>1, <1>3
    <3>2. k - d \in 1..n
          BY <3>1
    <3>3. (k - d) + d = k
          BY <3>1
    <3> QED BY <3>2, <3>3
  <2>2. k - d \in DOMAIN queue' /\ queue'[k-d] = queue[k]
        BY <1>1, <2>1
  <2> QED BY <2>2 DEF IsStatus
<1>4. ASSUME NEW k, Last(k)'
      PROVE  \/ k + d \in DOMAIN queue /\ Last(k + d) /\ queue'[k] = queue[k+d] /\ k \in Nat
             \/ x.kind = "status" /\ queue'[k] = x
  <2>1. k \in DOMAIN queue' /\ IsStatus(k)'
        BY <1>4 DEF Last
  <2>2. CASE k + d \in DOMAIN queue /\ IsStatus(k + d) /\ queue'[k] = queue[k+d] /\ k \in Nat
    <3>1. ASSUME NEW j \in DOMAIN queue, j > k + d, IsStatus(j)
          PROVE  FALSE
      <4>1. j > d /\ j - d > k
            BY <1>1, <2>2, <3>1
      <4>2. j - d \in DOMAIN queue' /\ IsStatus(j - d)'
            BY <1>3, <3>1, <4>1
      <4> QED BY <1>4, <4>1, <4>2 DEF Last
    <3> QED BY <2>2, <3>1 DEF Last
  <2> QED BY <1>2, <2>1, <2>2
<1> QED BY <1>2, <1>3, <1>4

LEMMA NotConnected ==
  ASSUME InOrder, Placed(state.connector), BootEffect \/ ConnectEffect
  PROVE  ~Connected'
<1>1. state'.connector = state.connector /\
      (link'.gen = <<link.gen[1], link.gen[2] + 1>> \/ link'.gen = <<link.gen[1] + 1, 0>>)
      BY DEF BootEffect, ConnectEffect, SameState
<1>2. link.gen \in Generation
      BY Typing DEF InOrder, Metering, Link
<1>3. ~GenLe(link'.gen, link.gen)
      BY <1>1, <1>2 DEF GenLe, Generation
<1> QED BY <1>1, <1>3 DEF Connected, Placed, GenLe

(* The steps that leave the connector and the generation alone. *)
LEMMA BehindKept ==
  ASSUME InOrder, InOrder', Effects, Behind, Placed(state.connector),
         state'.connector = state.connector, link'.gen = link.gen,
         NEW d \in {0, 1}, NEW x \in Report, Carries(d, x), x.kind = "status" => x.at > truth.now
  PROVE  Behind'
<1>1. Connected' <=> Connected
      BY DEF Connected
<1>2. Connected => state.connector.at \in Nat /\ state.connector.at <= truth.now
  <2>1. state.connector # None => state.connector.at \in Nat
        BY Typing DEF InOrder, Metering, State, Maybe, Observation, Time
  <2> QED BY <2>1 DEF Connected, Placed
<1>3. ASSUME Connected, NEW k \in DOMAIN queue', IsStatus(k)'
      PROVE  /\ queue'[k].at >= state.connector.at
             /\ queue'[k].at = state.connector.at => queue'[k].value = state.connector.value
  <2>1. CASE k + d \in DOMAIN queue /\ IsStatus(k + d) /\ queue'[k] = queue[k+d]
        BY <1>3, <2>1 DEF Behind
  <2>2. CASE x.kind = "status" /\ queue'[k] = x
    <3>1. x.at \in Nat
          BY <2>2, ReportForms DEF StatusReport, Time
    <3> QED BY <1>2, <1>3, <2>2, <3>1, TimeGoesOn
  <2> QED BY <1>3, <2>1, <2>2, StatusesFrom
<1> QED BY <1>1, <1>3 DEF Behind

LEMMA BehindStays ==
  ASSUME InOrder, InOrder', Effects, Statuses, Behind, Placed(state.connector)
  PROVE  Behind'
<1>0. queue \in Seq(Report)
      BY Typing DEF InOrder, Metering
<1>1. CASE RestartEffect
      BY <1>1 DEF RestartEffect, Behind, Connected
<1>2. CASE BootEffect \/ ConnectEffect
      BY <1>2, NotConnected DEF Behind
<1>3. CASE StatusEffect
  <2> DEFINE m == queue[1]
  <2>1. UNCHANGED link
        BY <1>3 DEF StatusEffect
  <2>2. PICK x \in Report : Carries(1, x) /\ x.kind # "status"
        BY <1>3, HandlersCarry
  <2>3. CASE state'.connector = state.connector
        BY <1>3, <2>1, <2>2, <2>3, BehindKept
  <2>4. CASE ~(state'.connector = state.connector)
    <3>1. /\ state'.connector # None /\ state'.connector.gen = link.gen
          /\ state'.connector.value = m.value /\ state'.connector.at = m.at
          /\ m.value \in {"available", "occupied"} /\ m.at \in Nat /\ 1 \in DOMAIN queue /\ IsStatus(1)
          BY <1>3, <2>4, StatusSeen
    <3>2. ASSUME NEW k \in DOMAIN queue', IsStatus(k)'
          PROVE  queue'[k].at >= m.at /\ (queue'[k].at = m.at => queue'[k].value = m.value)
      <4>1. PICK z \in {0, 1} : z = 1
            OBVIOUS
      <4>2. k + 1 \in DOMAIN queue /\ IsStatus(k + 1) /\ queue'[k] = queue[k+1] /\ k \in Nat
            BY <2>2, <3>2, <4>1, StatusesFrom
      <4>3. 1 < k + 1
            BY <4>2, StatusForm, <1>0, <3>2, <2>2 DEF Carries
      <4> QED BY <3>1, <4>2, <4>3 DEF Statuses
    <3>3. m.value # None
          BY <3>1, NoneAssumption DEF Valued
    <3> QED BY <3>1, <3>2, <3>3 DEF Behind
  <2> QED BY <2>3, <2>4
<1>4. CASE EventEffect \/ MeterEffect
  <2>1. PICK x \in Report, d \in {0, 1} : Carries(d, x) /\ x.kind # "status"
        BY <1>4, HandlersCarry
  <2> QED BY <1>4, <2>1, BehindKept DEF EventEffect, MeterEffect, Behind, Connected, IsStatus
<1>5. CASE StationEffect
  <2>1. PICK x \in Report, s \in Truth : Grows(x) /\ Happens(x, s) /\ s = truth'
        BY <1>5 DEF StationEffect
  <2>2. PICK d \in {0, 1} : d = 0
        OBVIOUS
  <2>3. Carries(d, x) /\ UNCHANGED <<link, state>>
        BY <1>5, <2>1, <2>2, StationCarries DEF StationEffect
  <2>4. x.kind = "status" => x.at > truth.now
    <3>1. Now = truth.now + 1 /\ truth.now \in Nat
          BY <1>5 DEF StationEffect
    <3> QED BY <2>1, <3>1
         DEF Happens, Plugging, Starting, Updating, Ending, Measuring, Booting, MeterReport
  <2> QED BY <1>5, <2>3, <2>4, BehindKept
<1>6. CASE DisconnectEffect \/ SaveEffect
  <2>1. queue' = queue /\ state'.connector = state.connector /\ link'.gen = link.gen
        BY <1>6 DEF DisconnectEffect, SaveEffect, SameState
  <2> QED BY <2>1 DEF Behind, Connected, IsStatus
<1> QED BY <1>1, <1>2, <1>3, <1>4, <1>5, <1>6 DEF Effects

(* A boot is followed by a report of the plug. *)
LEMMA BootCarries ==
  ASSUME InOrder, BootEffect
  PROVE  \E x \in Report, n \in Nat :
           /\ Carries(1, x) /\ x.kind = "status" /\ x.at = truth.now /\ x.value = truth.plug
           /\ DOMAIN queue' = 1..n+1 /\ queue'[n+1] = x
<1>1. PICK n \in Nat, x \in StatusReport :
        /\ DOMAIN queue = 1..n+1 /\ DOMAIN queue' = 1..n+1
        /\ \A k \in 1..n : queue'[k] = queue[k+1]
        /\ queue'[n+1] = x /\ x.at = truth.now /\ x.value = truth.plug
      BY DEF BootEffect
<1>2. x \in Report /\ x.kind = "status"
      BY DEF StatusReport, Report
<1>3. PICK m \in {0, 1} : m = 1
      OBVIOUS
<1>4. Carries(1, x)
      BY <1>1, <1>3 DEF Carries
<1> QED BY <1>1, <1>2, <1>4

LEMMA StatusesStays ==
  ASSUME InOrder, InOrder', Effects, Statuses
  PROVE  Statuses'
<1>0. /\ truth'.now > truth.now \/ (truth'.now = truth.now /\ truth'.plug = truth.plug)
      BY TimeGoesOn
<1>1. PICK one \in {0, 1}, zero \in {0, 1} : one = 1 /\ zero = 0
      OBVIOUS
<1>2. CASE EventEffect \/ MeterEffect \/ StatusEffect
  <2>1. PICK x \in Report : Carries(one, x) /\ x.kind # "status"
        BY <1>1, <1>2, HandlersCarry
  <2> QED BY <1>0, <2>1, StatusesStay
<1>3. CASE StationEffect
  <2>1. PICK x \in Report, s \in Truth : Grows(x) /\ Happens(x, s) /\ s = truth'
        BY <1>3 DEF StationEffect
  <2>2. Carries(zero, x)
        BY <1>1, <2>1, StationCarries
  <2>3. x.kind = "status" => x.at = s.now /\ x.value = s.plug
        BY <2>1 DEF Happens, Plugging, Starting, Updating, Ending, Measuring, Booting, MeterReport
  <2> QED BY <1>0, <2>1, <2>2, <2>3, StatusesStay
<1>4. CASE BootEffect
  <2>1. PICK x \in Report : Carries(one, x) /\ x.at = truth.now /\ x.value = truth.plug
        BY <1>1, <1>4, BootCarries
  <2>2. UNCHANGED truth
        BY <1>4 DEF BootEffect
  <2> QED BY <1>0, <2>1, <2>2, StatusesStay
<1>5. CASE ConnectEffect
  <2>1. UNCHANGED truth
        BY <1>5 DEF ConnectEffect
  <2>2. \A k \in DOMAIN queue' : IsStatus(k)' => /\ k \in DOMAIN queue /\ queue'[k] = queue[k] /\ IsStatus(k)
        BY <1>5 DEF ConnectEffect, IsStatus
  <2>3. CASE \A k \in DOMAIN queue' : queue'[k].kind = "boot"
        BY <2>3 DEF Statuses, IsStatus
  <2>4. CASE \A k \in DOMAIN queue : k \in DOMAIN queue' /\ queue'[k] = queue[k]
    <3>1. ASSUME NEW l \in DOMAIN queue, Last(l)
          PROVE  l \in DOMAIN queue' /\ Last(l)'
      <4>1. l \in DOMAIN queue' /\ IsStatus(l)'
            BY <2>4, <3>1 DEF Last, IsStatus
      <4>2. \A j \in DOMAIN queue' : j > l => ~IsStatus(j)'
            BY <2>2, <3>1 DEF Last
      <4> QED BY <4>1, <4>2 DEF Last
    <3>2. ASSUME NEW k \in DOMAIN queue', IsStatus(k)'
          PROVE  /\ queue'[k].at <= truth.now /\ (queue'[k].at = truth.now => queue'[k].value = truth.plug)
                 /\ \E l \in DOMAIN queue' : Last(l)'
                 /\ \A j \in DOMAIN queue' : j < k /\ IsStatus(j)' =>
                      queue'[j].at <= queue'[k].at /\ (queue'[j].at = queue'[k].at => queue'[j].value = queue'[k].value)
          BY <2>2, <3>1, <3>2 DEF Statuses
    <3> QED BY <2>1, <3>2 DEF Statuses
  <2> QED BY <1>5, <2>3, <2>4 DEF ConnectEffect
<1>6. CASE DisconnectEffect \/ SaveEffect \/ RestartEffect
  <2>1. UNCHANGED <<truth, queue>>
        BY <1>6 DEF DisconnectEffect, SaveEffect, RestartEffect
  <2> QED BY <2>1 DEF Statuses, Last, IsStatus
<1> QED BY <1>2, <1>3, <1>4, <1>5, <1>6 DEF Effects

(* Nothing is overlooked: if no boot waits now, none waited. *)
LEMMA NoBoot ==
  ASSUME InOrder, NEW d \in {0, 1}, NEW x \in Report, Carries(d, x), ~BootWaits',
         d = 1 => queue[1].kind # "boot"
  PROVE  ~BootWaits
<1>1. DOMAIN queue \subseteq Nat
      BY StatusForm
<1> SUFFICES ASSUME NEW k \in DOMAIN queue, queue[k].kind = "boot"
             PROVE  FALSE
    BY DEF BootWaits
<1>2. k > d
      BY <1>1 DEF Carries
<1>3. k - d \in DOMAIN queue' /\ queue'[k-d] = queue[k]
      BY <1>2, StatusesFrom
<1> QED BY <1>3 DEF BootWaits

LEMMA PlugsStays ==
  ASSUME InOrder, InOrder', Effects, Statuses, Behind, Placed(state.connector), Plugs
  PROVE  Plugs'
<1> SUFFICES ASSUME link'.up, ~BootWaits'
             PROVE  /\ \A k \in DOMAIN queue' : Last(k)' /\ queue'[k].at >= link'.epoch =>
                         queue'[k].value = truth'.plug /\ queue'[k].at >= truth'.plugged
                    /\ Connected' /\ (\A k \in DOMAIN queue' : ~IsStatus(k)') =>
                         state'.connector.value = truth'.plug
    BY DEF Plugs
<1>1. PICK one \in {0, 1}, zero \in {0, 1} : one = 1 /\ zero = 0
      OBVIOUS
<1>2. CASE EventEffect \/ MeterEffect \/ StatusEffect
  <2>1. UNCHANGED <<truth, link>> /\ queue[1].kind # "boot" /\ 1 \in DOMAIN queue /\ link.up
        BY <1>2, HeadForm DEF EventEffect, MeterEffect, StatusEffect
  <2>2. PICK x \in Report : Carries(one, x) /\ x.kind # "status"
        BY <1>1, <1>2, HandlersCarry
  <2>3. ~BootWaits
        BY <2>1, <2>2, NoBoot
  <2>4. ASSUME NEW k \in DOMAIN queue', Last(k)', queue'[k].at >= link.epoch
        PROVE  queue'[k].value = truth.plug /\ queue'[k].at >= truth.plugged
    <3>1. k + one \in DOMAIN queue /\ Last(k + one) /\ queue'[k] = queue[k+one]
          BY <2>2, <2>4, StatusesFrom
    <3> QED BY <2>1, <2>3, <2>4, <3>1 DEF Plugs
  <2>5. ASSUME Connected', \A k \in DOMAIN queue' : ~IsStatus(k)'
        PROVE  state'.connector.value = truth.plug
    <3>1. ASSUME NEW k \in DOMAIN queue, IsStatus(k)
          PROVE  k = 1
      <4>1. ~(k > one)
            BY <2>2, <2>5, <3>1, StatusesFrom
      <4> QED BY <1>1, <2>2, <3>1, <4>1 DEF Carries
    <3>2. CASE StatusEffect
      <4>1. /\ IsStatus(1) /\ queue[1].at \in Nat
            /\ \/ /\ state'.connector = state.connector
                  /\ queue[1].at >= link.epoch => Connected /\ queue[1].at = state.connector.at /\ queue[1].value = state.connector.value
               \/ /\ state'.connector.value = queue[1].value
                  /\ queue[1].at >= link.epoch
            BY <3>2, StatusSeen
      <4>2. Last(1)
            BY <2>1, <3>1, <4>1, StatusForm DEF Last
      <4>3. CASE queue[1].at >= link.epoch
        <5>1. queue[1].value = truth.plug
              BY <2>1, <2>3, <4>2, <4>3 DEF Plugs
        <5> QED BY <4>1, <4>3, <5>1
      <4>4. CASE ~(queue[1].at >= link.epoch)
        <5>1. Connected /\ state'.connector = state.connector
              BY <2>1, <2>5, <4>1, <4>4 DEF Connected
        <5>2. queue[1].at >= state.connector.at
              BY <2>1, <4>1, <5>1 DEF Behind
        <5>3. state.connector.at >= link.epoch /\ state.connector.at \in Nat /\ link.epoch \in Nat
          <6>1. state.connector.at \in Nat
                BY <5>1, Typing DEF InOrder, Metering, State, Maybe, Observation, Time, Connected
          <6>2. link.epoch \in Nat
                BY ClocksTypes DEF InOrder, Metering
          <6> QED BY <2>1, <5>1, <6>1, <6>2 DEF Connected, Placed
        <5> QED BY <4>1, <4>4, <5>2, <5>3
      <4> QED BY <4>3, <4>4
    <3>3. CASE ~StatusEffect
      <4>1. ~IsStatus(1) /\ state'.connector = state.connector
            BY <1>2, <2>1, <3>3, HeadForm DEF IsStatus, Happened, Kinds, EventEffect, MeterEffect, Receives
      <4>2. \A k \in DOMAIN queue : ~IsStatus(k)
            BY <3>1, <4>1
      <4> QED BY <2>1, <2>3, <2>5, <4>1, <4>2 DEF Plugs, Connected
    <3> QED BY <3>2, <3>3
  <2> QED BY <2>1, <2>4, <2>5
<1>3. CASE StationEffect
  <2>1. PICK x \in Report, s \in Truth : Grows(x) /\ Happens(x, s) /\ s = truth'
        BY <1>3 DEF StationEffect
  <2>2. UNCHANGED <<link, state>> /\ link.up /\ Carries(zero, x)
        BY <1>1, <1>3, <2>1, StationCarries DEF StationEffect
  <2>3. ~BootWaits
        BY <1>1, <2>2, NoBoot
  <2>4. CASE Plugging(x, s)
    <3>1. PICK n \in Nat : /\ DOMAIN queue' = 1..n+1 /\ queue'[n+1] = x
          BY <2>1, <2>2 DEF Grows, Appended
    <3>2. IsStatus(n+1)' /\ n + 1 \in DOMAIN queue'
          BY <2>4, <3>1 DEF Plugging, StatusReport, IsStatus
    <3>3. \A k \in DOMAIN queue' : Last(k)' => k = n + 1
          BY <3>1, <3>2 DEF Last
    <3>4. x.value = s.plug /\ x.at >= s.plugged
          BY <2>4, <1>3 DEF Plugging, StationEffect
    <3> QED BY <2>1, <3>1, <3>2, <3>3, <3>4
  <2>5. CASE ~Plugging(x, s)
    <3>1. x.kind # "status" /\ s.plug = truth.plug /\ s.plugged = truth.plugged
          BY <2>1, <2>5 DEF Happens, Starting, Updating, Ending, Measuring, Booting, MeterReport, Stays
    <3>2. \A k : Last(k)' => k + zero \in DOMAIN queue /\ Last(k + zero) /\ queue'[k] = queue[k+zero]
          BY <2>2, <3>1, StatusesFrom
    <3>3. (\A k \in DOMAIN queue' : ~IsStatus(k)') => \A k \in DOMAIN queue : ~IsStatus(k)
      <4>1. \A k \in DOMAIN queue : k > zero
            BY <1>1, <2>2 DEF Carries
      <4> QED BY <2>2, <4>1, StatusesFrom
    <3>4. Connected' <=> Connected
          BY <2>2 DEF Connected
    <3>5. ASSUME NEW k \in DOMAIN queue', Last(k)', queue'[k].at >= link.epoch
          PROVE  queue'[k].value = s.plug /\ queue'[k].at >= s.plugged
          BY <2>2, <2>3, <3>1, <3>2, <3>5 DEF Plugs
    <3>6. Connected' /\ (\A k \in DOMAIN queue' : ~IsStatus(k)') => state.connector.value = s.plug
          BY <2>2, <2>3, <3>1, <3>3, <3>4 DEF Plugs
    <3> QED BY <2>1, <2>2, <3>5, <3>6
  <2> QED BY <2>4, <2>5
<1>4. CASE BootEffect
  <2>1. PICK x \in Report, n \in Nat :
          /\ x.kind = "status" /\ x.at = truth.now /\ x.value = truth.plug
          /\ DOMAIN queue' = 1..n+1 /\ queue'[n+1] = x
        BY <1>4, BootCarries
  <2>2. IsStatus(n+1)' /\ n + 1 \in DOMAIN queue'
        BY <2>1 DEF IsStatus
  <2>3. \A k \in DOMAIN queue' : Last(k)' => k = n + 1
        BY <2>1, <2>2 DEF Last
  <2>4. UNCHANGED truth /\ truth.plugged <= truth.now
        BY <1>4 DEF BootEffect, InOrder, Clocks
  <2>5. truth.now >= truth.plugged
        BY <2>4, ClocksTypes DEF InOrder, Metering
  <2> QED BY <2>1, <2>2, <2>3, <2>4, <2>5
<1>5. CASE ConnectEffect
  <2>1. ~Connected'
        BY <1>5, NotConnected
  <2>2. ASSUME NEW k \in DOMAIN queue', Last(k)', queue'[k].at >= truth.now
        PROVE  queue'[k].value = truth.plug /\ queue'[k].at >= truth.plugged
    <3>1. k \in DOMAIN queue /\ queue'[k] = queue[k] /\ IsStatus(k)
          BY <1>5, <2>2 DEF ConnectEffect, Last, IsStatus
    <3>2. queue[k].at = truth.now /\ queue[k].value = truth.plug
      <4>1. queue[k].at \in Nat /\ queue[k].at <= truth.now /\ truth.now \in Nat
            BY <3>1, StatusForm, ClocksTypes DEF Statuses, InOrder, Metering
      <4>2. queue[k].at = truth.now
            BY <2>2, <3>1, <4>1
      <4> QED BY <3>1, <4>2 DEF Statuses
    <3>3. truth.now >= truth.plugged
          BY ClocksTypes DEF InOrder, Metering, Clocks
    <3> QED BY <3>1, <3>2, <3>3
  <2>3. UNCHANGED truth /\ link'.epoch = truth.now
        BY <1>5 DEF ConnectEffect
  <2> QED BY <2>1, <2>2, <2>3
<1>6. CASE DisconnectEffect \/ RestartEffect
      BY <1>6 DEF DisconnectEffect, RestartEffect
<1>7. CASE SaveEffect
      BY <1>7 DEF SaveEffect, Plugs, Last, IsStatus, Connected, BootWaits
<1> QED BY <1>2, <1>3, <1>4, <1>5, <1>6, <1>7 DEF Effects

-----------------------------------------------------------------------------
(* Idleness, and what has to be known of it *)

(* Since that time no transaction began and, if the plug is free, it was left. *)
Since(t) == /\ t <= truth.now
            /\ truth.active # None => truth.begun[truth.active] > t
            /\ truth.plug = "available" => truth.plugged > t
Idles(k, t) == /\ queue[k].kind = "Ended" /\ queue[k].charging = "idle" /\ queue[k].at = t
(* Idleness is only reported at the end of a transaction. *)
IdleSaid ==
  /\ \A k \in DOMAIN queue : Happened(queue[k]) =>
       /\ \A t \in Time : queue[k].kind = "Ended" /\ queue[k].at = t => Since(t)
       /\ queue[k].charging = "idle" => queue[k].kind = "Ended"
  /\ \A t \in Time : state.charging # None /\ state.charging.value = "idle" /\ state.charging.at = t => Since(t)
(* A transaction that began on this connection is known or on its way. *)
Announced ==
  link.up /\ ~BootWaits /\ truth.active # None /\ truth.begun[truth.active] > link.epoch =>
    \/ state.session # None /\ state.session.id = truth.active
    \/ \E k \in DOMAIN queue : /\ Happened(queue[k]) /\ queue[k].id = truth.active
                               /\ queue[k].at >= link.epoch

LEMMA SinceStays ==
  ASSUME InOrder, InOrder', Effects, NEW t \in Time, Since(t)
  PROVE  Since(t)'
<1>1. /\ truth.now \in Nat /\ t \in Nat /\ TypeOK
      /\ \A i \in Ids : truth.begun[i] \in Maybe(Time)
      BY ClocksTypes DEF InOrder, Metering
<1>2. CASE StationEffect
  <2>1. PICK x \in Report, s \in Truth : s = truth' /\ Happens(x, s)
        BY <1>2 DEF StationEffect
  <2>2. Now = truth.now + 1
        BY <1>2 DEF StationEffect
  <2>3. CASE Plugging(x, s)
        BY <1>1, <2>1, <2>2, <2>3 DEF Plugging, Since
  <2>4. CASE Starting(x, s)
    <3>1. /\ s.active = x.id /\ s.now = Now /\ s.plug = "occupied"
          /\ s.begun = [truth.begun EXCEPT ![x.id] = Now] /\ x.id \in Ids
          BY <2>4 DEF Starting, EventReport
    <3>2. s.begun[x.id] = Now
          BY <1>1, <3>1 DEF TypeOK
    <3> QED BY <1>1, <2>1, <2>2, <3>1, <3>2 DEF Since
  <2>5. CASE Updating(x, s) \/ Ending(x, s) \/ Measuring(x, s) \/ Booting(x, s)
        BY <1>1, <2>1, <2>2, <2>5 DEF Updating, Ending, Measuring, Booting, Stays, Since
  <2> QED BY <2>1, <2>3, <2>4, <2>5 DEF Happens
<1>3. CASE ~StationEffect
  <2>1. UNCHANGED truth
        BY <1>3 DEF Effects, EventEffect, MeterEffect, StatusEffect, BootEffect, ConnectEffect,
                    DisconnectEffect, SaveEffect, RestartEffect
  <2> QED BY <2>1 DEF Since
<1> QED BY <1>2, <1>3

(* What is on its way was so before, or is what the station says now. *)
LEMMA NewReports ==
  ASSUME NEW x \in Report, Grows(x)
  PROVE  \A k \in DOMAIN queue' : \/ k \in DOMAIN queue /\ queue'[k] = queue[k]
                                  \/ queue'[k] = x /\ link.up
<1>1. CASE ~link.up
      BY <1>1 DEF Grows
<1>2. CASE link.up
  <2>1. PICK m \in Nat : /\ DOMAIN queue = 1..m /\ DOMAIN queue' = 1..m+1
                         /\ queue'[m+1] = x /\ \A i \in 1..m : queue'[i] = queue[i]
        BY <1>2 DEF Grows, Appended
  <2> QED BY <1>2, <2>1
<1> QED BY <1>1, <1>2

LEMMA IdleSaidStays ==
  ASSUME InOrder, InOrder', Effects, IdleSaid
  PROVE  IdleSaid'
<1>0. Metering
      BY DEF InOrder
<1>1. ASSUME NEW k \in DOMAIN queue', Happened(queue'[k])
      PROVE  /\ \A t \in Time : queue'[k].kind = "Ended" /\ queue'[k].at = t => Since(t)'
             /\ queue'[k].charging = "idle" => queue'[k].kind = "Ended"
  <2>1. ASSUME NEW j \in DOMAIN queue, queue'[k] = queue[j]
        PROVE  /\ \A t \in Time : queue'[k].kind = "Ended" /\ queue'[k].at = t => Since(t)'
               /\ queue'[k].charging = "idle" => queue'[k].kind = "Ended"
    <3>1. Happened(queue[j])
          BY <1>1, <2>1 DEF Happened
    <3> QED BY <2>1, <3>1, SinceStays DEF IdleSaid
  <2>2. CASE ~StationEffect
        BY <1>0, <1>1, <2>1, <2>2, SameEvents
  <2>3. CASE StationEffect
    <3>1. PICK x \in Report, s \in Truth : Grows(x) /\ Happens(x, s) /\ s = truth'
          BY <2>3 DEF StationEffect
    <3>2. CASE queue'[k] = x
      <4>1. Starting(x, s) \/ Updating(x, s) \/ Ending(x, s)
            BY <1>1, <3>1, <3>2 DEF Happens, Plugging, Measuring, Booting, StatusReport, MeterReport,
                                    Happened, Kinds
      <4>2. ASSUME x.kind = "Ended"
            PROVE  /\ x.at = s.now /\ s.active = None /\ s.plug = "occupied" /\ s.now \in Nat
        <5>1. Ending(x, s)
              BY <4>1, <4>2 DEF Starting, Updating
        <5>2. truth.plug = "occupied"
              BY <5>1 DEF Ending, InOrder, Clocks
        <5> QED BY <5>1, <5>2 DEF Ending, Stays, Truth, Time
      <4>3. x.charging = "idle" => x.kind = "Ended"
            BY <4>1 DEF Starting, Updating, Ending
      <4>4. ASSUME NEW t \in Time, x.kind = "Ended", x.at = t
            PROVE  Since(t)'
            BY <3>1, <4>2, <4>4 DEF Since
      <4> QED BY <3>2, <4>3, <4>4
    <3> QED BY <1>1, <2>1, <3>1, <3>2, NewReports
  <2> QED BY <2>2, <2>3
<1>2. ASSUME NEW t \in Time, state'.charging # None, state'.charging.value = "idle", state'.charging.at = t
      PROVE  Since(t)'
  <2>1. CASE state'.charging = state.charging
        BY <1>2, <2>1, SinceStays DEF IdleSaid
  <2>2. CASE state'.charging # state.charging
    <3> DEFINE x == Head(queue)
    <3>1. EventEffect /\ state'.charging = Observe(state.charging, x.charging, x.at)
      <4>1. EventEffect
            BY <1>2, <2>2 DEF Effects, MeterEffect, StatusEffect, StationEffect, BootEffect, ConnectEffect,
                  DisconnectEffect, SaveEffect, RestartEffect, SameState
      <4> QED BY <2>2, <4>1 DEF EventEffect
    <3>2. x = queue[1] /\ 1 \in DOMAIN queue /\ Happened(x)
          BY <3>1, HeadForm
    <3>3. x.charging = "idle" /\ x.at = t
      <4>1. None # "idle"
            BY NoneAssumption DEF Valued
      <4> HIDE DEF x
      <4> QED BY <1>2, <2>2, <3>1, <4>1 DEF Observe
    <3>4. Since(t)
          BY <3>2, <3>3 DEF IdleSaid
    <3> QED BY <3>4, SinceStays
  <2> QED BY <2>1, <2>2
<1> QED BY <1>1, <1>2 DEF IdleSaid, Happened

(* The session of the active transaction is not given up. *)
LEMMA ActiveStays ==
  ASSUME Closed, EventEffect, Heard(state, Head(queue)),
         state.session # None, state.session.id = truth.active
  PROVE  state'.session.id = truth.active
<1> DEFINE x == Head(queue)
           s == state.session
<1>1. /\ InOrder /\ x = queue[1] /\ 1 \in DOMAIN queue /\ Happened(x)
      BY HeadForm DEF Closed
<1>2. x.id \in Ids /\ x.at \in Nat /\ Past(x.id, x.seq, x.at)
      BY <1>1, EventsForm
<1>3. s.id \in Ids /\ s.updated \in Nat /\ Past(s.id, s.seq, s.updated)
      BY <1>1, SessionForm
<1>4. state'.session.id = x.id /\ Heard(state, x)
      BY DEF EventEffect, Tells
<1> HIDE DEF x
<1> SUFFICES ASSUME x.id # truth.active PROVE FALSE
    BY <1>4
<1>5. x.at > s.updated
      BY <1>4 DEF Heard, Known
<1>6. truth.active # None /\ truth.begun[truth.active] \in Nat
      BY <1>1, <1>3, ClocksTypes DEF InOrder, Metering, Past, Maybe
<1> QED BY <1>2, <1>3, <1>5, <1>6 DEF Past

LEMMA HandlersAnnounce ==
  ASSUME Closed, EventEffect \/ MeterEffect \/ StatusEffect, Announced
  PROVE  Announced'
<1>1. /\ InOrder /\ UNCHANGED <<truth, link>> /\ 1 \in DOMAIN queue /\ Head(queue) = queue[1]
      /\ (~BootWaits' => ~BootWaits) /\ link.up /\ DOMAIN queue \subseteq Nat
      /\ queue \in Seq(Report) /\ queue # <<>> /\ Handled
      BY HeadForm DEF Closed, EventEffect, MeterEffect, StatusEffect
<1> SUFFICES ASSUME ~BootWaits', truth.active # None, truth.begun[truth.active] > link.epoch
             PROVE  \/ state'.session # None /\ state'.session.id = truth.active
                    \/ \E k \in DOMAIN queue' : /\ Happened(queue'[k]) /\ queue'[k].id = truth.active
                                                /\ queue'[k].at >= link.epoch
    BY <1>1 DEF Announced, Happened
<1>2. CASE state.session # None /\ state.session.id = truth.active
  <2>1. CASE EventEffect /\ Heard(state, Head(queue))
    <3>1. state'.session # None
          BY <2>1 DEF EventEffect
    <3> QED BY <1>2, <2>1, <3>1, ActiveStays
  <2>2. CASE ~(EventEffect /\ Heard(state, Head(queue)))
        BY <1>2, <2>2 DEF EventEffect, MeterEffect, StatusEffect, Keeps
  <2> QED BY <2>1, <2>2
<1>3. CASE ~(state.session # None /\ state.session.id = truth.active)
  <2>1. PICK k \in DOMAIN queue : /\ Happened(queue[k]) /\ queue[k].id = truth.active
                                  /\ queue[k].at >= link.epoch
        BY <1>1, <1>3 DEF Announced
  <2>2. CASE k > 1
    <3>1. PICK one \in {0, 1} : one = 1
          OBVIOUS
    <3>2. PICK x \in Report : Carries(one, x)
          BY <1>1, <3>1, HandlersCarry
    <3>3. k - one \in DOMAIN queue' /\ queue'[k-one] = queue[k]
          BY <2>2, <3>1, <3>2, StatusesFrom
    <3> QED BY <2>1, <3>3 DEF Happened
  <2>3. CASE ~(k > 1)
    <3> DEFINE x == Head(queue)
               s == state.session
    <3>1. k = 1 /\ x = queue[k]
      <4>1. DOMAIN queue \subseteq Nat \ {0}
            BY <1>1
      <4> QED BY <1>1, <2>3, <4>1
    <3>2. EventEffect
          BY <2>1, <3>1, HeadForm, <1>1
    <3>3. /\ Happened(x) /\ x.id = truth.active /\ x.at >= link.epoch /\ x.id \in Ids /\ x.seq \in Nat
          /\ x.at \in Nat /\ Past(x.id, x.seq, x.at)
          BY <1>1, <2>1, <3>1, EventsForm
    <3>4. x.id \notin state.closed /\ x.kind # "Ended"
          BY <2>1, <3>1, <3>3 DEF Closed, Book, Begun, Latest
    <3>5. Heard(state, x)
      <4>1. ~Known(state, x)
            BY <1>3, <3>3 DEF Known
      <4>2. s # None => x.at > s.updated
        <5> HAVE s # None
        <5>1. s.id \in Ids /\ s.updated \in Nat /\ Past(s.id, s.seq, s.updated)
              BY <1>1, SessionForm
        <5>2. s.updated < truth.begun[truth.active]
              BY <1>3, <5>1 DEF Past
        <5>3. x.at >= truth.begun[truth.active] /\ truth.begun[truth.active] \in Nat
              BY <1>1, <3>3, ClocksTypes DEF Past, InOrder, Metering, Maybe
        <5> QED BY <3>3, <5>1, <5>2, <5>3
      <4> HIDE DEF x
      <4> QED BY <1>1, <3>3, <3>4, <4>1, <4>2 DEF Heard
    <3>6. state'.session # None /\ state'.session.id = truth.active
          BY <3>2, <3>3, <3>5 DEF EventEffect, Tells
    <3> QED BY <3>6
  <2> QED BY <2>2, <2>3
<1> QED BY <1>2, <1>3

LEMMA AnnouncedStays ==
  ASSUME Closed, InOrder', Effects, Announced
  PROVE  Announced'
<1>0. InOrder
      BY DEF Closed
<1>1. CASE EventEffect \/ MeterEffect \/ StatusEffect
      BY <1>1, HandlersAnnounce
<1>2. CASE BootEffect \/ ConnectEffect
  <2>1. UNCHANGED truth /\ link'.epoch = truth.now
        BY <1>2 DEF BootEffect, ConnectEffect
  <2>2. truth.active # None => truth.begun[truth.active] \in Nat /\ truth.begun[truth.active] <= truth.now
                               /\ truth.now \in Nat
        BY <1>0, ClocksTypes DEF InOrder, Metering, Clocks, Maybe
  <2> QED BY <2>1, <2>2 DEF Announced
<1>3. CASE DisconnectEffect \/ RestartEffect
      BY <1>3 DEF DisconnectEffect, RestartEffect, Announced
<1>4. CASE SaveEffect
      BY <1>4 DEF SaveEffect, Announced, Happened, BootWaits
<1>5. CASE StationEffect
  <2>1. PICK x \in Report, s \in Truth : Grows(x) /\ Happens(x, s) /\ s = truth'
        BY <1>5 DEF StationEffect
  <2>2. UNCHANGED <<link, state>>
        BY <1>5 DEF StationEffect
  <2> SUFFICES ASSUME link.up, ~BootWaits', s.active # None, s.begun[s.active] > link.epoch
               PROVE  \/ state.session # None /\ state.session.id = s.active
                      \/ \E k \in DOMAIN queue' : /\ Happened(queue'[k]) /\ queue'[k].id = s.active
                                                  /\ queue'[k].at >= link.epoch
      BY <2>1, <2>2 DEF Announced, Happened
  <2>3. PICK m \in Nat : /\ DOMAIN queue = 1..m /\ DOMAIN queue' = 1..m+1
                         /\ queue'[m+1] = x /\ \A i \in 1..m : queue'[i] = queue[i]
        BY <2>1 DEF Grows, Appended
  <2>4. ~BootWaits
        BY <2>3 DEF BootWaits
  <2>5. CASE Starting(x, s)
    <3>1. Happened(x) /\ x.id = s.active /\ x.at = truth.now + 1 /\ m + 1 \in DOMAIN queue'
          BY <1>5, <2>3, <2>5 DEF Starting, StationEffect, Happened, Kinds
    <3>2. x.at >= link.epoch
          BY <1>0, <3>1, ClocksTypes DEF InOrder, Metering, Clocks
    <3> QED BY <2>3, <3>1, <3>2
  <2>6. CASE ~Starting(x, s)
    <3>1. s.active = truth.active /\ s.begun = truth.begun
          BY <2>1, <2>6 DEF Happens, Plugging, Updating, Ending, Measuring, Booting, Stays
    <3>2. CASE state.session # None /\ state.session.id = truth.active
          BY <3>1, <3>2
    <3>3. CASE ~(state.session # None /\ state.session.id = truth.active)
      <4>1. PICK k \in DOMAIN queue : /\ Happened(queue[k]) /\ queue[k].id = truth.active
                                      /\ queue[k].at >= link.epoch
            BY <2>4, <3>1, <3>3 DEF Announced
      <4>2. k \in DOMAIN queue' /\ queue'[k] = queue[k]
            BY <2>3
      <4> QED BY <3>1, <4>1, <4>2
    <3> QED BY <3>2, <3>3
  <2> QED BY <2>5, <2>6
<1> QED BY <1>1, <1>2, <1>3, <1>4, <1>5 DEF Effects

(* An idleness that is known, or that will be. *)
Seen(t) ==
  \/ /\ state.charging # None /\ state.charging.gen = link.gen
     /\ state.charging.value = "idle" /\ state.charging.at = t
  \/ t >= link.epoch /\ \E k \in DOMAIN queue : Idles(k, t)
(* The plug is known to be free, or that will be. *)
Gone == \/ \E k \in DOMAIN queue : IsStatus(k) /\ queue[k].at >= link.epoch
        \/ Connected /\ state.connector.value = "available"
(* A vehicle came after that time: a barrier says so, or a status will raise it. *)
Back(t) ==
  \/ state.barrier # None /\ state.barrier >= t
  \/ \E k \in DOMAIN queue : /\ IsStatus(k) /\ queue[k].value = "occupied" /\ queue[k].at >= t
       /\ \/ \E j \in DOMAIN queue : /\ j < k /\ IsStatus(j) /\ queue[j].value = "available"
                                     /\ queue[j].at >= t
          \/ /\ Connected /\ state.connector.value = "available"
             /\ \A i \in DOMAIN queue : i < k /\ IsStatus(i) => queue[i].at >= t
Arrived == link.up /\ ~BootWaits => \A t \in Time : Seen(t) =>
  /\ truth.plug = "available" => Gone
  /\ truth.plug = "occupied" /\ t < truth.plugged => Back(t)

LEMMA HandlersSee ==
  ASSUME InOrder, IdleSaid, EventEffect \/ MeterEffect \/ StatusEffect, NEW t \in Time, Seen(t)'
  PROVE  Seen(t)
<1>1. /\ UNCHANGED link /\ 1 \in DOMAIN queue /\ Head(queue) = queue[1] /\ link.up
      BY HeadForm DEF EventEffect, MeterEffect, StatusEffect, InOrder
<1>2. ASSUME NEW k \in DOMAIN queue', Idles(k, t)'
      PROVE  \E j \in DOMAIN queue : Idles(j, t)
  <2>1. PICK d \in {0, 1}, x \in Report : d = 1 /\ Carries(d, x) /\ (Happened(x) => x = queue[1])
        BY HandlersCarry
  <2>2. PICK n \in Nat, m \in {0, 1} :
          /\ DOMAIN queue = 1..n+d /\ DOMAIN queue' = 1..n+m
          /\ \A i \in 1..n : queue'[i] = queue[i+d]
          /\ m = 1 => queue'[n+1] = x
        BY <2>1 DEF Carries
  <2>3. CASE k \in 1..n
    <3>1. k + 1 \in DOMAIN queue /\ queue'[k] = queue[k+1]
          BY <2>1, <2>2, <2>3
    <3> QED BY <1>2, <3>1 DEF Idles
  <2>4. CASE ~(k \in 1..n)
    <3>1. queue'[k] = x
          BY <1>2, <2>2, <2>4
    <3>2. queue'[k] = queue[1]
          BY <1>2, <2>1, <3>1 DEF Idles, Happened, Kinds
    <3> QED BY <1>1, <1>2, <3>2 DEF Idles
  <2> QED BY <2>3, <2>4
<1>3. ASSUME state'.charging # None, state'.charging.gen = link.gen,
             state'.charging.value = "idle", state'.charging.at = t
      PROVE  Seen(t)
  <2>1. CASE state'.charging = state.charging
        BY <1>3, <2>1 DEF Seen
  <2>2. CASE state'.charging # state.charging
    <3> DEFINE x == Head(queue)
    <3>1. EventEffect /\ state'.charging = Observe(state.charging, x.charging, x.at)
          BY <2>2 DEF EventEffect, MeterEffect, StatusEffect
    <3>2. x.charging = "idle" /\ x.at = t /\ x.at >= link.epoch
      <4>1. None # "idle"
            BY NoneAssumption DEF Valued
      <4> HIDE DEF x
      <4> QED BY <1>3, <2>2, <3>1, <4>1 DEF Observe, Observable
    <3>3. x.kind = "Ended" /\ x = queue[1]
      <4>1. Happened(queue[1])
            BY <3>1, HeadForm
      <4> QED BY <1>1, <3>2, <4>1 DEF IdleSaid
    <3> QED BY <1>1, <3>2, <3>3 DEF Seen, Idles
  <2> QED BY <2>1, <2>2
<1> QED BY <1>1, <1>2, <1>3 DEF Seen

LEMMA BarrierStays ==
  ASSUME InOrder, EventEffect \/ MeterEffect \/ StatusEffect, NEW t \in Time,
         state.barrier # None, state.barrier >= t
  PROVE  state'.barrier # None /\ state'.barrier >= t
<1> DEFINE x == Head(queue)
           b == state.barrier
<1>1. b \in Nat /\ t \in Nat /\ None \notin Nat
      BY Typing, NoneAssumption DEF InOrder, Metering, State, Maybe, Time
<1>2. ASSUME NEW at \in Nat
      PROVE  Barred(b, at) # None /\ Barred(b, at) >= t
      BY <1>1 DEF Barred
<1>3. CASE EventEffect
  <2>1. x = queue[1] /\ 1 \in DOMAIN queue /\ Happened(x)
        BY <1>3, HeadForm
  <2>2. x.at \in Nat
        BY <2>1, EventsForm
  <2>3. state'.barrier \in {b, Barred(b, x.at)}
        BY <1>3 DEF EventEffect, BarredBy
  <2> QED BY <1>2, <2>2, <2>3
<1>4. CASE MeterEffect
      BY <1>4 DEF MeterEffect
<1>5. CASE StatusEffect
  <2>1. x.at \in Nat
        BY <1>5 DEF StatusEffect, StatusReport, Time
  <2>2. state'.barrier \in {b, Barred(b, x.at)}
        BY <1>5 DEF StatusEffect
  <2> QED BY <1>2, <2>1, <2>2
<1> QED BY <1>3, <1>4, <1>5

(* An event and a reading leave what is known of the plug alone. *)
LEMMA OthersArrive ==
  ASSUME InOrder, IdleSaid, Arrived, EventEffect \/ MeterEffect
  PROVE  Arrived'
<1>1. /\ UNCHANGED <<truth, link>> /\ 1 \in DOMAIN queue /\ ~IsStatus(1) /\ link.up
      /\ (~BootWaits' => ~BootWaits) /\ state'.connector = state.connector
      /\ DOMAIN queue \subseteq Nat
  <2>1. /\ 1 \in DOMAIN queue /\ link.up /\ (~BootWaits' => ~BootWaits) /\ DOMAIN queue \subseteq Nat
        BY HeadForm
  <2>2. ~IsStatus(1)
        BY HeadForm DEF EventEffect, MeterEffect, Receives, IsStatus, Kinds
  <2>3. UNCHANGED <<truth, link>> /\ state'.connector = state.connector
        BY DEF EventEffect, MeterEffect
  <2> QED BY <2>1, <2>2, <2>3
<1>2. PICK d \in {0, 1}, x \in Report : d = 1 /\ Carries(d, x) /\ x.kind # "status"
      BY HandlersCarry
<1>3. ASSUME NEW k \in DOMAIN queue, IsStatus(k)
      PROVE  k - d \in DOMAIN queue' /\ queue'[k-d] = queue[k] /\ IsStatus(k - d)' /\ k \in Nat
  <2>1. k > d
        BY <1>1, <1>2, <1>3 DEF Carries
  <2> QED BY <1>1, <1>2, <1>3, <2>1, StatusesFrom
<1>4. ASSUME NEW k \in DOMAIN queue', IsStatus(k)'
      PROVE  k + d \in DOMAIN queue /\ IsStatus(k + d) /\ queue'[k] = queue[k+d] /\ k \in Nat
      BY <1>2, <1>4, StatusesFrom
<1> SUFFICES ASSUME ~BootWaits', NEW t \in Time, Seen(t)'
             PROVE  /\ truth.plug = "available" => Gone'
                    /\ truth.plug = "occupied" /\ t < truth.plugged => Back(t)'
    BY <1>1 DEF Arrived
<1>5. /\ truth.plug = "available" => Gone
      /\ truth.plug = "occupied" /\ t < truth.plugged => Back(t)
      BY <1>1, HandlersSee DEF Arrived
<1>6. Gone => Gone'
      BY <1>1, <1>3 DEF Gone, Connected, IsStatus
<1>7. Connected' <=> Connected
      BY <1>1 DEF Connected
<1>8. ASSUME Back(t)
      PROVE  Back(t)'
  <2>1. CASE state.barrier # None /\ state.barrier >= t
        BY <2>1, BarrierStays DEF Back
  <2>2. CASE ~(state.barrier # None /\ state.barrier >= t)
    <3>1. PICK k \in DOMAIN queue : /\ IsStatus(k) /\ queue[k].value = "occupied" /\ queue[k].at >= t
       /\ \/ \E j \in DOMAIN queue : /\ j < k /\ IsStatus(j) /\ queue[j].value = "available"
                                     /\ queue[j].at >= t
          \/ /\ Connected /\ state.connector.value = "available"
             /\ \A i \in DOMAIN queue : i < k /\ IsStatus(i) => queue[i].at >= t
          BY <1>8, <2>2 DEF Back
    <3>2. /\ k - d \in DOMAIN queue' /\ IsStatus(k - d)' /\ queue'[k-d].value = "occupied"
          /\ queue'[k-d].at >= t /\ k \in Nat
          BY <1>3, <3>1
    <3>3. ASSUME NEW j \in DOMAIN queue, j < k, IsStatus(j), queue[j].value = "available", queue[j].at >= t
          PROVE  Back(t)'
      <4>1. /\ j - d \in DOMAIN queue' /\ IsStatus(j - d)' /\ queue'[j-d] = queue[j] /\ j \in Nat
            BY <1>3, <3>3
      <4>2. j - d < k - d
            BY <3>2, <3>3, <4>1
      <4> QED BY <3>2, <3>3, <4>1, <4>2 DEF Back, IsStatus, Connected
    <3>4. ASSUME Connected, state.connector.value = "available",
                 \A i \in DOMAIN queue : i < k /\ IsStatus(i) => queue[i].at >= t
          PROVE  Back(t)'
      <4>1. ASSUME NEW i \in DOMAIN queue', i < k - d, IsStatus(i)'
            PROVE  queue'[i].at >= t
        <5>1. i + d \in DOMAIN queue /\ IsStatus(i + d) /\ queue'[i] = queue[i+d] /\ i \in Nat
              BY <1>4, <4>1
        <5>2. i + d < k
              BY <3>2, <4>1, <5>1
        <5> QED BY <3>4, <5>1, <5>2
      <4>2. Connected' /\ state'.connector.value = "available"
            BY <1>1, <1>7, <3>4
      <4> QED BY <3>2, <4>1, <4>2 DEF Back, IsStatus, Connected
    <3> QED BY <3>1, <3>3, <3>4
  <2> QED BY <2>1, <2>2
<1> QED BY <1>5, <1>6, <1>8

(* Once a status is handled, the connector shows it or shows something newer. *)
LEMMA StatusShown ==
  ASSUME InOrder, StatusEffect, Behind, Placed(state.connector)
  PROVE  LET m == queue[1] IN
         /\ m.at >= link.epoch => Connected' /\ state'.connector.value = m.value
         /\ Connected => Connected' /\ state'.connector.value \in {state.connector.value, m.value}
         /\ Connected /\ state.connector.value = "available" /\ m.value = "occupied" /\ m.at >= link.epoch
              => state'.barrier # None /\ state'.barrier >= m.at
<1> DEFINE m == queue[1]
           c == state.connector
<1>1. /\ m.value \in {"available", "occupied"} /\ m.at \in Nat /\ 1 \in DOMAIN queue
      /\ \/ /\ state'.connector = c
            /\ m.at >= link.epoch => Connected /\ m.at = c.at /\ m.value = c.value
         \/ /\ state'.connector # None /\ state'.connector.gen = link.gen
            /\ state'.connector.value = m.value /\ state'.connector.at = m.at
            /\ m.at >= link.epoch /\ (Connected => m.at > c.at)
            /\ Observable(c, m.value, m.at)
      BY StatusSeen
<1>2. UNCHANGED link /\ link.up /\ Head(queue) = m
      BY HeadForm DEF StatusEffect
<1> HIDE DEF m
<1>3. m.at >= link.epoch => Connected' /\ state'.connector.value = m.value
      BY <1>1, <1>2 DEF Connected
<1>4. Connected => Connected' /\ state'.connector.value \in {c.value, m.value}
      BY <1>1, <1>2 DEF Connected
<1>5. ASSUME Connected, c.value = "available", m.value = "occupied", m.at >= link.epoch
      PROVE  state'.barrier # None /\ state'.barrier >= m.at
  <2>1. /\ state'.connector # None /\ state'.connector.gen = link.gen
        /\ state'.connector.value = "occupied" /\ Observable(c, m.value, m.at)
        BY <1>1, <1>5
  <2>2. state'.connector = Observe(c, m.value, m.at)
        BY <1>2 DEF StatusEffect
  <2>3. Value(c) = "available" /\ Value(Observe(c, m.value, m.at)) = "occupied"
        BY <1>2, <1>5, <2>1, <2>2 DEF Value, Live, Connected
  <2>4. state'.barrier = Barred(state.barrier, m.at)
        BY <1>2, <2>1, <2>3 DEF StatusEffect
  <2>5. state.barrier # None => state.barrier \in Nat
        BY Typing DEF InOrder, Metering, State, Maybe, Time
  <2> QED BY <1>1, <2>4, <2>5, NoneAssumption DEF Barred
<1> QED BY <1>3, <1>4, <1>5 DEF m

LEMMA StatusArrives ==
  ASSUME InOrder, InOrder', IdleSaid, Statuses, Behind, Behind', Plugs', Placed(state.connector),
         Placed(state.connector)', Placed(state.charging), Arrived, StatusEffect
  PROVE  Arrived'
<1> DEFINE m == queue[1]
           c == state.connector
<1>1. /\ UNCHANGED <<truth, link>> /\ 1 \in DOMAIN queue /\ IsStatus(1) /\ link.up
      /\ (~BootWaits' => ~BootWaits) /\ DOMAIN queue \subseteq Nat
      /\ m.value \in {"available", "occupied"} /\ m.at \in Nat
      BY HeadForm, StatusSeen DEF StatusEffect
<1>2. PICK d \in {0, 1}, x \in Report : d = 1 /\ Carries(d, x) /\ x.kind # "status"
      BY HandlersCarry
<1>3. ASSUME NEW k \in DOMAIN queue, k > 1
      PROVE  k - d \in DOMAIN queue' /\ queue'[k-d] = queue[k] /\ (IsStatus(k - d)' <=> IsStatus(k))
      BY <1>2, <1>3, StatusesFrom
<1>4. ASSUME NEW k \in DOMAIN queue', IsStatus(k)'
      PROVE  k + d \in DOMAIN queue /\ IsStatus(k + d) /\ queue'[k] = queue[k+d] /\ k \in Nat
      BY <1>2, <1>4, StatusesFrom
<1>5. link.epoch \in Nat
      BY ClocksTypes DEF InOrder, Metering
<1> SUFFICES ASSUME ~BootWaits', NEW t \in Time, Seen(t)'
             PROVE  /\ truth.plug = "available" => Gone'
                    /\ truth.plug = "occupied" /\ t < truth.plugged => Back(t)'
    BY <1>1 DEF Arrived
<1>6. /\ Seen(t)
      /\ truth.plug = "available" => Gone
      /\ truth.plug = "occupied" /\ t < truth.plugged => Back(t)
      BY <1>1, HandlersSee DEF Arrived
<1>7. t >= link.epoch /\ t \in Nat
      BY <1>1, <1>6 DEF Seen, Placed, Time
<1>8. ASSUME Gone, truth.plug = "available"
      PROVE  Gone'
  <2>1. CASE \E k \in DOMAIN queue' : IsStatus(k)'
    <3>1. PICK k \in DOMAIN queue' : IsStatus(k)'
          BY <2>1
    <3>2. CASE Connected'
      <4>1. queue'[k].at >= state'.connector.at /\ state'.connector.at >= link.epoch
            BY <1>1, <3>1, <3>2 DEF Behind, Placed, Connected
      <4>2. state'.connector.at \in Nat /\ queue'[k].at \in Nat
        <5>1. state'.connector.at \in Nat
          <6>1. state'.connector # None
                BY <3>2 DEF Connected
          <6> QED BY <6>1 DEF InOrder, Metering, TypeOK, Maybe, Observation, Time
        <5>2. queue'[k].at \in Nat
              BY <1>4, <3>1, StatusForm
        <5> QED BY <5>1, <5>2
      <4>3. queue'[k].at >= link.epoch
            BY <1>5, <4>1, <4>2
      <4> QED BY <1>1, <3>1, <4>3 DEF Gone, IsStatus
    <3>3. CASE ~Connected'
      <4>1. ~Connected /\ ~(m.at >= link.epoch)
            BY <3>3, StatusShown
      <4>2. PICK i \in DOMAIN queue : IsStatus(i) /\ queue[i].at >= link.epoch
            BY <1>8, <4>1 DEF Gone
      <4>3. i > 1
        <5>1. i # 1 /\ i \in Nat \ {0}
              BY <1>2, <4>1, <4>2 DEF Carries
        <5> QED BY <5>1
      <4> QED BY <1>1, <1>3, <4>2, <4>3 DEF Gone, IsStatus
    <3> QED BY <3>2, <3>3
  <2>2. CASE \A k \in DOMAIN queue' : ~IsStatus(k)'
    <3>1. ASSUME NEW i \in DOMAIN queue, IsStatus(i), queue[i].at >= link.epoch
          PROVE  m.at >= link.epoch
      <4>1. ~(i > 1)
            BY <1>3, <2>2, <3>1
      <4>2. i = 1
            BY <1>2, <3>1, <4>1 DEF Carries
      <4> QED BY <3>1, <4>2
    <3>2. Connected'
          BY <1>8, <3>1, StatusShown DEF Gone
    <3>3. state'.connector.value = truth.plug
          BY <1>1, <2>2, <3>2 DEF Plugs
    <3> QED BY <1>8, <3>2, <3>3 DEF Gone, Connected
  <2> QED BY <2>1, <2>2
<1>9. ASSUME Back(t)
      PROVE  Back(t)'
  <2>1. CASE state.barrier # None /\ state.barrier >= t
        BY <2>1, BarrierStays DEF Back
  <2>2. CASE ~(state.barrier # None /\ state.barrier >= t)
    <3>1. PICK k \in DOMAIN queue : /\ IsStatus(k) /\ queue[k].value = "occupied" /\ queue[k].at >= t
       /\ \/ \E j \in DOMAIN queue : /\ j < k /\ IsStatus(j) /\ queue[j].value = "available"
                                     /\ queue[j].at >= t
          \/ /\ Connected /\ state.connector.value = "available"
             /\ \A i \in DOMAIN queue : i < k /\ IsStatus(i) => queue[i].at >= t
          BY <1>9, <2>2 DEF Back
    <3>2. k \in Nat /\ k >= 1
          BY <1>2, <3>1 DEF Carries
    (* the connector becomes available before the vehicle that is to come *)
    <3>3. ASSUME k > 1, Connected', state'.connector.value = "available",
                 \A i \in DOMAIN queue : 1 < i /\ i < k /\ IsStatus(i) => queue[i].at >= t
          PROVE  Back(t)'
      <4>1. ASSUME NEW i \in DOMAIN queue', i < k - d, IsStatus(i)'
            PROVE  queue'[i].at >= t
        <5>1. i + d \in DOMAIN queue /\ IsStatus(i + d) /\ queue'[i] = queue[i+d] /\ i \in Nat
              BY <1>4, <4>1
        <5>2. i + d < k /\ 1 < i + d
          <6>1. i >= 1
                BY <1>2, <4>1 DEF Carries
          <6> QED BY <1>2, <3>2, <4>1, <5>1, <6>1
        <5> QED BY <3>3, <5>1, <5>2
      <4>2. k - d \in DOMAIN queue' /\ IsStatus(k - d)' /\ queue'[k-d] = queue[k]
            BY <1>3, <3>1, <3>3
      <4> QED BY <3>1, <3>3, <4>1, <4>2 DEF Back, IsStatus, Connected
    (* the vehicle's status is handled: the barrier is raised *)
    <3>4. ASSUME Connected, c.value = "available", m.value = "occupied", m.at >= t
          PROVE  Back(t)'
      <4>1. m.at >= link.epoch
            BY <1>1, <1>5, <1>7, <3>4
      <4>2. state'.barrier # None /\ state'.barrier >= m.at
            BY <3>4, <4>1, StatusShown
      <4>3. state'.barrier \in Nat
            BY <4>2 DEF InOrder, Metering, TypeOK, Maybe, Time
      <4>4. state'.barrier >= t
            BY <1>1, <1>7, <3>4, <4>2, <4>3
      <4> QED BY <4>2, <4>4 DEF Back
    <3>5. ASSUME NEW j \in DOMAIN queue, j < k, IsStatus(j), queue[j].value = "available", queue[j].at >= t
          PROVE  Back(t)'
      <4>1. j \in Nat /\ j >= 1
            BY <1>2, <3>5 DEF Carries
      <4>2. CASE j > 1
        <5>1. /\ j - d \in DOMAIN queue' /\ IsStatus(j - d)' /\ queue'[j-d] = queue[j]
              BY <1>3, <3>5, <4>2
        <5>2. k - d \in DOMAIN queue' /\ IsStatus(k - d)' /\ queue'[k-d] = queue[k]
          <6>1. k > 1
                BY <3>2, <3>5, <4>1, <4>2
          <6> QED BY <1>3, <3>1, <6>1
        <5>3. j - d < k - d
              BY <1>2, <3>2, <3>5, <4>1
        <5> QED BY <3>1, <3>5, <5>1, <5>2, <5>3 DEF Back, IsStatus, Connected
      <4>3. CASE j = 1
        <5>1. m.at >= link.epoch
              BY <1>1, <1>5, <1>7, <3>5, <4>3
        <5>2. Connected' /\ state'.connector.value = "available"
              BY <3>5, <4>3, <5>1, StatusShown
        <5>3. ASSUME NEW i \in DOMAIN queue, 1 < i, IsStatus(i)
              PROVE  queue[i].at >= t
          <6>1. m.at <= queue[i].at
                BY <1>1, <5>3 DEF Statuses
          <6>2. queue[i].at \in Nat
                BY <5>3, StatusForm
          <6> QED BY <1>1, <1>7, <3>5, <4>3, <6>1, <6>2
        <5> QED BY <3>3, <3>5, <4>3, <5>2, <5>3
      <4> QED BY <4>1, <4>2, <4>3
    <3>6. ASSUME Connected, state.connector.value = "available",
                 \A i \in DOMAIN queue : i < k /\ IsStatus(i) => queue[i].at >= t
          PROVE  Back(t)'
      <4>1. CASE k = 1
            BY <3>1, <3>4, <3>6, <4>1
      <4>2. CASE k > 1
        <5>1. m.at >= t
              BY <1>1, <3>6, <4>2
        <5>2. CASE m.value = "occupied"
              BY <3>4, <3>6, <5>1, <5>2
        <5>3. CASE m.value = "available"
          <6>1. Connected' /\ state'.connector.value = "available"
                BY <3>6, <5>3, StatusShown
          <6> QED BY <3>3, <3>6, <4>2, <6>1
        <5> QED BY <1>1, <5>2, <5>3
      <4> QED BY <3>2, <4>1, <4>2
    <3> QED BY <3>1, <3>5, <3>6
  <2> QED BY <2>1, <2>2
<1> QED BY <1>6, <1>8, <1>9

LEMMA SeenSince ==
  ASSUME IdleSaid, NEW t \in Time, Seen(t)
  PROVE  Since(t)
BY DEF IdleSaid, Seen, Idles, Happened, Kinds

LEMMA StationArrives ==
  ASSUME InOrder, Statuses, Placed(state.connector), Behind, Plugs, IdleSaid, Arrived, StationEffect
  PROVE  Arrived'
<1>1. PICK x \in Report, s \in Truth : Grows(x) /\ Happens(x, s) /\ s = truth'
      BY DEF StationEffect
<1>2. UNCHANGED <<link, state>> /\ Now = truth.now + 1 /\ truth.now \in Nat
      BY DEF StationEffect
<1> SUFFICES ASSUME link.up, ~BootWaits', NEW t \in Time, Seen(t)'
             PROVE  /\ s.plug = "available" => Gone'
                    /\ s.plug = "occupied" /\ t < s.plugged => Back(t)'
    BY <1>1, <1>2 DEF Arrived
<1>3. PICK m \in Nat : /\ DOMAIN queue = 1..m /\ DOMAIN queue' = 1..m+1
                       /\ queue'[m+1] = x /\ \A i \in 1..m : queue'[i] = queue[i]
      BY <1>1 DEF Grows, Appended
<1>4. /\ ~BootWaits /\ x.kind # "boot"
  <2>1. \A k \in DOMAIN queue : k \in DOMAIN queue' /\ queue'[k] = queue[k]
        BY <1>3
  <2>2. m + 1 \in DOMAIN queue'
        BY <1>3
  <2> QED BY <1>3, <2>1, <2>2 DEF BootWaits
<1>5. /\ link.epoch \in Nat /\ link.epoch <= truth.now /\ t \in Nat
      /\ truth.plugged \in Nat /\ truth.plugged <= truth.now
      BY ClocksTypes DEF InOrder, Metering, Clocks
<1>6. Seen(t) \/ (Ending(x, s) /\ t = Now)
  <2>1. CASE /\ state.charging # None /\ state.charging.gen = link.gen
             /\ state.charging.value = "idle" /\ state.charging.at = t
        BY <2>1 DEF Seen
  <2>2. CASE t >= link.epoch /\ \E k \in DOMAIN queue' : Idles(k, t)'
    <3>1. PICK k \in DOMAIN queue' : Idles(k, t)'
          BY <2>2
    <3>2. CASE k \in 1..m
          BY <1>3, <2>2, <3>1, <3>2 DEF Seen, Idles
    <3>3. CASE queue'[k] = x
      <4>1. x.kind = "Ended" /\ x.at = t
            BY <3>1, <3>3 DEF Idles
      <4>2. Ending(x, s)
            BY <1>1, <4>1 DEF Happens, Plugging, Starting, Updating, Measuring, Booting, StatusReport, MeterReport
      <4> QED BY <4>1, <4>2 DEF Ending
    <3> QED BY <1>3, <3>2, <3>3
  <2> QED BY <1>2, <2>1, <2>2 DEF Seen
<1>7. Seen(t) => Since(t) /\ (truth.plug = "available" => Gone)
                 /\ (truth.plug = "occupied" /\ t < truth.plugged => Back(t))
      BY <1>4, SeenSince DEF Arrived
<1>8. ASSUME NEW k \in DOMAIN queue
      PROVE  k \in DOMAIN queue' /\ queue'[k] = queue[k] /\ k \in Nat /\ k < m + 1
      BY <1>3
<1>9. Connected' <=> Connected
      BY <1>2 DEF Connected
<1>10. Gone => Gone'
      BY <1>2, <1>8, <1>9 DEF Gone, IsStatus
<1>11. ASSUME Back(t)
       PROVE  Back(t)'
  <2>1. CASE state.barrier # None /\ state.barrier >= t
        BY <1>2, <2>1 DEF Back
  <2>2. CASE ~(state.barrier # None /\ state.barrier >= t)
    <3>1. PICK k \in DOMAIN queue : /\ IsStatus(k) /\ queue[k].value = "occupied" /\ queue[k].at >= t
       /\ \/ \E j \in DOMAIN queue : /\ j < k /\ IsStatus(j) /\ queue[j].value = "available"
                                     /\ queue[j].at >= t
          \/ /\ Connected /\ state.connector.value = "available"
             /\ \A i \in DOMAIN queue : i < k /\ IsStatus(i) => queue[i].at >= t
          BY <1>11, <2>2 DEF Back
    <3>2. k \in DOMAIN queue' /\ queue'[k] = queue[k] /\ k \in 1..m
          BY <1>3, <3>1
    <3>3. ASSUME NEW i \in DOMAIN queue', i < k
          PROVE  i \in DOMAIN queue /\ queue'[i] = queue[i]
          BY <1>3, <3>2, <3>3
    <3>4. CASE \E j \in DOMAIN queue : /\ j < k /\ IsStatus(j) /\ queue[j].value = "available"
                                       /\ queue[j].at >= t
      <4>1. PICK j \in DOMAIN queue : /\ j < k /\ IsStatus(j) /\ queue[j].value = "available"
                                       /\ queue[j].at >= t
            BY <3>4
      <4> QED BY <1>8, <3>1, <3>2, <4>1 DEF Back, IsStatus
    <3>5. CASE /\ Connected /\ state.connector.value = "available"
               /\ \A i \in DOMAIN queue : i < k /\ IsStatus(i) => queue[i].at >= t
          BY <1>2, <1>9, <3>1, <3>2, <3>3, <3>5 DEF Back, IsStatus
    <3> QED BY <3>1, <3>4, <3>5
  <2> QED BY <2>1, <2>2
<1>12. CASE Plugging(x, s)
  <2>1. /\ IsStatus(m+1)' /\ m + 1 \in DOMAIN queue' /\ queue'[m+1].at = truth.now + 1
        /\ queue'[m+1].value = s.plug /\ s.plugged = truth.now + 1 /\ truth.plug # s.plug
        BY <1>2, <1>3, <1>12 DEF Plugging, IsStatus, StatusReport
  <2>2. s.plug = "available" => Gone'
    <3>1. queue'[m+1].at >= link'.epoch
          BY <1>2, <1>5, <2>1
    <3> QED BY <2>1, <3>1 DEF Gone, IsStatus
  <2>3. ASSUME s.plug = "occupied"
        PROVE  Back(t)'
    <3>1. Seen(t)
          BY <1>6, <1>12 DEF Plugging, Ending, StatusReport
    <3>2. truth.plug = "available" /\ Gone /\ truth.plugged > t /\ t <= truth.now
      <4>1. truth.plug = "available"
            BY <2>1, <2>3, ClocksTypes DEF InOrder, Metering
      <4> QED BY <1>7, <3>1, <4>1 DEF Since
    <3>3. ASSUME NEW i \in DOMAIN queue, IsStatus(i), queue[i].at >= link.epoch
          PROVE  Back(t)'
      <4>1. PICK l \in DOMAIN queue : Last(l)
            BY <3>3 DEF Statuses
      <4>2. queue[l].at >= link.epoch /\ IsStatus(l) /\ queue[l].at \in Nat
        <5>1. IsStatus(l) /\ queue[l].at \in Nat /\ queue[i].at \in Nat
              BY <3>3, <4>1, StatusForm DEF Last
        <5>2. i <= l
              BY <1>3, <3>3, <4>1 DEF Last
        <5>3. queue[i].at <= queue[l].at
          <6>1. CASE i < l
                BY <3>3, <4>1, <5>1, <6>1 DEF Statuses
          <6>2. CASE i = l
                BY <5>1, <6>2
          <6> QED BY <1>3, <5>2, <6>1, <6>2
        <5> QED BY <1>5, <3>3, <5>1, <5>3
      <4>3. queue[l].value = "available" /\ queue[l].at >= truth.plugged
            BY <1>4, <3>2, <4>1, <4>2 DEF Plugs
      <4>4. queue[l].at >= t /\ truth.now + 1 >= t
            BY <1>2, <1>5, <3>2, <4>2, <4>3
      <4>5. l < m + 1 /\ l \in DOMAIN queue' /\ queue'[l] = queue[l]
            BY <1>8
      <4> QED BY <2>1, <2>3, <4>2, <4>3, <4>4, <4>5 DEF Back, IsStatus
    <3>4. CASE \E i \in DOMAIN queue : IsStatus(i) /\ queue[i].at >= link.epoch
          BY <3>3, <3>4
    <3>5. CASE ~\E i \in DOMAIN queue : IsStatus(i) /\ queue[i].at >= link.epoch
      <4>1. Connected /\ state.connector.value = "available"
            BY <3>2, <3>5 DEF Gone
      <4>2. \A i \in DOMAIN queue : ~IsStatus(i)
        <5> SUFFICES ASSUME NEW i \in DOMAIN queue, IsStatus(i)
                     PROVE  queue[i].at >= link.epoch
            BY <3>5
        <5>1. queue[i].at >= state.connector.at /\ state.connector.at >= link.epoch
              BY <4>1 DEF Behind, Placed, Connected
        <5>2. queue[i].at \in Nat /\ state.connector.at \in Nat
          <6>1. state.connector.at \in Nat
                BY <4>1, Typing DEF InOrder, Metering, State, Maybe, Observation, Time, Connected
          <6> QED BY <6>1, StatusForm
        <5> QED BY <1>5, <5>1, <5>2
      <4>3. \A i \in DOMAIN queue' : i < m + 1 => ~IsStatus(i)'
            BY <1>3, <4>2 DEF IsStatus
      <4>4. truth.now + 1 >= t
            BY <1>2, <1>5, <3>2
      <4> QED BY <1>2, <1>9, <2>1, <2>3, <4>1, <4>3, <4>4 DEF Back, IsStatus
    <3> QED BY <3>4, <3>5
  <2> QED BY <2>2, <2>3
<1>13. CASE ~Plugging(x, s)
  <2>1. s.plug = truth.plug /\ s.plugged = truth.plugged
        BY <1>1, <1>4, <1>13 DEF Happens, Starting, Updating, Ending, Measuring, Booting, Stays
  <2>2. CASE Seen(t)
        BY <1>7, <1>10, <1>11, <2>1, <2>2
  <2>3. CASE Ending(x, s) /\ t = Now
    <3>1. truth.plug = "occupied" /\ ~(t < truth.plugged)
          BY <1>2, <1>5, <2>3 DEF Ending, InOrder, Clocks
    <3> QED BY <2>1, <3>1
  <2> QED BY <1>6, <2>2, <2>3
<1> QED BY <1>12, <1>13

(* After a reset only the idleness of this moment counts. *)
LEMMA ResetArrives ==
  ASSUME InOrder, Placed(state.charging), IdleSaid, BootEffect \/ ConnectEffect
  PROVE  Arrived'
<1>1. /\ UNCHANGED truth /\ link'.epoch = truth.now /\ state'.charging = state.charging
      /\ (link'.gen = <<link.gen[1], link.gen[2] + 1>> \/ link'.gen = <<link.gen[1] + 1, 0>>)
      BY DEF BootEffect, ConnectEffect, SameState
<1> SUFFICES ASSUME NEW t \in Time, Seen(t)'
             PROVE  truth.plug = "occupied" /\ ~(t < truth.plugged)
    BY <1>1, NoneAssumption DEF Arrived
<1>2. ~(state.charging # None /\ state.charging.gen = link'.gen)
  <2>1. link.gen \in Generation
        BY Typing DEF InOrder, Metering, Link
  <2>2. ~GenLe(link'.gen, link.gen)
        BY <1>1, <2>1 DEF GenLe, Generation
  <2> QED BY <2>2 DEF Placed, GenLe
<1>3. t >= truth.now /\ \E k \in DOMAIN queue' : Idles(k, t)'
      BY <1>1, <1>2 DEF Seen
<1>4. PICK k \in DOMAIN queue' : Idles(k, t)'
      BY <1>3
<1>5. PICK j \in DOMAIN queue : queue'[k] = queue[j]
  <2>1. Happened(queue'[k])
        BY <1>4 DEF Idles, Happened, Kinds
  <2>2. CASE BootEffect
    <3>1. PICK m \in Nat, x \in StatusReport :
            /\ DOMAIN queue = 1..m+1 /\ DOMAIN queue' = 1..m+1
            /\ \A i \in 1..m : queue'[i] = queue[i+1]
            /\ queue'[m+1] = x
          BY <2>2 DEF BootEffect
    <3>2. k # m + 1
          BY <2>1, <3>1 DEF Happened, Kinds, StatusReport
    <3>3. k + 1 \in DOMAIN queue /\ queue'[k] = queue[k+1]
          BY <3>1, <3>2, <1>4
    <3> QED BY <3>3
  <2>3. CASE ConnectEffect
        BY <2>1, <2>3 DEF ConnectEffect, Happened, Kinds
  <2> QED BY <2>2, <2>3
<1>6. Since(t)
      BY <1>4, <1>5 DEF IdleSaid, Idles, Happened, Kinds
<1>7. truth.plugged \in Nat /\ truth.now \in Nat /\ t \in Nat /\ truth.plugged <= truth.now
      /\ truth.plug \in {"available", "occupied"}
      BY ClocksTypes DEF InOrder, Metering, Clocks
<1> QED BY <1>3, <1>6, <1>7 DEF Since

Idling == /\ Telling /\ Statuses /\ Placed(state.connector) /\ Placed(state.charging)
          /\ Behind /\ Plugs /\ IdleSaid /\ Announced /\ Arrived

LEMMA IdlingHolds == Spec => []Idling
<1>1. ASSUME Init, Telling
      PROVE  Idling
  <2>1. queue = <<>> /\ state.connector = None /\ state.charging = None /\ ~link.up
        BY <1>1 DEF Init, Blank, Offline
  <2> QED BY <1>1, <2>1 DEF Idling, Statuses, Placed, Behind, Connected, Plugs, IdleSaid, Announced, Arrived
<1>2. ASSUME Idling, Telling', [Next]_vars
      PROVE  Idling'
  <2>1. CASE Next
    <3>1. /\ Closed /\ InOrder /\ InOrder' /\ Telling /\ Statuses /\ Placed(state.connector)
          /\ Placed(state.charging) /\ Behind /\ Plugs /\ IdleSaid /\ Announced /\ Arrived
          BY <1>2 DEF Idling, Telling, Closed
    <3>2. Effects
          BY <2>1, <3>1, Steps DEF InOrder
    <3>3. /\ Statuses' /\ Behind' /\ Plugs' /\ IdleSaid' /\ Announced'
          /\ Placed(state.connector)' /\ Placed(state.charging)'
          BY <3>1, <3>2, StatusesStays, BehindStays, PlugsStays, IdleSaidStays, AnnouncedStays, PlacedStays
    <3>4. Arrived'
      <4>1. CASE SaveEffect
            BY <3>1, <4>1 DEF SaveEffect, Arrived, Seen, Idles, Gone, Back, Connected, IsStatus, BootWaits
      <4>2. CASE DisconnectEffect \/ RestartEffect
            BY <4>2 DEF DisconnectEffect, RestartEffect, Arrived
      <4>3. CASE StatusEffect
            BY <3>1, <3>3, <4>3, StatusArrives
      <4> QED BY <3>1, <3>2, <4>1, <4>2, <4>3, OthersArrive, StationArrives, ResetArrives DEF Effects
    <3> QED BY <1>2, <3>3, <3>4 DEF Idling
  <2>2. CASE UNCHANGED vars
        BY <1>2, <2>2 DEF vars, Idling, Statuses, Last, Placed, GenLe, Behind, Connected, Plugs, IdleSaid,
             Since, Announced, Arrived, Seen, Idles, Gone, Back, IsStatus, BootWaits, Happened
  <2> QED BY <1>2, <2>1, <2>2
<1> QED BY <1>1, <1>2, TellingHolds, PTL DEF Spec

(* When no report is on its way, charging is only shown as idle if the station  *)
(* has no transaction, and with a vehicle at the plug only by a report that is   *)
(* no older than the vehicle's arrival, whatever came late, twice or not at all  *)
(* (store.py authentic_idle, charging_value, invalidate_idle; ocpp.py).          *)
THEOREM IdleIsTrueHolds == Spec => []IdleIsTrue
<1>1. Idling => IdleIsTrue
  <2> SUFFICES ASSUME Idling, link.up, queue = <<>>, ChargingValue(state) = "idle"
               PROVE  /\ truth.active = None
                      /\ truth.plug = "occupied" => state.charging.at >= truth.plugged
      BY DEF IdleIsTrue
  <2>1. InOrder /\ Closed /\ ~BootWaits /\ DOMAIN queue = {}
        BY DEF Idling, Telling, Closed, BootWaits
  <2>2. None # "idle" /\ None # "available" /\ None # "occupied"
        BY NoneAssumption DEF Valued
  <2> DEFINE h == state.charging
             First == h # None /\ Live(h.gen) /\ (h.value = "idle" => AuthenticIdle(state))
  <2>3. CASE First
    <3>1. h # None /\ h.gen = link.gen /\ h.value = "idle" /\ AuthenticIdle(state)
          BY <2>2, <2>3 DEF ChargingValue, Value, Live
    <3>2. h.at \in Time /\ h.at \in Nat
          BY <2>1, <3>1, Typing DEF InOrder, Metering, State, Maybe, Observation, Time
    <3>3. PICK t \in Time : t = h.at
          BY <3>2
    <3>4. Seen(t) /\ Since(t) /\ t >= link.epoch
          BY <2>1, <3>1, <3>3 DEF Seen, Idling, IdleSaid, Placed
    <3>5. truth.active = None
      <4> SUFFICES ASSUME truth.active # None PROVE FALSE
          OBVIOUS
      <4>1. /\ truth.begun[truth.active] > t /\ truth.begun[truth.active] \in Nat
            /\ link.epoch \in Nat /\ t \in Nat
            BY <2>1, <3>4, ClocksTypes DEF Since, InOrder, Metering, Clocks, Maybe
      <4>2. truth.begun[truth.active] > link.epoch
            BY <3>4, <4>1
      <4>3. state.session # None /\ state.session.id = truth.active
            BY <2>1, <4>2 DEF Idling, Announced
      <4>4. state.session.ended # None
            BY <3>1, <4>3 DEF AuthenticIdle, Over
      <4> QED BY <2>1, <4>3, <4>4 DEF Closed, Book, Closes, Begun
    <3>6. truth.plug = "occupied" => t >= truth.plugged
      <4> SUFFICES ASSUME truth.plug = "occupied", ~(t >= truth.plugged) PROVE FALSE
          OBVIOUS
      <4>1. t < truth.plugged
            BY <2>1, <3>2, <3>3, ClocksTypes DEF InOrder, Metering
      <4>2. Back(t)
            BY <2>1, <3>4, <4>1 DEF Idling, Arrived
      <4>3. state.barrier # None /\ state.barrier >= t
            BY <2>1, <4>2 DEF Back
      <4>4. h.at > state.barrier /\ state.barrier \in Nat
            BY <2>1, <3>1, <4>3, Typing DEF AuthenticIdle, InOrder, Metering, State, Maybe, Time
      <4> QED BY <3>2, <3>3, <4>3, <4>4
    <3> QED BY <3>3, <3>5, <3>6
  <2>4. CASE ~First
    <3>1. Value(state.connector) = "available"
          BY <2>2, <2>4 DEF ChargingValue
    <3>2. Connected /\ state.connector.value = "available"
          BY <2>2, <3>1 DEF Value, Live, Connected
    <3>3. truth.plug = "available"
          BY <2>1, <3>2 DEF Idling, Plugs
    <3> QED BY <2>1, <3>3 DEF InOrder, Clocks
  <2> QED BY <2>3, <2>4
<1> QED BY <1>1, IdlingHolds, PTL
=============================================================================
