------------------------ MODULE ControlCommandProofs ------------------------
(***************************************************************************)
(* Theorems about ControlCommand, for all stations, bounds and features:   *)
(* the state stays well typed, no write goes out for a command that is no  *)
(* longer wanted or a variable that is not known to be writable, a command *)
(* is shown as confirmed only if the station had its value, what is held   *)
(* when all messages are through is what the station has, and no write     *)
(* that is still to be carried out contradicts what is confirmed.          *)
(***************************************************************************)
EXTENDS ControlCommand, FiniteSetTheorems, TLAPS

-----------------------------------------------------------------------------
(* Sequences and fresh numbers *)

LEMMA TailElements ==
  ASSUME NEW S, NEW s \in Seq(S), s # <<>>
  PROVE  /\ Tail(s) \in Seq(S) /\ Head(s) \in S
         /\ 1 \in DOMAIN s /\ Head(s) = s[1]
         /\ \A k \in DOMAIN Tail(s) : /\ k \in Nat \ {0} /\ k + 1 \in DOMAIN s
                                      /\ Tail(s)[k] = s[k + 1]
OBVIOUS

LEMMA AppendElements ==
  ASSUME NEW S, NEW s \in Seq(S), NEW e \in S
  PROVE  /\ Append(s, e) \in Seq(S)
         /\ \A k \in DOMAIN Append(s, e) :
              \/ k \in DOMAIN s /\ Append(s, e)[k] = s[k]
              \/ k \notin DOMAIN s /\ k = Len(s) + 1 /\ Append(s, e)[k] = e
OBVIOUS

LEMMA AppendPlaces ==
  ASSUME NEW S, NEW s \in Seq(S), NEW e \in S
  PROVE  /\ Len(s) \in Nat /\ Len(Append(s, e)) = Len(s) + 1
         /\ Len(s) + 1 \in DOMAIN Append(s, e) /\ Append(s, e)[Len(s) + 1] = e
         /\ \A k \in DOMAIN s : /\ k \in DOMAIN Append(s, e) /\ Append(s, e)[k] = s[k]
                               /\ k \in Nat /\ k < Len(s) + 1
         /\ \A k \in DOMAIN Append(s, e) : k \in DOMAIN s \/ k = Len(s) + 1
<1>1. /\ Len(s) \in Nat /\ Len(Append(s, e)) = Len(s) + 1
      /\ DOMAIN s = 1..Len(s) /\ DOMAIN Append(s, e) = 1..(Len(s) + 1)
      OBVIOUS
<1>2. Append(s, e)[Len(s) + 1] = e
      OBVIOUS
<1>3. \A k \in 1..Len(s) : Append(s, e)[k] = s[k]
      OBVIOUS
<1>4. \A k \in 1..Len(s) : k \in 1..(Len(s) + 1) /\ k \in Nat /\ k < Len(s) + 1
      BY <1>1
<1>5. Len(s) + 1 \in 1..(Len(s) + 1)
      BY <1>1
<1>6. \A k \in 1..(Len(s) + 1) : k \in 1..Len(s) \/ k = Len(s) + 1
      BY <1>1
<1> QED BY <1>1, <1>2, <1>3, <1>4, <1>5, <1>6

LEMMA SequenceOf ==
  ASSUME NEW S, NEW m \in Nat, NEW s, s = [k \in 1..m |-> s[k]], \A k \in 1..m : s[k] \in S
  PROVE  s \in Seq(S)
OBVIOUS

(* Least finds a positive number that is not taken. *)
LEMMA LeastIsFree ==
  ASSUME NEW taken, IsFiniteSet(taken)
  PROVE  Least(taken) \in Nat \ {0} /\ Least(taken) \notin taken
<1> DEFINE c == Cardinality(taken)
<1>1. c \in Nat
      BY FS_CardinalityType
<1>2. ~(1..(c + 1) \subseteq taken)
  <2> SUFFICES ASSUME 1..(c + 1) \subseteq taken PROVE FALSE
      OBVIOUS
  <2>1. Cardinality(1..(c + 1)) = c + 1
        BY <1>1, FS_Interval
  <2>2. Cardinality(1..(c + 1)) <= c
        BY FS_Subset
  <2> QED BY <1>1, <2>1, <2>2
<1>3. \E i \in 1..(c + 1) : i \notin taken
      BY <1>2
<1>4. Least(taken) \in 1..(c + 1) /\ Least(taken) \notin taken
      BY <1>3 DEF Least
<1> QED BY <1>1, <1>4

(* What a function reaches from a finite set is finite. *)
LEMMA ImageIsFinite ==
  ASSUME NEW S, IsFiniteSet(S), NEW f
  PROVE  IsFiniteSet({f[x] : x \in S})
<1> DEFINE T == {f[x] : x \in S}
           g == [x \in S |-> f[x]]
<1>1. g \in Surjection(S, T)
      BY DEF Surjection
<1> QED BY <1>1, FS_Surjection

LEMMA FreshAreFree ==
  ASSUME TypeOK
  PROVE  /\ FreshId \in Nat \ {0}
         /\ \A n \in ROLES : intents[n] # None => intents[n].id # FreshId
         /\ \A k \in DOMAIN calls : calls[k].id # FreshId
         /\ FreshCall \in Nat \ {0}
         /\ \A k \in DOMAIN calls : calls[k].cid # FreshCall
         /\ \A k \in DOMAIN inbox : inbox[k].cid # FreshCall
         /\ \A k \in DOMAIN answers : answers[k].cid # FreshCall
         /\ \A k \in DOMAIN notices : notices[k].cid # FreshCall
         /\ boots.request # FreshCall
<1>1. /\ IsFiniteSet(DOMAIN calls) /\ IsFiniteSet(DOMAIN inbox)
      /\ IsFiniteSet(DOMAIN answers) /\ IsFiniteSet(DOMAIN notices)
  <2>1. ASSUME NEW S, NEW s \in Seq(S) PROVE IsFiniteSet(DOMAIN s)
    <3>1. DOMAIN s = 1..Len(s) /\ Len(s) \in Int
          OBVIOUS
    <3> QED BY <3>1, FS_Interval
  <2> QED BY <2>1 DEF TypeOK
<1> DEFINE open == {m \in ROLES : intents[m] # None}
<1>2. IsFiniteSet(open)
  <2>1. IsFiniteSet(ROLES)
    <3>1. IsFiniteSet({"ControlAuthority"}) /\ IsFiniteSet({"ChargingEnabled"})
          BY FS_Singleton
    <3>2. ROLES = {"ControlAuthority"} \cup {"ChargingEnabled"}
          BY DEF ROLES
    <3> QED BY <3>1, <3>2, FS_Union
  <2> QED BY <2>1, FS_Subset
<1> DEFINE ids == {intents[n].id : n \in open} \cup {calls[k].id : k \in DOMAIN calls}
<1>3. IsFiniteSet(ids)
  <2> DEFINE f == [n \in open |-> intents[n].id]
             g == [k \in DOMAIN calls |-> calls[k].id]
  <2>1. ids = {f[n] : n \in open} \cup {g[k] : k \in DOMAIN calls}
        OBVIOUS
  <2> HIDE DEF f, g, ids, open
  <2>2. IsFiniteSet({f[n] : n \in open}) /\ IsFiniteSet({g[k] : k \in DOMAIN calls})
        BY <1>1, <1>2, ImageIsFinite
  <2> QED BY <2>1, <2>2, FS_Union
<1> DEFINE cids == {calls[k].cid : k \in DOMAIN calls} \cup {inbox[k].cid : k \in DOMAIN inbox}
                     \cup {answers[k].cid : k \in DOMAIN answers}
                     \cup {notices[k].cid : k \in DOMAIN notices} \cup {boots.request}
<1>4. IsFiniteSet(cids)
  <2> DEFINE f == [k \in DOMAIN calls |-> calls[k].cid]
             g == [k \in DOMAIN inbox |-> inbox[k].cid]
             h == [k \in DOMAIN answers |-> answers[k].cid]
             i == [k \in DOMAIN notices |-> notices[k].cid]
  <2>1. cids = {f[k] : k \in DOMAIN calls} \cup {g[k] : k \in DOMAIN inbox}
                 \cup {h[k] : k \in DOMAIN answers} \cup {i[k] : k \in DOMAIN notices}
                 \cup {boots.request}
        OBVIOUS
  <2> HIDE DEF f, g, h, i, cids
  <2>2. /\ IsFiniteSet({f[k] : k \in DOMAIN calls}) /\ IsFiniteSet({g[k] : k \in DOMAIN inbox})
        /\ IsFiniteSet({h[k] : k \in DOMAIN answers})
        /\ IsFiniteSet({i[k] : k \in DOMAIN notices}) /\ IsFiniteSet({boots.request})
    <3>1. IsFiniteSet({f[k] : k \in DOMAIN calls})
          BY <1>1, ImageIsFinite
    <3>2. IsFiniteSet({g[k] : k \in DOMAIN inbox})
          BY <1>1, ImageIsFinite
    <3>3. IsFiniteSet({h[k] : k \in DOMAIN answers})
          BY <1>1, ImageIsFinite
    <3>4. IsFiniteSet({i[k] : k \in DOMAIN notices})
          BY <1>1, ImageIsFinite
    <3> QED BY <3>1, <3>2, <3>3, <3>4, FS_Singleton
  <2> QED BY <2>1, <2>2, FS_Union
<1>5. FreshId \in Nat \ {0} /\ FreshId \notin ids
  <2>1. FreshId = Least(ids)
        BY DEF FreshId
  <2> HIDE DEF ids
  <2> QED BY <1>3, <2>1, LeastIsFree
<1>6. FreshCall \in Nat \ {0} /\ FreshCall \notin cids
  <2>1. FreshCall = Least(cids)
        BY DEF FreshCall
  <2> HIDE DEF cids
  <2> QED BY <1>4, <2>1, LeastIsFree
<1> QED BY <1>5, <1>6

-----------------------------------------------------------------------------
(* Types of the parts *)

Intents == [ROLES -> Intent \cup {None}]
Observations == [ROLES -> Observation \cup {None}]

(* Events carry values, reports their outcome. *)
Meant ==
  \A k \in DOMAIN notices :
    /\ notices[k].kind = "event" => notices[k].value \in Value
    /\ notices[k].kind = "report" => notices[k].value \in {"ok", "broken"}
Typed == TypeOK /\ Meant

LEMMA IntentUpdates ==
  ASSUME NEW i \in Intent
  PROVE  /\ \A s \in Status : [i EXCEPT !.status = s] \in Intent
         /\ \A t \in Time : [i EXCEPT !.dispatched = t] \in Intent
BY DEF Intent

LEMMA CallUpdates ==
  ASSUME NEW c \in Call
  PROVE  /\ [c EXCEPT !.sent = TRUE] \in Call
         /\ \A b \in BOOLEAN : [c EXCEPT !.heard = b] \in Call
BY DEF Call

(* Only the intent of the call is restated, and only if it is still the newest. *)
LEMMA UpdatedIntents ==
  ASSUME intents \in Intents, NEW c \in Call, NEW s \in Status
  PROVE  /\ Updated(c, s) \in Intents
         /\ \A n \in ROLES :
              \/ Updated(c, s)[n] = intents[n]
              \/ n = c.name /\ Current(c) /\ Updated(c, s)[n] = [intents[n] EXCEPT !.status = s]
<1>1. CASE Current(c)
  <2>1. intents[c.name] \in Intent /\ c.name \in ROLES
        BY <1>1 DEF Current, Intents, Call
  <2>2. [intents[c.name] EXCEPT !.status = s] \in Intent
        BY <2>1, IntentUpdates
  <2>3. Updated(c, s) = [intents EXCEPT ![c.name] = [intents[c.name] EXCEPT !.status = s]]
        BY <1>1 DEF Updated
  <2> QED BY <1>1, <2>1, <2>2, <2>3 DEF Intents
<1>2. CASE ~Current(c)
      BY <1>2 DEF Updated
<1> QED BY <1>1, <1>2

LEMMA InvalidatedIntents ==
  ASSUME intents \in Intents
  PROVE  /\ Invalidated \in Intents
         /\ \A n \in ROLES :
              \/ Invalidated[n] = intents[n]
              \/ /\ intents[n] # None /\ intents[n] \in Intent
                 /\ Invalidated[n] = [intents[n] EXCEPT !.status = "superseded"]
<1>1. ASSUME NEW n \in ROLES
      PROVE  /\ Invalidated[n] \in Intent \cup {None}
             /\ \/ Invalidated[n] = intents[n]
                \/ /\ intents[n] # None /\ intents[n] \in Intent
                   /\ Invalidated[n] = [intents[n] EXCEPT !.status = "superseded"]
  <2>1. CASE intents[n] # None /\ intents[n].status \in Open
    <3>1. intents[n] \in Intent /\ "superseded" \in Status
          BY <2>1 DEF Intents, Status
    <3>2. [intents[n] EXCEPT !.status = "superseded"] \in Intent
          BY <3>1, IntentUpdates
    <3> QED BY <2>1, <3>1, <3>2 DEF Invalidated
  <2>2. CASE ~(intents[n] # None /\ intents[n].status \in Open)
        BY <2>2 DEF Invalidated, Intents
  <2> QED BY <2>1, <2>2
<1> QED BY <1>1 DEF Intents, Invalidated

(* What settles an intent. *)
LEMMA SettledIntents ==
  ASSUME NEW ints \in Intents, NEW o \in Observations, NEW n \in ROLES
  PROVE  /\ Settled(ints, o, n) \in Intents
         /\ \A m \in ROLES :
              \/ Settled(ints, o, n)[m] = ints[m]
              \/ /\ m = n /\ ints[n] # None /\ ints[n] \in Intent
                 /\ ints[n].status = "accepted_unconfirmed"
                 /\ o[n] # None /\ o[n] \in Observation /\ ints[n].dispatched # None
                 /\ o[n].at >= ints[n].dispatched /\ o[n].value = ints[n].value
                 /\ Settled(ints, o, n)[n] = [ints[n] EXCEPT !.status = "confirmed"]
<1> DEFINE i == ints[n]
           Settles == i # None /\ i.status = "accepted_unconfirmed" /\ Valid(i, n)
                        /\ o[n] # None /\ o[n].gen = i.gen /\ i.dispatched # None
                        /\ o[n].at >= i.dispatched /\ Held(o, n) = i.value
<1>1. CASE Settles
  <2>1. i \in Intent /\ o[n] \in Observation /\ "confirmed" \in Status
        BY <1>1 DEF Intents, Observations, Status
  <2>2. [i EXCEPT !.status = "confirmed"] \in Intent
        BY <2>1, IntentUpdates
  <2>3. Settled(ints, o, n) = [ints EXCEPT ![n] = [i EXCEPT !.status = "confirmed"]]
        BY <1>1 DEF Settled
  <2>4. o[n].value = i.value
        BY <1>1, <2>1 DEF Held, Intent, Value
  <2> QED BY <1>1, <2>1, <2>2, <2>3, <2>4 DEF Intents
<1>2. CASE ~Settles
  <2>1. Settled(ints, o, n) = ints
        BY <1>2 DEF Settled
  <2> QED BY <2>1
<1> QED BY <1>1, <1>2

(* An observation is held as it came, or its conflict as nothing known. *)
LEMMA ObservedValues ==
  ASSUME obs \in Observations, link.gen \in Nat,
         NEW n \in ROLES, NEW v \in Reported, NEW at \in Time
  PROVE  /\ Observed(n, v, at) \in Observations
         /\ \A m \in ROLES :
              \/ Observed(n, v, at)[m] = obs[m]
              \/ /\ m = n /\ Observed(n, v, at)[n] \in Observation
                 /\ Observed(n, v, at)[n].at = at /\ Observed(n, v, at)[n].value \in {v, "unknown"}
<1>1. CASE Accepts(n, v, at)
  <2>1. /\ Observation_(n, v, at) \in Observation /\ Observation_(n, v, at).at = at
        /\ Observation_(n, v, at).value \in {v, "unknown"}
        BY DEF Observation_, Observation, Reported
  <2>2. Observed(n, v, at) = [obs EXCEPT ![n] = Observation_(n, v, at)]
        BY <1>1 DEF Observed
  <2> HIDE DEF Observation_
  <2> QED BY <2>1, <2>2 DEF Observations
<1>2. CASE ~Accepts(n, v, at)
      BY <1>2 DEF Observed
<1> QED BY <1>1, <1>2

-----------------------------------------------------------------------------
(* What a step does to the calls and to the intents *)

Tag(c) == <<c.kind, c.name, c.id, c.cid, c.at, c.gen>>
(* The first calls leave, the others stay, at most one joins the queue. *)
Moved(first, c) ==
  \A k \in DOMAIN calls' :
    \/ /\ k + first \in DOMAIN calls
       /\ Tag(calls'[k]) = Tag(calls[k + first])
       /\ calls[k + first].sent => calls'[k].sent
       /\ calls'[k].heard => calls[k + first].heard
    \/ k + first = Len(calls) + 1 /\ calls'[k] = c

(* Intents keep all but their status: it is superseded, decided from an        *)
(* acknowledgement, or that of a write which leaves; what is confirmed was     *)
(* observed.                                                                   *)
Restated(first) ==
  \A n \in ROLES :
    \/ intents'[n] = intents[n]
    \/ /\ intents[n] # None /\ intents[n] \in Intent /\ intents'[n] \in Intent
       /\ intents'[n].value = intents[n].value /\ intents'[n].gen = intents[n].gen
       /\ intents'[n].id = intents[n].id /\ intents'[n].dispatched = intents[n].dispatched
       /\ \/ intents'[n].status = "superseded"
          \/ intents[n].status = "accepted_unconfirmed"
          \/ first = 1 /\ calls # <<>> /\ Top.kind = "write" /\ Top.name = n /\ Top.id = intents[n].id
       /\ intents'[n].status = "confirmed" =>
            /\ intents[n].dispatched # None
            /\ obs'[n] # None /\ obs'[n] \in Observation
            /\ obs'[n].at >= intents[n].dispatched /\ obs'[n].value = intents[n].value

QueuedCall(kind, n, id) ==
  [kind |-> kind, name |-> n, id |-> id, cid |-> FreshCall, gen |-> link.gen,
   at |-> now, sent |-> FALSE, heard |-> TRUE]

LEMMA QueuedCalls ==
  ASSUME TypeOK, NEW kind \in {"write", "confirm", "report", "init", "poll"},
         NEW n \in ROLES, NEW id \in Nat
  PROVE  /\ QueuedCall(kind, n, id) \in Call
         /\ Queued(kind, n, id) = Append(calls, QueuedCall(kind, n, id))
         /\ Queued(kind, n, id) \in Seq(Call) /\ Queued(kind, n, id) # <<>>
<1>1. QueuedCall(kind, n, id) \in Call
  <2>1. FreshCall \in Nat /\ link.gen \in Nat /\ now \in Nat
        BY FreshAreFree DEF TypeOK, Time
  <2> QED BY <2>1 DEF QueuedCall, Call, Time
<1>2. Queued(kind, n, id) = Append(calls, QueuedCall(kind, n, id)) /\ calls \in Seq(Call)
      BY DEF Queued, QueuedCall, TypeOK
<1> QED BY <1>1, <1>2, AppendElements

(* There are calls that could join the queue. *)
LEMMA NewCall ==
  ASSUME Typed
  PROVE  \E c \in Call : /\ c.kind = "confirm" /\ c.cid = FreshCall /\ c.at = now
                         /\ c.gen = link.gen /\ ~c.sent
<1> DEFINE c == QueuedCall("confirm", "ControlAuthority", 0)
<1>1. c \in Call
      BY QueuedCalls DEF Typed, ROLES
<1>2. c.kind = "confirm" /\ c.cid = FreshCall /\ c.at = now /\ c.gen = link.gen /\ ~c.sent
      BY DEF QueuedCall
<1> HIDE DEF c
<1> QED BY <1>1, <1>2

(* A call joins the queue, or joins it when the first one has left. *)
LEMMA JoiningMoves ==
  ASSUME calls \in Seq(Call), NEW c \in Call
  PROVE  /\ calls' = Append(calls, c) => Moved(0, c)
         /\ calls # <<>> /\ calls' = Tail(Append(calls, c)) => Moved(1, c)
<1>1. ASSUME calls' = Append(calls, c) PROVE Moved(0, c)
  <2>1. \A k \in DOMAIN calls' :
          \/ k \in DOMAIN calls /\ calls'[k] = calls[k] /\ k + 0 = k
          \/ k = Len(calls) + 1 /\ calls'[k] = c /\ k + 0 = k
        BY <1>1
  <2> QED BY <2>1 DEF Moved
<1>2. ASSUME calls # <<>>, calls' = Tail(Append(calls, c)) PROVE Moved(1, c)
  <2>1. \A k \in DOMAIN calls' :
          \/ k + 1 \in DOMAIN calls /\ calls'[k] = calls[k + 1]
          \/ k + 1 = Len(calls) + 1 /\ calls'[k] = c
        BY <1>2
  <2> QED BY <2>1 DEF Moved
<1> QED BY <1>1, <1>2

LEMMA CallsMove ==
  ASSUME calls \in Seq(Call), NEW c
  PROVE  /\ calls' = calls => Moved(0, c)
         /\ calls' = <<>> => Moved(0, c)
         /\ calls # <<>> /\ calls' = Tail(calls) => calls' \in Seq(Call) /\ Moved(1, c)
<1>1. ASSUME calls' = calls PROVE Moved(0, c)
  <2>1. \A k \in DOMAIN calls : k + 0 = k
        OBVIOUS
  <2> QED BY <1>1, <2>1 DEF Moved
<1>2. ASSUME calls' = <<>> PROVE Moved(0, c)
      BY <1>2 DEF Moved
<1>3. ASSUME calls # <<>>, calls' = Tail(calls)
      PROVE  calls' \in Seq(Call) /\ Moved(1, c)
      BY <1>3, TailElements DEF Moved
<1> QED BY <1>1, <1>2, <1>3

LEMMA FirstSent ==
  ASSUME calls \in Seq(Call), calls # <<>>, calls' = [calls EXCEPT ![1].sent = TRUE], NEW c
  PROVE  /\ calls' \in Seq(Call) /\ DOMAIN calls' = DOMAIN calls /\ calls'[1].sent
         /\ \A k \in DOMAIN calls : Tag(calls'[k]) = Tag(calls[k])
         /\ Moved(0, c)
<1>1. 1 \in DOMAIN calls /\ calls[1] \in Call
      OBVIOUS
<1>2. calls' = [calls EXCEPT ![1] = [calls[1] EXCEPT !.sent = TRUE]]
      OBVIOUS
<1>3. [calls[1] EXCEPT !.sent = TRUE] \in Call
      BY <1>1, CallUpdates
<1>4. calls' \in Seq(Call) /\ DOMAIN calls' = DOMAIN calls
      BY <1>1, <1>2, <1>3
<1>5. calls'[1] = [calls[1] EXCEPT !.sent = TRUE] /\ \A k \in DOMAIN calls \ {1} : calls'[k] = calls[k]
      BY <1>1, <1>2
<1>6. calls'[1].sent /\ Tag(calls'[1]) = Tag(calls[1]) /\ calls'[1].heard = calls[1].heard
      BY <1>1, <1>5 DEF Call, Tag
<1>7. \A k \in DOMAIN calls : k + 0 = k /\ Tag(calls'[k]) = Tag(calls[k])
      BY <1>5, <1>6
<1> QED BY <1>4, <1>5, <1>6, <1>7 DEF Moved

LEMMA Unheard ==
  ASSUME calls \in Seq(Call), NEW c,
         calls' = [k \in DOMAIN calls |->
                     [calls[k] EXCEPT !.heard = @ /\ calls[k].kind \in {"write", "confirm"}]]
  PROVE  /\ calls' \in Seq(Call) /\ Moved(0, c)
         /\ \A k \in DOMAIN calls' : calls'[k].heard => calls'[k].kind \in {"write", "confirm"}
<1>1. ASSUME NEW k \in DOMAIN calls
      PROVE  /\ calls'[k] \in Call /\ Tag(calls'[k]) = Tag(calls[k])
             /\ calls[k].sent => calls'[k].sent
             /\ calls'[k].heard => calls[k].heard /\ calls'[k].kind \in {"write", "confirm"}
  <2>1. calls[k] \in Call
        OBVIOUS
  <2>2. calls'[k] = [calls[k] EXCEPT !.heard = calls[k].heard /\ calls[k].kind \in {"write", "confirm"}]
        OBVIOUS
  <2>3. (calls[k].heard /\ calls[k].kind \in {"write", "confirm"}) \in BOOLEAN
        OBVIOUS
  <2> QED BY <2>1, <2>2, <2>3, CallUpdates DEF Call, Tag
<1>2. DOMAIN calls' = DOMAIN calls /\ DOMAIN calls = 1..Len(calls) /\ Len(calls) \in Nat
      OBVIOUS
<1>3. calls' \in Seq(Call)
  <2>1. calls' = [k \in 1..Len(calls) |-> calls'[k]]
        BY <1>2
  <2> QED BY <1>1, <1>2, <2>1, SequenceOf
<1>4. \A k \in DOMAIN calls : k + 0 = k
      BY <1>2
<1>5. Moved(0, c)
      BY <1>1, <1>2, <1>4 DEF Moved
<1>6. \A k \in DOMAIN calls' : calls'[k].heard => calls'[k].kind \in {"write", "confirm"}
      BY <1>1, <1>2
<1> QED BY <1>3, <1>5, <1>6

-----------------------------------------------------------------------------
(* The steps, one by one: what they leave is well typed *)

LEMMA RequestSteps ==
  ASSUME Typed, NEW n \in ROLES, NEW v \in Value, Repeat(n, v) \/ Command(n, v)
  PROVE  Typed'
<1> USE DEF Typed
<1>1. CASE Repeat(n, v)
  <2>1. intents[n] \in Intent /\ intents[n].id \in Nat
        BY <1>1 DEF Repeat, TypeOK, Intent
  <2>2. Queued("confirm", n, intents[n].id) \in Seq(Call)
        BY <2>1, QueuedCalls
  <2>3. calls' \in Seq(Call)
        BY <1>1, <2>2 DEF Repeat, TypeOK
  <2>4. ops' \in 0..MaxOps
        BY <1>1, BoundsAssumption DEF Repeat, May, TypeOK
  <2> QED BY <1>1, <2>3, <2>4 DEF Repeat, TypeOK, Meant
<1>2. CASE Command(n, v)
  <2>1. FreshId \in Nat /\ link.gen \in Nat
        BY FreshAreFree DEF TypeOK
  <2>2. Queued("write", n, FreshId) \in Seq(Call)
        BY <2>1, QueuedCalls
  <2>3. calls' \in Seq(Call)
        BY <1>2, <2>2 DEF Command, TypeOK
  <2>4. ops' \in 0..MaxOps
        BY <1>2, BoundsAssumption DEF Command, May, TypeOK
  <2>5. \A s \in Status : [value |-> v, gen |-> link.gen, id |-> FreshId, status |-> s,
                           dispatched |-> None] \in Intent
        BY <2>1 DEF Intent
  <2>6. PICK s \in Status :
          intents' = [intents EXCEPT ![n] = [value |-> v, gen |-> link.gen, id |-> FreshId,
                                             status |-> s, dispatched |-> None]]
        BY <1>2 DEF Command, Status
  <2>7. intents' \in Intents
        BY <2>5, <2>6 DEF Intents, TypeOK
  <2> QED BY <1>2, <2>3, <2>4, <2>7 DEF Command, TypeOK, Meant, Intents
<1> QED BY <1>1, <1>2

LEMMA TopIsCall ==
  ASSUME TypeOK, calls # <<>>
  PROVE  Top \in Call /\ Top = calls[1] /\ 1 \in DOMAIN calls
BY DEF TypeOK, Top

LEMMA SendStep ==
  ASSUME Typed, Send, NEW c
  PROVE  /\ Typed' /\ Moved(0, c) /\ DOMAIN calls' = DOMAIN calls /\ calls'[1].sent
         /\ \E r \in Request :
              /\ r.cid = Top.cid /\ r.name = Top.name /\ inbox' = Append(inbox, r)
              /\ r.kind = "write" <=> Top.kind = "write"
              /\ Top.kind = "write" => r.value = intents[Top.name].value
         /\ Top.kind = "write" =>
              /\ now' = now + 1 /\ intents[Top.name] \in Intent /\ intents[Top.name] # None
              /\ intents' = [intents EXCEPT ![Top.name] = [intents[Top.name] EXCEPT !.dispatched = now + 1]]
              /\ [intents[Top.name] EXCEPT !.dispatched = now + 1] \in Intent
<1> USE DEF Typed
<1>1. calls # <<>> /\ Top \in Call /\ calls \in Seq(Call)
      BY TopIsCall DEF Send, TypeOK
<1>2. /\ calls' \in Seq(Call) /\ Moved(0, c) /\ DOMAIN calls' = DOMAIN calls /\ calls'[1].sent
      BY <1>1, FirstSent DEF Send
<1>3. Top.kind = "write" => intents[Top.name] \in Intent /\ intents[Top.name] # None
      BY <1>1 DEF Send, ValidCall, Current, TypeOK, Call
<1> DEFINE r == [kind |-> CASE Top.kind = "write" -> "write"
                            [] Top.kind = "report" -> "report"
                            [] OTHER -> "read",
                 name |-> Top.name, cid |-> Top.cid, answers |-> TRUE,
                 value |-> IF Top.kind = "write" THEN intents[Top.name].value ELSE "on"]
<1>4. /\ r \in Request /\ r.cid = Top.cid /\ r.name = Top.name /\ inbox' = Append(inbox, r)
      /\ r.kind = "write" <=> Top.kind = "write"
      /\ Top.kind = "write" => r.value = intents[Top.name].value
  <2>1. (CASE Top.kind = "write" -> "write" [] Top.kind = "report" -> "report" [] OTHER -> "read")
           \in {"write", "read", "report"}
        BY <1>1 DEF Call
  <2>2. (IF Top.kind = "write" THEN intents[Top.name].value ELSE "on") \in Value
        BY <1>3 DEF Intent, Value
  <2>3. r \in Request
        BY <1>1, <2>1, <2>2 DEF Request, Call
  <2>4. r.kind = "write" <=> Top.kind = "write"
        BY <1>1 DEF Call
  <2>5. Top.kind = "write" => r.value = intents[Top.name].value
        OBVIOUS
  <2> QED BY <2>3, <2>4, <2>5 DEF Send
<1>5. Append(inbox, r) \in Seq(Request)
  <2> HIDE DEF r
  <2> QED BY <1>4, AppendElements DEF TypeOK
<1>6. CASE Top.kind = "write"
  <2>1. Top.name \in ROLES /\ now + 1 \in Time
        BY <1>1 DEF TypeOK, Time, Call
  <2>2. [intents[Top.name] EXCEPT !.dispatched = now + 1] \in Intent
        BY <1>3, <1>6, <2>1, IntentUpdates
  <2>3. intents' = [intents EXCEPT ![Top.name] = [intents[Top.name] EXCEPT !.dispatched = now + 1]]
        BY <1>6 DEF Send
  <2>4. intents' \in [ROLES -> Intent \cup {None}]
        BY <2>1, <2>2, <2>3 DEF TypeOK
  <2>5. since' \in [ROLES -> SUBSET Value]
    <3>1. station.value[Top.name] \in Value
          BY <2>1 DEF TypeOK
    <3>2. since' = [since EXCEPT ![Top.name] = {station.value[Top.name]}]
          BY <1>6 DEF Send
    <3> QED BY <2>1, <3>1, <3>2 DEF TypeOK
  <2>6. now' = now + 1
        BY <1>6 DEF Send
  <2>7. inbox' \in Seq(Request)
        BY <1>4, <1>5
  <2>8. Typed'
        BY <1>2, <2>1, <2>4, <2>5, <2>6, <2>7 DEF Send, TypeOK, Meant
  <2> HIDE DEF r
  <2> QED BY <1>2, <1>3, <1>4, <1>6, <2>2, <2>3, <2>6, <2>8
<1>7. CASE Top.kind # "write"
  <2>1. UNCHANGED <<now, intents, since>>
        BY <1>7 DEF Send
  <2>2. inbox' \in Seq(Request)
        BY <1>4, <1>5
  <2>3. Typed'
        BY <1>2, <2>1, <2>2 DEF Send, TypeOK, Meant
  <2> HIDE DEF r
  <2> QED BY <1>2, <1>4, <1>7, <2>3
<1> QED BY <1>6, <1>7

(* A status that is only superseded, or given to a write that leaves. *)
LEMMA UpdatedRestates ==
  ASSUME TypeOK, calls # <<>>, NEW s \in Status \ {"confirmed"}, intents' = Updated(Top, s),
         s = "superseded" \/ Top.kind = "write"
  PROVE  intents' \in Intents /\ Restated(1)
<1>1. Top \in Call /\ intents \in Intents
      BY TopIsCall DEF TypeOK, Intents
<1>2. /\ intents' \in Intents
      /\ \A n \in ROLES :
           \/ intents'[n] = intents[n]
           \/ n = Top.name /\ Current(Top) /\ intents'[n] = [intents[n] EXCEPT !.status = s]
      BY <1>1, UpdatedIntents
<1>3. ASSUME NEW n \in ROLES, n = Top.name, Current(Top), intents'[n] = [intents[n] EXCEPT !.status = s]
      PROVE  /\ intents[n] # None /\ intents[n] \in Intent /\ intents'[n] \in Intent
             /\ intents'[n].value = intents[n].value /\ intents'[n].gen = intents[n].gen
             /\ intents'[n].id = intents[n].id /\ intents'[n].dispatched = intents[n].dispatched
             /\ intents'[n].status = s /\ Top.id = intents[n].id
  <2>1. intents[n] # None /\ intents[n] \in Intent /\ Top.id = intents[n].id
        BY <1>1, <1>3 DEF Current, Intents
  <2>2. [intents[n] EXCEPT !.status = s] \in Intent
        BY <2>1, IntentUpdates
  <2> QED BY <1>3, <2>1, <2>2 DEF Intent
<1> QED BY <1>2, <1>3 DEF Restated

LEMMA UnchangedRestates ==
  ASSUME intents' = intents, NEW first PROVE Restated(first)
BY DEF Restated

(* An observation changes what is held, and settles what it confirms. *)
LEMMA ReportsStep ==
  ASSUME TypeOK, NEW n \in ROLES, NEW v \in Reported, NEW at \in Time,
         NEW o, o = Observed(n, v, at), obs' = o,
         intents' = intents \/ intents' = Settled(intents, o, n)
  PROVE  /\ obs' \in Observations /\ intents' \in Intents /\ Restated(0) /\ Restated(1)
         /\ \A m \in ROLES :
              \/ obs'[m] = obs[m]
              \/ m = n /\ obs'[n] \in Observation /\ obs'[n].at = at /\ obs'[n].value \in {v, "unknown"}
<1>1. /\ obs' \in Observations
      /\ \A m \in ROLES :
           \/ obs'[m] = obs[m]
           \/ m = n /\ obs'[n] \in Observation /\ obs'[n].at = at /\ obs'[n].value \in {v, "unknown"}
      BY ObservedValues DEF TypeOK, Observations
<1>2. CASE intents' = intents
      BY <1>1, <1>2, UnchangedRestates DEF TypeOK, Intents
<1>3. CASE intents' = Settled(intents, o, n)
  <2>1. intents \in Intents
        BY DEF TypeOK, Intents
  <2>2. /\ intents' \in Intents
        /\ \A m \in ROLES :
              \/ intents'[m] = intents[m]
              \/ /\ m = n /\ intents[n] # None /\ intents[n] \in Intent
                 /\ intents[n].status = "accepted_unconfirmed"
                 /\ obs'[n] # None /\ obs'[n] \in Observation /\ intents[n].dispatched # None
                 /\ obs'[n].at >= intents[n].dispatched /\ obs'[n].value = intents[n].value
                 /\ intents'[n] = [intents[n] EXCEPT !.status = "confirmed"]
        BY <1>1, <1>3, <2>1, SettledIntents
  <2>3. \A i \in Intent : LET j == [i EXCEPT !.status = "confirmed"]
                          IN  /\ j \in Intent /\ j.value = i.value /\ j.gen = i.gen
                              /\ j.id = i.id /\ j.dispatched = i.dispatched
    <3>1. "confirmed" \in Status
          BY DEF Status
    <3> QED BY <3>1, IntentUpdates DEF Intent
  <2>4. ASSUME NEW m \in ROLES, intents'[m] # intents[m]
        PROVE  /\ intents[m] # None /\ intents[m] \in Intent /\ intents'[m] \in Intent
               /\ intents'[m].value = intents[m].value /\ intents'[m].gen = intents[m].gen
               /\ intents'[m].id = intents[m].id /\ intents'[m].dispatched = intents[m].dispatched
               /\ intents[m].status = "accepted_unconfirmed" /\ intents[m].dispatched # None
               /\ obs'[m] # None /\ obs'[m] \in Observation
               /\ obs'[m].at >= intents[m].dispatched /\ obs'[m].value = intents[m].value
    <3>1. m = n
          BY <2>2, <2>4
    <3>2. /\ intents[n] # None /\ intents[n] \in Intent
          /\ intents'[n] = [intents[n] EXCEPT !.status = "confirmed"]
          BY <2>2, <2>4
    <3> QED BY <2>2, <2>3, <2>4, <3>1, <3>2
  <2>5. Restated(0) /\ Restated(1)
        BY <2>4 DEF Restated
  <2> QED BY <1>1, <2>2, <2>5
<1> QED BY <1>2, <1>3

LEMMA RefusedStep ==
  ASSUME Typed, Refused, NEW c
  PROVE  Typed' /\ Moved(1, c) /\ Restated(1)
<1> USE DEF Typed
<1>1. calls' \in Seq(Call) /\ Moved(1, c)
      BY CallsMove DEF Refused, TypeOK
<1>2. intents' \in Intents /\ Restated(1)
      BY UpdatedRestates DEF Refused, Status
<1> QED BY <1>1, <1>2 DEF Refused, TypeOK, Meant, Intents

BootsSet ==
  [stage: {"none", "ask", "collect", "read"}, request: Nat, parts: {"none", "ok", "broken"},
   rw: SUBSET ROLES, todo: SUBSET ROLES, poll: BOOLEAN]
LEMMA BootsUpdates ==
  ASSUME boots \in BootsSet
  PROVE  Quiescent \in BootsSet /\ NextStage \in BootsSet
         /\ NextStage.stage \in {boots.stage, "none"} /\ NextStage.request = boots.request
BY DEF BootsSet, Quiescent, NextStage

LEMMA TimedOutStep ==
  ASSUME Typed, TimedOut, NEW c
  PROVE  Typed' /\ Moved(1, c) /\ Restated(1)
<1> USE DEF Typed
<1>1. calls # <<>> /\ Top \in Call
      BY TopIsCall DEF TimedOut
<1>2. calls' \in Seq(Call) /\ Moved(1, c)
      BY <1>1, CallsMove DEF TimedOut, TypeOK
<1>3. intents' \in Intents /\ Restated(1)
  <2>1. CASE Top.kind = "write"
    <3>1. intents' = Updated(Top, "timeout") /\ "timeout" \in Status \ {"confirmed"}
          BY <2>1 DEF TimedOut, Status
    <3> QED BY <1>1, <2>1, <3>1, UpdatedRestates
  <2>2. CASE Top.kind = "confirm" /\ Current(Top) /\ ~ValidCall(Top)
    <3>1. intents' = Updated(Top, "superseded") /\ "superseded" \in Status \ {"confirmed"}
          BY <2>2 DEF TimedOut, Status
    <3> QED BY <1>1, <3>1, UpdatedRestates
  <2>3. CASE Top.kind # "write" /\ ~(Top.kind = "confirm" /\ Current(Top) /\ ~ValidCall(Top))
    <3>1. intents' = intents
          BY <2>3 DEF TimedOut
    <3> QED BY <3>1, UnchangedRestates DEF TypeOK, Intents
  <2> QED BY <2>1, <2>2, <2>3
<1>4. boots' \in BootsSet
      BY <1>1, BootsUpdates DEF TimedOut, TypeOK, BootsSet, Call
<1>5. ops' \in 0..MaxOps
      BY BoundsAssumption DEF TimedOut, May, TypeOK
<1> QED BY <1>2, <1>3, <1>4, <1>5 DEF TimedOut, TypeOK, Meant, Intents, BootsSet

LEMMA AnswerTaken ==
  ASSUME TypeOK, answers # <<>>, answers' = Tail(answers)
  PROVE  /\ answers' \in Seq(Message) /\ M \in Message /\ M = answers[1] /\ 1 \in DOMAIN answers
         /\ \A k \in DOMAIN answers' : \E j \in DOMAIN answers : answers'[k] = answers[j]
BY TailElements DEF TypeOK, M

LEMMA LateAnswerStep ==
  ASSUME Typed, LateAnswer PROVE Typed'
BY AnswerTaken DEF Typed, LateAnswer, TypeOK, Meant

(* A write is answered: its intent is superseded, decided, or acknowledged and *)
(* then confirmed by what is held or by a read that joins the queue.           *)
LEMMA WriteAnsweredStep ==
  ASSUME Typed, WriteAnswered
  PROVE  /\ Typed' /\ Restated(1) /\ Top.kind = "write" /\ calls # <<>>
         /\ \/ calls' = Tail(calls)
            \/ calls' = Tail(Queued("confirm", Top.name, Top.id))
         /\ calls' \in Seq(Call)
<1> USE DEF Typed
<1>1. /\ calls # <<>> /\ Top \in Call /\ Top.kind = "write" /\ answers # <<>>
      /\ answers' = Tail(answers)
      BY TopIsCall DEF WriteAnswered, Answers, AnswersTop
<1>2. answers' \in Seq(Message) /\ M \in Message
      BY <1>1, AnswerTaken
<1>3. Top.name \in ROLES /\ Top.id \in Nat
      BY <1>1 DEF Call
<1>4. /\ \/ calls' = Tail(calls)
         \/ calls' = Tail(Queued("confirm", Top.name, Top.id))
      /\ calls' \in Seq(Call)
  <2>1. \/ calls' = Tail(calls)
        \/ calls' = Tail(Queued("confirm", Top.name, Top.id))
        BY DEF WriteAnswered
  <2>2. calls' = Tail(calls) => calls' \in Seq(Call)
        BY <1>1, CallsMove DEF TypeOK
  <2>3. calls' = Tail(Queued("confirm", Top.name, Top.id)) => calls' \in Seq(Call)
    <3>1. "confirm" \in {"write", "confirm", "report", "init", "poll"}
          OBVIOUS
    <3>2. Queued("confirm", Top.name, Top.id) \in Seq(Call)
          BY <1>3, <3>1, QueuedCalls
    <3>3. Queued("confirm", Top.name, Top.id) # <<>>
          BY <1>3, <3>1, QueuedCalls
    <3> QED BY <3>2, <3>3, TailElements
  <2> QED BY <2>1, <2>2, <2>3
<1>5. intents' \in Intents /\ Restated(1)
  <2>1. CASE ~ValidCall(Top)
    <3>1. intents' = Updated(Top, "superseded") /\ "superseded" \in Status \ {"confirmed"}
          BY <2>1 DEF WriteAnswered, Status
    <3> QED BY <1>1, <3>1, UpdatedRestates
  <2>2. CASE ValidCall(Top) /\ M.value # "accepted"
    <3>1. PICK s \in Status \ {"confirmed"} : intents' = Updated(Top, s)
          BY <2>2 DEF WriteAnswered, Status
    <3> QED BY <1>1, <3>1, UpdatedRestates
  <2>3. CASE ValidCall(Top) /\ M.value = "accepted"
    <3> DEFINE i == intents[Top.name]
               a == [i EXCEPT !.status = "accepted_unconfirmed"]
               accepted == [intents EXCEPT ![Top.name] = a]
    <3>1. i \in Intent /\ i # None /\ i.id = Top.id
          BY <1>3, <2>3 DEF ValidCall, Current, TypeOK
    <3>2. a \in Intent /\ a.value = i.value /\ a.gen = i.gen /\ a.id = i.id
          /\ a.dispatched = i.dispatched /\ a.status = "accepted_unconfirmed"
      <4>1. "accepted_unconfirmed" \in Status
            BY DEF Status
      <4> QED BY <3>1, <4>1, IntentUpdates DEF Intent
    <3>3. intents' = Settled(accepted, obs, Top.name)
      <4>1. accepted = [intents EXCEPT ![Top.name].status = "accepted_unconfirmed"]
            OBVIOUS
      <4> HIDE DEF accepted
      <4> QED BY <2>3, <4>1 DEF WriteAnswered
    <3>4. /\ accepted \in Intents /\ accepted[Top.name] = a
          /\ \A m \in ROLES \ {Top.name} : accepted[m] = intents[m]
          BY <1>3, <3>2 DEF Intents, TypeOK
    <3> HIDE DEF accepted, a
    <3>5. /\ intents' \in Intents
          /\ \A m \in ROLES :
              \/ intents'[m] = accepted[m]
              \/ /\ m = Top.name
                 /\ obs[m] # None /\ obs[m] \in Observation /\ a.dispatched # None
                 /\ obs[m].at >= a.dispatched /\ obs[m].value = a.value
                 /\ intents'[m] = [a EXCEPT !.status = "confirmed"]
      <4>1. obs \in Observations
            BY DEF TypeOK, Observations
      <4> QED BY <1>3, <3>3, <3>4, <4>1, SettledIntents
    <3>6. LET j == [a EXCEPT !.status = "confirmed"]
          IN  /\ j \in Intent /\ j.value = a.value /\ j.gen = a.gen
              /\ j.id = a.id /\ j.dispatched = a.dispatched
      <4>1. "confirmed" \in Status
            BY DEF Status
      <4> QED BY <3>2, <4>1, IntentUpdates DEF Intent
    <3>7. obs' = obs
          BY DEF WriteAnswered
    <3>8. ASSUME NEW n \in ROLES
          PROVE  \/ intents'[n] = intents[n]
                 \/ /\ intents[n] # None /\ intents[n] \in Intent /\ intents'[n] \in Intent
                    /\ intents'[n].value = intents[n].value /\ intents'[n].gen = intents[n].gen
                    /\ intents'[n].id = intents[n].id /\ intents'[n].dispatched = intents[n].dispatched
                    /\ Top.name = n /\ Top.id = intents[n].id
                    /\ intents'[n].status = "confirmed" =>
                         /\ intents[n].dispatched # None
                         /\ obs'[n] # None /\ obs'[n] \in Observation
                         /\ obs'[n].at >= intents[n].dispatched /\ obs'[n].value = intents[n].value
      <4>1. CASE n # Top.name
            BY <3>4, <3>5, <4>1
      <4>2. CASE n = Top.name /\ intents'[n] = accepted[n]
            BY <3>1, <3>2, <3>4, <4>2
      <4>3. CASE n = Top.name /\ intents'[n] # accepted[n]
            BY <3>1, <3>2, <3>5, <3>6, <3>7, <4>3
      <4> QED BY <4>1, <4>2, <4>3
    <3> QED BY <1>1, <3>5, <3>8 DEF Restated
  <2> QED BY <2>1, <2>2, <2>3
<1> QED BY <1>1, <1>2, <1>4, <1>5 DEF WriteAnswered, TypeOK, Meant, Intents

LEMMA ReadAnsweredStep ==
  ASSUME Typed, ReadAnswered, NEW c
  PROVE  /\ Typed' /\ Moved(1, c) /\ Restated(1)
         /\ \/ obs' = obs
            \/ /\ M.value \in Value
               /\ \A m \in ROLES :
                    \/ obs'[m] = obs[m]
                    \/ /\ m = Top.name /\ obs'[m] \in Observation /\ obs'[m].at = Top.at
                       /\ obs'[m].value \in {M.value, "unknown"}
<1> USE DEF Typed
<1>1. /\ calls # <<>> /\ Top \in Call /\ answers # <<>> /\ calls' = Tail(calls)
      /\ answers' = Tail(answers)
      BY TopIsCall DEF ReadAnswered, Answers, AnswersTop
<1>2. answers' \in Seq(Message) /\ M \in Message
      BY <1>1, AnswerTaken
<1>3. calls' \in Seq(Call) /\ Moved(1, c)
      BY <1>1, CallsMove DEF TypeOK
<1>4. /\ obs' \in Observations /\ intents' \in Intents /\ Restated(1)
      /\ \/ obs' = obs
         \/ /\ M.value \in Value
            /\ \A m \in ROLES :
                 \/ obs'[m] = obs[m]
                 \/ /\ m = Top.name /\ obs'[m] \in Observation /\ obs'[m].at = Top.at
                    /\ obs'[m].value \in {M.value, "unknown"}
  <2>1. CASE M.value \in Value /\ Reports(Top.name, M.value, Top.at)
    <3>1. Top.name \in ROLES /\ M.value \in Reported /\ Top.at \in Time
          BY <1>1, <2>1 DEF Call, Reported
    <3>3. PICK n \in ROLES, v \in Reported, at \in Time : n = Top.name /\ v = M.value /\ at = Top.at
          BY <3>1
    <3>5. PICK o : o = obs'
          OBVIOUS
    <3>4. /\ o = Observed(n, v, at)
          /\ intents' = intents \/ intents' = Settled(intents, o, n)
          BY <2>1, <3>3, <3>5 DEF Reports
    <3>2. /\ obs' \in Observations /\ intents' \in Intents /\ Restated(1)
          /\ \A m \in ROLES :
               \/ obs'[m] = obs[m]
               \/ /\ m = n /\ obs'[n] \in Observation /\ obs'[n].at = at
                  /\ obs'[n].value \in {v, "unknown"}
      <4>1. obs' \in Observations
          BY <3>3, <3>4, <3>5, ReportsStep
      <4>2. intents' \in Intents
          BY <3>3, <3>4, <3>5, ReportsStep
      <4>3. Restated(1)
          BY <3>3, <3>4, <3>5, ReportsStep
      <4>4. ASSUME NEW m \in ROLES
            PROVE  \/ o[m] = obs[m]
                   \/ m = n /\ o[n] \in Observation /\ o[n].at = at /\ o[n].value \in {v, "unknown"}
        <5>1. obs \in Observations /\ link.gen \in Nat
              BY DEF TypeOK, Observations
        <5> QED BY <3>3, <3>4, <5>1, ObservedValues
      <4> QED BY <3>5, <4>1, <4>2, <4>3, <4>4
    <3> QED BY <2>1, <3>2, <3>3
  <2>2. CASE obs' = obs /\ intents' = intents
        BY <2>2, UnchangedRestates DEF TypeOK, Intents, Observations
  <2>3. CASE obs' = obs /\ intents' = Updated(Top, "superseded")
    <3>1. "superseded" \in Status \ {"confirmed"}
          BY DEF Status
    <3>2. intents' \in Intents /\ Restated(1)
          BY <1>1, <2>3, <3>1, UpdatedRestates
    <3> QED BY <2>3, <3>2 DEF TypeOK, Observations
  <2> QED BY <2>1, <2>2, <2>3 DEF ReadAnswered
<1>5. boots' \in BootsSet
      BY BootsUpdates DEF ReadAnswered, TypeOK, BootsSet
<1> QED BY <1>1, <1>2, <1>3, <1>4, <1>5
        DEF ReadAnswered, TypeOK, Meant, Intents, Observations, BootsSet

LEMMA SomeRole == Some \in ROLES
BY DEF Some, ROLES

LEMMA ToldMessages ==
  ASSUME TypeOK, NEW kind \in {"answer", "event", "report", "boot"}, NEW n \in ROLES,
         NEW v \in Reported \cup Refusal \cup {"accepted", "ok", "broken"},
         NEW at \in Time, NEW cid \in Nat
  PROVE  /\ Told(kind, n, v) \in Message
         /\ [Told(kind, n, v) EXCEPT !.at = at] \in Message
         /\ [Told(kind, n, v) EXCEPT !.cid = cid] \in Message
<1>1. station.rw \in SUBSET ROLES /\ now \in Time
      BY DEF TypeOK
<1>2. Told(kind, n, v) \in Message
      BY <1>1 DEF Told, Message
<1> HIDE DEF Told
<1> QED BY <1>2 DEF Message

LEMMA AbandonedRequests ==
  ASSUME TypeOK
  PROVE  /\ Abandoned \in Seq(Request) /\ DOMAIN Abandoned = DOMAIN inbox
<1>1. ASSUME NEW k \in DOMAIN inbox PROVE [inbox[k] EXCEPT !.answers = FALSE] \in Request
  <2>1. inbox[k] \in Request
        BY DEF TypeOK
  <2> QED BY <2>1 DEF Request
<1>2. DOMAIN inbox = 1..Len(inbox) /\ Len(inbox) \in Nat
      BY DEF TypeOK
<1>3. Abandoned = [k \in 1..Len(inbox) |-> Abandoned[k]] /\ DOMAIN Abandoned = DOMAIN inbox
      BY <1>2 DEF Abandoned
<1>4. \A k \in 1..Len(inbox) : Abandoned[k] \in Request
      BY <1>1, <1>2 DEF Abandoned
<1> QED BY <1>2, <1>3, <1>4, SequenceOf

LEMMA LinkStep ==
  ASSUME Typed, Connect \/ Disconnect
  PROVE  Typed'
<1> USE DEF Typed
<1>1. intents' \in [ROLES -> Intent \cup {None}]
      BY InvalidatedIntents DEF Connect, Disconnect, TypeOK, Intents
<1>2. inbox' \in Seq(Request)
      BY AbandonedRequests DEF Connect, Disconnect
<1>3. link' \in [up: BOOLEAN, gen: Nat, registered: BOOLEAN, epoch: Time, writable: SUBSET ROLES]
  <2>1. /\ link \in [up: BOOLEAN, gen: Nat, registered: BOOLEAN, epoch: Time, writable: SUBSET ROLES]
        /\ now \in Time
        BY DEF TypeOK
  <2>2. CASE Connect
    <3>1. link' = [up |-> TRUE, gen |-> link.gen + 1, registered |-> FALSE, epoch |-> now,
                   writable |-> {}]
          BY <2>2 DEF Connect
    <3> QED BY <2>1, <3>1
  <2>3. CASE Disconnect
    <3>1. link' = [link EXCEPT !.up = FALSE, !.epoch = now]
          BY <2>3 DEF Disconnect
    <3> QED BY <2>1, <3>1
  <2> QED BY <2>2, <2>3
<1>4. boots' \in BootsSet
      BY BootsUpdates DEF Connect, Disconnect, TypeOK, BootsSet
<1>5. notices' \in Seq(Message) /\ Meant'
  <2>1. Told("boot", Some, "ok") \in Message
        BY SomeRole, ToldMessages DEF TypeOK, Time
  <2>2. Told("boot", Some, "ok").kind = "boot"
        BY DEF Told
  <2>3. notices' = <<Told("boot", Some, "ok")>> \/ notices' = <<>>
        BY DEF Connect, Disconnect
  <2> HIDE DEF Told, Typed
  <2>4. CASE notices' = <<Told("boot", Some, "ok")>>
        BY <2>1, <2>2, <2>4 DEF Meant
  <2>5. CASE notices' = <<>>
        BY <2>5 DEF Meant
  <2> QED BY <2>3, <2>4, <2>5
<1>6. calls' \in Seq(Call) /\ answers' \in Seq(Message)
  <2>1. calls' = <<>> /\ answers' = <<>>
        BY DEF Connect, Disconnect
  <2> QED BY <2>1
<1>7. ops' \in 0..MaxOps
      BY BoundsAssumption DEF Connect, Disconnect, May, TypeOK
<1>8. UNCHANGED <<now, obs, station, since>>
      BY DEF Connect, Disconnect
<1> QED BY <1>1, <1>2, <1>3, <1>4, <1>5, <1>6, <1>7, <1>8 DEF TypeOK, BootsSet

LEMMA NoticeTaken ==
  ASSUME Typed, NEW kind, Arrives(kind)
  PROVE  /\ notices' \in Seq(Message) /\ Meant' /\ Head(notices) \in Message
         /\ Head(notices).kind = kind
         /\ kind = "event" => Head(notices).value \in Value
         /\ kind = "report" => Head(notices).value \in {"ok", "broken"}
         /\ 1 \in DOMAIN notices /\ Head(notices) = notices[1]
         /\ \A k \in DOMAIN notices' : \E j \in DOMAIN notices : notices'[k] = notices[j]
<1>1. /\ notices \in Seq(Message) /\ notices # <<>> /\ notices' = Tail(notices)
      /\ Head(notices).kind = kind
      BY DEF Arrives, Typed, TypeOK
<1>2. \A k \in DOMAIN notices' : \E j \in DOMAIN notices : notices'[k] = notices[j]
      BY <1>1, TailElements
<1> QED BY <1>1, <1>2, TailElements DEF Typed, Meant

LEMMA BootStep ==
  ASSUME Typed, Boot, NEW c
  PROVE  /\ Typed' /\ Moved(0, c)
         /\ \A k \in DOMAIN calls' : calls'[k].heard => calls'[k].kind \in {"write", "confirm"}
<1> USE DEF Typed
<1>1. intents' \in [ROLES -> Intent \cup {None}]
      BY InvalidatedIntents DEF Boot, TypeOK, Intents
<1>2. link' \in [up: BOOLEAN, gen: Nat, registered: BOOLEAN, epoch: Time, writable: SUBSET ROLES]
  <2>1. /\ link \in [up: BOOLEAN, gen: Nat, registered: BOOLEAN, epoch: Time, writable: SUBSET ROLES]
        /\ now \in Time
        BY DEF TypeOK
  <2>2. link' = [link EXCEPT !.gen = @ + 1, !.registered = TRUE, !.epoch = now, !.writable = {}]
        BY DEF Boot
  <2>3. link' = [up |-> link.up, gen |-> link.gen + 1, registered |-> TRUE, epoch |-> now,
                 writable |-> {}]
        BY <2>1, <2>2
  <2> QED BY <2>1, <2>3
<1>3. boots' \in BootsSet
      BY DEF Boot, BootsSet, Quiescent
<1>4. notices' \in Seq(Message) /\ Meant'
      BY NoticeTaken DEF Boot
<1>5. /\ calls' \in Seq(Call) /\ Moved(0, c)
      /\ \A k \in DOMAIN calls' : calls'[k].heard => calls'[k].kind \in {"write", "confirm"}
  <2>1. calls' = [k \in DOMAIN calls |->
                   [calls[k] EXCEPT !.heard = @ /\ calls[k].kind \in {"write", "confirm"}]]
        BY DEF Boot
  <2> QED BY <2>1, Unheard DEF TypeOK
<1>6. UNCHANGED <<now, obs, station, inbox, answers, since, ops>>
      BY DEF Boot
<1> QED BY <1>1, <1>2, <1>3, <1>4, <1>5, <1>6 DEF TypeOK, BootsSet

LEMMA QueueSteps ==
  ASSUME Typed, Initialize \/ (\E n \in ROLES : InitialRead(n)) \/ Poll
  PROVE  Typed'
<1> USE DEF Typed
<1>1. FreshCall \in Nat /\ Some \in ROLES /\ "ChargingEnabled" \in ROLES
      BY FreshAreFree, SomeRole DEF ROLES
<1>2. CASE Initialize
  <2>1. calls' \in Seq(Call)
        BY <1>1, <1>2, QueuedCalls DEF Initialize
  <2>2. boots' \in BootsSet
        BY <1>1, <1>2 DEF Initialize, TypeOK, BootsSet
  <2> QED BY <1>2, <2>1, <2>2 DEF Initialize, TypeOK, Meant, BootsSet
<1>3. ASSUME NEW n \in ROLES, InitialRead(n) PROVE Typed'
  <2>1. calls' \in Seq(Call)
        BY <1>1, <1>3, QueuedCalls DEF InitialRead
  <2>2. boots' \in BootsSet
        BY <1>1, <1>3 DEF InitialRead, TypeOK, BootsSet
  <2> QED BY <1>3, <2>1, <2>2 DEF InitialRead, TypeOK, Meant, BootsSet
<1>4. CASE Poll
  <2>1. calls' \in Seq(Call)
        BY <1>1, <1>4, QueuedCalls DEF Poll
  <2> QED BY <1>4, <2>1 DEF Poll, TypeOK, Meant
<1> QED BY <1>2, <1>3, <1>4

LEMMA ReportAnsweredStep ==
  ASSUME Typed, ReportAnswered, NEW c
  PROVE  Typed' /\ Moved(1, c) /\ calls # <<>>
<1> USE DEF Typed
<1>1. calls # <<>> /\ answers # <<>> /\ answers' = Tail(answers) /\ calls' = Tail(calls)
      BY DEF ReportAnswered, Answers, AnswersTop
<1>2. calls' \in Seq(Call) /\ Moved(1, c) /\ answers' \in Seq(Message)
      BY <1>1, CallsMove, AnswerTaken DEF TypeOK
<1>3. boots' \in BootsSet
      BY DEF ReportAnswered, TypeOK, BootsSet
<1> QED BY <1>1, <1>2, <1>3 DEF ReportAnswered, TypeOK, Meant, BootsSet

LEMMA InventorySteps ==
  ASSUME Typed, Report \/ Inventory \/ NoInventory
  PROVE  Typed'
<1> USE DEF Typed
<1>1. CASE Report
  <2>1. /\ notices' \in Seq(Message) /\ Meant' /\ Head(notices) \in Message
        /\ Head(notices).value \in {"ok", "broken"}
        BY <1>1, NoticeTaken DEF Report
  <2>2. boots' \in BootsSet
        BY <1>1, <2>1 DEF Report, TypeOK, BootsSet, Message
  <2> QED BY <1>1, <2>1, <2>2 DEF Report, TypeOK, BootsSet
<1>2. CASE Inventory
  <2>1. station.has \in SUBSET ROLES
        BY StationsAssumption DEF TypeOK
  <2>2. boots' \in BootsSet
        BY <1>2, <2>1 DEF Inventory, BootsSet, Quiescent
  <2>3. link' \in [up: BOOLEAN, gen: Nat, registered: BOOLEAN, epoch: Time, writable: SUBSET ROLES]
        BY <1>2 DEF Inventory, TypeOK
  <2> QED BY <1>2, <2>2, <2>3 DEF Inventory, TypeOK, Meant, BootsSet
<1>3. CASE NoInventory
  <2>1. boots' \in BootsSet
        BY <1>3 DEF NoInventory, BootsSet, Quiescent
  <2> QED BY <1>3, <2>1 DEF NoInventory, TypeOK, Meant, BootsSet
<1> QED BY <1>1, <1>2, <1>3

LEMMA EventStep ==
  ASSUME Typed, Event
  PROVE  /\ Typed' /\ Restated(0)
         /\ \A m \in ROLES :
              \/ obs'[m] = obs[m]
              \/ /\ m = Head(notices).name /\ obs'[m] \in Observation
                 /\ obs'[m].at = Head(notices).at
                 /\ obs'[m].value \in {Head(notices).value, "unknown"}
<1> USE DEF Typed
<1>1. /\ notices' \in Seq(Message) /\ Meant' /\ Head(notices) \in Message
      /\ Head(notices).value \in Value
      BY NoticeTaken DEF Event
<1>2. PICK n \in ROLES, v \in Reported, at \in Time :
        n = Head(notices).name /\ v = Head(notices).value /\ at = Head(notices).at
      BY <1>1 DEF Message, Reported
<1>3. PICK o : o = obs'
      OBVIOUS
<1>4. /\ o = Observed(n, v, at)
      /\ intents' = intents \/ intents' = Settled(intents, o, n)
      BY <1>2, <1>3 DEF Event, Reports
<1>5. obs' \in Observations
      BY <1>3, <1>4, ReportsStep
<1>6. intents' \in Intents
      BY <1>3, <1>4, ReportsStep
<1>7. Restated(0)
      BY <1>3, <1>4, ReportsStep
<1>8. ASSUME NEW m \in ROLES
      PROVE  \/ o[m] = obs[m]
             \/ m = n /\ o[n] \in Observation /\ o[n].at = at /\ o[n].value \in {v, "unknown"}
  <2>1. obs \in Observations /\ link.gen \in Nat
        BY DEF TypeOK, Observations
  <2> QED BY <1>4, <2>1, ObservedValues
<1>9. Typed'
      BY <1>1, <1>5, <1>6 DEF Event, TypeOK, Intents, Observations
<1> QED BY <1>2, <1>3, <1>7, <1>8, <1>9

(* A change of the station's value, and how it is told. *)
LEMMA ChangedStep ==
  ASSUME Typed, NEW n \in ROLES, NEW v \in Value, NEW told \in BOOLEAN, Changed(n, v, told)
  PROVE  /\ now' = now + 1 /\ now' \in Time
         /\ station' \in [value: [ROLES -> Value], has: Stations, rw: SUBSET ROLES, told: SUBSET ROLES]
         /\ station'.value = [station.value EXCEPT ![n] = v]
         /\ since' = [since EXCEPT ![n] = @ \cup {v}]
         /\ since' \in [ROLES -> SUBSET Value]
         /\ notices' \in Seq(Message) /\ Meant'
         /\ \A k \in DOMAIN notices' :
              \/ k \in DOMAIN notices /\ notices'[k] = notices[k]
              \/ /\ notices'[k].kind = "event" /\ notices'[k].name = n /\ notices'[k].value = v
                 /\ notices'[k].at = now + 1
<1> USE DEF Typed
<1>1. now' = now + 1 /\ now' \in Time
      BY DEF Changed, TypeOK, Time
<1>2. /\ station' \in [value: [ROLES -> Value], has: Stations, rw: SUBSET ROLES, told: SUBSET ROLES]
      /\ station'.value = [station.value EXCEPT ![n] = v]
      BY DEF Changed, TypeOK
<1>3. since' = [since EXCEPT ![n] = @ \cup {v}] /\ since' \in [ROLES -> SUBSET Value]
      BY DEF Changed, TypeOK
<1> DEFINE m == [Told("event", n, v) EXCEPT !.at = now + 1]
<1>4. m \in Message /\ m.kind = "event" /\ m.name = n /\ m.value = v /\ m.at = now + 1
  <2>1. m \in Message
        BY <1>1, ToldMessages DEF TypeOK, Time, Reported
  <2> QED BY <2>1 DEF Told
<1>5. notices' = notices \/ notices' = Append(notices, m)
      BY DEF Changed
<1> HIDE DEF m
<1>6. /\ notices' \in Seq(Message)
      /\ \A k \in DOMAIN notices' :
           \/ k \in DOMAIN notices /\ notices'[k] = notices[k]
           \/ notices'[k] = m
  <2>1. notices \in Seq(Message)
        BY DEF TypeOK
  <2>2. CASE notices' = notices
        BY <2>1, <2>2
  <2>3. CASE notices' = Append(notices, m)
        BY <1>4, <2>1, <2>3, AppendElements
  <2> QED BY <1>5, <2>2, <2>3
<1>7. Meant'
      BY <1>4, <1>6 DEF Meant
<1> QED BY <1>1, <1>2, <1>3, <1>4, <1>6, <1>7

(* The station takes the next request, and answers it unless nobody waits. *)
LEMMA Responded ==
  ASSUME TypeOK, inbox # <<>>, inbox' = Tail(inbox),
         NEW v \in Reported \cup Refusal \cup {"accepted"}, Responds(v)
  PROVE  /\ inbox' \in Seq(Request) /\ Next1 \in Request
         /\ Next1 = inbox[1] /\ 1 \in DOMAIN inbox
         /\ \A k \in DOMAIN inbox' : \E j \in DOMAIN inbox : inbox'[k] = inbox[j]
         /\ answers' \in Seq(Message)
         /\ \A k \in DOMAIN answers' :
              \/ k \in DOMAIN answers /\ answers'[k] = answers[k]
              \/ answers'[k].cid = Next1.cid /\ answers'[k].value = v
<1>1. /\ inbox' \in Seq(Request) /\ Next1 \in Request
      /\ Next1 = inbox[1] /\ 1 \in DOMAIN inbox
      /\ \A k \in DOMAIN inbox' : \E j \in DOMAIN inbox : inbox'[k] = inbox[j]
      BY TailElements DEF TypeOK, Next1
<1> DEFINE m == [Told("answer", Next1.name, v) EXCEPT !.cid = Next1.cid]
<1>2. m \in Message /\ m.cid = Next1.cid /\ m.value = v
  <2>1. Next1.name \in ROLES /\ Next1.cid \in Nat
        BY <1>1 DEF Request
  <2>2. m \in Message
        BY <2>1, ToldMessages DEF TypeOK
  <2> QED BY <2>2 DEF Told
<1>3. answers' = answers \/ answers' = Append(answers, m)
      BY DEF Responds
<1>4. answers \in Seq(Message)
      BY DEF TypeOK
<1> HIDE DEF m
<1>5. CASE answers' = answers
      BY <1>1, <1>4, <1>5
<1>6. CASE answers' = Append(answers, m)
      BY <1>1, <1>2, <1>4, <1>6, AppendElements
<1> QED BY <1>3, <1>5, <1>6

LEMMA ValuesAnswer ==
  /\ "accepted" \in Reported \cup Refusal \cup {"accepted"}
  /\ Refusal \subseteq Reported \cup Refusal \cup {"accepted"}
  /\ Value \subseteq Reported \cup Refusal \cup {"accepted"}
  /\ "refused" \in Reported \cup Refusal \cup {"accepted"}
  /\ "accepted" \notin Value /\ Refusal \cap Value = {}
BY DEF Reported, Refusal, Value

LEMMA CarriesOutStep ==
  ASSUME Typed, CarriesOut
  PROVE  /\ Typed'
         /\ \/ UNCHANGED <<now, station, since, notices>>
            \/ \E n \in ROLES, v \in Value : Changed(n, v, TRUE)
         /\ \E w \in {"accepted"} \cup Refusal : Responds(w)
<1> USE DEF Typed
<1>1. inbox # <<>> /\ inbox' = Tail(inbox) /\ Next1 \in Request
  <2>1. inbox # <<>> /\ inbox' = Tail(inbox)
        BY DEF CarriesOut
  <2> QED BY <2>1, TailElements DEF Next1, TypeOK
<1>2. Next1.name \in ROLES /\ Next1.value \in Value
      BY <1>1 DEF Request
<1>3. PICK w \in {"accepted"} \cup Refusal : Responds(w)
      BY DEF CarriesOut
<1>4. inbox' \in Seq(Request) /\ answers' \in Seq(Message)
      BY <1>1, <1>3, ValuesAnswer, Responded
<1>5. ops' \in 0..MaxOps
  <2>1. ops' = ops \/ May("ignore") \/ May("refuse")
        BY DEF CarriesOut
  <2> QED BY <2>1, BoundsAssumption DEF May, TypeOK
<1>6. UNCHANGED <<link, obs, intents, calls, boots>>
      BY DEF CarriesOut
<1>7. CASE Unchanged
      BY <1>3, <1>4, <1>5, <1>6, <1>7 DEF Unchanged, TypeOK, Meant
<1>8. CASE ~Unchanged
  <2>1. PICK n \in ROLES, v \in Value : n = Next1.name /\ v = Next1.value
        BY <1>2
  <2>2. Changed(n, v, TRUE)
        BY <1>8, <2>1 DEF CarriesOut, Changed
  <2>3. /\ now' \in Time /\ since' \in [ROLES -> SUBSET Value]
        /\ station' \in [value: [ROLES -> Value], has: Stations, rw: SUBSET ROLES, told: SUBSET ROLES]
        /\ notices' \in Seq(Message) /\ Meant'
        BY <2>2, ChangedStep
  <2> QED BY <1>3, <1>4, <1>5, <1>6, <2>2, <2>3 DEF TypeOK
<1> QED BY <1>7, <1>8

LEMMA TellsStep ==
  ASSUME Typed, Tells
  PROVE  /\ Typed'
         /\ inbox # <<>> /\ inbox' = Tail(inbox)
         /\ \E w \in Value \cup {"refused"} :
              Responds(w) /\ (w \in Value => w = station.value[Next1.name])
<1> USE DEF Typed
<1>1. inbox # <<>> /\ inbox' = Tail(inbox) /\ Next1 \in Request
  <2>1. inbox # <<>> /\ inbox' = Tail(inbox)
        BY DEF Tells
  <2> QED BY <2>1, TailElements DEF Next1, TypeOK
<1>2. station.value[Next1.name] \in Value /\ "refused" \notin Value
      BY <1>1 DEF Request, TypeOK, Value
<1>3. PICK w \in Value \cup {"refused"} :
        Responds(w) /\ (w \in Value => w = station.value[Next1.name])
      BY <1>2 DEF Tells
<1>4. inbox' \in Seq(Request) /\ answers' \in Seq(Message)
      BY <1>1, <1>3, ValuesAnswer, Responded
<1>5. ops' \in 0..MaxOps
      BY BoundsAssumption DEF Tells, May, TypeOK
<1> QED BY <1>1, <1>3, <1>4, <1>5 DEF Tells, Unchanged, TypeOK, Meant

LEMMA ReportsBaseStep ==
  ASSUME Typed, ReportsBase
  PROVE  /\ Typed' /\ Responds("accepted")
         /\ \A k \in DOMAIN notices' :
              \/ k \in DOMAIN notices /\ notices'[k] = notices[k]
              \/ notices'[k].kind = "report" /\ notices'[k].at = now
<1> USE DEF Typed
<1>1. inbox # <<>> /\ inbox' = Tail(inbox) /\ Responds("accepted")
      BY DEF ReportsBase
<1>2. Next1 \in Request
      BY <1>1, TailElements DEF Next1, TypeOK
<1>3. inbox' \in Seq(Request) /\ answers' \in Seq(Message)
      BY <1>1, ValuesAnswer, Responded
<1>4. ops' \in 0..MaxOps
      BY BoundsAssumption DEF ReportsBase, May, TypeOK
<1>5. \A v \in {"ok", "broken"} :
        /\ Part(v) \in Message /\ Part(v).kind = "report" /\ Part(v).value = v
        /\ Part(v).at = now
  <2>1. Next1.cid \in Nat
        BY <1>2 DEF Request
  <2>2. \A v \in {"ok", "broken"} : Part(v) \in Message
        BY <2>1, SomeRole, ToldMessages DEF Part, TypeOK
  <2> QED BY <2>2 DEF Part, Told
<1>6. notices' = notices \/ \E v \in {"ok", "broken"} : notices' = Append(notices, Part(v))
      BY DEF ReportsBase
<1>7. /\ notices' \in Seq(Message) /\ Meant'
      /\ \A k \in DOMAIN notices' :
           \/ k \in DOMAIN notices /\ notices'[k] = notices[k]
           \/ notices'[k].kind = "report" /\ notices'[k].at = now
  <2>1. notices \in Seq(Message)
        BY DEF TypeOK
  <2>2. CASE notices' = notices
        BY <2>1, <2>2 DEF Meant
  <2>3. ASSUME NEW v \in {"ok", "broken"}, notices' = Append(notices, Part(v))
        PROVE  /\ notices' \in Seq(Message)
               /\ \A k \in DOMAIN notices' :
                    \/ k \in DOMAIN notices /\ notices'[k] = notices[k]
                    \/ notices'[k] = Part(v)
        BY <1>5, <2>1, <2>3, AppendElements
  <2> QED BY <1>5, <1>6, <2>2, <2>3 DEF Meant
<1> QED BY <1>1, <1>3, <1>4, <1>7 DEF ReportsBase, TypeOK

LEMMA LocalChangeStep ==
  ASSUME Typed, NEW n \in ROLES, NEW v \in Value, NEW told \in BOOLEAN, LocalChange(n, v, told)
  PROVE  Typed'
<1> USE DEF Typed
<1>1. Changed(n, v, told) /\ UNCHANGED <<link, obs, intents, calls, boots, inbox, answers>>
      BY DEF LocalChange
<1>2. /\ now' \in Time /\ since' \in [ROLES -> SUBSET Value]
      /\ station' \in [value: [ROLES -> Value], has: Stations, rw: SUBSET ROLES, told: SUBSET ROLES]
      /\ notices' \in Seq(Message) /\ Meant'
      BY <1>1, ChangedStep
<1>3. ops' \in 0..MaxOps
      BY BoundsAssumption DEF LocalChange, May, TypeOK
<1> QED BY <1>1, <1>2, <1>3 DEF TypeOK

LEMMA StationBootsStep ==
  ASSUME Typed, NEW rw \in SUBSET station.has, StationBoots(rw)
  PROVE  /\ Typed'
         /\ station'.value = station.value
         /\ \A k \in DOMAIN notices' :
              \/ k \in DOMAIN notices /\ notices'[k] = notices[k]
              \/ notices'[k].kind = "boot" /\ notices'[k].at = now
<1> USE DEF Typed
<1>1. rw \in SUBSET ROLES
      BY StationsAssumption DEF TypeOK
<1>2. /\ station' \in [value: [ROLES -> Value], has: Stations, rw: SUBSET ROLES, told: SUBSET ROLES]
      /\ station'.value = station.value
      BY <1>1 DEF StationBoots, TypeOK
<1> DEFINE m == Told("boot", Some, "ok")
<1>3. m \in Message /\ m.kind = "boot" /\ m.at = now
  <2>1. m \in Message
        BY SomeRole, ToldMessages DEF TypeOK, Time
  <2> QED BY <2>1 DEF Told
<1>4. notices' = Append(notices, m) /\ inbox' = <<>>
      BY DEF StationBoots
<1> HIDE DEF m
<1>5. /\ notices' \in Seq(Message)
      /\ \A k \in DOMAIN notices' :
           \/ k \in DOMAIN notices /\ notices'[k] = notices[k]
           \/ notices'[k] = m
      BY <1>3, <1>4, AppendElements DEF TypeOK
<1>6. Meant' /\ inbox' \in Seq(Request)
      BY <1>3, <1>4, <1>5 DEF Meant
<1>7. ops' \in 0..MaxOps
      BY BoundsAssumption DEF StationBoots, May, TypeOK
<1>8. Typed'
      BY <1>2, <1>5, <1>6, <1>7 DEF StationBoots, TypeOK
<1> QED BY <1>2, <1>3, <1>5, <1>8

-----------------------------------------------------------------------------
(* The state stays well typed *)

LEMMA TypedInit ==
  ASSUME Init PROVE Typed
<1>1. link \in [up: BOOLEAN, gen: Nat, registered: BOOLEAN, epoch: Time, writable: SUBSET ROLES]
      BY DEF Init, Time
<1>2. boots \in BootsSet
      BY DEF Init, Quiescent, BootsSet
<1>3. station \in [value: [ROLES -> Value], has: Stations, rw: SUBSET ROLES, told: SUBSET ROLES]
      BY StationsAssumption DEF Init, Value
<1>4. /\ now \in Time /\ ops \in 0..MaxOps
      /\ obs \in [ROLES -> Observation \cup {None}] /\ intents \in [ROLES -> Intent \cup {None}]
      /\ since \in [ROLES -> SUBSET Value]
      BY BoundsAssumption DEF Init, Time
<1>5. calls \in Seq(Call) /\ inbox \in Seq(Request) /\ answers \in Seq(Message)
      /\ notices \in Seq(Message) /\ Meant
      BY DEF Init, Meant
<1> QED BY <1>1, <1>2, <1>3, <1>4, <1>5 DEF Typed, TypeOK, BootsSet

LEMMA TypedStep ==
  ASSUME Typed, [Next]_vars PROVE Typed'
<1>1. CASE System
  <2>1. CASE Send \/ Refused \/ TimedOut
        BY <2>1, SendStep, RefusedStep, TimedOutStep
  <2>2. CASE LateAnswer \/ WriteAnswered \/ ReadAnswered \/ ReportAnswered
        BY <2>2, LateAnswerStep, WriteAnsweredStep, ReadAnsweredStep, ReportAnsweredStep
  <2>3. CASE Boot \/ Event
        BY <2>3, BootStep, EventStep
  <2>4. CASE Initialize \/ (\E n \in ROLES : InitialRead(n))
        BY <2>4, QueueSteps
  <2>5. CASE Report \/ Inventory \/ NoInventory
        BY <2>5, InventorySteps
  <2>6. CASE CarriesOut \/ Tells \/ ReportsBase
        BY <2>6, CarriesOutStep, TellsStep, ReportsBaseStep
  <2> QED BY <1>1, <2>1, <2>2, <2>3, <2>4, <2>5, <2>6 DEF System
<1>2. CASE World
  <2>1. station.has \subseteq ROLES
        BY StationsAssumption DEF Typed, TypeOK
  <2>2. CASE Connect \/ Disconnect
        BY <2>2, LinkStep
  <2>3. CASE Poll
        BY <2>3, QueueSteps
  <2>4. ASSUME NEW n \in station.has, NEW v \in Value, Repeat(n, v) \/ Command(n, v)
        PROVE  Typed'
        BY <2>1, <2>4, RequestSteps
  <2>5. ASSUME NEW n \in station.has, NEW v \in Value, NEW told \in BOOLEAN, LocalChange(n, v, told)
        PROVE  Typed'
        BY <2>1, <2>5, LocalChangeStep
  <2>6. ASSUME NEW rw \in SUBSET station.has, StationBoots(rw) PROVE Typed'
        BY <2>6, StationBootsStep
  <2> QED BY <1>2, <2>2, <2>3, <2>4, <2>5, <2>6 DEF World
<1>3. CASE UNCHANGED vars
  <2>1. TypeOK'
        BY <1>3 DEF vars, Typed, TypeOK
  <2> QED BY <1>3, <2>1 DEF vars, Typed, Meant
<1> QED BY <1>1, <1>2, <1>3 DEF Next

(* TypeOK, for all stations, features and bounds: whatever callbacks, answers, *)
(* events, reads and timeouts interleave, the state keeps its shape.           *)
THEOREM TypeCorrect == Spec => []TypeOK
<1>1. Typed => TypeOK
      BY DEF Typed
<1> QED BY <1>1, TypedInit, TypedStep, PTL DEF Spec

-----------------------------------------------------------------------------
(* Inventory: what is writable is known from a report asked for since the boot *)

(* The report and the reads after it that the initialize task waits for. *)
Starting(k) == calls[k].heard /\ calls[k].kind \in {"report", "init"}
Booting ==
  /\ boots.stage \in {"ask", "collect"} => link.writable = {}
  /\ \A k \in DOMAIN calls : Starting(k) =>
       IF calls[k].kind = "report" THEN boots.stage = "ask" /\ boots.request # 0
                                   ELSE boots.stage = "read"
  /\ \A j, k \in DOMAIN calls : Starting(j) /\ Starting(k) => j = k

LEMMA CallIndices ==
  ASSUME Typed'
  PROVE  \A k \in DOMAIN calls' : k \in Nat \ {0}
<1>1. calls' \in Seq(Call)
      BY DEF Typed, TypeOK
<1> QED BY <1>1

LEMMA StayingStart ==
  ASSUME Typed, Typed', NEW first \in {0, 1}, NEW c \in Call,
         Moved(first, c),
         c.kind \notin {"report", "init"}
  PROVE  \A k \in DOMAIN calls' : Starting(k)' =>
           /\ k \in Nat \ {0} /\ k + first \in DOMAIN calls /\ Starting(k + first)
           /\ calls'[k].kind = calls[k + first].kind
<1> SUFFICES ASSUME NEW k \in DOMAIN calls', Starting(k)'
             PROVE  /\ k \in Nat \ {0} /\ k + first \in DOMAIN calls /\ Starting(k + first)
                    /\ calls'[k].kind = calls[k + first].kind
    OBVIOUS
<1>1. k \in Nat \ {0} /\ calls'[k].heard /\ calls'[k].kind \in {"report", "init"}
      BY CallIndices DEF Starting
<1>2. CASE calls'[k] = c
      BY <1>1, <1>2
<1>3. CASE /\ k + first \in DOMAIN calls
           /\ Tag(calls'[k]) = Tag(calls[k + first])
           /\ calls'[k].heard => calls[k + first].heard
      BY <1>1, <1>3 DEF Starting, Tag
<1> QED BY <1>2, <1>3 DEF Moved

LEMMA BootingKept ==
  ASSUME Typed, Typed', Booting, NEW first \in {0, 1}, NEW c \in Call,
         Moved(first, c), c.kind \notin {"report", "init"},
         boots'.stage = boots.stage, boots'.request = boots.request,
         link'.writable = link.writable
  PROVE  Booting'
<1>1. \A k \in DOMAIN calls' : Starting(k)' =>
        /\ k \in Nat \ {0} /\ k + first \in DOMAIN calls /\ Starting(k + first)
        /\ calls'[k].kind = calls[k + first].kind
      BY StayingStart
<1>2. \A k \in DOMAIN calls' : Starting(k)' =>
       IF calls'[k].kind = "report" THEN boots'.stage = "ask" /\ boots'.request # 0
                                    ELSE boots'.stage = "read"
      BY <1>1 DEF Booting
<1>3. ASSUME NEW j \in DOMAIN calls', NEW k \in DOMAIN calls', Starting(j)', Starting(k)'
      PROVE  j = k
  <2>1. j + first = k + first
        BY <1>1, <1>3 DEF Booting
  <2> QED BY <1>1, <1>3, <2>1
<1>4. boots'.stage \in {"ask", "collect"} => link'.writable = {}
      BY DEF Booting
<1> QED BY <1>2, <1>3, <1>4 DEF Booting

(* The call the initialize task waited for leaves: it waits for none. *)
LEMMA StartLeaves ==
  ASSUME Typed, Typed', Booting, NEW c \in Call, c.kind \notin {"report", "init"},
         Moved(1, c), calls # <<>>, Starting(1)
  PROVE  \A k \in DOMAIN calls' : ~Starting(k)'
<1>1. \A k \in DOMAIN calls' : Starting(k)' =>
        k \in Nat \ {0} /\ k + 1 \in DOMAIN calls /\ Starting(k + 1)
      BY StayingStart
<1>2. 1 \in DOMAIN calls
      BY DEF Typed, TypeOK
<1> QED BY <1>1, <1>2 DEF Booting

LEMMA BootingAlone ==
  ASSUME \A k \in DOMAIN calls' : ~Starting(k)',
         boots'.stage \in {"ask", "collect"} => link'.writable = {}
  PROVE  Booting'
BY DEF Booting

LEMMA BootingLeaves ==
  ASSUME Typed, Typed', Booting, TimedOut \/ ReadAnswered \/ ReportAnswered
  PROVE  Booting'
<1>1. PICK c \in Call : c.kind \notin {"report", "init"}
      BY NewCall
<1>2. Moved(1, c)
      BY TimedOutStep, ReadAnsweredStep, ReportAnsweredStep
<1>3. calls # <<>> /\ link' = link
      BY DEF TimedOut, ReadAnswered, ReportAnswered, Answers, AnswersTop
<1>4. Top \in Call /\ Top = calls[1] /\ 1 \in DOMAIN calls
      BY <1>3, TopIsCall DEF Typed
<1>5. CASE ~Starting(1)
  <2>1. boots' = boots
    <3>1. ~Top.heard \/ Top.kind \notin {"report", "init"}
          BY <1>4, <1>5 DEF Starting
    <3>2. CASE TimedOut
          BY <3>1, <3>2 DEF TimedOut
    <3>3. CASE ReadAnswered
          BY <3>1, <3>3 DEF ReadAnswered
    <3>4. CASE ReportAnswered
          BY <3>1, <3>4 DEF ReportAnswered, Answers
    <3> QED BY <3>2, <3>3, <3>4
  <2> QED BY <1>1, <1>2, <1>3, <2>1, BootingKept
<1>6. CASE Starting(1)
  <2>1. \A k \in DOMAIN calls' : ~Starting(k)'
        BY <1>1, <1>2, <1>3, <1>6, StartLeaves
  <2>2. IF Top.kind = "report" THEN boots.stage = "ask" ELSE boots.stage = "read"
        BY <1>4, <1>6 DEF Booting
  <2>3. boots'.stage \in {"ask", "collect"} => boots.stage \in {"ask", "collect"}
    <3>1. /\ Quiescent.stage = "none" /\ NextStage.stage \in {boots.stage, "none"}
          /\ [boots EXCEPT !.stage = "collect"].stage = "collect"
          BY DEF Quiescent, NextStage, Typed, TypeOK
    <3>2. CASE Top.kind = "report"
          BY <2>2, <3>2
    <3>3. CASE Top.kind # "report"
      <4>1. Top.kind = "init"
            BY <1>4, <1>6, <3>3 DEF Starting
      <4>2. boots' = boots \/ boots' = NextStage
            BY <1>4, <4>1 DEF TimedOut, ReadAnswered, ReportAnswered, Answers
      <4> QED BY <3>1, <4>2
    <3> QED BY <3>2, <3>3
  <2>4. boots'.stage \in {"ask", "collect"} => link'.writable = {}
        BY <1>3, <2>3 DEF Booting
  <2> QED BY <2>1, <2>4, BootingAlone
<1> QED BY <1>5, <1>6

(* A call joins that the initialize task waits for, when it waits for no other. *)
LEMMA BootingJoins ==
  ASSUME Typed, Typed', Booting, NEW c \in Call, calls' = Append(calls, c),
         \A k \in DOMAIN calls : ~Starting(k),
         IF c.kind = "report" THEN boots'.stage = "ask" /\ boots'.request # 0
                              ELSE boots'.stage = "read",
         boots'.stage = boots.stage, link'.writable = link.writable
  PROVE  Booting'
<1>1. \A k \in DOMAIN calls' :
        \/ k \in DOMAIN calls /\ calls'[k] = calls[k]
        \/ k = Len(calls) + 1 /\ calls'[k] = c
  <2>1. calls \in Seq(Call)
        BY DEF Typed, TypeOK
  <2> QED BY <2>1, AppendElements
<1>2. \A k \in DOMAIN calls' : Starting(k)' => k = Len(calls) + 1 /\ calls'[k] = c
      BY <1>1 DEF Starting
<1>3. \A j, k \in DOMAIN calls' : Starting(j)' /\ Starting(k)' => j = k
      BY <1>2
<1>4. ASSUME NEW k \in DOMAIN calls', Starting(k)'
      PROVE  IF calls'[k].kind = "report" THEN boots'.stage = "ask" /\ boots'.request # 0
                                          ELSE boots'.stage = "read"
  <2>1. calls'[k] = c
        BY <1>2, <1>4
  <2> QED BY <2>1
<1>5. boots'.stage \in {"ask", "collect"} => link'.writable = {}
      BY DEF Booting
<1> QED BY <1>3, <1>4, <1>5 DEF Booting

LEMMA BootingQueues ==
  ASSUME Typed, Typed', Booting, Initialize \/ (\E n \in ROLES : InitialRead(n))
  PROVE  Booting'
<1>1. CASE Initialize
  <2>1. PICK c \in Call : c = QueuedCall("report", Some, 0) /\ calls' = Append(calls, c)
        BY <1>1, SomeRole, QueuedCalls DEF Initialize, Typed
  <2>2. c.kind = "report" /\ link' = link
        BY <1>1, <2>1 DEF QueuedCall, Initialize
  <2>3. boots'.stage = "ask" /\ boots.stage = "ask" /\ boots.request = 0 /\ boots'.request = FreshCall
        BY <1>1 DEF Initialize, Typed, TypeOK
  <2>4. boots'.request # 0
        BY <2>3, FreshAreFree DEF Typed
  <2>5. \A k \in DOMAIN calls : ~Starting(k)
        BY <2>3 DEF Booting
  <2> QED BY <2>1, <2>2, <2>3, <2>4, <2>5, BootingJoins
<1>2. ASSUME NEW n \in ROLES, InitialRead(n) PROVE Booting'
  <2>1. PICK c \in Call : c = QueuedCall("init", n, 0) /\ calls' = Append(calls, c)
        BY <1>2, QueuedCalls DEF InitialRead, Typed
  <2>2. c.kind = "init" /\ link' = link
        BY <1>2, <2>1 DEF QueuedCall, InitialRead
  <2>3. boots'.stage = "read" /\ boots.stage = "read"
        BY <1>2 DEF InitialRead, Typed, TypeOK
  <2>4. \A k \in DOMAIN calls : ~Starting(k)
        BY <1>2, <2>3 DEF InitialRead, Booting, Starting
  <2> QED BY <2>1, <2>2, <2>3, <2>4, BootingJoins
<1> QED BY <1>1, <1>2

LEMMA BootingInventory ==
  ASSUME Typed, Typed', Booting, Report \/ Inventory \/ NoInventory
  PROVE  Booting'
<1>1. calls' = calls
      BY DEF Report, Inventory, NoInventory
<1>2. \A k \in DOMAIN calls' : Starting(k)' => Starting(k)
      BY <1>1 DEF Starting
<1>3. CASE Report
  <2>1. link' = link /\ boots'.stage = boots.stage /\ boots'.request = boots.request
        BY <1>3 DEF Report, Typed, TypeOK
  <2>2. boots'.stage \in {"ask", "collect"} => link'.writable = {}
        BY <2>1 DEF Booting
  <2> QED BY <1>1, <1>2, <2>1, <2>2 DEF Booting
<1>4. CASE Inventory \/ NoInventory
  <2>1. boots.stage = "collect" /\ boots'.stage \in {"none", "read"}
    <3>1. CASE Inventory
          BY <3>1 DEF Inventory, Quiescent
    <3>2. CASE NoInventory
          BY <3>2 DEF NoInventory, Quiescent
    <3> QED BY <1>4, <3>1, <3>2
  <2>2. \A k \in DOMAIN calls' : ~Starting(k)'
        BY <1>1, <1>2, <2>1 DEF Booting
  <2> QED BY <2>1, <2>2, BootingAlone
<1> QED BY <1>3, <1>4

LEMMA BootingRestarts ==
  ASSUME Typed, Typed', Booting, Boot \/ Connect \/ Disconnect
  PROVE  Booting'
<1>1. CASE Boot
  <2>1. \A k \in DOMAIN calls' : calls'[k].heard => calls'[k].kind \in {"write", "confirm"}
        BY <1>1, BootStep
  <2>2. link'.writable = {}
        BY <1>1 DEF Boot, Typed, TypeOK
  <2>3. \A k \in DOMAIN calls' : ~Starting(k)'
        BY <2>1 DEF Starting
  <2> QED BY <2>2, <2>3, BootingAlone
<1>2. CASE Connect \/ Disconnect
  <2>1. calls' = <<>> /\ boots' = Quiescent
        BY <1>2 DEF Connect, Disconnect
  <2> QED BY <2>1, BootingAlone DEF Quiescent
<1> QED BY <1>1, <1>2

-----------------------------------------------------------------------------
(* The call lock over all steps *)

(* A call that may join the queue in this step. *)
Joining(c) ==
  /\ c \in Call /\ c.cid = FreshCall /\ c.at = now /\ c.gen = link.gen /\ ~c.sent
  /\ c.kind = "write" => c.id = FreshId
  /\ c.kind = "report" => Initialize
  /\ c.kind = "init" => \E n \in ROLES : InitialRead(n)

(* What becomes of the intents, but for a new command and a dispatch. *)
Decided(first) ==
  \/ Restated(first)
  \/ \E n \in ROLES, v \in Value : Command(n, v)
  \/ Send /\ Top.kind = "write"

LEMMA InvalidatedRestates ==
  ASSUME TypeOK, intents' = Invalidated PROVE Restated(0)
<1>1. \A n \in ROLES :
        \/ intents'[n] = intents[n]
        \/ /\ intents[n] # None /\ intents[n] \in Intent
           /\ intents'[n] = [intents[n] EXCEPT !.status = "superseded"]
      BY InvalidatedIntents DEF TypeOK, Intents
<1>2. ASSUME NEW n \in ROLES, intents'[n] # intents[n]
      PROVE  /\ intents[n] # None /\ intents[n] \in Intent /\ intents'[n] \in Intent
             /\ intents'[n].value = intents[n].value /\ intents'[n].gen = intents[n].gen
             /\ intents'[n].id = intents[n].id /\ intents'[n].dispatched = intents[n].dispatched
             /\ intents'[n].status = "superseded"
  <2>1. /\ intents[n] # None /\ intents[n] \in Intent
        /\ intents'[n] = [intents[n] EXCEPT !.status = "superseded"]
        BY <1>1, <1>2
  <2>2. "superseded" \in Status
        BY DEF Status
  <2>3. intents'[n] \in Intent
        BY <2>1, <2>2, IntentUpdates
  <2> QED BY <2>1, <2>3 DEF Intent
<1> QED BY <1>2 DEF Restated

LEMMA CallsStep ==
  ASSUME Typed, Next
  PROVE  \E first \in {0, 1}, c \in Call : Joining(c) /\ Moved(first, c) /\ Decided(first)
<1>1. PICK d \in Call : /\ d.kind = "confirm" /\ d.cid = FreshCall /\ d.at = now
                       /\ d.gen = link.gen /\ ~d.sent
      BY NewCall
<1>2. Joining(d)
      BY <1>1 DEF Joining
<1>3. ASSUME calls' = calls \/ calls' = <<>>, Decided(0)
      PROVE  \E first \in {0, 1}, c \in Call : Joining(c) /\ Moved(first, c) /\ Decided(first)
  <2>1. Moved(0, d)
        BY <1>3, CallsMove DEF Typed, TypeOK
  <2> QED BY <1>2, <1>3, <2>1
<1>4. CASE Send
  <2>1. Moved(0, d)
        BY <1>4, SendStep
  <2>2. Decided(0)
        BY <1>4, UnchangedRestates DEF Decided, Send
  <2> QED BY <1>2, <2>1, <2>2
<1>5. CASE Boot
  <2>1. Moved(0, d)
        BY <1>5, BootStep
  <2>2. Decided(0)
        BY <1>5, InvalidatedRestates DEF Decided, Boot, Typed
  <2> QED BY <1>2, <2>1, <2>2
<1>6. CASE Refused \/ TimedOut \/ ReadAnswered \/ ReportAnswered
  <2>1. Moved(1, d)
        BY <1>6, RefusedStep, TimedOutStep, ReadAnsweredStep, ReportAnsweredStep
  <2>2. Decided(1)
    <3>1. CASE Refused \/ TimedOut \/ ReadAnswered
          BY <3>1, RefusedStep, TimedOutStep, ReadAnsweredStep DEF Decided
    <3>2. CASE ReportAnswered
          BY <3>2, UnchangedRestates DEF Decided, ReportAnswered
    <3> QED BY <1>6, <3>1, <3>2
  <2> QED BY <1>2, <2>1, <2>2
<1>7. ASSUME NEW c \in Call, Joining(c), calls' = Append(calls, c), Decided(0)
      PROVE  \E first \in {0, 1}, b \in Call : Joining(b) /\ Moved(first, b) /\ Decided(first)
  <2>1. Moved(0, c)
        BY <1>7, JoiningMoves DEF Typed, TypeOK
  <2> QED BY <1>7, <2>1
<1>20. ASSUME intents' = intents PROVE Decided(0)
       BY <1>20, UnchangedRestates DEF Decided
<1>8. CASE WriteAnswered
  <2>1. /\ calls # <<>> /\ Top \in Call
        /\ \/ calls' = Tail(calls)
           \/ calls' = Tail(Queued("confirm", Top.name, Top.id))
        /\ Decided(1)
        BY <1>8, WriteAnsweredStep, TopIsCall DEF Typed, Decided
  <2>2. CASE calls' = Tail(calls)
    <3>1. Moved(1, d)
          BY <2>1, <2>2, CallsMove DEF Typed, TypeOK
    <3> QED BY <1>2, <2>1, <3>1
  <2>3. CASE calls' = Tail(Queued("confirm", Top.name, Top.id))
    <3>1. PICK n \in ROLES, id \in Nat : n = Top.name /\ id = Top.id
          BY <2>1 DEF Call
    <3>2. PICK c \in Call : c = QueuedCall("confirm", n, id) /\ Queued("confirm", n, id) = Append(calls, c)
          BY QueuedCalls DEF Typed
    <3>3. calls' = Tail(Append(calls, c))
          BY <2>3, <3>1, <3>2
    <3>4. Moved(1, c)
          BY <2>1, <3>3, JoiningMoves DEF Typed, TypeOK
    <3>5. Joining(c)
          BY <3>2 DEF Joining, QueuedCall
    <3> QED BY <2>1, <3>4, <3>5
  <2> QED BY <2>1, <2>2, <2>3
<1>9. CASE Initialize
  <2>1. PICK c \in Call : c = QueuedCall("report", Some, 0) /\ calls' = Append(calls, c)
        BY <1>9, SomeRole, QueuedCalls DEF Initialize, Typed
  <2>2. Joining(c) /\ intents' = intents
        BY <1>9, <2>1 DEF Joining, QueuedCall, Initialize
  <2> QED BY <1>7, <1>20, <2>1, <2>2
<1>10. ASSUME NEW n \in ROLES, InitialRead(n)
       PROVE  \E first \in {0, 1}, c \in Call : Joining(c) /\ Moved(first, c) /\ Decided(first)
  <2>1. PICK c \in Call : c = QueuedCall("init", n, 0) /\ calls' = Append(calls, c)
        BY <1>10, QueuedCalls DEF InitialRead, Typed
  <2>2. Joining(c) /\ intents' = intents
        BY <1>10, <2>1 DEF Joining, QueuedCall, InitialRead
  <2> QED BY <1>7, <1>20, <2>1, <2>2
<1>11. CASE Poll
  <2>1. PICK c \in Call : c = QueuedCall("poll", "ChargingEnabled", 0) /\ calls' = Append(calls, c)
        BY <1>11, QueuedCalls DEF Poll, Typed, ROLES
  <2>2. Joining(c) /\ intents' = intents
        BY <1>11, <2>1 DEF Joining, QueuedCall, Poll
  <2> QED BY <1>7, <1>20, <2>1, <2>2
<1>12. ASSUME NEW n \in ROLES, NEW v \in Value, Repeat(n, v), calls' # calls
       PROVE  \E first \in {0, 1}, c \in Call : Joining(c) /\ Moved(first, c) /\ Decided(first)
  <2>1. intents[n] # None /\ intents[n] \in Intent
        BY <1>12 DEF Repeat, Typed, TypeOK
  <2>2. PICK id \in Nat : id = intents[n].id
        BY <2>1 DEF Intent
  <2>3. PICK c \in Call : c = QueuedCall("confirm", n, id) /\ Queued("confirm", n, id) = Append(calls, c)
        BY QueuedCalls DEF Typed
  <2>4. calls' = Append(calls, c)
        BY <1>12, <2>2, <2>3 DEF Repeat
  <2>5. Joining(c) /\ intents' = intents
        BY <1>12, <2>3 DEF Joining, QueuedCall, Repeat
  <2> QED BY <1>7, <1>20, <2>4, <2>5
<1>13. ASSUME NEW n \in ROLES, NEW v \in Value, Command(n, v), calls' # calls
       PROVE  \E first \in {0, 1}, c \in Call : Joining(c) /\ Moved(first, c) /\ Decided(first)
  <2>1. PICK id \in Nat : id = FreshId
        BY FreshAreFree DEF Typed
  <2>2. PICK c \in Call : c = QueuedCall("write", n, id) /\ Queued("write", n, id) = Append(calls, c)
        BY QueuedCalls DEF Typed
  <2>3. calls' = Append(calls, c)
        BY <1>13, <2>1, <2>2 DEF Command
  <2>4. Joining(c) /\ Decided(0)
        BY <1>13, <2>1, <2>2 DEF Joining, QueuedCall, Decided
  <2> QED BY <1>7, <2>3, <2>4
<1>14. ASSUME NEW n \in ROLES, NEW v \in Value, Repeat(n, v) \/ Command(n, v)
       PROVE  \E first \in {0, 1}, c \in Call : Joining(c) /\ Moved(first, c) /\ Decided(first)
  <2>1. Decided(0)
        BY <1>14, <1>20 DEF Repeat, Decided
  <2> QED BY <1>3, <1>12, <1>13, <1>14, <2>1
<1>15. CASE Event \/ Connect \/ Disconnect
  <2>1. calls' = calls \/ calls' = <<>>
        BY <1>15 DEF Event, Connect, Disconnect
  <2>2. Decided(0)
    <3>1. CASE Event
          BY <3>1, EventStep DEF Decided
    <3>2. CASE Connect \/ Disconnect
      <4>1. intents' = Invalidated
            BY <3>2 DEF Connect, Disconnect
      <4> QED BY <4>1, InvalidatedRestates DEF Decided, Typed
    <3> QED BY <1>15, <3>1, <3>2
  <2> QED BY <1>3, <2>1, <2>2
<1>16. CASE LateAnswer \/ Report \/ Inventory \/ NoInventory \/ CarriesOut \/ Tells \/ ReportsBase
  <2>1. calls' = calls /\ intents' = intents
        BY <1>16 DEF LateAnswer, Report, Inventory, NoInventory, CarriesOut, Tells, ReportsBase
  <2> QED BY <1>3, <1>20, <2>1
<1>17. CASE \/ \E n \in ROLES, v \in Value, told \in BOOLEAN : LocalChange(n, v, told)
            \/ \E rw \in SUBSET station.has : StationBoots(rw)
  <2>1. calls' = calls /\ intents' = intents
        BY <1>17 DEF LocalChange, StationBoots
  <2> QED BY <1>3, <1>20, <2>1
<1>18. CASE System
       BY <1>4, <1>5, <1>6, <1>8, <1>9, <1>10, <1>15, <1>16, <1>18 DEF System
<1>19. CASE World
  <2>1. station.has \subseteq ROLES
        BY StationsAssumption DEF Typed, TypeOK
  <2> QED BY <1>11, <1>14, <1>15, <1>17, <1>19, <2>1 DEF World
<1> QED BY <1>18, <1>19 DEF Next

LEMMA BootingStep ==
  ASSUME Typed, Booting, [Next]_vars PROVE Booting'
<1>1. Typed'
      BY TypedStep
<1>2. CASE UNCHANGED vars
      BY <1>2 DEF vars, Booting, Starting
<1>3. CASE TimedOut \/ ReadAnswered \/ ReportAnswered
      BY <1>1, <1>3, BootingLeaves
<1>4. CASE Initialize \/ (\E n \in ROLES : InitialRead(n))
      BY <1>1, <1>4, BootingQueues
<1>5. CASE Report \/ Inventory \/ NoInventory
      BY <1>1, <1>5, BootingInventory
<1>6. CASE Boot \/ Connect \/ Disconnect
      BY <1>1, <1>6, BootingRestarts
<1>7. ASSUME Next, boots' = boots, link' = link,
             ~(Initialize \/ (\E n \in ROLES : InitialRead(n)))
      PROVE  Booting'
  <2>1. PICK first \in {0, 1}, c \in Call : Joining(c) /\ Moved(first, c)
        BY <1>7, CallsStep
  <2>2. c.kind \notin {"report", "init"}
        BY <1>7, <2>1 DEF Joining
  <2> QED BY <1>1, <1>7, <2>1, <2>2, BootingKept
<1>8. CASE \/ Send \/ Refused \/ LateAnswer \/ WriteAnswered \/ Event \/ CarriesOut \/ Tells
           \/ ReportsBase \/ Poll
  <2>1. boots' = boots /\ link' = link
        BY <1>8 DEF Send, Refused, LateAnswer, WriteAnswered, Event, CarriesOut, Tells,
                    ReportsBase, Poll
  <2>2. Next
        BY <1>8 DEF Next, System, World
  <2> QED BY <1>4, <1>7, <2>1, <2>2
<1>9. ASSUME NEW n \in station.has, NEW v \in Value, Next,
             Repeat(n, v) \/ Command(n, v) \/ \E told \in BOOLEAN : LocalChange(n, v, told)
      PROVE  boots' = boots /\ link' = link
      BY <1>9 DEF Repeat, Command, LocalChange
<1>10. ASSUME NEW rw, StationBoots(rw) PROVE boots' = boots /\ link' = link
       BY <1>10 DEF StationBoots
<1>11. CASE System
       BY <1>3, <1>4, <1>5, <1>6, <1>8, <1>11 DEF System
<1>12. CASE World /\ ~(Connect \/ Disconnect \/ Poll)
  <2>1. Next
        BY <1>12 DEF Next
  <2>2. boots' = boots /\ link' = link
        BY <1>9, <1>10, <1>12, <2>1 DEF World
  <2> QED BY <1>4, <1>7, <2>1, <2>2
<1> QED BY <1>2, <1>6, <1>8, <1>11, <1>12 DEF Next

-----------------------------------------------------------------------------
(* No stale write *)

(* Each command has at most one write at the call lock ... *)
Distinct ==
  \A j, k \in DOMAIN calls :
    calls[j].kind = "write" /\ calls[k].kind = "write" /\ calls[j].id = calls[k].id => j = k
(* ... and is undecided while it has one. *)
Undecided ==
  \A k \in DOMAIN calls :
    calls[k].kind = "write" /\ Current(calls[k]) =>
      intents[calls[k].name].status \in {"pending", "superseded"}

(* A write at the lock was there before, or is that of the newest command. *)
LEMMA StayingWrite ==
  ASSUME Typed, Typed', NEW first \in {0, 1}, NEW c \in Call, Joining(c), Moved(first, c),
         NEW k \in DOMAIN calls', calls'[k].kind = "write"
  PROVE  /\ k \in Nat \ {0}
         /\ \/ /\ k + first \in DOMAIN calls /\ calls[k + first] \in Call
               /\ calls[k + first].kind = "write"
               /\ calls'[k].id = calls[k + first].id /\ calls'[k].name = calls[k + first].name
            \/ k + first = Len(calls) + 1 /\ calls'[k].id = FreshId
<1>1. k \in Nat \ {0}
      BY CallIndices
<1>2. CASE k + first \in DOMAIN calls /\ Tag(calls'[k]) = Tag(calls[k + first])
  <2>1. calls[k + first] \in Call
    <3>1. calls \in Seq(Call)
          BY DEF Typed, TypeOK
    <3> QED BY <1>2, <3>1
  <2>2. /\ calls'[k].kind = calls[k + first].kind /\ calls'[k].name = calls[k + first].name
        /\ calls'[k].id = calls[k + first].id
        BY <1>2 DEF Tag
  <2> QED BY <1>1, <1>2, <2>1, <2>2
<1>3. CASE k + first = Len(calls) + 1 /\ calls'[k] = c
      BY <1>1, <1>3 DEF Joining
<1> QED BY <1>2, <1>3 DEF Moved

LEMMA DistinctStep ==
  ASSUME Typed, Typed', Distinct, NEW first \in {0, 1}, NEW c \in Call, Joining(c), Moved(first, c)
  PROVE  Distinct'
<1> SUFFICES ASSUME NEW j \in DOMAIN calls', NEW k \in DOMAIN calls', calls'[j].kind = "write",
                    calls'[k].kind = "write", calls'[j].id = calls'[k].id
             PROVE  j = k
    BY DEF Distinct
<1>1. \A i \in DOMAIN calls : calls[i].id # FreshId
      BY FreshAreFree DEF Typed
<1>2. j + first = k + first
  <2>1. /\ \/ /\ j + first \in DOMAIN calls /\ calls[j + first].kind = "write"
              /\ calls'[j].id = calls[j + first].id
           \/ j + first = Len(calls) + 1 /\ calls'[j].id = FreshId
        /\ \/ /\ k + first \in DOMAIN calls /\ calls[k + first].kind = "write"
              /\ calls'[k].id = calls[k + first].id
           \/ k + first = Len(calls) + 1 /\ calls'[k].id = FreshId
        BY StayingWrite
  <2> QED BY <1>1, <2>1 DEF Distinct
<1>3. j \in Nat /\ k \in Nat
      BY StayingWrite
<1> QED BY <1>2, <1>3

LEMMA UndecidedStep ==
  ASSUME Typed, Typed', Distinct, Undecided,
         NEW first \in {0, 1}, NEW c \in Call, Joining(c), Moved(first, c), Decided(first)
  PROVE  Undecided'
<1> SUFFICES ASSUME NEW k \in DOMAIN calls', calls'[k].kind = "write", Current(calls[k])'
             PROVE  intents'[calls'[k].name].status \in {"pending", "superseded"}
    BY DEF Undecided
<1> DEFINE n == calls'[k].name
<1>1. n \in ROLES /\ intents'[n] # None /\ intents'[n].id = calls'[k].id
  <2>1. calls'[k] \in Call
    <3>1. calls' \in Seq(Call)
          BY DEF Typed, TypeOK
    <3> QED BY <3>1
  <2>2. n \in ROLES
        BY <2>1 DEF Call
  <2>3. intents'[n] # None /\ intents'[n].id = calls'[k].id
        BY DEF Current
  <2> QED BY <2>2, <2>3
<1>2. /\ \A m \in ROLES : intents[m] # None => intents[m].id # FreshId
      /\ \A i \in DOMAIN calls : calls[i].id # FreshId
      BY FreshAreFree DEF Typed
<1>3. /\ k \in Nat \ {0}
      /\ \/ /\ k + first \in DOMAIN calls /\ calls[k + first].kind = "write"
            /\ calls'[k].id = calls[k + first].id /\ n = calls[k + first].name
         \/ calls'[k].id = FreshId
      BY StayingWrite
<1> HIDE DEF n
<1>4. ASSUME k + first \in DOMAIN calls, calls[k + first].kind = "write",
             calls'[k].id = calls[k + first].id, n = calls[k + first].name,
             intents[n] # None, intents[n].id = calls'[k].id
      PROVE  intents[n].status \in {"pending", "superseded"}
      BY <1>4 DEF Undecided, Current
<1>5. CASE Restated(first)
  <2>1. intents[n] # None /\ intents[n].id = intents'[n].id
        BY <1>1, <1>5 DEF Restated
  <2>2. /\ k + first \in DOMAIN calls /\ calls[k + first].kind = "write"
        /\ calls'[k].id = calls[k + first].id /\ n = calls[k + first].name
        BY <1>1, <1>2, <1>3, <2>1
  <2>3. intents[n].status \in {"pending", "superseded"}
        BY <1>1, <1>4, <2>1, <2>2
  <2>4. ~(first = 1 /\ calls # <<>> /\ Top.kind = "write" /\ Top.id = intents[n].id)
    <3> SUFFICES ASSUME first = 1, calls # <<>>, Top.kind = "write", Top.id = intents[n].id
                 PROVE  FALSE
        OBVIOUS
    <3>1. 1 \in DOMAIN calls /\ calls[1].kind = "write" /\ calls[1].id = intents[n].id
          BY TopIsCall DEF Typed
    <3>2. k + 1 = 1
          BY <1>1, <2>1, <2>2, <3>1 DEF Distinct
    <3> QED BY <1>3, <3>2
  <2>5. intents'[n] = intents[n] \/ intents'[n].status = "superseded"
        BY <1>1, <1>5, <2>3, <2>4 DEF Restated
  <2> QED BY <2>3, <2>5 DEF n
<1>6. ASSUME NEW m \in ROLES, NEW v \in Value, Command(m, v)
      PROVE  intents'[n].status \in {"pending", "superseded"}
  <2>1. PICK s : /\ intents' = [intents EXCEPT ![m] = [value |-> v, gen |-> link.gen, id |-> FreshId,
                                                      status |-> s, dispatched |-> None]]
                 /\ s = "pending" \/ calls' = calls
        BY <1>6 DEF Command
  <2>2. m = n => intents'[n].id = FreshId /\ intents'[n].status = s
        BY <2>1 DEF Typed, TypeOK
  <2>3. m # n => intents'[n] = intents[n]
        BY <1>1, <2>1 DEF Typed, TypeOK
  <2>4. CASE m = n
    <3>1. calls' # calls
          BY <1>1, <1>2, <2>2, <2>4
    <3> QED BY <2>1, <2>2, <2>4, <3>1
  <2>5. CASE m # n
    <3>1. intents[n] # None /\ intents[n].id = calls'[k].id
          BY <1>1, <2>3, <2>5
    <3>2. calls'[k].id # FreshId
          BY <1>1, <1>2, <3>1
    <3> QED BY <1>3, <1>4, <2>3, <2>5, <3>1, <3>2
  <2> QED BY <2>4, <2>5
<1>7. CASE Send /\ Top.kind = "write"
  <2>1. /\ intents[Top.name] \in Intent /\ intents[Top.name] # None /\ Top.name \in ROLES
        /\ intents' = [intents EXCEPT ![Top.name] = [intents[Top.name] EXCEPT !.dispatched = now + 1]]
        BY <1>7, SendStep, TopIsCall DEF Send, Typed, Call
  <2>2. intents'[n] = IF n = Top.name THEN [intents[n] EXCEPT !.dispatched = now + 1] ELSE intents[n]
        BY <1>1, <2>1 DEF Typed, TypeOK
  <2>3. intents[n] # None /\ intents[n].id = intents'[n].id /\ intents[n].status = intents'[n].status
        BY <1>1, <2>1, <2>2 DEF Intent
  <2>4. calls'[k].id # FreshId
        BY <1>1, <1>2, <2>3
  <2> QED BY <1>1, <1>3, <1>4, <2>3, <2>4 DEF n
<1> QED BY <1>5, <1>6, <1>7 DEF Decided, n

(* The invariant under which no write is stale. *)
CallsInvariant == Typed /\ Booting /\ Distinct /\ Undecided

LEMMA CallsInvariantHolds ==
  /\ Init => CallsInvariant
  /\ CallsInvariant /\ [Next]_vars => CallsInvariant'
<1>1. ASSUME Init PROVE CallsInvariant
  <2>1. calls = <<>> /\ boots = Quiescent
        BY <1>1 DEF Init
  <2>2. Booting /\ Distinct /\ Undecided
        BY <2>1 DEF Booting, Distinct, Undecided, Quiescent
  <2> QED BY <1>1, <2>2, TypedInit DEF CallsInvariant
<1>2. ASSUME CallsInvariant, [Next]_vars PROVE CallsInvariant'
  <2>1. Typed' /\ Booting'
        BY <1>2, TypedStep, BootingStep DEF CallsInvariant
  <2>2. CASE Next
    <3>1. PICK first \in {0, 1}, c \in Call : Joining(c) /\ Moved(first, c) /\ Decided(first)
          BY <1>2, <2>2, CallsStep DEF CallsInvariant
    <3>2. Distinct'
          BY <1>2, <2>1, <3>1, DistinctStep DEF CallsInvariant
    <3>3. Undecided'
          BY <1>2, <2>1, <3>1, UndecidedStep DEF CallsInvariant
    <3> QED BY <2>1, <3>2, <3>3 DEF CallsInvariant
  <2>3. CASE UNCHANGED vars
    <3>1. Distinct' /\ Undecided'
          BY <1>2, <2>3 DEF vars, CallsInvariant, Distinct, Undecided, Current
    <3> QED BY <2>1, <3>1 DEF CallsInvariant
  <2> QED BY <1>2, <2>2, <2>3
<1> QED BY <1>1, <1>2

(* What NoStaleWrite says of one step. *)
Dispatches(n) ==
  intents[n] # None /\ intents'[n] # None
    /\ intents'[n].dispatched # intents[n].dispatched /\ intents'[n].dispatched # None
Fresh(n) ==
  link.up /\ link.registered /\ intents[n].gen = link.gen /\ n \in link.writable
    /\ boots.stage \notin {"ask", "collect"} /\ intents[n].status \in Open

LEMMA OnlyFreshDispatch ==
  ASSUME CallsInvariant, [Next]_vars, NEW n \in ROLES, Dispatches(n)
  PROVE  Fresh(n)
<1>1. Next
      BY DEF vars, Dispatches
<1>2. \E first \in {0, 1} : Decided(first)
      BY <1>1, CallsStep DEF CallsInvariant
<1>3. ASSUME NEW first, Restated(first) PROVE FALSE
      BY <1>3 DEF Restated, Dispatches
<1>4. ASSUME NEW m \in ROLES, NEW v \in Value, Command(m, v) PROVE FALSE
  <2>1. PICK s : intents' = [intents EXCEPT ![m] = [value |-> v, gen |-> link.gen, id |-> FreshId,
                                                   status |-> s, dispatched |-> None]]
        BY <1>4 DEF Command
  <2> QED BY <2>1 DEF Dispatches, CallsInvariant, Typed, TypeOK
<1>5. Send /\ Top.kind = "write"
      BY <1>2, <1>3, <1>4 DEF Decided
<1>6. /\ calls # <<>> /\ ValidCall(Top) /\ Top = calls[1] /\ 1 \in DOMAIN calls /\ Top \in Call
      BY <1>5, TopIsCall DEF Send, CallsInvariant, Typed
<1>7. n = Top.name
  <2>1. intents' = [intents EXCEPT ![Top.name] = [intents[Top.name] EXCEPT !.dispatched = now + 1]]
        BY <1>5, SendStep DEF CallsInvariant
  <2> QED BY <2>1 DEF Dispatches, CallsInvariant, Typed, TypeOK
<1>8. intents[n].status \in {"pending", "superseded"}
      BY <1>5, <1>6, <1>7 DEF CallsInvariant, Undecided, ValidCall
<1>9. /\ intents[n].status # "superseded" /\ link.up /\ link.gen = intents[n].gen
      /\ link.registered /\ n \in link.writable
      BY <1>6, <1>7 DEF ValidCall, Valid, Live, Blocked
<1>10. boots.stage \notin {"ask", "collect"}
       BY <1>9 DEF CallsInvariant, Booting
<1> QED BY <1>8, <1>9, <1>10 DEF Fresh, Open

(* NoStaleWrite, for all stations, features and bounds: by the time a write has *)
(* the call lock its command may be replaced, its connection gone, the station  *)
(* rebooted and its inventory another; then it does not go out.                 *)
THEOREM NoStaleWriteHolds == Spec => NoStaleWrite
<1>1. ASSUME CallsInvariant, [Next]_vars
      PROVE  [\A n \in ROLES : intents[n] # None /\ intents'[n] # None
                /\ intents'[n].dispatched # intents[n].dispatched /\ intents'[n].dispatched # None
                => link.up /\ link.registered /\ intents[n].gen = link.gen /\ n \in link.writable
                   /\ boots.stage \notin {"ask", "collect"} /\ intents[n].status \in Open]_vars
      BY <1>1, OnlyFreshDispatch DEF Dispatches, Fresh
<1> QED BY <1>1, CallsInvariantHolds, PTL DEF Spec, NoStaleWrite

-----------------------------------------------------------------------------
(* What every step does to the clock, the values and the messages *)

Writes == Send /\ Top.kind = "write"
(* Between two changes of the station only a dispatch moves the clock. *)
ValuesStay == now' = now /\ since' = since /\ station'.value = station.value
ValuesMove ==
  \/ ValuesStay
  \/ Writes
  \/ intents' = intents /\ \E n \in ROLES, v \in Value, told \in BOOLEAN : Changed(n, v, told)

(* An observation comes from an event, or from the answer to the first call. *)
ObsMove ==
  \A n \in ROLES :
    \/ obs'[n] = obs[n]
    \/ /\ obs'[n] \in Observation /\ notices # <<>> /\ notices[1].kind = "event"
       /\ n = notices[1].name /\ obs'[n].at = notices[1].at
       /\ obs'[n].value \in {notices[1].value, "unknown"}
    \/ /\ obs'[n] \in Observation /\ calls # <<>> /\ answers # <<>> /\ calls[1].cid = answers[1].cid
       /\ n = calls[1].name /\ obs'[n].at = calls[1].at
       /\ obs'[n].value \in {answers[1].value, "unknown"}

NoticesMove ==
  \A k \in DOMAIN notices' :
    \/ \E j \in DOMAIN notices : notices'[k] = notices[j]
    \/ notices'[k].kind # "event" /\ notices'[k].at = now
    \/ /\ notices'[k].kind = "event" /\ notices'[k].at = now + 1 /\ now' = now + 1
       /\ notices'[k].name \in ROLES
       /\ notices'[k].value \in since'[notices'[k].name]

InboxMoves ==
  \A k \in DOMAIN inbox' :
    \/ \E j \in DOMAIN inbox : inbox'[k].cid = inbox[j].cid /\ inbox'[k].name = inbox[j].name
    \/ Send /\ inbox'[k].cid = Top.cid /\ inbox'[k].name = Top.name

AnswersMove ==
  \A k \in DOMAIN answers' :
    \/ \E j \in DOMAIN answers : answers'[k] = answers[j]
    \/ /\ inbox # <<>> /\ answers'[k].cid = inbox[1].cid
       /\ answers'[k].value \in Value => answers'[k].value = station.value[inbox[1].name]

LEMMA SystemEffects ==
  ASSUME Typed, System
  PROVE  ValuesMove /\ ObsMove
<1>1. CASE Send
  <2>1. obs' = obs
        BY <1>1 DEF Send
  <2>2. Writes \/ ValuesStay
        BY <1>1 DEF Send, Writes, ValuesStay
  <2> QED BY <2>1, <2>2 DEF ValuesMove, ObsMove
<1>2. CASE \/ Refused \/ TimedOut \/ LateAnswer \/ WriteAnswered \/ Boot \/ Initialize
           \/ ReportAnswered \/ Report \/ Inventory \/ NoInventory
           \/ (\E n \in ROLES : InitialRead(n)) \/ Tells \/ ReportsBase
  <2>1. UNCHANGED <<now, since, station, obs>>
        BY <1>2 DEF Refused, TimedOut, LateAnswer, WriteAnswered, Boot, Initialize,
                    ReportAnswered, Report, Inventory, NoInventory, InitialRead, Tells,
                    Unchanged, ReportsBase
  <2> QED BY <2>1 DEF ValuesMove, ValuesStay, ObsMove
<1>3. CASE ReadAnswered
  <2>1. /\ calls # <<>> /\ answers # <<>> /\ Top = calls[1] /\ M = answers[1] /\ Top.cid = M.cid
        /\ UNCHANGED <<now, since, station>>
        BY <1>3, TopIsCall DEF ReadAnswered, Answers, AnswersTop, M, Typed, TypeOK
  <2>2. \A n \in ROLES :
          \/ obs'[n] = obs[n]
          \/ /\ n = Top.name /\ obs'[n] \in Observation /\ obs'[n].at = Top.at
             /\ obs'[n].value \in {M.value, "unknown"}
        BY <1>3, ReadAnsweredStep
  <2> QED BY <2>1, <2>2 DEF ValuesMove, ValuesStay, ObsMove
<1>4. CASE Event
  <2>1. /\ notices # <<>> /\ Head(notices) = notices[1] /\ notices[1].kind = "event"
        /\ UNCHANGED <<now, since, station>>
        BY <1>4, NoticeTaken DEF Event, Arrives
  <2>2. \A n \in ROLES :
          \/ obs'[n] = obs[n]
          \/ /\ n = Head(notices).name /\ obs'[n] \in Observation
             /\ obs'[n].at = Head(notices).at
             /\ obs'[n].value \in {Head(notices).value, "unknown"}
        BY <1>4, EventStep
  <2> QED BY <2>1, <2>2 DEF ValuesMove, ValuesStay, ObsMove
<1>5. CASE CarriesOut
  <2>1. obs' = obs /\ intents' = intents
        BY <1>5 DEF CarriesOut
  <2>2. \/ UNCHANGED <<now, station, since, notices>>
        \/ \E n \in ROLES, v \in Value : Changed(n, v, TRUE)
        BY <1>5, CarriesOutStep
  <2> QED BY <2>1, <2>2 DEF ValuesMove, ValuesStay, ObsMove
<1> QED BY <1>1, <1>2, <1>3, <1>4, <1>5 DEF System

LEMMA WorldEffects ==
  ASSUME Typed, World
  PROVE  ValuesMove /\ ObsMove
<1>1. station.has \subseteq ROLES
      BY StationsAssumption DEF Typed, TypeOK
<1>2. obs' = obs
      BY DEF World, Connect, Disconnect, Poll, Repeat, Command, LocalChange, StationBoots
<1>3. CASE Connect \/ Disconnect \/ Poll
  <2>1. UNCHANGED <<now, since, station>>
        BY <1>3 DEF Connect, Disconnect, Poll
  <2>2. ValuesStay
        BY <2>1 DEF ValuesStay
  <2> QED BY <1>2, <2>2 DEF ValuesMove, ObsMove
<1>4. ASSUME NEW n \in station.has, NEW v \in Value, Repeat(n, v) \/ Command(n, v)
      PROVE  ValuesMove
  <2>1. UNCHANGED <<now, since, station>>
        BY <1>4 DEF Repeat, Command
  <2> QED BY <2>1 DEF ValuesMove, ValuesStay
<1>5. ASSUME NEW n \in station.has, NEW v \in Value, NEW told \in BOOLEAN, LocalChange(n, v, told)
      PROVE  ValuesMove
      BY <1>1, <1>5 DEF LocalChange, ValuesMove
<1>6. ASSUME NEW rw \in SUBSET station.has, StationBoots(rw) PROVE ValuesMove
  <2>1. station'.value = station.value /\ UNCHANGED <<now, since>>
        BY <1>6, StationBootsStep DEF StationBoots
  <2> QED BY <2>1 DEF ValuesMove, ValuesStay
<1>7. ValuesMove
      BY <1>3, <1>4, <1>5, <1>6 DEF World
<1> QED BY <1>2, <1>7 DEF ObsMove

LEMMA ChangedNotices ==
  ASSUME Typed, NEW n \in ROLES, NEW v \in Value, NEW told \in BOOLEAN, Changed(n, v, told)
  PROVE  NoticesMove
<1>1. /\ now' = now + 1
      /\ since' = [since EXCEPT ![n] = @ \cup {v}]
      /\ \A k \in DOMAIN notices' :
           \/ k \in DOMAIN notices /\ notices'[k] = notices[k]
           \/ /\ notices'[k].kind = "event" /\ notices'[k].name = n /\ notices'[k].value = v
              /\ notices'[k].at = now + 1
  <2>1. now' = now + 1 /\ since' = [since EXCEPT ![n] = @ \cup {v}]
        BY DEF Changed
  <2>2. \A k \in DOMAIN notices' :
           \/ k \in DOMAIN notices /\ notices'[k] = notices[k]
           \/ /\ notices'[k].kind = "event" /\ notices'[k].name = n /\ notices'[k].value = v
              /\ notices'[k].at = now + 1
        BY ChangedStep
  <2> QED BY <2>1, <2>2
<1>2. v \in since'[n]
      BY <1>1 DEF Typed, TypeOK
<1> QED BY <1>1, <1>2 DEF NoticesMove

LEMMA NoticesEffects ==
  ASSUME Typed, Next PROVE NoticesMove
<1>1. ASSUME notices' = notices PROVE NoticesMove
      BY <1>1 DEF NoticesMove
<1>2. CASE \/ Send \/ Refused \/ TimedOut \/ LateAnswer \/ WriteAnswered \/ ReadAnswered
           \/ Initialize \/ ReportAnswered \/ Inventory \/ NoInventory
           \/ (\E n \in ROLES : InitialRead(n)) \/ Tells \/ Poll
  <2>1. notices' = notices
        BY <1>2 DEF Send, Refused, TimedOut, LateAnswer, WriteAnswered, ReadAnswered,
                    Initialize, ReportAnswered, Inventory, NoInventory, InitialRead, Tells,
                    Unchanged, Poll
  <2> QED BY <1>1, <2>1
<1>3. CASE Boot \/ Report \/ Event
  <2>1. \E kind \in {"boot", "report", "event"} : Arrives(kind)
        BY <1>3 DEF Boot, Report, Event
  <2>2. \A k \in DOMAIN notices' : \E j \in DOMAIN notices : notices'[k] = notices[j]
        BY <2>1, NoticeTaken
  <2> QED BY <2>2 DEF NoticesMove
<1>4. CASE CarriesOut
      BY <1>1, <1>4, CarriesOutStep, ChangedNotices
<1>5. CASE ReportsBase
  <2>1. \A k \in DOMAIN notices' :
              \/ k \in DOMAIN notices /\ notices'[k] = notices[k]
              \/ notices'[k].kind = "report" /\ notices'[k].at = now
        BY <1>5, ReportsBaseStep
  <2> QED BY <2>1 DEF NoticesMove
<1>6. CASE Connect \/ Disconnect
  <2>1. notices' = <<>> \/ notices' = <<Told("boot", Some, "ok")>>
        BY <1>6 DEF Connect, Disconnect
  <2>2. Told("boot", Some, "ok").kind = "boot" /\ Told("boot", Some, "ok").at = now
        BY DEF Told
  <2> QED BY <2>1, <2>2 DEF NoticesMove
<1>7. CASE \E rw \in SUBSET station.has : StationBoots(rw)
  <2>1. \A k \in DOMAIN notices' :
              \/ k \in DOMAIN notices /\ notices'[k] = notices[k]
              \/ notices'[k].kind = "boot" /\ notices'[k].at = now
        BY <1>7, StationBootsStep
  <2> QED BY <2>1 DEF NoticesMove
<1>8. station.has \subseteq ROLES
      BY StationsAssumption DEF Typed, TypeOK
<1>9. ASSUME NEW n \in station.has, NEW v \in Value, Repeat(n, v) \/ Command(n, v)
      PROVE  notices' = notices
      BY <1>9 DEF Repeat, Command
<1>10. ASSUME NEW n \in station.has, NEW v \in Value, NEW told \in BOOLEAN, LocalChange(n, v, told)
       PROVE  NoticesMove
       BY <1>8, <1>10, ChangedNotices DEF LocalChange
<1>11. CASE System
       BY <1>2, <1>3, <1>4, <1>5, <1>11 DEF System
<1>12. CASE World
       BY <1>1, <1>2, <1>6, <1>7, <1>9, <1>10, <1>12 DEF World
<1> QED BY <1>11, <1>12 DEF Next

LEMMA RespondedMoves ==
  ASSUME Typed, inbox # <<>>, inbox' = Tail(inbox),
         NEW v \in Reported \cup Refusal \cup {"accepted"}, Responds(v),
         v \in Value => v = station.value[inbox[1].name]
  PROVE  InboxMoves /\ AnswersMove
<1>1. /\ Next1 = inbox[1]
      /\ \A k \in DOMAIN inbox' : \E j \in DOMAIN inbox : inbox'[k] = inbox[j]
      /\ \A k \in DOMAIN answers' :
           \/ k \in DOMAIN answers /\ answers'[k] = answers[k]
           \/ answers'[k].cid = Next1.cid /\ answers'[k].value = v
      BY Responded DEF Typed
<1> QED BY <1>1 DEF InboxMoves, AnswersMove

LEMMA MessagesEffects ==
  ASSUME Typed, Next PROVE InboxMoves /\ AnswersMove
<1>1. ASSUME inbox' = inbox PROVE InboxMoves
      BY <1>1 DEF InboxMoves
<1>2. ASSUME answers' = answers \/ answers' = <<>> PROVE AnswersMove
      BY <1>2 DEF AnswersMove
<1>3. CASE Send
  <2>1. PICK r \in Request : r.cid = Top.cid /\ r.name = Top.name /\ inbox' = Append(inbox, r)
        BY <1>3, SendStep
  <2>2. \A k \in DOMAIN inbox' : (k \in DOMAIN inbox /\ inbox'[k] = inbox[k]) \/ inbox'[k] = r
        BY <2>1, AppendElements DEF Typed, TypeOK
  <2>3. InboxMoves
        BY <1>3, <2>1, <2>2 DEF InboxMoves
  <2> QED BY <1>2, <1>3, <2>3 DEF Send
<1>4. CASE LateAnswer \/ WriteAnswered \/ ReadAnswered \/ ReportAnswered
  <2>1. answers # <<>> /\ answers' = Tail(answers) /\ inbox' = inbox
        BY <1>4 DEF LateAnswer, WriteAnswered, ReadAnswered, ReportAnswered, Answers, AnswersTop
  <2>2. AnswersMove
        BY <2>1, AnswerTaken DEF AnswersMove, Typed
  <2> QED BY <1>1, <2>1, <2>2
<1>5. CASE \/ Refused \/ TimedOut \/ Boot \/ Initialize \/ Report \/ Inventory \/ NoInventory
           \/ (\E n \in ROLES : InitialRead(n)) \/ Event \/ Poll
  <2>1. inbox' = inbox /\ answers' = answers
        BY <1>5 DEF Refused, TimedOut, Boot, Initialize, Report, Inventory, NoInventory,
                    InitialRead, Event, Poll
  <2> QED BY <1>1, <1>2, <2>1
<1>6. CASE CarriesOut
  <2>1. inbox # <<>> /\ inbox' = Tail(inbox)
        BY <1>6 DEF CarriesOut
  <2>2. PICK w \in {"accepted"} \cup Refusal : Responds(w)
        BY <1>6, CarriesOutStep
  <2>3. w \in Reported \cup Refusal \cup {"accepted"} /\ w \notin Value
        BY ValuesAnswer
  <2> QED BY <2>1, <2>2, <2>3, RespondedMoves
<1>7. CASE Tells
  <2>1. inbox # <<>> /\ inbox' = Tail(inbox) /\ Next1 = inbox[1]
        BY <1>7, TellsStep DEF Next1, Typed, TypeOK
  <2>2. PICK w \in Value \cup {"refused"} :
          Responds(w) /\ (w \in Value => w = station.value[Next1.name])
        BY <1>7, TellsStep
  <2>3. w \in Reported \cup Refusal \cup {"accepted"}
        BY ValuesAnswer
  <2> QED BY <2>1, <2>2, <2>3, RespondedMoves
<1>8. CASE ReportsBase
  <2>1. inbox # <<>> /\ inbox' = Tail(inbox) /\ Responds("accepted")
        BY <1>8 DEF ReportsBase
  <2> QED BY <2>1, ValuesAnswer, RespondedMoves
<1>9. CASE Connect \/ Disconnect
  <2>1. inbox' = Abandoned /\ answers' = <<>>
        BY <1>9 DEF Connect, Disconnect
  <2>2. \A k \in DOMAIN inbox' :
          k \in DOMAIN inbox /\ inbox'[k].cid = inbox[k].cid /\ inbox'[k].name = inbox[k].name
    <3>1. \A k \in DOMAIN inbox : inbox[k] \in Request
          BY DEF Typed, TypeOK
    <3> QED BY <2>1, <3>1 DEF Abandoned, Request
  <2>3. InboxMoves
        BY <2>2 DEF InboxMoves
  <2> QED BY <1>2, <2>1, <2>3
<1>10. ASSUME NEW n \in station.has, NEW v \in Value,
              Repeat(n, v) \/ Command(n, v) \/ \E told \in BOOLEAN : LocalChange(n, v, told)
       PROVE  inbox' = inbox /\ answers' = answers
       BY <1>10 DEF Repeat, Command, LocalChange
<1>11. ASSUME NEW rw, StationBoots(rw) PROVE InboxMoves /\ AnswersMove
  <2>1. inbox' = <<>> /\ answers' = answers
        BY <1>11 DEF StationBoots
  <2>2. InboxMoves
        BY <2>1 DEF InboxMoves
  <2> QED BY <1>2, <2>1, <2>2
<1>12. CASE System
       BY <1>3, <1>4, <1>5, <1>6, <1>7, <1>8, <1>12 DEF System
<1>13. CASE World
       BY <1>1, <1>2, <1>5, <1>9, <1>10, <1>11, <1>13 DEF World
<1> QED BY <1>12, <1>13 DEF Next

-----------------------------------------------------------------------------
(* What is confirmed was so *)

(* Nothing is dated in the future. *)
Dated ==
  /\ \A n \in ROLES : obs[n] # None => obs[n].at <= now
  /\ \A n \in ROLES : intents[n] # None /\ intents[n].dispatched # None
                        => intents[n].dispatched <= now
  /\ \A k \in DOMAIN calls : calls[k].at <= now
  /\ \A k \in DOMAIN notices : notices[k].at <= now
(* An answer belongs to the call that carries its number. *)
Matched ==
  /\ \A j, k \in DOMAIN calls : calls[j].cid = calls[k].cid => j = k
  /\ \A j \in DOMAIN inbox, k \in DOMAIN calls :
       inbox[j].cid = calls[k].cid => calls[k].sent /\ inbox[j].name = calls[k].name
  /\ \A j \in DOMAIN answers, k \in DOMAIN calls :
       answers[j].cid = calls[k].cid => calls[k].sent
(* If v was observed at that time, the station had v since the dispatch. *)
Since(n, at, v) ==
  intents[n] # None /\ intents[n].dispatched # None /\ at >= intents[n].dispatched
    /\ v \in Value => v \in since[n]
(* The station's values are known of, whoever still carries them. *)
Witnessed ==
  /\ \A n \in ROLES : Since(n, now, station.value[n])
  /\ \A n \in ROLES : obs[n] # None => Since(n, obs[n].at, obs[n].value)
  /\ \A k \in DOMAIN notices :
       notices[k].kind = "event" => Since(notices[k].name, notices[k].at, notices[k].value)
  /\ \A j \in DOMAIN answers, k \in DOMAIN calls :
       answers[j].cid = calls[k].cid => Since(calls[k].name, calls[k].at, answers[j].value)

LEMMA Elements ==
  ASSUME Typed
  PROVE  /\ now \in Nat
         /\ \A k \in DOMAIN calls : calls[k] \in Call /\ calls[k].at \in Nat /\ calls[k].name \in ROLES
         /\ \A k \in DOMAIN notices : /\ notices[k] \in Message /\ notices[k].at \in Nat
                                      /\ notices[k].name \in ROLES
         /\ \A k \in DOMAIN inbox : inbox[k] \in Request /\ inbox[k].name \in ROLES
         /\ \A n \in ROLES : obs[n] # None => obs[n] \in Observation /\ obs[n].at \in Nat
         /\ \A n \in ROLES : intents[n] # None =>
              /\ intents[n] \in Intent /\ intents[n].value \in Value
              /\ intents[n].dispatched \in Nat \cup {None}
         /\ \A n \in ROLES : station.value[n] \in Value
         /\ notices # <<>> => 1 \in DOMAIN notices
         /\ inbox # <<>> => 1 \in DOMAIN inbox
         /\ calls # <<>> => 1 \in DOMAIN calls
         /\ answers # <<>> => 1 \in DOMAIN answers
<1>1. /\ calls \in Seq(Call) /\ inbox \in Seq(Request) /\ answers \in Seq(Message)
      /\ notices \in Seq(Message) /\ now \in Nat
      BY DEF Typed, TypeOK, Time
<1>2. \A k \in DOMAIN calls : calls[k] \in Call /\ calls[k].at \in Nat /\ calls[k].name \in ROLES
  <2>1. \A k \in DOMAIN calls : calls[k] \in Call
        BY <1>1
  <2> QED BY <2>1 DEF Call, Time
<1>3. \A k \in DOMAIN notices : /\ notices[k] \in Message /\ notices[k].at \in Nat
                                /\ notices[k].name \in ROLES
  <2>1. \A k \in DOMAIN notices : notices[k] \in Message
        BY <1>1
  <2> QED BY <2>1 DEF Message, Time
<1>4. \A k \in DOMAIN inbox : inbox[k] \in Request /\ inbox[k].name \in ROLES
  <2>1. \A k \in DOMAIN inbox : inbox[k] \in Request
        BY <1>1
  <2> QED BY <2>1 DEF Request
<1>5. \A n \in ROLES : obs[n] # None => obs[n] \in Observation /\ obs[n].at \in Nat
      BY DEF Typed, TypeOK, Observation, Time
<1>6. \A n \in ROLES : intents[n] # None =>
              /\ intents[n] \in Intent /\ intents[n].value \in Value
              /\ intents[n].dispatched \in Nat \cup {None}
      BY DEF Typed, TypeOK, Intent, Time
<1>7. \A n \in ROLES : station.value[n] \in Value
      BY DEF Typed, TypeOK
<1>8. /\ notices # <<>> => 1 \in DOMAIN notices
      /\ inbox # <<>> => 1 \in DOMAIN inbox
      /\ calls # <<>> => 1 \in DOMAIN calls
      /\ answers # <<>> => 1 \in DOMAIN answers
      BY <1>1
<1> QED BY <1>1, <1>2, <1>3, <1>4, <1>5, <1>6, <1>7, <1>8

(* A step in the terms of these lemmas. *)
StepEffects(first, c) ==
  /\ first \in {0, 1} /\ Joining(c) /\ Moved(first, c) /\ Decided(first)
  /\ ValuesMove /\ ObsMove /\ NoticesMove /\ InboxMoves /\ AnswersMove

LEMMA NextEffects ==
  ASSUME Typed, Next
  PROVE  \E first \in {0, 1}, c \in Call : StepEffects(first, c)
<1>1. PICK first \in {0, 1}, c \in Call : Joining(c) /\ Moved(first, c) /\ Decided(first)
      BY CallsStep
<1>2. ValuesMove /\ ObsMove
      BY SystemEffects, WorldEffects DEF Next
<1>3. NoticesMove /\ InboxMoves /\ AnswersMove
      BY NoticesEffects, MessagesEffects
<1> QED BY <1>1, <1>2, <1>3 DEF StepEffects

(* The intents at a dispatch and otherwise. *)
LEMMA WriteDispatches ==
  ASSUME Typed, Writes
  PROVE  /\ now' = now + 1 /\ station' = station
         /\ Top.name \in ROLES /\ intents[Top.name] # None /\ intents'[Top.name] \in Intent
         /\ intents'[Top.name].status = intents[Top.name].status
         /\ intents'[Top.name].dispatched = now + 1
         /\ since'[Top.name] = {station.value[Top.name]}
         /\ \A n \in ROLES \ {Top.name} : intents'[n] = intents[n] /\ since'[n] = since[n]
<1>1. Top \in Call /\ Top.name \in ROLES
      BY TopIsCall DEF Writes, Send, Typed, Call
<1>2. /\ now' = now + 1 /\ station' = station
      /\ since' = [since EXCEPT ![Top.name] = {station.value[Top.name]}]
      BY DEF Writes, Send
<1>3. /\ intents[Top.name] \in Intent /\ intents[Top.name] # None
      /\ intents' = [intents EXCEPT ![Top.name] = [intents[Top.name] EXCEPT !.dispatched = now + 1]]
      /\ [intents[Top.name] EXCEPT !.dispatched = now + 1] \in Intent
      BY SendStep DEF Writes
<1>4. /\ intents'[Top.name] = [intents[Top.name] EXCEPT !.dispatched = now + 1]
      /\ \A n \in ROLES \ {Top.name} : intents'[n] = intents[n]
      BY <1>1, <1>3 DEF Typed, TypeOK
<1>5. /\ since'[Top.name] = {station.value[Top.name]}
      /\ \A n \in ROLES \ {Top.name} : since'[n] = since[n]
      BY <1>1, <1>2 DEF Typed, TypeOK
<1>6. [intents[Top.name] EXCEPT !.dispatched = now + 1].dispatched = now + 1
      /\ [intents[Top.name] EXCEPT !.dispatched = now + 1].status = intents[Top.name].status
      BY <1>3 DEF Intent
<1> QED BY <1>1, <1>2, <1>3, <1>4, <1>5, <1>6

LEMMA OtherwiseKept ==
  ASSUME Typed, NEW first, Decided(first), ValuesMove, ~Writes
  PROVE  /\ \A n \in ROLES : intents'[n] # None /\ intents'[n].dispatched # None =>
              intents[n] # None /\ intents'[n].dispatched = intents[n].dispatched
         /\ \A n \in ROLES : since[n] \subseteq since'[n]
<1>1. ASSUME NEW n \in ROLES, intents'[n] # None, intents'[n].dispatched # None
      PROVE  intents[n] # None /\ intents'[n].dispatched = intents[n].dispatched
  <2>1. CASE Restated(first)
        BY <1>1, <2>1 DEF Restated
  <2>2. ASSUME NEW m \in ROLES, NEW v \in Value, Command(m, v)
        PROVE  intents[n] # None /\ intents'[n].dispatched = intents[n].dispatched
    <3>1. PICK s : intents' = [intents EXCEPT ![m] = [value |-> v, gen |-> link.gen, id |-> FreshId,
                                                     status |-> s, dispatched |-> None]]
          BY <2>2 DEF Command
    <3>2. intents'[m].dispatched = None /\ (m # n => intents'[n] = intents[n])
          BY <3>1 DEF Typed, TypeOK
    <3> QED BY <1>1, <3>2
  <2> QED BY <2>1, <2>2 DEF Decided, Writes
<1>2. \A n \in ROLES : since[n] \subseteq since'[n]
  <2>1. CASE ValuesStay
        BY <2>1 DEF ValuesStay
  <2>2. ASSUME NEW m \in ROLES, NEW v \in Value, NEW told \in BOOLEAN, Changed(m, v, told)
        PROVE  \A n \in ROLES : since[n] \subseteq since'[n]
    <3>1. since' = [since EXCEPT ![m] = @ \cup {v}]
          BY <2>2 DEF Changed
    <3> QED BY <3>1 DEF Typed, TypeOK
  <2> QED BY <2>1, <2>2 DEF ValuesMove
<1> QED BY <1>1, <1>2

LEMMA ClockMoves ==
  ASSUME Typed, ValuesMove PROVE now' = now \/ now' = now + 1
<1>1. ASSUME NEW n \in ROLES, NEW v \in Value, NEW told \in BOOLEAN, Changed(n, v, told)
      PROVE  now' = now + 1
      BY <1>1 DEF Changed
<1> QED BY <1>1, WriteDispatches DEF ValuesMove, ValuesStay

LEMMA DatedStep ==
  ASSUME Typed, Typed', Dated, NEW first, NEW c \in Call, StepEffects(first, c)
  PROVE  Dated'
<1>1. now' \in {now, now + 1} /\ now \in Nat
      BY ClockMoves, Elements DEF StepEffects
<1>2. ASSUME NEW n \in ROLES, obs'[n] # None PROVE obs'[n].at <= now'
  <2>1. CASE obs'[n] = obs[n]
        BY <1>1, <1>2, <2>1, Elements DEF Dated
  <2>2. CASE notices # <<>> /\ obs'[n].at = notices[1].at
        BY <1>1, <2>2, Elements DEF Dated
  <2>3. CASE calls # <<>> /\ obs'[n].at = calls[1].at
        BY <1>1, <2>3, Elements DEF Dated
  <2> QED BY <2>1, <2>2, <2>3 DEF StepEffects, ObsMove
<1>3. ASSUME NEW n \in ROLES, intents'[n] # None, intents'[n].dispatched # None
      PROVE  intents'[n].dispatched <= now'
  <2>1. CASE Writes
    <3>1. CASE n = Top.name
          BY <1>1, <2>1, <3>1, WriteDispatches
    <3>2. CASE n # Top.name
          BY <1>1, <1>3, <2>1, <3>2, WriteDispatches, Elements DEF Dated
    <3> QED BY <3>1, <3>2
  <2>2. CASE ~Writes
    <3>1. intents[n] # None /\ intents'[n].dispatched = intents[n].dispatched
          BY <1>3, <2>2, OtherwiseKept DEF StepEffects
    <3> QED BY <1>1, <1>3, <3>1, Elements DEF Dated
  <2> QED BY <2>1, <2>2
<1>4. ASSUME NEW k \in DOMAIN calls' PROVE calls'[k].at <= now'
  <2>1. CASE k + first \in DOMAIN calls /\ Tag(calls'[k]) = Tag(calls[k + first])
    <3>1. calls'[k].at = calls[k + first].at
          BY <2>1 DEF Tag
    <3> QED BY <1>1, <2>1, <3>1, Elements DEF Dated
  <2>2. CASE calls'[k] = c
        BY <1>1, <2>2 DEF StepEffects, Joining
  <2> QED BY <2>1, <2>2 DEF StepEffects, Moved
<1>5. ASSUME NEW k \in DOMAIN notices' PROVE notices'[k].at <= now'
  <2>1. CASE \E j \in DOMAIN notices : notices'[k] = notices[j]
        BY <1>1, <2>1, Elements DEF Dated
  <2>2. CASE notices'[k].at = now
        BY <1>1, <2>2
  <2>3. CASE notices'[k].at = now + 1 /\ now' = now + 1
        BY <1>1, <2>3
  <2> QED BY <2>1, <2>2, <2>3 DEF StepEffects, NoticesMove
<1> QED BY <1>2, <1>3, <1>4, <1>5 DEF Dated

(* A call at the lock was there before, or is new and has a number of its own. *)
LEMMA StayingCall ==
  ASSUME Typed, Typed', NEW first, NEW c \in Call, StepEffects(first, c), NEW k \in DOMAIN calls'
  PROVE  /\ k \in Nat \ {0} /\ first \in {0, 1}
         /\ \/ /\ k + first \in DOMAIN calls
               /\ calls'[k].cid = calls[k + first].cid /\ calls'[k].name = calls[k + first].name
               /\ calls'[k].at = calls[k + first].at /\ calls'[k].gen = calls[k + first].gen
               /\ calls[k + first].sent => calls'[k].sent
            \/ /\ k + first = Len(calls) + 1 /\ calls'[k].cid = FreshCall
               /\ calls'[k].at = now /\ calls'[k].gen = link.gen
<1>1. k \in Nat \ {0} /\ first \in {0, 1}
      BY CallIndices DEF StepEffects
<1>2. CASE /\ k + first \in DOMAIN calls /\ Tag(calls'[k]) = Tag(calls[k + first])
           /\ calls[k + first].sent => calls'[k].sent
      BY <1>1, <1>2 DEF Tag
<1>3. CASE k + first = Len(calls) + 1 /\ calls'[k] = c
      BY <1>1, <1>3 DEF StepEffects, Joining
<1> QED BY <1>2, <1>3 DEF StepEffects, Moved

LEMMA MatchedStep ==
  ASSUME Typed, Typed', Matched, NEW first, NEW c \in Call, StepEffects(first, c)
  PROVE  Matched'
<1>1. /\ \A i \in DOMAIN calls : calls[i].cid # FreshCall
      /\ \A i \in DOMAIN inbox : inbox[i].cid # FreshCall
      /\ \A i \in DOMAIN answers : answers[i].cid # FreshCall
      BY FreshAreFree DEF Typed
<1>2. ASSUME NEW j \in DOMAIN calls', NEW k \in DOMAIN calls', calls'[j].cid = calls'[k].cid
      PROVE  j = k
  <2>1. /\ \/ j + first \in DOMAIN calls /\ calls'[j].cid = calls[j + first].cid
           \/ j + first = Len(calls) + 1 /\ calls'[j].cid = FreshCall
        /\ \/ k + first \in DOMAIN calls /\ calls'[k].cid = calls[k + first].cid
           \/ k + first = Len(calls) + 1 /\ calls'[k].cid = FreshCall
        BY StayingCall
  <2>2. j + first = k + first
        BY <1>1, <1>2, <2>1 DEF Matched
  <2>3. j \in Nat /\ k \in Nat /\ first \in {0, 1}
        BY StayingCall
  <2> QED BY <2>2, <2>3
<1>3. ASSUME NEW j \in DOMAIN inbox', NEW k \in DOMAIN calls', inbox'[j].cid = calls'[k].cid
      PROVE  calls'[k].sent /\ inbox'[j].name = calls'[k].name
  <2>1. CASE \E i \in DOMAIN inbox : inbox'[j].cid = inbox[i].cid /\ inbox'[j].name = inbox[i].name
    <3>1. PICK i \in DOMAIN inbox : inbox'[j].cid = inbox[i].cid /\ inbox'[j].name = inbox[i].name
          BY <2>1
    <3>2. /\ k + first \in DOMAIN calls /\ calls'[k].cid = calls[k + first].cid
          /\ calls'[k].name = calls[k + first].name /\ (calls[k + first].sent => calls'[k].sent)
      <4>1. calls'[k].cid # FreshCall
            BY <1>1, <1>3, <3>1
      <4> QED BY <4>1, StayingCall
    <3> QED BY <1>3, <3>1, <3>2 DEF Matched
  <2>2. CASE Send /\ inbox'[j].cid = Top.cid /\ inbox'[j].name = Top.name
    <3>1. Top = calls[1] /\ 1 \in DOMAIN calls
          BY <2>2, TopIsCall DEF Send, Typed
    <3>2. /\ k + first \in DOMAIN calls /\ calls'[k].cid = calls[k + first].cid
          /\ calls'[k].name = calls[k + first].name
      <4>1. calls'[k].cid # FreshCall
            BY <1>1, <1>3, <2>2, <3>1
      <4> QED BY <4>1, StayingCall
    <3>3. k + first = 1
          BY <1>3, <2>2, <3>1, <3>2 DEF Matched
    <3>4. k = 1
          BY <3>3, StayingCall
    <3>5. calls'[1].sent
          BY <2>2, SendStep
    <3> QED BY <2>2, <3>1, <3>2, <3>3, <3>4, <3>5
  <2> QED BY <2>1, <2>2 DEF StepEffects, InboxMoves
<1>4. ASSUME NEW j \in DOMAIN answers', NEW k \in DOMAIN calls', answers'[j].cid = calls'[k].cid
      PROVE  calls'[k].sent
  <2>1. CASE \E i \in DOMAIN answers : answers'[j] = answers[i]
    <3>1. PICK i \in DOMAIN answers : answers'[j] = answers[i]
          BY <2>1
    <3>2. /\ k + first \in DOMAIN calls /\ calls'[k].cid = calls[k + first].cid
          /\ (calls[k + first].sent => calls'[k].sent)
          BY <1>1, <1>4, <3>1, StayingCall
    <3> QED BY <1>4, <3>1, <3>2 DEF Matched
  <2>2. CASE inbox # <<>> /\ answers'[j].cid = inbox[1].cid
    <3>1. 1 \in DOMAIN inbox
          BY <2>2, Elements
    <3>2. /\ k + first \in DOMAIN calls /\ calls'[k].cid = calls[k + first].cid
          /\ (calls[k + first].sent => calls'[k].sent)
      <4>1. calls'[k].cid # FreshCall
            BY <1>1, <1>4, <2>2, <3>1
      <4> QED BY <4>1, StayingCall
    <3> QED BY <1>4, <2>2, <3>1, <3>2 DEF Matched
  <2> QED BY <2>1, <2>2 DEF StepEffects, AnswersMove
<1> QED BY <1>2, <1>3, <1>4 DEF Matched

(* What was observed before the step stays witnessed. *)
LEMMA SinceStays ==
  ASSUME Typed, NEW first, NEW c \in Call, StepEffects(first, c),
         NEW n \in ROLES, NEW at \in Nat, at <= now, NEW v, Since(n, at, v)
  PROVE  Since(n, at, v)'
<1> SUFFICES ASSUME intents'[n] # None, intents'[n].dispatched # None, at >= intents'[n].dispatched,
                    v \in Value
             PROVE  v \in since'[n]
    BY DEF Since
<1>1. CASE Writes
  <2>1. n # Top.name
        BY <1>1, WriteDispatches, Elements
  <2>2. intents'[n] = intents[n] /\ since'[n] = since[n]
        BY <1>1, <2>1, WriteDispatches
  <2> QED BY <2>2 DEF Since
<1>2. CASE ~Writes
  <2>1. intents[n] # None /\ intents'[n].dispatched = intents[n].dispatched /\ since[n] \subseteq since'[n]
        BY <1>2, OtherwiseKept DEF StepEffects
  <2> QED BY <2>1 DEF Since
<1> QED BY <1>1, <1>2

(* What the station has now it has had, too, at any time given earlier. *)
LEMMA SinceEarlier ==
  ASSUME Typed, NEW n \in ROLES, NEW at \in Nat, NEW late \in Nat, at <= late, NEW v,
         Since(n, late, v)
  PROVE  Since(n, at, v)
<1>1. intents[n] # None /\ intents[n].dispatched # None => intents[n].dispatched \in Nat
      BY Elements
<1> QED BY <1>1 DEF Since

LEMMA StationWitnessed ==
  ASSUME Typed, Typed', Dated, Witnessed, NEW first, NEW c \in Call, StepEffects(first, c),
         NEW n \in ROLES
  PROVE  Since(n, now, station.value[n])'
<1> SUFFICES ASSUME intents'[n] # None, intents'[n].dispatched # None, station'.value[n] \in Value
             PROVE  station'.value[n] \in since'[n]
    BY DEF Since
<1>1. ASSUME intents[n] # None, intents[n].dispatched # None
      PROVE  station.value[n] \in since[n]
  <2>1. now >= intents[n].dispatched
        BY <1>1, Elements DEF Dated
  <2> QED BY <1>1, <2>1, Elements DEF Witnessed, Since
<1>2. CASE Writes
  <2>1. CASE n = Top.name
        BY <1>2, <2>1, WriteDispatches
  <2>2. CASE n # Top.name
        BY <1>1, <1>2, <2>2, WriteDispatches
  <2> QED BY <2>1, <2>2
<1>3. CASE ~Writes
  <2>1. station.value[n] \in since[n] /\ since[n] \subseteq since'[n]
        BY <1>1, <1>3, OtherwiseKept DEF StepEffects
  <2>2. CASE ValuesStay
        BY <2>1, <2>2 DEF ValuesStay
  <2>3. ASSUME NEW m \in ROLES, NEW v \in Value, NEW told \in BOOLEAN, Changed(m, v, told)
        PROVE  station'.value[n] \in since'[n]
    <3>1. station'.value = [station.value EXCEPT ![m] = v] /\ since' = [since EXCEPT ![m] = @ \cup {v}]
          BY <2>3 DEF Changed, Typed, TypeOK
    <3>2. CASE n = m
          BY <3>1, <3>2 DEF Typed, TypeOK
    <3>3. CASE n # m
          BY <2>1, <3>1, <3>3 DEF Typed, TypeOK
    <3> QED BY <3>2, <3>3
  <2> QED BY <1>3, <2>2, <2>3 DEF StepEffects, ValuesMove
<1> QED BY <1>2, <1>3

LEMMA WitnessedStep ==
  ASSUME Typed, Typed', Dated, Matched, Witnessed,
         NEW first, NEW c \in Call, StepEffects(first, c)
  PROVE  Witnessed'
<1>1. \A n \in ROLES : Since(n, now, station.value[n])'
      BY StationWitnessed
<1>2. \A n \in ROLES, at \in Nat : \A v : at <= now /\ Since(n, at, v) => Since(n, at, v)'
      BY SinceStays
<1>3. ASSUME NEW n \in ROLES, obs'[n] # None PROVE Since(n, obs[n].at, obs[n].value)'
  <2>0. obs'[n].at \in Nat
        BY <1>3 DEF Typed, TypeOK, Observation, Time
  <2>1. PICK at \in Nat, v \in {obs'[n].value} : at = obs'[n].at /\ v = obs'[n].value
        BY <2>0
  <2>2. v \in Value => at <= now /\ Since(n, at, v)
    <3>1. CASE obs'[n] = obs[n]
          BY <1>3, <2>1, <3>1 DEF Dated, Witnessed
    <3>2. CASE /\ notices # <<>> /\ notices[1].kind = "event" /\ n = notices[1].name
               /\ obs'[n].at = notices[1].at /\ obs'[n].value \in {notices[1].value, "unknown"}
      <4>1. 1 \in DOMAIN notices /\ notices[1].at <= now
            BY <3>2, Elements DEF Dated
      <4>2. v \in Value => v = notices[1].value
            BY <2>1, <3>2 DEF Value
      <4> QED BY <2>1, <3>2, <4>1, <4>2 DEF Witnessed
    <3>3. CASE /\ calls # <<>> /\ answers # <<>> /\ calls[1].cid = answers[1].cid
               /\ n = calls[1].name /\ obs'[n].at = calls[1].at
               /\ obs'[n].value \in {answers[1].value, "unknown"}
      <4>1. 1 \in DOMAIN calls /\ 1 \in DOMAIN answers /\ calls[1].at <= now
            BY <3>3, Elements DEF Dated
      <4>2. v \in Value => v = answers[1].value
            BY <2>1, <3>3 DEF Value
      <4> QED BY <2>1, <3>3, <4>1, <4>2 DEF Witnessed
    <3> QED BY <3>1, <3>2, <3>3 DEF StepEffects, ObsMove
  <2>3. Since(n, at, v)'
    <3>1. CASE v \in Value
          BY <1>2, <2>2, <3>1
    <3>2. CASE v \notin Value
          BY <3>2 DEF Since
    <3> QED BY <3>1, <3>2
  <2> QED BY <2>1, <2>3 DEF Since
<1>4. ASSUME NEW k \in DOMAIN notices', notices'[k].kind = "event"
      PROVE  Since(notices[k].name, notices[k].at, notices[k].value)'
  <2>1. CASE \E j \in DOMAIN notices : notices'[k] = notices[j]
    <3>1. PICK j \in DOMAIN notices : notices'[k] = notices[j]
          BY <2>1
    <3>2. PICK n \in ROLES, at \in Nat, v \in {notices[j].value} :
            n = notices[j].name /\ at = notices[j].at /\ v = notices[j].value
          BY Elements
    <3>3. at <= now /\ Since(n, at, v)
          BY <1>4, <3>1, <3>2 DEF Dated, Witnessed
    <3>4. Since(n, at, v)'
          BY <1>2, <3>3
    <3> QED BY <3>1, <3>2, <3>4 DEF Since
  <2>2. CASE notices'[k].value \in since'[notices'[k].name]
        BY <2>2 DEF Since
  <2> QED BY <1>4, <2>1, <2>2 DEF StepEffects, NoticesMove
<1>5. ASSUME NEW j \in DOMAIN answers', NEW k \in DOMAIN calls', answers'[j].cid = calls'[k].cid
      PROVE  Since(calls[k].name, calls[k].at, answers[j].value)'
  <2>1. /\ \A i \in DOMAIN inbox : inbox[i].cid # FreshCall
        /\ \A i \in DOMAIN answers : answers[i].cid # FreshCall
        BY FreshAreFree DEF Typed
  <2>2. inbox # <<>> => 1 \in DOMAIN inbox
        BY Elements
  <2>3. answers'[j].cid # FreshCall
        BY <2>1, <2>2 DEF StepEffects, AnswersMove
  <2>4. /\ k + first \in DOMAIN calls /\ calls'[k].cid = calls[k + first].cid
        /\ calls'[k].name = calls[k + first].name /\ calls'[k].at = calls[k + first].at
        BY <1>5, <2>3, StayingCall
  <2>5. PICK n \in ROLES, at \in Nat, v \in {answers'[j].value} :
          n = calls[k + first].name /\ at = calls[k + first].at /\ v = answers'[j].value
        BY <2>4, Elements
  <2>6. at <= now
        BY <2>4, <2>5 DEF Dated
  <2>7. v \in Value => Since(n, at, v)
    <3>1. CASE \E i \in DOMAIN answers : answers'[j] = answers[i]
          BY <1>5, <2>4, <2>5, <3>1 DEF Witnessed
    <3>2. CASE /\ inbox # <<>> /\ answers'[j].cid = inbox[1].cid
               /\ answers'[j].value \in Value => answers'[j].value = station.value[inbox[1].name]
      <4>1. inbox[1].name = n
            BY <1>5, <2>2, <2>4, <2>5, <3>2 DEF Matched
      <4>2. v \in Value => v = station.value[n]
            BY <2>5, <3>2, <4>1
      <4>3. v \in Value => Since(n, now, v)
            BY <4>2 DEF Witnessed
      <4> QED BY <2>6, <4>3, SinceEarlier, Elements
    <3> QED BY <3>1, <3>2 DEF StepEffects, AnswersMove
  <2>8. Since(n, at, v)'
    <3>1. CASE v \in Value
          BY <1>2, <2>6, <2>7, <3>1
    <3>2. CASE v \notin Value
          BY <3>2 DEF Since
    <3> QED BY <3>1, <3>2
  <2> QED BY <2>4, <2>5, <2>8 DEF Since
<1> QED BY <1>1, <1>3, <1>4, <1>5 DEF Witnessed

LEMMA ConfirmedStep ==
  ASSUME Typed, Typed', Undecided, ConfirmedTrue, Witnessed',
         NEW first, NEW c \in Call, StepEffects(first, c)
  PROVE  ConfirmedTrue'
<1> SUFFICES ASSUME NEW n \in ROLES, intents'[n] # None, intents'[n].status = "confirmed",
                    intents'[n].dispatched # None
             PROVE  intents'[n].value \in since'[n]
    BY DEF ConfirmedTrue
<1>1. CASE Writes
  <2>1. intents[Top.name] # None /\ Top \in Call /\ Top = calls[1] /\ 1 \in DOMAIN calls
        /\ ValidCall(Top) /\ Top.kind = "write"
        BY <1>1, WriteDispatches, TopIsCall DEF Writes, Send, Typed
  <2>2. intents[Top.name].status \in {"pending", "superseded"}
        BY <2>1 DEF Undecided, ValidCall
  <2>3. n # Top.name
        BY <1>1, <2>2, WriteDispatches
  <2>4. intents'[n] = intents[n] /\ since'[n] = since[n]
        BY <1>1, <2>3, WriteDispatches
  <2> QED BY <2>4 DEF ConfirmedTrue
<1>2. CASE ~Writes
  <2>1. since[n] \subseteq since'[n]
        BY <1>2, OtherwiseKept DEF StepEffects
  <2>2. CASE intents'[n] = intents[n]
        BY <2>1, <2>2 DEF ConfirmedTrue
  <2>3. CASE Restated(first) /\ intents'[n] # intents[n]
    <3>1. /\ obs'[n] # None /\ obs'[n].at >= intents'[n].dispatched
          /\ obs'[n].value = intents'[n].value
          BY <2>3 DEF Restated
    <3>2. intents'[n].value \in Value
          BY DEF Typed, TypeOK, Intent
    <3>3. Since(n, obs[n].at, obs[n].value)'
          BY <3>1 DEF Witnessed
    <3> QED BY <3>1, <3>2, <3>3 DEF Since
  <2>4. ASSUME NEW m \in ROLES, NEW v \in Value, Command(m, v)
        PROVE  intents'[n] = intents[n]
    <3>1. PICK s : intents' = [intents EXCEPT ![m] = [value |-> v, gen |-> link.gen, id |-> FreshId,
                                                     status |-> s, dispatched |-> None]]
          BY <2>4 DEF Command
    <3>2. intents'[m].dispatched = None /\ (m # n => intents'[n] = intents[n])
          BY <3>1 DEF Typed, TypeOK
    <3> QED BY <3>2
  <2> QED BY <1>2, <2>2, <2>3, <2>4 DEF StepEffects, Decided, Writes
<1> QED BY <1>1, <1>2

(* The invariant under which what is confirmed was so. *)
Invariant ==
  CallsInvariant /\ Dated /\ Matched /\ Witnessed /\ ConfirmedTrue

LEMMA InvariantInit ==
  ASSUME Init PROVE Invariant
<1>1. CallsInvariant
      BY CallsInvariantHolds
<1>2. /\ calls = <<>> /\ inbox = <<>> /\ answers = <<>> /\ notices = <<>>
      /\ \A n \in ROLES : obs[n] = None /\ intents[n] = None
      BY DEF Init
<1>3. Dated /\ Matched /\ Witnessed /\ ConfirmedTrue
      BY <1>2 DEF Dated, Matched, Witnessed, Since, ConfirmedTrue
<1> QED BY <1>1, <1>3 DEF Invariant

LEMMA InvariantStep ==
  ASSUME Invariant, [Next]_vars PROVE Invariant'
<1>1. CallsInvariant' /\ Typed /\ Typed' /\ Undecided
      BY CallsInvariantHolds DEF Invariant, CallsInvariant
<1>2. CASE Next
  <2>1. PICK first \in {0, 1}, c \in Call : StepEffects(first, c)
        BY <1>1, <1>2, NextEffects
  <2>2. Dated'
        BY <1>1, <2>1, DatedStep DEF Invariant
  <2>3. Matched'
        BY <1>1, <2>1, MatchedStep DEF Invariant
  <2>4. Witnessed'
        BY <1>1, <2>1, WitnessedStep DEF Invariant
  <2>5. ConfirmedTrue'
        BY <1>1, <2>1, <2>4, ConfirmedStep DEF Invariant
  <2> QED BY <1>1, <2>2, <2>3, <2>4, <2>5 DEF Invariant
<1>3. CASE UNCHANGED vars
  <2>1. Dated' /\ Matched'
        BY <1>3 DEF vars, Invariant, Dated, Matched
  <2>2. Witnessed' /\ ConfirmedTrue'
        BY <1>3 DEF vars, Invariant, Witnessed, Since, ConfirmedTrue
  <2> QED BY <1>1, <2>1, <2>2 DEF Invariant
<1> QED BY <1>2, <1>3

(* ConfirmedTrue, for all stations, features and bounds: answers, events and    *)
(* reads overtake each other and calls that timed out are still carried out,    *)
(* but what confirms a command is dated after its dispatch, and was so then.    *)
THEOREM ConfirmedTrueHolds == Spec => []ConfirmedTrue
<1>1. Invariant => ConfirmedTrue
      BY DEF Invariant
<1> QED BY <1>1, InvariantInit, InvariantStep, PTL DEF Spec

-----------------------------------------------------------------------------
(* What is held when all messages are through *)

(* Something was observed in the present generation. *)
Knows(n) == obs[n] # None /\ obs[n].gen = link.gen

(* Nothing is known of a later generation, and what was observed or asked  *)
(* for in this one is dated after it began.                                *)
Recent ==
  /\ link.epoch <= now
  /\ \A n \in ROLES : obs[n] # None => obs[n].gen <= link.gen
  /\ \A k \in DOMAIN calls : calls[k].gen <= link.gen
  /\ link.up => /\ \A n \in ROLES : Knows(n) => obs[n].at >= link.epoch
                /\ \A k \in DOMAIN calls : calls[k].gen = link.gen => calls[k].at >= link.epoch

(* An event on its way tells what the station has, and is later than that. *)
Right(m, n) == m.kind = "event" /\ m.name = n /\ m.value = station.value[n]
Newer(n, at) == \E j \in DOMAIN notices : Right(notices[j], n) /\ notices[j].at > at
Overtaken(n, at) == Newer(n, at) \/ (Knows(n) /\ obs[n].at > at)

(* Of a variable whose last change was notified: whatever is held, on its  *)
(* way or just answered with another value has a later event behind it, or *)
(* is older than what is held.                                             *)
WrongHeld(n) ==
  Knows(n) /\ obs[n].value \notin {station.value[n], "unknown"} => Newer(n, obs[n].at)
WrongEvents(n) ==
  \A k \in DOMAIN notices :
    notices[k].kind = "event" /\ notices[k].name = n /\ notices[k].value # station.value[n] =>
      \E j \in DOMAIN notices : j > k /\ Right(notices[j], n) /\ notices[j].at > notices[k].at
WrongAnswers(n) ==
  \A j \in DOMAIN answers, k \in DOMAIN calls :
    answers[j].cid = calls[k].cid /\ calls[k].gen = link.gen /\ calls[k].name = n
      /\ answers[j].value \in Value \ {station.value[n]} => Overtaken(n, calls[k].at)
Truthful ==
  link.up => \A n \in station.told : WrongHeld(n) /\ WrongEvents(n) /\ WrongAnswers(n)

(* The generation lasts. *)
LinkStays == link'.gen = link.gen /\ link'.up = link.up /\ link'.epoch = link.epoch

(* Only a connection, its end and a boot change the generation. *)
LEMMA LinkEffects ==
  ASSUME Typed, Next
  PROVE  Connect \/ Disconnect \/ Boot \/ LinkStays
<1>1. ASSUME link' = link PROVE LinkStays
      BY <1>1 DEF LinkStays
<1>2. CASE Inventory
  <2>1. link' = [link EXCEPT !.writable = boots.rw]
        BY <1>2 DEF Inventory
  <2> QED BY <2>1 DEF LinkStays, Typed, TypeOK
<1>3. CASE System /\ ~Inventory /\ ~Boot
  <2>1. link' = link
        BY <1>3 DEF System, Send, Refused, TimedOut, LateAnswer, WriteAnswered, ReadAnswered,
                    Initialize, ReportAnswered, Report, NoInventory, InitialRead, Event,
                    CarriesOut, Tells, ReportsBase
  <2> QED BY <1>1, <2>1
<1>4. CASE World /\ ~Connect /\ ~Disconnect
  <2>1. link' = link
        BY <1>4 DEF World, Poll, Repeat, Command, LocalChange, StationBoots
  <2> QED BY <1>1, <2>1
<1> QED BY <1>2, <1>3, <1>4 DEF Next

(* Events keep their order; what is taken or added is none. *)
Flow(lost) ==
  /\ \A k \in DOMAIN notices : notices[k].kind = "event" =>
       k - lost \in DOMAIN notices' /\ notices'[k - lost] = notices[k]
  /\ \A k \in DOMAIN notices' : notices'[k].kind = "event" =>
       k + lost \in DOMAIN notices /\ notices'[k] = notices[k + lost]
(* Nothing is learnt, and nothing changes that could be. *)
Learns ==
  Event \/ ReadAnswered
Alike ==
  obs' = obs /\ station'.value = station.value /\ station'.told = station.told
    /\ \E lost \in {0, 1} : Flow(lost)

(* The messages that stay, the one that is read and the one that joins. *)
LEMMA SameFlows ==
  ASSUME Typed, notices' = notices PROVE \E lost \in {0, 1} : Flow(lost)
<1>1. \A k \in DOMAIN notices : k - 0 = k /\ k + 0 = k
      BY DEF Typed, TypeOK
<1>2. Flow(0)
      BY <1>1 DEF Flow
<1> QED BY <1>2

LEMMA TailFlows ==
  ASSUME Typed, NEW kind, kind # "event", Arrives(kind)
  PROVE  \E lost \in {0, 1} : Flow(lost)
<1>1. /\ notices \in Seq(Message) /\ notices # <<>> /\ notices' = Tail(notices)
      /\ notices[1].kind # "event"
      BY NoticeTaken DEF Arrives, Typed, TypeOK
<1>2. /\ \A k \in DOMAIN notices : k # 1 =>
           k - 1 \in DOMAIN notices' /\ notices'[k - 1] = notices[k]
      /\ \A k \in DOMAIN notices' : k + 1 \in DOMAIN notices /\ notices'[k] = notices[k + 1]
      BY <1>1
<1>3. Flow(1)
      BY <1>1, <1>2 DEF Flow
<1> QED BY <1>3

LEMMA AppendFlows ==
  ASSUME Typed, NEW m, m.kind # "event", notices' = Append(notices, m)
  PROVE  \E lost \in {0, 1} : Flow(lost)
<1>1. \A k \in DOMAIN notices : k \in DOMAIN notices' /\ notices'[k] = notices[k] /\ k - 0 = k
      BY DEF Typed, TypeOK
<1>2. \A k \in DOMAIN notices' :
        /\ k + 0 = k
        /\ (k \in DOMAIN notices /\ notices'[k] = notices[k]) \/ notices'[k] = m
      BY DEF Typed, TypeOK
<1>3. Flow(0)
      BY <1>1, <1>2 DEF Flow
<1> QED BY <1>3

(* Every other step learns something, changes the station, or does neither. *)
LEMMA KnowledgeEffects ==
  ASSUME Typed, Next, ~Connect, ~Disconnect, ~Boot
  PROVE  \/ Learns \/ Alike
         \/ obs' = obs /\ link' = link
              /\ \E n \in ROLES, v \in Value, told \in BOOLEAN : Changed(n, v, told)
<1>1. ASSUME UNCHANGED <<obs, station, notices>> PROVE Alike
      BY <1>1, SameFlows DEF Alike
<1>2. CASE \/ Send \/ Refused \/ TimedOut \/ LateAnswer \/ WriteAnswered
           \/ Initialize \/ ReportAnswered \/ Inventory \/ NoInventory
           \/ (\E n \in ROLES : InitialRead(n)) \/ Tells \/ Poll
  <2>1. UNCHANGED <<obs, station, notices>>
        BY <1>2 DEF Send, Refused, TimedOut, LateAnswer, WriteAnswered,
                    Initialize, ReportAnswered, Inventory, NoInventory, InitialRead, Tells,
                    Unchanged, Poll
  <2> QED BY <1>1, <2>1
<1>3. CASE Report
  <2>1. Arrives("report") /\ UNCHANGED <<obs, station>>
        BY <1>3 DEF Report
  <2> QED BY <2>1, TailFlows DEF Alike
<1>4. CASE CarriesOut
  <2>1. obs' = obs /\ link' = link
        BY <1>4 DEF CarriesOut
  <2>2. \/ UNCHANGED <<now, station, since, notices>>
        \/ \E n \in ROLES, v \in Value : Changed(n, v, TRUE)
        BY <1>4, CarriesOutStep
  <2> QED BY <1>1, <2>1, <2>2
<1>5. CASE ReportsBase
  <2>1. /\ UNCHANGED <<obs, station>>
        /\ notices' \in {notices, Append(notices, Part("ok")), Append(notices, Part("broken"))}
        BY <1>5 DEF ReportsBase
  <2>2. Part("ok").kind # "event" /\ Part("broken").kind # "event"
        BY DEF Part, Told
  <2> QED BY <2>1, <2>2, SameFlows, AppendFlows DEF Alike
<1>6. ASSUME NEW rw \in SUBSET station.has, StationBoots(rw) PROVE Alike
  <2>1. obs' = obs /\ station' = [station EXCEPT !.rw = rw]
        /\ notices' = Append(notices, Told("boot", Some, "ok"))
        BY <1>6 DEF StationBoots
  <2>2. station'.value = station.value /\ station'.told = station.told
        BY <2>1 DEF Typed, TypeOK
  <2>3. Told("boot", Some, "ok").kind # "event"
        BY DEF Told
  <2> QED BY <2>1, <2>2, <2>3, AppendFlows DEF Alike
<1>7. ASSUME NEW n \in station.has, NEW v \in Value, Repeat(n, v) \/ Command(n, v)
      PROVE  Alike
  <2>1. UNCHANGED <<obs, station, notices>>
        BY <1>7 DEF Repeat, Command
  <2> QED BY <1>1, <2>1
<1>8. station.has \subseteq ROLES
      BY StationsAssumption DEF Typed, TypeOK
<1>9. ASSUME NEW n \in station.has, NEW v \in Value, NEW told \in BOOLEAN, LocalChange(n, v, told)
      PROVE  n \in ROLES /\ Changed(n, v, told) /\ obs' = obs /\ link' = link
      BY <1>8, <1>9 DEF LocalChange
<1>10. CASE System
       BY <1>2, <1>3, <1>4, <1>5, <1>10 DEF System, Learns
<1>11. CASE World
       BY <1>2, <1>6, <1>7, <1>9, <1>11 DEF World
<1> QED BY <1>10, <1>11 DEF Next

(* What a message that is read has brought, and where it came from. *)
LearnsFrom(m, v, at) ==
  /\ obs' = Observed(m, v, at) /\ UNCHANGED <<now, station, link>>
  /\ \/ /\ notices # <<>> /\ notices' = Tail(notices)
        /\ notices[1].kind = "event" /\ notices[1].name = m
        /\ notices[1].value = v /\ notices[1].at = at
     \/ /\ notices' = notices /\ calls # <<>> /\ answers # <<>> /\ calls[1].cid = answers[1].cid
        /\ calls[1].name = m /\ calls[1].at = at /\ answers[1].value = v
        /\ calls[1].gen = link.gen

(* Reading an event or an answer observes what it says, or nothing at all. *)
LEMMA LearnsEffects ==
  ASSUME Typed, Learns
  PROVE  Alike \/ \E m \in ROLES, v \in Value, at \in Nat : LearnsFrom(m, v, at)
<1>1. CASE Event
  <2>1. /\ notices # <<>> /\ notices' = Tail(notices) /\ Head(notices) = notices[1]
        /\ notices[1] \in Message /\ notices[1].kind = "event" /\ notices[1].value \in Value
        BY <1>1, NoticeTaken DEF Event, Arrives
  <2>2. PICK m \in ROLES, v \in Value, at \in Nat :
          m = notices[1].name /\ v = notices[1].value /\ at = notices[1].at
        BY <2>1 DEF Message, Time
  <2>3. obs' = Observed(m, v, at) /\ UNCHANGED <<now, station, link>>
        BY <1>1, <2>1, <2>2 DEF Event, Reports
  <2> QED BY <2>1, <2>2, <2>3 DEF LearnsFrom
<1>2. CASE ReadAnswered
  <2>1. /\ calls # <<>> /\ answers # <<>> /\ Top = calls[1] /\ M = answers[1]
        /\ Top.cid = M.cid /\ Top \in Call
    <3>1. calls # <<>> /\ answers # <<>> /\ Top.cid = M.cid
          BY <1>2 DEF ReadAnswered, Answers, AnswersTop, M
    <3>2. calls \in Seq(Call) /\ answers \in Seq(Message)
          BY DEF Typed, TypeOK
    <3> QED BY <3>1, <3>2 DEF Top, M
  <2>2. UNCHANGED <<now, station, link, notices>>
        BY <1>2 DEF ReadAnswered
  <2>3. CASE obs' = obs
        BY <2>2, <2>3, SameFlows DEF Alike
  <2>4. CASE Live(Top.gen) /\ M.value \in Value /\ Reports(Top.name, M.value, Top.at)
    <3>1. PICK m \in ROLES, v \in Value, at \in Nat : m = Top.name /\ v = M.value /\ at = Top.at
          BY <2>1, <2>4 DEF Call, Time
    <3>2. obs' = Observed(m, v, at) /\ Top.gen = link.gen
          BY <2>4, <3>1 DEF Reports, Live
    <3> QED BY <2>1, <2>2, <3>1, <3>2 DEF LearnsFrom
  <2> QED BY <1>2, <2>3, <2>4 DEF ReadAnswered
<1> QED BY <1>1, <1>2 DEF Learns

(* What is held afterwards. *)
LEMMA ObservedHolds ==
  ASSUME Typed, NEW m \in ROLES, NEW v \in Value, NEW at \in Nat, obs' = Observed(m, v, at)
  PROVE  /\ \A n \in ROLES : n # m => obs'[n] = obs[n]
         /\ ~Accepts(m, v, at) => obs'[m] = obs[m]
         /\ Accepts(m, v, at) => /\ obs'[m] # None /\ obs'[m].at = at /\ obs'[m].gen = link.gen
                                 /\ obs'[m].value \in {v, "unknown"}
<1>1. CASE Accepts(m, v, at)
  <2>1. obs' = [obs EXCEPT ![m] = Observation_(m, v, at)]
        BY <1>1 DEF Observed
  <2>2. /\ Observation_(m, v, at).at = at /\ Observation_(m, v, at).gen = link.gen
        /\ Observation_(m, v, at).value \in {v, "unknown"}
        BY DEF Observation_
  <2>3. Observation_(m, v, at) # None
    <3>1. v \in Reported /\ link.gen \in Nat
          BY DEF Reported, Typed, TypeOK
    <3>2. Observation_(m, v, at) \in Observation
          BY <3>1 DEF Observation_, Observation, Reported, Time
    <3> QED BY <3>2, NoneAssumption
  <2> HIDE DEF Observation_
  <2> QED BY <1>1, <2>1, <2>2, <2>3 DEF Typed, TypeOK
<1>2. CASE ~Accepts(m, v, at)
  <2>1. obs' = obs
        BY <1>2 DEF Observed
  <2> QED BY <1>2, <2>1
<1> QED BY <1>1, <1>2

(* Boots and connections open a generation later than all that is known. *)
LEMMA LinkMoves ==
  ASSUME Typed, Connect \/ Disconnect \/ Boot
  PROVE  /\ UNCHANGED <<now, obs, station>>
         /\ link'.epoch = now
         /\ \/ link.up /\ ~link'.up /\ link'.gen = link.gen
            \/ link'.up /\ link'.gen = link.gen + 1
         /\ \A k \in DOMAIN calls' : k \in DOMAIN calls /\ calls'[k].gen = calls[k].gen
<1>0. /\ link \in [up: BOOLEAN, gen: Nat, registered: BOOLEAN, epoch: Time, writable: SUBSET ROLES]
      /\ calls \in Seq(Call)
      BY DEF Typed, TypeOK
<1>1. CASE Connect
  <2>1. /\ UNCHANGED <<now, obs, station>> /\ calls' = <<>>
        /\ link' = [up |-> TRUE, gen |-> link.gen + 1, registered |-> FALSE, epoch |-> now, writable |-> {}]
        BY <1>1 DEF Connect
  <2> QED BY <2>1
<1>2. CASE Disconnect
  <2>1. /\ UNCHANGED <<now, obs, station>> /\ calls' = <<>> /\ link.up
        /\ link' = [link EXCEPT !.up = FALSE, !.epoch = now]
        BY <1>2 DEF Disconnect
  <2> QED BY <1>0, <2>1
<1>3. CASE Boot
  <2>1. /\ UNCHANGED <<now, obs, station>> /\ link.up
        /\ link' = [link EXCEPT !.gen = @ + 1, !.registered = TRUE, !.epoch = now, !.writable = {}]
        /\ calls' = [k \in DOMAIN calls |->
                      [calls[k] EXCEPT !.heard = @ /\ calls[k].kind \in {"write", "confirm"}]]
        BY <1>3 DEF Boot, Arrives
  <2>2. link'.up /\ link'.gen = link.gen + 1 /\ link'.epoch = now
        BY <1>0, <2>1
  <2>3. \A k \in DOMAIN calls' : k \in DOMAIN calls /\ calls'[k].gen = calls[k].gen
    <3>1. \A k \in DOMAIN calls : calls[k] \in Call
          BY <1>0
    <3> QED BY <2>1, <3>1 DEF Call
  <2> QED BY <2>1, <2>2, <2>3
<1> QED BY <1>1, <1>2, <1>3

(* No step makes anything known of a later generation, or from before this one. *)
LEMMA RecentStep ==
  ASSUME Typed, Typed', Recent, Next, NEW first, NEW c \in Call, StepEffects(first, c)
  PROVE  Recent'
<1>0. /\ now \in Nat /\ now' \in {now, now + 1} /\ link.gen \in Nat /\ link.epoch \in Nat
      /\ \A k \in DOMAIN calls : calls[k].gen \in Nat /\ calls[k].at \in Nat
      /\ \A n \in ROLES : obs[n] # None => obs[n].gen \in Nat /\ obs[n].at \in Nat
  <2>1. now \in Nat /\ now' \in {now, now + 1}
        BY ClockMoves, Elements DEF StepEffects
  <2>2. link.gen \in Nat /\ link.epoch \in Nat
        BY DEF Typed, TypeOK, Time
  <2>3. \A k \in DOMAIN calls : calls[k].gen \in Nat /\ calls[k].at \in Nat
        BY Elements DEF Call
  <2>4. \A n \in ROLES : obs[n] # None => obs[n].gen \in Nat /\ obs[n].at \in Nat
        BY Elements DEF Observation
  <2> QED BY <2>1, <2>2, <2>3, <2>4
<1>1. CASE Connect \/ Disconnect \/ Boot
  <2>1. /\ UNCHANGED <<now, obs, station>> /\ link'.epoch = now
        /\ \/ ~link'.up /\ link'.gen = link.gen
           \/ link'.up /\ link'.gen = link.gen + 1
        /\ \A k \in DOMAIN calls' : k \in DOMAIN calls /\ calls'[k].gen = calls[k].gen
        BY <1>1, LinkMoves
  <2> QED BY <1>0, <2>1 DEF Recent, Knows
<1>2. CASE LinkStays
  <2>0. ~Connect /\ ~Disconnect /\ ~Boot
        BY <1>0, <1>2, LinkMoves DEF LinkStays
  <2>1. ASSUME NEW n \in ROLES, obs'[n] # None
        PROVE  obs'[n].gen <= link.gen /\ (link.up /\ obs'[n].gen = link.gen => obs'[n].at >= link.epoch)
    <3>1. CASE obs'[n] = obs[n]
          BY <2>1, <3>1 DEF Recent, Knows
    <3>2. ASSUME NEW m \in ROLES, NEW v \in Value, NEW at \in Nat, LearnsFrom(m, v, at),
                 obs'[n] # obs[n]
          PROVE  obs'[n].gen = link.gen /\ obs'[n].at >= link.epoch
      <4>1. n = m /\ Accepts(m, v, at) /\ obs'[n].gen = link.gen /\ obs'[n].at = at
            BY <3>2, ObservedHolds DEF LearnsFrom
      <4> QED BY <4>1 DEF Accepts
    <3>3. obs' = obs \/ \E m \in ROLES, v \in Value, at \in Nat : LearnsFrom(m, v, at)
          BY <2>0, KnowledgeEffects, LearnsEffects DEF Alike
    <3> QED BY <1>0, <3>1, <3>2, <3>3
  <2>2. ASSUME NEW k \in DOMAIN calls'
        PROVE  /\ calls'[k].gen <= link.gen
               /\ link.up /\ calls'[k].gen = link.gen => calls'[k].at >= link.epoch
    <3>1. CASE /\ k + first \in DOMAIN calls /\ calls'[k].at = calls[k + first].at
               /\ calls'[k].gen = calls[k + first].gen
          BY <3>1 DEF Recent
    <3>2. CASE calls'[k].at = now /\ calls'[k].gen = link.gen
          BY <1>0, <3>2 DEF Recent
    <3> QED BY <3>1, <3>2, StayingCall
  <2>3. link'.epoch <= now'
        BY <1>0, <1>2 DEF Recent, LinkStays
  <2> QED BY <1>2, <2>1, <2>2, <2>3 DEF Recent, Knows, LinkStays
<1> QED BY <1>1, <1>2, LinkEffects

(* Whoever overtook still does, or the change of this step overtakes all. *)
Covered(n) ==
  \/ /\ WrongAnswers(n) /\ station'.value[n] = station.value[n]
     /\ \A at \in Nat : at >= link.epoch /\ Overtaken(n, at) => Overtaken(n, at)'
  \/ \A at \in Nat : at <= now => Overtaken(n, at)'

(* Then every wrong answer to a call of this generation is overtaken. *)
LEMMA AnswersCovered ==
  ASSUME Typed, Typed', Dated, Matched, Recent, link.up, LinkStays,
         NEW first, NEW c \in Call, StepEffects(first, c), NEW n \in ROLES, Covered(n)
  PROVE  WrongAnswers(n)'
<1> SUFFICES ASSUME NEW j \in DOMAIN answers', NEW k \in DOMAIN calls',
                    answers'[j].cid = calls'[k].cid, calls'[k].gen = link.gen, calls'[k].name = n,
                    answers'[j].value \in Value \ {station'.value[n]}
             PROVE  Overtaken(n, calls[k].at)'
    BY DEF WrongAnswers, LinkStays
<1>1. /\ \A i \in DOMAIN inbox : inbox[i].cid # FreshCall
      /\ \A i \in DOMAIN answers : answers[i].cid # FreshCall
      BY FreshAreFree DEF Typed
<1>2. inbox # <<>> => 1 \in DOMAIN inbox
      BY Elements
<1>3. answers'[j].cid # FreshCall
      BY <1>1, <1>2 DEF StepEffects, AnswersMove
<1>4. /\ k + first \in DOMAIN calls /\ calls'[k].cid = calls[k + first].cid
      /\ calls'[k].name = calls[k + first].name /\ calls'[k].at = calls[k + first].at
      /\ calls'[k].gen = calls[k + first].gen
      BY <1>3, StayingCall
<1>5. PICK at \in Nat : at = calls[k + first].at
      BY <1>4, Elements
<1>6. at <= now /\ at >= link.epoch
      BY <1>4, <1>5 DEF Dated, Recent
<1>7. Overtaken(n, at)'
  <2>1. CASE \A a \in Nat : a <= now => Overtaken(n, a)'
        BY <1>6, <2>1
  <2>2. CASE /\ WrongAnswers(n) /\ station'.value[n] = station.value[n]
             /\ \A a \in Nat : a >= link.epoch /\ Overtaken(n, a) => Overtaken(n, a)'
    <3>1. CASE \E i \in DOMAIN answers : answers'[j] = answers[i]
      <4>1. Overtaken(n, at)
            BY <1>4, <1>5, <2>2, <3>1 DEF WrongAnswers
      <4> QED BY <1>6, <2>2, <4>1
    <3>2. CASE /\ inbox # <<>> /\ answers'[j].cid = inbox[1].cid
               /\ answers'[j].value \in Value => answers'[j].value = station.value[inbox[1].name]
      <4>1. inbox[1].name = n
            BY <1>2, <1>4, <3>2 DEF Matched
      <4> QED BY <2>2, <3>2, <4>1
    <3> QED BY <3>1, <3>2 DEF StepEffects, AnswersMove
  <2> QED BY <2>1, <2>2 DEF Covered
<1> QED BY <1>4, <1>5, <1>7 DEF Overtaken, Newer, Knows, Right

Honest(n) == WrongHeld(n) /\ WrongEvents(n) /\ WrongAnswers(n)

(* Messages stand at natural positions. *)
LEMMA PositionsAreNumbers ==
  ASSUME Typed, Typed'
  PROVE  /\ \A k \in DOMAIN notices : k \in Nat
         /\ \A k \in DOMAIN notices' : k \in Nat
<1>1. \A s \in Seq(Message) : \A k \in DOMAIN s : k \in Nat
      OBVIOUS
<1>2. notices \in Seq(Message) /\ notices' \in Seq(Message)
  <2>1. TypeOK /\ TypeOK'
        BY DEF Typed
  <2> QED BY <2>1 DEF TypeOK
<1> QED BY <1>1, <1>2

(* The steps that leave knowledge and the station as they are. *)
LEMMA AlikeHonest ==
  ASSUME Typed, Typed', LinkStays, Alike, NEW n \in ROLES, Honest(n)
  PROVE  WrongHeld(n)' /\ WrongEvents(n)' /\ Covered(n)
<1>1. PICK lost \in {0, 1} : Flow(lost)
      BY DEF Alike
<1>2. /\ \A k \in DOMAIN notices : k \in Nat
      /\ \A k \in DOMAIN notices' : k \in Nat
      BY PositionsAreNumbers
<1>3. \A j \in DOMAIN notices : Right(notices[j], n) =>
        j - lost \in DOMAIN notices' /\ notices'[j - lost] = notices[j]
      BY <1>1 DEF Flow, Right
<1>4. station'.value = station.value /\ obs' = obs /\ (Knows(n)' <=> Knows(n))
      BY DEF Alike, LinkStays, Knows
<1>5. ASSUME NEW at, Newer(n, at) PROVE Newer(n, at)'
  <2>1. PICK j \in DOMAIN notices : Right(notices[j], n) /\ notices[j].at > at
        BY <1>5 DEF Newer
  <2>2. j - lost \in DOMAIN notices' /\ notices'[j - lost] = notices[j]
        BY <1>3, <2>1
  <2> QED BY <1>4, <2>1, <2>2 DEF Newer, Right
<1>6. WrongHeld(n)'
      BY <1>4, <1>5 DEF WrongHeld, Honest
<1>7. WrongEvents(n)'
  <2> SUFFICES ASSUME NEW k \in DOMAIN notices', notices'[k].kind = "event", notices'[k].name = n,
                      notices'[k].value # station'.value[n]
               PROVE  \E j \in DOMAIN notices' : j > k /\ Right(notices[j], n)'
                                                 /\ notices'[j].at > notices'[k].at
      BY DEF WrongEvents
  <2>1. k + lost \in DOMAIN notices /\ notices'[k] = notices[k + lost]
        BY <1>1 DEF Flow
  <2>2. PICK j \in DOMAIN notices : /\ j > k + lost /\ Right(notices[j], n)
                                    /\ notices[j].at > notices[k + lost].at
        BY <1>4, <2>1 DEF WrongEvents, Honest
  <2>3. j - lost \in DOMAIN notices' /\ notices'[j - lost] = notices[j] /\ j - lost > k
        BY <1>2, <1>3, <2>2
  <2> QED BY <1>4, <2>1, <2>2, <2>3 DEF Right
<1>8. Covered(n)
  <2>1. \A at \in Nat : Overtaken(n, at) => Overtaken(n, at)'
        BY <1>4, <1>5 DEF Overtaken
  <2> QED BY <1>4, <2>1 DEF Covered, Honest
<1> QED BY <1>6, <1>7, <1>8

(* A change of this variable that is told is the latest of all. *)
LEMMA ChangedHonest ==
  ASSUME Typed, Typed', Dated, link.up, LinkStays, obs' = obs, NEW n \in ROLES, n \in station'.told,
         NEW m \in ROLES, NEW v \in Value, NEW told \in BOOLEAN, Changed(m, v, told),
         n \in station.told => Honest(n)
  PROVE  WrongHeld(n)' /\ WrongEvents(n)' /\ Covered(n)
<1>0. /\ now \in Nat /\ notices \in Seq(Message)
      /\ \A k \in DOMAIN notices : k \in Nat /\ notices[k].at \in Nat /\ notices[k].at <= now
  <2>1. notices \in Seq(Message)
        BY DEF Typed, TypeOK
  <2>2. now \in Nat /\ \A k \in DOMAIN notices : notices[k].at \in Nat /\ notices[k].at <= now
        BY Elements DEF Dated
  <2> QED BY <2>1, <2>2
<1>1. /\ station'.value = [station.value EXCEPT ![m] = v]
      /\ station'.told = IF told THEN station.told \cup {m} ELSE station.told \ {m}
      BY DEF Changed, Typed, TypeOK
<1>2. Knows(n)' <=> Knows(n)
      BY DEF LinkStays, Knows
<1> DEFINE e == [Told("event", m, v) EXCEPT !.at = now + 1]
<1>3. e.kind = "event" /\ e.name = m /\ e.value = v /\ e.at = now + 1
      BY DEF Told
<1>4. notices' = IF told THEN Append(notices, e) ELSE notices
      BY DEF Changed
<1> HIDE DEF e
<1>5. \A k \in DOMAIN notices : k \in DOMAIN notices' /\ notices'[k] = notices[k]
      BY <1>0, <1>4
<1>6. \A k \in DOMAIN notices' :
        \/ k \in DOMAIN notices /\ notices'[k] = notices[k]
        \/ notices'[k] = e
      BY <1>0, <1>4
<1>7. CASE n = m
  <2>1. told /\ station'.value[n] = v
        BY <1>1, <1>7 DEF Typed, TypeOK
  <2>2. PICK l \in Nat : /\ l \in DOMAIN notices' /\ notices'[l] = e
                         /\ \A k \in DOMAIN notices : k < l
                         /\ \A k \in DOMAIN notices' :
                              k = l \/ (k \in DOMAIN notices /\ notices'[k] = notices[k])
    <3>1. /\ Len(notices) + 1 \in DOMAIN notices' /\ notices'[Len(notices) + 1] = e
          /\ \A k \in DOMAIN notices : k < Len(notices) + 1
          /\ \A k \in DOMAIN notices' :
               k = Len(notices) + 1 \/ (k \in DOMAIN notices /\ notices'[k] = notices[k])
          BY <1>0, <1>4, <2>1
    <3> QED BY <1>0, <3>1
  <2>3. Right(notices[l], n)' /\ notices'[l].at = now + 1
        BY <1>3, <1>7, <2>1, <2>2 DEF Right
  <2>4. \A at \in Nat : at <= now => Newer(n, at)'
        BY <1>0, <2>2, <2>3 DEF Newer
  <2>5. WrongHeld(n)'
    <3>1. Knows(n) => obs[n].at \in Nat /\ obs[n].at <= now
          BY Elements DEF Knows, Dated
    <3> QED BY <1>2, <2>4, <3>1 DEF WrongHeld
  <2>6. WrongEvents(n)'
    <3> SUFFICES ASSUME NEW k \in DOMAIN notices', notices'[k].value # station'.value[n]
                 PROVE  \E j \in DOMAIN notices' : j > k /\ Right(notices[j], n)'
                                                   /\ notices'[j].at > notices'[k].at
        BY DEF WrongEvents
    <3>1. k # l
          BY <1>3, <2>1, <2>2
    <3>2. k \in DOMAIN notices /\ notices'[k] = notices[k] /\ k < l
          BY <2>2, <3>1
    <3>3. notices'[l].at > notices'[k].at
          BY <1>0, <2>3, <3>2
    <3> QED BY <1>0, <2>2, <2>3, <3>2, <3>3
  <2> QED BY <2>4, <2>5, <2>6 DEF Covered, Overtaken
<1>8. CASE n # m
  <2>1. n \in station.told /\ station'.value[n] = station.value[n] /\ Honest(n)
        BY <1>1, <1>8 DEF Typed, TypeOK
  <2>2. ASSUME NEW at, Newer(n, at) PROVE Newer(n, at)'
    <3>1. PICK j \in DOMAIN notices : Right(notices[j], n) /\ notices[j].at > at
          BY <2>2 DEF Newer
    <3> QED BY <1>5, <2>1, <3>1 DEF Newer, Right
  <2>3. WrongHeld(n)'
        BY <1>2, <2>1, <2>2 DEF WrongHeld, Honest
  <2>4. WrongEvents(n)'
    <3> SUFFICES ASSUME NEW k \in DOMAIN notices', notices'[k].kind = "event", notices'[k].name = n,
                        notices'[k].value # station'.value[n]
                 PROVE  \E j \in DOMAIN notices' : j > k /\ Right(notices[j], n)'
                                                   /\ notices'[j].at > notices'[k].at
        BY DEF WrongEvents
    <3>1. k \in DOMAIN notices /\ notices'[k] = notices[k]
          BY <1>3, <1>6, <1>8
    <3>2. PICK j \in DOMAIN notices : j > k /\ Right(notices[j], n) /\ notices[j].at > notices[k].at
          BY <2>1, <3>1 DEF WrongEvents, Honest
    <3> QED BY <1>5, <2>1, <3>1, <3>2 DEF Right
  <2>5. Covered(n)
    <3>1. \A at \in Nat : Overtaken(n, at) => Overtaken(n, at)'
          BY <1>2, <2>2 DEF Overtaken
    <3> QED BY <2>1, <3>1 DEF Covered, Honest
  <2> QED BY <2>3, <2>4, <2>5
<1> QED BY <1>7, <1>8

(* What is learnt is refused only if something later is held. *)
LEMMA RefusedOvertaken ==
  ASSUME Typed, Recent, link.up, NEW m \in ROLES, NEW v \in Value, NEW at \in Nat,
         at >= link.epoch, ~Accepts(m, v, at)
  PROVE  Knows(m) /\ obs[m].at >= at
<1>1. obs[m] # None => obs[m].at \in Nat
      BY Elements
<1> QED BY <1>1 DEF Accepts, Knows

(* An event is read: what it says is held, unless that is known already. *)
LEMMA EventHonest ==
  ASSUME Typed, Typed', Recent, link.up, LinkStays, NEW n \in ROLES, Honest(n),
         NEW m \in ROLES, NEW v \in Value, NEW at \in Nat,
         obs' = Observed(m, v, at), station' = station,
         notices # <<>>, notices' = Tail(notices), notices[1].kind = "event", notices[1].name = m,
         notices[1].value = v, notices[1].at = at
  PROVE  WrongHeld(n)' /\ WrongEvents(n)' /\ Covered(n)
<1>0. /\ notices \in Seq(Message) /\ 1 \in DOMAIN notices /\ link.epoch \in Nat
      /\ obs[n] # None => obs[n].at \in Nat
      /\ \A k \in DOMAIN notices : notices[k].at \in Nat
  <2>1. notices \in Seq(Message) /\ link.epoch \in Nat
        BY DEF Typed, TypeOK, Time
  <2> QED BY <2>1, Elements
<1>1. /\ \A k \in DOMAIN notices : k # 1 =>
           k \in Nat /\ k > 1 /\ k - 1 \in DOMAIN notices' /\ notices'[k - 1] = notices[k]
      /\ \A k \in DOMAIN notices' :
           k \in Nat /\ k + 1 \in DOMAIN notices /\ k + 1 > 1 /\ notices'[k] = notices[k + 1]
  <2>1. notices \in Seq(Message) /\ notices # <<>> /\ notices' = Tail(notices)
        BY <1>0
  <2>2. /\ DOMAIN notices = 1..Len(notices) /\ Len(notices) \in Nat
        /\ DOMAIN notices' = 1..(Len(notices) - 1)
        BY <2>1
  <2>3. \A k \in 1..(Len(notices) - 1) : notices'[k] = notices[k + 1]
        BY <2>1
  <2>4. \A k \in DOMAIN notices : k # 1 =>
          k \in Nat /\ k > 1 /\ k - 1 \in 1..(Len(notices) - 1) /\ (k - 1) + 1 = k
        BY <2>2
  <2> QED BY <2>2, <2>3, <2>4
<1>2. /\ n # m => obs'[n] = obs[n]
      /\ ~Accepts(m, v, at) => obs'[m] = obs[m]
      /\ Accepts(m, v, at) => /\ obs'[m] # None /\ obs'[m].at = at /\ obs'[m].gen = link.gen
                              /\ obs'[m].value \in {v, "unknown"}
      BY ObservedHolds
<1>3. ASSUME NEW j \in DOMAIN notices, j # 1, Right(notices[j], n)
      PROVE  \E i \in DOMAIN notices' : i = j - 1 /\ notices'[i] = notices[j] /\ Right(notices[i], n)'
      BY <1>1, <1>3 DEF Right
<1>4. ASSUME NEW a, Newer(n, a), ~(n = m /\ Right(notices[1], n) /\ at > a) PROVE Newer(n, a)'
  <2>1. PICK j \in DOMAIN notices : Right(notices[j], n) /\ notices[j].at > a
        BY <1>4 DEF Newer
  <2>2. j # 1
        BY <1>4, <2>1 DEF Right
  <2> QED BY <1>3, <2>1, <2>2 DEF Newer
<1>5. WrongEvents(n)'
  <2> SUFFICES ASSUME NEW k \in DOMAIN notices', notices'[k].kind = "event", notices'[k].name = n,
                      notices'[k].value # station.value[n]
               PROVE  \E j \in DOMAIN notices' : j > k /\ Right(notices[j], n)'
                                                 /\ notices'[j].at > notices'[k].at
      BY DEF WrongEvents
  <2>1. k \in Nat /\ k + 1 \in DOMAIN notices /\ notices'[k] = notices[k + 1]
        BY <1>1
  <2>2. PICK j \in DOMAIN notices : /\ j > k + 1 /\ Right(notices[j], n)
                                    /\ notices[j].at > notices[k + 1].at
        BY <2>1 DEF WrongEvents, Honest
  <2>3. j # 1 /\ j \in Nat
        BY <1>0, <1>1, <2>1, <2>2
  <2>4. PICK i \in DOMAIN notices' : i = j - 1 /\ notices'[i] = notices[j] /\ Right(notices[i], n)'
        BY <1>3, <2>2, <2>3
  <2> QED BY <2>1, <2>2, <2>3, <2>4
<1>6. WrongHeld(n)'
  <2> SUFFICES ASSUME Knows(n)', obs'[n].value \notin {station.value[n], "unknown"}
               PROVE  \E j \in DOMAIN notices' : Right(notices[j], n)' /\ notices'[j].at > obs'[n].at
      BY DEF WrongHeld, Newer
  <2>1. CASE n = m /\ Accepts(m, v, at)
    <3>1. v # station.value[n] /\ obs'[n].at = at
          BY <1>2, <2>1
    <3>2. PICK j \in DOMAIN notices : j > 1 /\ Right(notices[j], n) /\ notices[j].at > notices[1].at
          BY <1>0, <2>1, <3>1 DEF WrongEvents, Honest
    <3>3. j # 1
          BY <3>2
    <3>4. PICK i \in DOMAIN notices' : i = j - 1 /\ notices'[i] = notices[j] /\ Right(notices[i], n)'
          BY <1>3, <3>2, <3>3
    <3> QED BY <3>1, <3>2, <3>4
  <2>2. CASE ~(n = m /\ Accepts(m, v, at))
    <3>1. obs'[n] = obs[n] /\ Knows(n)
          BY <1>2, <2>2 DEF Knows, LinkStays
    <3>2. Newer(n, obs[n].at)
          BY <3>1 DEF WrongHeld, Honest
    <3>3. ~(n = m /\ Right(notices[1], n) /\ at > obs[n].at)
      <4> SUFFICES ASSUME n = m, at > obs[n].at PROVE FALSE
          OBVIOUS
      <4>1. obs[n].at >= link.epoch /\ obs[n].at \in Nat
            BY <1>0, <3>1 DEF Recent, Knows
      <4>2. obs[n].at >= at
            BY <1>0, <2>2, <4>1, RefusedOvertaken
      <4> QED BY <4>1, <4>2
    <3>4. Newer(n, obs[n].at)'
      <4>1. PICK a \in Nat : a = obs[n].at
            BY <1>0, <3>1 DEF Knows
      <4>2. Newer(n, a)'
            BY <1>4, <3>2, <3>3, <4>1
      <4> QED BY <3>1, <4>1, <4>2 DEF Newer
    <3> QED BY <3>4 DEF Newer
  <2> QED BY <2>1, <2>2
<1>7. Covered(n)
  <2>1. ASSUME NEW a \in Nat, a >= link.epoch, Overtaken(n, a) PROVE Overtaken(n, a)'
    <3>1. CASE n = m /\ at > a
      <4>1. CASE Accepts(m, v, at)
            BY <1>2, <3>1, <4>1 DEF Overtaken, Knows, LinkStays
      <4>2. CASE ~Accepts(m, v, at)
        <5>1. Knows(n) /\ obs[n].at >= at
              BY <1>0, <2>1, <3>1, <4>2, RefusedOvertaken
        <5>2. obs'[n] = obs[n] /\ Knows(n)'
              BY <1>2, <3>1, <4>2, <5>1 DEF Knows, LinkStays
        <5>3. obs[n].at \in Nat
              BY <1>0, <5>1 DEF Knows
        <5> QED BY <3>1, <5>1, <5>2, <5>3 DEF Overtaken
      <4> QED BY <4>1, <4>2
    <3>2. CASE ~(n = m /\ at > a)
      <4>1. CASE Newer(n, a)
            BY <1>4, <3>2, <4>1 DEF Overtaken
      <4>2. CASE Knows(n) /\ obs[n].at > a
        <5>1. CASE n = m /\ Accepts(m, v, at)
          <6>1. at >= obs[n].at
                BY <4>2, <5>1 DEF Accepts, Knows
          <6> QED BY <1>0, <3>2, <4>2, <5>1, <6>1 DEF Knows
        <5>2. CASE ~(n = m /\ Accepts(m, v, at))
              BY <1>2, <4>2, <5>2 DEF Overtaken, Knows, LinkStays
        <5> QED BY <5>1, <5>2
      <4> QED BY <2>1, <4>1, <4>2 DEF Overtaken
    <3> QED BY <3>1, <3>2
  <2> QED BY <2>1 DEF Covered, Honest
<1> QED BY <1>5, <1>6, <1>7

(* An answer is read: nothing later is known than the call that asked. *)
LEMMA AnswerHonest ==
  ASSUME Typed, Typed', link.up, LinkStays, NEW n \in ROLES, Honest(n),
         NEW m \in ROLES, NEW v \in Value, NEW at \in Nat,
         obs' = Observed(m, v, at), station' = station, notices' = notices,
         calls # <<>>, answers # <<>>, calls[1].cid = answers[1].cid, calls[1].gen = link.gen,
         calls[1].name = m, calls[1].at = at, answers[1].value = v
  PROVE  WrongHeld(n)' /\ WrongEvents(n)' /\ Covered(n)
<1>0. /\ 1 \in DOMAIN calls /\ 1 \in DOMAIN answers
      /\ obs[n] # None => obs[n].at \in Nat
      BY Elements
<1>1. /\ n # m => obs'[n] = obs[n]
      /\ ~Accepts(m, v, at) => obs'[m] = obs[m]
      /\ Accepts(m, v, at) => /\ obs'[m] # None /\ obs'[m].at = at /\ obs'[m].gen = link.gen
                              /\ obs'[m].value \in {v, "unknown"}
      BY ObservedHolds
<1>2. \A a : Newer(n, a) => Newer(n, a)'
      BY DEF Newer, Right
<1>3. WrongEvents(n)'
      BY DEF WrongEvents, Right, Honest
<1>4. WrongHeld(n)'
  <2> SUFFICES ASSUME Knows(n)', obs'[n].value \notin {station.value[n], "unknown"}
               PROVE  Newer(n, obs[n].at)'
      BY DEF WrongHeld
  <2>1. CASE n = m /\ Accepts(m, v, at)
    <3>1. v # station.value[n] /\ obs'[n].at = at
          BY <1>1, <2>1
    <3>2. Overtaken(n, at)
          BY <1>0, <2>1, <3>1 DEF WrongAnswers, Honest
    <3>3. ~(Knows(n) /\ obs[n].at > at)
          BY <1>0, <2>1 DEF Accepts, Knows
    <3>4. Newer(n, at)'
          BY <1>2, <3>2, <3>3 DEF Overtaken
    <3> QED BY <3>1, <3>4 DEF Newer
  <2>2. CASE ~(n = m /\ Accepts(m, v, at))
    <3>1. obs'[n] = obs[n] /\ Knows(n)
          BY <1>1, <2>2 DEF Knows, LinkStays
    <3>2. Newer(n, obs[n].at)
          BY <3>1 DEF WrongHeld, Honest
    <3>3. PICK a \in Nat : a = obs[n].at
          BY <1>0, <3>1 DEF Knows
    <3>4. Newer(n, a)'
          BY <1>2, <3>2, <3>3
    <3> QED BY <3>1, <3>3, <3>4 DEF Newer
  <2> QED BY <2>1, <2>2
<1>5. Covered(n)
  <2>1. ASSUME NEW a \in Nat, Overtaken(n, a) PROVE Overtaken(n, a)'
    <3>1. CASE Newer(n, a)
          BY <1>2, <3>1 DEF Overtaken
    <3>2. CASE Knows(n) /\ obs[n].at > a
      <4>1. CASE n = m /\ Accepts(m, v, at)
        <5>1. at >= obs[n].at
              BY <3>2, <4>1 DEF Accepts, Knows
        <5>2. obs[n].at \in Nat
              BY <1>0, <3>2 DEF Knows
        <5> QED BY <1>1, <3>2, <4>1, <5>1, <5>2 DEF Overtaken, Knows, LinkStays
      <4>2. CASE ~(n = m /\ Accepts(m, v, at))
            BY <1>1, <3>2, <4>2 DEF Overtaken, Knows, LinkStays
      <4> QED BY <4>1, <4>2
    <3> QED BY <2>1, <3>1, <3>2 DEF Overtaken
  <2> QED BY <2>1 DEF Covered, Honest
<1> QED BY <1>3, <1>4, <1>5

(* A connection or boot opens a generation of which nothing is known yet. *)
LEMMA LinkHonest ==
  ASSUME Typed, Typed', Recent, Truthful, Connect \/ Disconnect \/ Boot
  PROVE  Truthful'
<1> SUFFICES ASSUME link'.up, NEW n \in ROLES, n \in station'.told
             PROVE  WrongHeld(n)' /\ WrongEvents(n)' /\ WrongAnswers(n)'
    BY DEF Truthful, Typed, TypeOK
<1>1. /\ UNCHANGED <<now, obs, station>> /\ link'.gen = link.gen + 1
      /\ \A k \in DOMAIN calls' : k \in DOMAIN calls /\ calls'[k].gen = calls[k].gen
      BY LinkMoves
<1>2. /\ link.gen \in Nat /\ (obs[n] # None => obs[n].gen \in Nat)
      /\ \A k \in DOMAIN calls : calls[k].gen \in Nat
  <2>1. link.gen \in Nat
        BY DEF Typed, TypeOK
  <2> QED BY <2>1, Elements DEF Observation, Call
<1>3. ~Knows(n)' /\ \A k \in DOMAIN calls' : calls'[k].gen # link'.gen
      BY <1>1, <1>2 DEF Recent, Knows
<1>4. WrongEvents(n)'
  <2>1. CASE Boot
    <3>1. link.up /\ Arrives("boot")
          BY <2>1 DEF Boot, Arrives
    <3>2. PICK lost \in {0, 1} : Flow(lost)
          BY <3>1, TailFlows
    <3>3. WrongEvents(n) /\ station' = station
          BY <1>1, <3>1 DEF Truthful
    <3>4. /\ \A k \in DOMAIN notices : k \in Nat
          /\ \A k \in DOMAIN notices' : k \in Nat
          BY PositionsAreNumbers
    <3> SUFFICES ASSUME NEW k \in DOMAIN notices', notices'[k].kind = "event",
                        notices'[k].name = n, notices'[k].value # station.value[n]
                 PROVE  \E j \in DOMAIN notices' : j > k /\ Right(notices[j], n)'
                                                   /\ notices'[j].at > notices'[k].at
        BY <3>3 DEF WrongEvents
    <3>5. k + lost \in DOMAIN notices /\ notices'[k] = notices[k + lost]
          BY <3>2 DEF Flow
    <3>6. PICK j \in DOMAIN notices : /\ j > k + lost /\ Right(notices[j], n)
                                      /\ notices[j].at > notices[k + lost].at
          BY <3>3, <3>5 DEF WrongEvents
    <3>7. j - lost \in DOMAIN notices' /\ notices'[j - lost] = notices[j]
          BY <3>2, <3>6 DEF Flow, Right
    <3>8. j - lost > k
          BY <3>4, <3>6
    <3> QED BY <3>3, <3>5, <3>6, <3>7, <3>8 DEF Right
  <2>2. CASE ~Boot
    <3>1. notices' = <<Told("boot", Some, "ok")>> \/ notices' = <<>>
          BY <2>2 DEF Connect, Disconnect
    <3>2. \A k \in DOMAIN notices' : notices'[k].kind = "boot"
          BY <3>1 DEF Told
    <3> QED BY <3>2 DEF WrongEvents
  <2> QED BY <2>1, <2>2
<1> QED BY <1>3, <1>4 DEF WrongHeld, WrongAnswers

(* No step leaves anything wrong behind that a later event does not correct. *)
LEMMA TruthfulStep ==
  ASSUME Typed, Typed', Dated, Matched, Recent, Truthful, Next,
         NEW first, NEW c \in Call, StepEffects(first, c)
  PROVE  Truthful'
<1>1. CASE Connect \/ Disconnect \/ Boot
      BY <1>1, LinkHonest
<1>2. CASE ~(Connect \/ Disconnect \/ Boot)
  <2> SUFFICES ASSUME link'.up, NEW n \in ROLES, n \in station'.told
               PROVE  Honest(n)'
      BY DEF Truthful, Honest, Typed, TypeOK
  <2>1. LinkStays /\ link.up
        BY <1>2, LinkEffects DEF LinkStays
  <2>2. WrongHeld(n)' /\ WrongEvents(n)' /\ Covered(n)
    <3>1. n \in station.told => Honest(n)
          BY <2>1 DEF Truthful, Honest
    <3>2. CASE Alike
      <4>1. Honest(n)
            BY <3>1, <3>2 DEF Alike
      <4> QED BY <2>1, <3>2, <4>1, AlikeHonest
    <3>3. ASSUME NEW m \in ROLES, NEW v \in Value, NEW at \in Nat, LearnsFrom(m, v, at)
          PROVE  WrongHeld(n)' /\ WrongEvents(n)' /\ Covered(n)
      <4>1. Honest(n) /\ obs' = Observed(m, v, at) /\ station' = station
            BY <3>1, <3>3 DEF LearnsFrom
      <4>2. CASE notices' = Tail(notices) /\ notices # <<>> /\ notices[1].kind = "event"
                   /\ notices[1].name = m /\ notices[1].value = v /\ notices[1].at = at
            BY <2>1, <4>1, <4>2, EventHonest
      <4>3. CASE /\ notices' = notices /\ calls # <<>> /\ answers # <<>>
                 /\ calls[1].cid = answers[1].cid /\ calls[1].name = m /\ calls[1].at = at
                 /\ answers[1].value = v /\ calls[1].gen = link.gen
            BY <2>1, <4>1, <4>3, AnswerHonest
      <4> QED BY <3>3, <4>2, <4>3 DEF LearnsFrom
    <3>4. ASSUME NEW m \in ROLES, NEW v \in Value, NEW told \in BOOLEAN, Changed(m, v, told),
                 obs' = obs
          PROVE  WrongHeld(n)' /\ WrongEvents(n)' /\ Covered(n)
          BY <2>1, <3>1, <3>4, ChangedHonest
    <3> QED BY <1>2, <3>2, <3>3, <3>4, KnowledgeEffects, LearnsEffects
  <2>3. WrongAnswers(n)'
        BY <2>1, <2>2, AnswersCovered
  <2> QED BY <2>2, <2>3 DEF Honest
<1> QED BY <1>1, <1>2

(* The invariant under which what is held is true when all is through. *)
Knowledge == Invariant /\ Recent /\ Truthful

(* The start, and every step. *)
LEMMA KnowledgeInit ==
  ASSUME Init PROVE Knowledge
<1>1. /\ calls = <<>> /\ now = 0 /\ ~link.up /\ link.epoch = 0
      /\ \A n \in ROLES : obs[n] = None
      BY DEF Init
<1>2. Recent /\ Truthful
      BY <1>1 DEF Recent, Truthful
<1> QED BY <1>2, InvariantInit DEF Knowledge

LEMMA KnowledgeStep ==
  ASSUME Knowledge, [Next]_vars PROVE Knowledge'
<1>1. Invariant' /\ Typed /\ Typed' /\ Dated /\ Matched
      BY InvariantStep DEF Knowledge, Invariant, CallsInvariant
<1>2. CASE Next
  <2>1. PICK first \in {0, 1}, c \in Call : StepEffects(first, c)
        BY <1>1, <1>2, NextEffects
  <2>2. Recent'
        BY <1>1, <1>2, <2>1, RecentStep DEF Knowledge
  <2>3. Truthful'
        BY <1>1, <1>2, <2>1, TruthfulStep DEF Knowledge
  <2> QED BY <1>1, <2>2, <2>3 DEF Knowledge
<1>3. CASE UNCHANGED vars
  <2>1. Recent'
        BY <1>3 DEF vars, Knowledge, Recent, Knows
  <2>2. Truthful'
        BY <1>3 DEF vars, Knowledge, Truthful, WrongHeld, WrongEvents, WrongAnswers, Overtaken,
                    Newer, Right, Knows
  <2> QED BY <1>1, <2>1, <2>2 DEF Knowledge
<1> QED BY <1>2, <1>3

(* HeldIsTrue, for all stations, features and bounds: whatever is wrong in what *)
(* is held, in an event or in an answer has a later event of the last change    *)
(* behind it, so when all is through, what is held is what the station has.     *)
THEOREM HeldIsTrueHolds == Spec => []HeldIsTrue
<1>1. Knowledge => HeldIsTrue
  <2> SUFFICES ASSUME Knowledge, notices = <<>>, NEW n \in ROLES, n \in station.told
               PROVE  Held(obs, n) \in {station.value[n], "unknown"}
      BY DEF HeldIsTrue
  <2>1. CASE obs[n] # None /\ Live(obs[n].gen)
    <3>1. link.up /\ Knows(n)
          BY <2>1 DEF Live, Knows
    <3>2. ~Newer(n, obs[n].at)
          BY DEF Newer
    <3>3. WrongHeld(n)
          BY <3>1 DEF Knowledge, Truthful
    <3> QED BY <2>1, <3>1, <3>2, <3>3 DEF WrongHeld, Held
  <2>2. CASE ~(obs[n] # None /\ Live(obs[n].gen))
        BY <2>2 DEF Held
  <2> QED BY <2>1, <2>2
<1> QED BY <1>1, KnowledgeInit, KnowledgeStep, PTL DEF Spec

-----------------------------------------------------------------------------
(* The last write *)

(* The inbox keeps its order: the first leaves it, or all, but at a send; and  *)
(* an answer belongs to what has left.                                         *)
SameRequest(r, s) == r.cid = s.cid /\ r.kind = s.kind /\ r.name = s.name /\ r.value = s.value
Shifts(lost) ==
  \/ inbox' = <<>>
  \/ /\ Len(inbox') + lost = Len(inbox)
     /\ \A k \in DOMAIN inbox' : k + lost \in DOMAIN inbox /\ SameRequest(inbox'[k], inbox[k + lost])
Replies(lost) ==
  \A k \in DOMAIN answers' :
    \/ \E j \in DOMAIN answers : answers'[k].cid = answers[j].cid
    \/ lost = 1 /\ inbox # <<>> /\ answers'[k].cid = inbox[1].cid

LEMMA RespondedShifts ==
  ASSUME Typed, inbox # <<>>, inbox' = Tail(inbox),
         NEW v \in Reported \cup Refusal \cup {"accepted"}, Responds(v)
  PROVE  Shifts(1) /\ Replies(1)
<1>1. /\ Next1 = inbox[1]
      /\ \A k \in DOMAIN answers' :
           \/ k \in DOMAIN answers /\ answers'[k] = answers[k]
           \/ answers'[k].cid = Next1.cid /\ answers'[k].value = v
      BY Responded DEF Typed
<1>2. Replies(1)
      BY <1>1 DEF Replies
<1>3. /\ Len(inbox') + 1 = Len(inbox)
      /\ \A k \in DOMAIN inbox' : k + 1 \in DOMAIN inbox /\ inbox'[k] = inbox[k + 1]
      BY DEF Typed, TypeOK
<1>4. Shifts(1)
      BY <1>3 DEF Shifts, SameRequest
<1> QED BY <1>2, <1>4

LEMMA InboxShifts ==
  ASSUME Typed, Next, ~Send
  PROVE  \E lost \in {0, 1} : Shifts(lost) /\ Replies(lost)
<1>1. ASSUME inbox' = inbox PROVE Shifts(0)
  <2>1. Len(inbox) \in Nat /\ \A k \in DOMAIN inbox : k \in Nat
        BY DEF Typed, TypeOK
  <2> QED BY <1>1, <2>1 DEF Shifts, SameRequest
<1>2. ASSUME answers' = answers \/ answers' = <<>> PROVE Replies(0)
      BY <1>2 DEF Replies
<1>3. CASE LateAnswer \/ WriteAnswered \/ ReadAnswered \/ ReportAnswered
  <2>1. answers # <<>> /\ answers' = Tail(answers) /\ inbox' = inbox
        BY <1>3 DEF LateAnswer, WriteAnswered, ReadAnswered, ReportAnswered, Answers, AnswersTop
  <2>2. Replies(0)
        BY <2>1, AnswerTaken DEF Replies, Typed
  <2> QED BY <1>1, <2>1, <2>2
<1>4. CASE \/ Refused \/ TimedOut \/ Boot \/ Initialize \/ Report \/ Inventory \/ NoInventory
           \/ (\E n \in ROLES : InitialRead(n)) \/ Event \/ Poll
  <2>1. inbox' = inbox /\ answers' = answers
        BY <1>4 DEF Refused, TimedOut, Boot, Initialize, Report, Inventory, NoInventory,
                    InitialRead, Event, Poll
  <2> QED BY <1>1, <1>2, <2>1
<1>5. CASE CarriesOut \/ Tells \/ ReportsBase
  <2>1. inbox # <<>> /\ inbox' = Tail(inbox)
        BY <1>5 DEF CarriesOut, Tells, ReportsBase
  <2>2. \E w \in Reported \cup Refusal \cup {"accepted"} : Responds(w)
        BY <1>5, CarriesOutStep, TellsStep, ReportsBaseStep, ValuesAnswer
  <2> QED BY <2>1, <2>2, RespondedShifts
<1>6. CASE Connect \/ Disconnect
  <2>1. inbox' = Abandoned /\ answers' = <<>>
        BY <1>6 DEF Connect, Disconnect
  <2>2. Len(inbox') + 0 = Len(inbox) /\ DOMAIN inbox' = DOMAIN inbox
    <3>1. /\ Abandoned \in Seq(Request) /\ inbox \in Seq(Request)
          /\ DOMAIN Abandoned = DOMAIN inbox
          BY AbandonedRequests DEF Typed, TypeOK
    <3> QED BY <2>1, <3>1
  <2>3. \A k \in DOMAIN inbox' : k + 0 = k /\ SameRequest(inbox'[k], inbox[k])
    <3>1. \A k \in DOMAIN inbox : inbox[k] \in Request /\ k + 0 = k
          BY DEF Typed, TypeOK
    <3> QED BY <2>1, <3>1 DEF Abandoned, Request, SameRequest
  <2>4. Shifts(0)
        BY <2>2, <2>3 DEF Shifts
  <2> QED BY <1>2, <2>1, <2>4
<1>7. ASSUME NEW n \in station.has, NEW v \in Value,
             Repeat(n, v) \/ Command(n, v) \/ \E told \in BOOLEAN : LocalChange(n, v, told)
      PROVE  inbox' = inbox /\ answers' = answers
      BY <1>7 DEF Repeat, Command, LocalChange
<1>8. ASSUME NEW rw, StationBoots(rw) PROVE Shifts(0) /\ Replies(0)
      BY <1>2, <1>8 DEF StationBoots, Shifts
<1>9. CASE System
      BY <1>3, <1>4, <1>5, <1>9 DEF System
<1>10. CASE World
       BY <1>1, <1>2, <1>4, <1>6, <1>7, <1>8, <1>10 DEF World
<1> QED BY <1>9, <1>10 DEF Next

(* A call is only sent by a send. *)
SentBefore ==
  \A k \in DOMAIN calls' : calls'[k].sent =>
    \E first \in {0, 1} : /\ k + first \in DOMAIN calls /\ calls[k + first].sent
                          /\ calls'[k].cid = calls[k + first].cid

LEMMA QueueSends ==
  ASSUME Typed, NEW c \in Call, ~c.sent,
         calls' = Append(calls, c) \/ (calls # <<>> /\ calls' = Tail(Append(calls, c)))
  PROVE  SentBefore
<1>1. CASE calls' = Append(calls, c)
  <2>1. \A k \in DOMAIN calls' : (k \in DOMAIN calls /\ calls'[k] = calls[k] /\ k + 0 = k) \/ calls'[k] = c
        BY <1>1 DEF Typed, TypeOK
  <2> QED BY <2>1 DEF SentBefore
<1>2. CASE calls # <<>> /\ calls' = Tail(Append(calls, c))
  <2>1. \A k \in DOMAIN calls' : (k + 1 \in DOMAIN calls /\ calls'[k] = calls[k + 1]) \/ calls'[k] = c
        BY <1>2 DEF Typed, TypeOK
  <2> QED BY <2>1 DEF SentBefore
<1> QED BY <1>1, <1>2

LEMMA SentStays ==
  ASSUME Typed, Next, ~Send
  PROVE  SentBefore
<1>1. ASSUME calls' = calls \/ calls' = <<>> PROVE SentBefore
  <2>1. \A k \in DOMAIN calls : k + 0 = k
        BY DEF Typed, TypeOK
  <2> QED BY <1>1, <2>1 DEF SentBefore
<1>2. ASSUME calls # <<>>, calls' = Tail(calls) PROVE SentBefore
  <2>1. \A k \in DOMAIN calls' : k + 1 \in DOMAIN calls /\ calls'[k] = calls[k + 1]
        BY <1>2, TailElements DEF Typed, TypeOK
  <2> QED BY <2>1 DEF SentBefore
<1>3. ASSUME NEW kind \in {"write", "confirm", "report", "init", "poll"}, NEW n \in ROLES,
             NEW id \in Nat,
             \/ calls' = Queued(kind, n, id)
             \/ calls # <<>> /\ calls' = Tail(Queued(kind, n, id))
      PROVE  SentBefore
  <2>1. PICK c \in Call : c = QueuedCall(kind, n, id) /\ Queued(kind, n, id) = Append(calls, c)
        BY QueuedCalls DEF Typed
  <2>2. ~c.sent
        BY <2>1 DEF QueuedCall
  <2> QED BY <1>3, <2>1, <2>2, QueueSends
<1>4. CASE Boot
  <2>1. /\ DOMAIN calls' = DOMAIN calls
        /\ \A k \in DOMAIN calls :
             calls'[k] = [calls[k] EXCEPT !.heard = @ /\ calls[k].kind \in {"write", "confirm"}]
        BY <1>4 DEF Boot
  <2>2. \A k \in DOMAIN calls : calls[k] \in Call /\ k + 0 = k
        BY DEF Typed, TypeOK
  <2>3. \A k \in DOMAIN calls : calls'[k].sent = calls[k].sent /\ calls'[k].cid = calls[k].cid
        BY <2>1, <2>2 DEF Call
  <2> QED BY <2>1, <2>2, <2>3 DEF SentBefore
<1>5. CASE Refused \/ TimedOut \/ ReadAnswered \/ ReportAnswered
  <2>1. calls # <<>> /\ calls' = Tail(calls)
        BY <1>5 DEF Refused, TimedOut, ReadAnswered, ReportAnswered, Answers, AnswersTop
  <2> QED BY <1>2, <2>1
<1>6. CASE WriteAnswered
  <2>1. /\ calls # <<>> /\ Top \in Call
        /\ calls' = Tail(calls) \/ calls' = Tail(Queued("confirm", Top.name, Top.id))
        BY <1>6, WriteAnsweredStep, TopIsCall DEF Typed
  <2>2. Top.name \in ROLES /\ Top.id \in Nat
        BY <2>1 DEF Call
  <2> QED BY <1>2, <1>3, <2>1, <2>2
<1>7. CASE Initialize
      BY <1>3, <1>7, SomeRole DEF Initialize
<1>8. ASSUME NEW n \in ROLES, InitialRead(n) PROVE SentBefore
      BY <1>3, <1>8 DEF InitialRead
<1>9. CASE Poll
      BY <1>3, <1>9 DEF Poll, ROLES
<1>10. ASSUME NEW n \in ROLES, NEW v \in Value, Repeat(n, v) PROVE SentBefore
  <2>1. intents[n].id \in Nat
        BY <1>10 DEF Repeat, Typed, TypeOK, Intent
  <2>2. calls' = calls \/ calls' = Queued("confirm", n, intents[n].id)
        BY <1>10 DEF Repeat
  <2> QED BY <1>1, <1>3, <2>1, <2>2
<1>11. ASSUME NEW n \in ROLES, NEW v \in Value, Command(n, v) PROVE SentBefore
  <2>1. FreshId \in Nat
        BY FreshAreFree DEF Typed
  <2>2. calls' = calls \/ calls' = Queued("write", n, FreshId)
        BY <1>11 DEF Command
  <2> QED BY <1>1, <1>3, <2>1, <2>2
<1>12. CASE \/ Event \/ Connect \/ Disconnect \/ LateAnswer \/ Report \/ Inventory \/ NoInventory
            \/ CarriesOut \/ Tells \/ ReportsBase
  <2>1. calls' = calls \/ calls' = <<>>
        BY <1>12 DEF Event, Connect, Disconnect, LateAnswer, Report, Inventory, NoInventory,
                     CarriesOut, Tells, ReportsBase
  <2> QED BY <1>1, <2>1
<1>13. CASE \/ \E n \in ROLES, v \in Value, told \in BOOLEAN : LocalChange(n, v, told)
            \/ \E rw \in SUBSET station.has : StationBoots(rw)
  <2>1. calls' = calls
        BY <1>13 DEF LocalChange, StationBoots
  <2> QED BY <1>1, <2>1
<1>14. CASE System
       BY <1>4, <1>5, <1>6, <1>7, <1>8, <1>12, <1>14 DEF System
<1>15. CASE World
  <2>1. station.has \subseteq ROLES
        BY StationsAssumption DEF Typed, TypeOK
  <2> QED BY <1>9, <1>10, <1>11, <1>12, <1>13, <1>15, <2>1 DEF World
<1> QED BY <1>14, <1>15 DEF Next

(* The answers after which no write of the intent is on its way. *)
Definite == {"accepted_unconfirmed", "confirmed", "rejected", "unsupported"}
(* An intent keeps its value and its dispatch, and gets no such answer. *)
StatusMoves ==
  \A n \in ROLES :
    \/ intents'[n] = intents[n]
    \/ /\ intents[n] # None /\ intents'[n].value = intents[n].value
       /\ intents'[n].dispatched = intents[n].dispatched
       /\ intents'[n].status \in Definite => intents[n].status \in Definite

LEMMA RestatedMoves ==
  ASSUME NEW first, Restated(first), first = 1 /\ calls # <<>> => Top.kind # "write"
  PROVE  StatusMoves
<1>1. "superseded" \notin Definite /\ "accepted_unconfirmed" \in Definite
      BY DEF Definite
<1> QED BY <1>1 DEF Restated, StatusMoves

LEMMA UpdatedMoves ==
  ASSUME Typed, NEW c \in Call, NEW s \in {"superseded", "timeout"}, intents' = Updated(c, s)
  PROVE  StatusMoves
<1>1. s \in Status /\ s \notin Definite
      BY DEF Status, Definite
<1>2. intents \in Intents
      BY DEF Typed, TypeOK, Intents
<1>3. \A n \in ROLES :
        \/ intents'[n] = intents[n]
        \/ n = c.name /\ Current(c) /\ intents'[n] = [intents[n] EXCEPT !.status = s]
      BY <1>1, <1>2, UpdatedIntents
<1>4. ASSUME NEW n \in ROLES, n = c.name, Current(c), intents'[n] = [intents[n] EXCEPT !.status = s]
      PROVE  /\ intents[n] # None /\ intents'[n].value = intents[n].value
             /\ intents'[n].dispatched = intents[n].dispatched /\ intents'[n].status = s
  <2>1. intents[n] # None /\ intents[n] \in Intent
        BY <1>2, <1>4 DEF Current, Intents
  <2> QED BY <1>4, <2>1 DEF Intent
<1> QED BY <1>1, <1>3, <1>4 DEF StatusMoves

(* Only the answer to a write gives one. *)
LEMMA StatusEffects ==
  ASSUME Typed, Next, ~WriteAnswered, ~Writes, \A n \in ROLES, v \in Value : ~Command(n, v)
  PROVE  StatusMoves
<1>1. ASSUME intents' = intents PROVE StatusMoves
      BY <1>1 DEF StatusMoves
<1>2. CASE Refused
  <2>1. Top \in Call /\ intents' = Updated(Top, "superseded")
        BY <1>2, TopIsCall DEF Refused, Typed
  <2> QED BY <2>1, UpdatedMoves
<1>3. CASE TimedOut
  <2>1. Top \in Call
        BY <1>3, TopIsCall DEF TimedOut, Typed
  <2>2. CASE Top.kind = "write"
    <3>1. intents' = Updated(Top, "timeout")
          BY <1>3, <2>2 DEF TimedOut
    <3> QED BY <2>1, <3>1, UpdatedMoves
  <2>3. CASE Top.kind = "confirm" /\ Current(Top) /\ ~ValidCall(Top)
    <3>1. intents' = Updated(Top, "superseded")
          BY <1>3, <2>3 DEF TimedOut
    <3> QED BY <2>1, <3>1, UpdatedMoves
  <2>4. CASE Top.kind # "write" /\ ~(Top.kind = "confirm" /\ Current(Top) /\ ~ValidCall(Top))
    <3>1. intents' = intents
          BY <1>3, <2>4 DEF TimedOut
    <3> QED BY <1>1, <3>1
  <2> QED BY <2>2, <2>3, <2>4
<1>4. CASE ReadAnswered
  <2>1. Restated(1) /\ Top.kind # "write"
        BY <1>4, ReadAnsweredStep DEF ReadAnswered, Answers
  <2> QED BY <2>1, RestatedMoves
<1>5. CASE Event
      BY <1>5, EventStep, RestatedMoves
<1>6. CASE Boot \/ Connect \/ Disconnect
  <2>1. intents' = Invalidated
        BY <1>6 DEF Boot, Connect, Disconnect
  <2>2. Restated(0)
        BY <2>1, InvalidatedRestates DEF Typed
  <2> QED BY <2>2, RestatedMoves
<1>7. CASE \/ LateAnswer \/ Initialize \/ ReportAnswered \/ Report \/ Inventory \/ NoInventory
           \/ (\E n \in ROLES : InitialRead(n)) \/ CarriesOut \/ Tells \/ ReportsBase \/ Poll
  <2>1. intents' = intents
        BY <1>7 DEF LateAnswer, Initialize, ReportAnswered, Report, Inventory, NoInventory,
                    InitialRead, CarriesOut, Tells, ReportsBase, Poll
  <2> QED BY <1>1, <2>1
<1>8. CASE Send
  <2>1. intents' = intents
        BY <1>8 DEF Send, Writes
  <2> QED BY <1>1, <2>1
<1>9. CASE \/ \E n \in station.has, v \in Value :
                Repeat(n, v) \/ \E told \in BOOLEAN : LocalChange(n, v, told)
           \/ \E rw \in SUBSET station.has : StationBoots(rw)
  <2>1. intents' = intents
        BY <1>9 DEF Repeat, LocalChange, StationBoots
  <2> QED BY <1>1, <2>1
<1>10. station.has \subseteq ROLES
       BY StationsAssumption DEF Typed, TypeOK
<1>11. CASE System
       BY <1>2, <1>3, <1>4, <1>5, <1>6, <1>7, <1>8, <1>11 DEF System
<1>12. CASE World
       BY <1>6, <1>7, <1>9, <1>10, <1>12 DEF World
<1> QED BY <1>11, <1>12 DEF Next

(* One call at a time is under way, and its request is the last that went out.  *)
Serial ==
  /\ \A k \in DOMAIN calls : calls[k].sent => k = 1
  /\ \A k \in DOMAIN calls : calls[k].sent /\ inbox # <<>> => inbox[Len(inbox)].cid = calls[k].cid
  /\ \A j, k \in DOMAIN inbox : inbox[j].cid = inbox[k].cid => j = k
  /\ \A j \in DOMAIN inbox, k \in DOMAIN answers : inbox[j].cid # answers[k].cid

LEMMA InboxIndices ==
  ASSUME Typed
  PROVE  /\ Len(inbox) \in Nat /\ \A k \in DOMAIN inbox : k \in Nat /\ 1 <= k /\ k <= Len(inbox)
         /\ inbox # <<>> => 1 \in DOMAIN inbox /\ Len(inbox) \in DOMAIN inbox
BY DEF Typed, TypeOK

LEMMA SerialSend ==
  ASSUME Typed, Typed', Matched, Serial, Send
  PROVE  Serial'
<1>1. PICK r \in Request : r.cid = Top.cid /\ inbox' = Append(inbox, r)
      BY SendStep
<1>2. /\ Top = calls[1] /\ 1 \in DOMAIN calls /\ ~calls[1].sent /\ Top.cid = calls[1].cid
      /\ \A k \in DOMAIN calls : ~calls[k].sent
      BY TopIsCall DEF Send, Serial, Typed
<1>3. /\ DOMAIN calls' = DOMAIN calls
      /\ \A k \in DOMAIN calls : calls'[k].sent => k = 1
      /\ calls'[1].cid = calls[1].cid
  <2>1. calls \in Seq(Call) /\ calls' = [calls EXCEPT ![1].sent = TRUE]
        BY DEF Send, Typed, TypeOK
  <2>2. DOMAIN calls' = DOMAIN calls /\ \A k \in DOMAIN calls \ {1} : calls'[k] = calls[k]
        BY <2>1
  <2>3. calls'[1] = [calls[1] EXCEPT !.sent = TRUE] /\ calls[1] \in Call
        BY <1>2, <2>1
  <2>4. calls'[1].cid = calls[1].cid
        BY <2>3 DEF Call
  <2> QED BY <1>2, <2>2, <2>4
<1>4. /\ Len(inbox') = Len(inbox) + 1 /\ inbox'[Len(inbox) + 1] = r
      /\ \A k \in DOMAIN inbox' : (k \in DOMAIN inbox /\ inbox'[k] = inbox[k])
                                   \/ (k = Len(inbox) + 1 /\ inbox'[k] = r)
  <2>1. inbox \in Seq(Request)
        BY DEF Typed, TypeOK
  <2> QED BY <1>1, <2>1, AppendPlaces
<1>5. /\ \A k \in DOMAIN inbox : inbox[k].cid # r.cid
      /\ \A k \in DOMAIN answers : answers[k].cid # r.cid
      BY <1>1, <1>2 DEF Matched
<1>6. answers' = answers
      BY DEF Send
<1>7. \A k \in DOMAIN calls' : calls'[k].sent => k = 1
      BY <1>3
<1>8. \A k \in DOMAIN calls' : calls'[k].sent => inbox'[Len(inbox')].cid = calls'[k].cid
      BY <1>1, <1>2, <1>3, <1>4
<1>9. \A j, k \in DOMAIN inbox' : inbox'[j].cid = inbox'[k].cid => j = k
      BY <1>4, <1>5 DEF Serial
<1>10. \A j \in DOMAIN inbox', k \in DOMAIN answers' : inbox'[j].cid # answers'[k].cid
       BY <1>4, <1>5, <1>6 DEF Serial
<1> QED BY <1>7, <1>8, <1>9, <1>10 DEF Serial

LEMMA SerialOtherwise ==
  ASSUME Typed, Typed', Serial, SentBefore, NEW lost \in {0, 1}, Shifts(lost), Replies(lost)
  PROVE  Serial'
<1>1. CASE inbox' = <<>>
  <2>1. ASSUME NEW k \in DOMAIN calls', calls'[k].sent PROVE k = 1
    <3>1. PICK first \in {0, 1} : k + first \in DOMAIN calls /\ calls[k + first].sent
          BY <2>1 DEF SentBefore
    <3>2. k + first = 1
          BY <3>1 DEF Serial
    <3> QED BY <3>2, CallIndices
  <2>2. DOMAIN inbox' = {}
        BY <1>1
  <2> QED BY <1>1, <2>1, <2>2 DEF Serial
<1>2. CASE /\ inbox' # <<>> /\ Len(inbox') + lost = Len(inbox)
           /\ \A k \in DOMAIN inbox' : /\ k + lost \in DOMAIN inbox
                                       /\ SameRequest(inbox'[k], inbox[k + lost])
  <2>1. /\ Len(inbox') \in Nat /\ Len(inbox') \in DOMAIN inbox'
        /\ \A k \in DOMAIN inbox' : k \in Nat /\ 1 <= k
    <3>1. inbox' \in Seq(Request)
          BY DEF Typed, TypeOK
    <3> QED BY <1>2, <3>1
  <2>2. ASSUME NEW k \in DOMAIN calls', calls'[k].sent
        PROVE  k = 1 /\ inbox'[Len(inbox')].cid = calls'[k].cid
    <3>1. PICK first \in {0, 1} : /\ k + first \in DOMAIN calls /\ calls[k + first].sent
                                  /\ calls'[k].cid = calls[k + first].cid
          BY <2>2 DEF SentBefore
    <3>2. k + first = 1
          BY <3>1 DEF Serial
    <3>3. k = 1
          BY <3>2, CallIndices
    <3>4. inbox'[Len(inbox')].cid = inbox[Len(inbox)].cid /\ Len(inbox) \in DOMAIN inbox
          BY <1>2, <2>1 DEF SameRequest
    <3>5. inbox # <<>>
          BY <3>4
    <3> QED BY <3>1, <3>3, <3>4, <3>5 DEF Serial
  <2>3. ASSUME NEW j \in DOMAIN inbox', NEW k \in DOMAIN inbox', inbox'[j].cid = inbox'[k].cid
        PROVE  j = k
    <3>1. j + lost \in DOMAIN inbox /\ inbox'[j].cid = inbox[j + lost].cid
          BY <1>2 DEF SameRequest
    <3>2. k + lost \in DOMAIN inbox /\ inbox'[k].cid = inbox[k + lost].cid
          BY <1>2 DEF SameRequest
    <3>3. j + lost = k + lost
          BY <2>3, <3>1, <3>2 DEF Serial
    <3>4. j \in Nat /\ k \in Nat
          BY <2>1
    <3> QED BY <3>3, <3>4
  <2>4. ASSUME NEW j \in DOMAIN inbox', NEW k \in DOMAIN answers', inbox'[j].cid = answers'[k].cid
        PROVE  FALSE
    <3>1. j + lost \in DOMAIN inbox /\ inbox'[j].cid = inbox[j + lost].cid
          BY <1>2 DEF SameRequest
    <3>2. CASE \E i \in DOMAIN answers : answers'[k].cid = answers[i].cid
      <4>1. PICK i \in DOMAIN answers : answers'[k].cid = answers[i].cid
            BY <3>2
      <4>2. inbox[j + lost].cid # answers[i].cid
            BY <3>1 DEF Serial
      <4> QED BY <2>4, <3>1, <4>1, <4>2
    <3>3. CASE lost = 1 /\ inbox # <<>> /\ answers'[k].cid = inbox[1].cid
      <4>1. 1 \in DOMAIN inbox
            BY <3>3, InboxIndices
      <4>2. j + 1 = 1
            BY <2>4, <3>1, <3>3, <4>1 DEF Serial
      <4> QED BY <2>1, <4>2
    <3> QED BY <3>2, <3>3 DEF Replies
  <2> QED BY <2>2, <2>3, <2>4 DEF Serial
<1> QED BY <1>1, <1>2 DEF Shifts

(* The last write of a variable that the station has still to carry out is that *)
(* of its newest command, if it went out; once that is answered, there is none. *)
NoWrites(n) == \A k \in DOMAIN inbox : ~IsWrite(inbox[k], n)
LastOf(n, v) == \A k \in DOMAIN inbox : LastWrite(k, n) => inbox[k].value = v
Newest ==
  \A n \in ROLES : intents[n] # None /\ intents[n].dispatched # None =>
    LastOf(n, intents[n].value) /\ (intents[n].status \in Definite => NoWrites(n))

LEMMA ShiftedWrites ==
  ASSUME Typed, Typed', NEW lost \in {0, 1}, Shifts(lost), NEW n \in ROLES, NEW v
  PROVE  /\ NoWrites(n) => NoWrites(n)'
         /\ LastOf(n, v) => LastOf(n, v)'
<1>1. CASE inbox' = <<>>
  <2>1. DOMAIN inbox' = {}
        BY <1>1
  <2> QED BY <2>1 DEF NoWrites, LastOf
<1>2. CASE /\ Len(inbox') + lost = Len(inbox)
           /\ \A k \in DOMAIN inbox' : /\ k + lost \in DOMAIN inbox
                                       /\ SameRequest(inbox'[k], inbox[k + lost])
  <2>1. inbox \in Seq(Request) /\ inbox' \in Seq(Request)
        BY DEF Typed, TypeOK
  <2>2. \A k \in DOMAIN inbox' : /\ k \in Nat /\ 1 <= k /\ k + lost \in DOMAIN inbox
                                 /\ IsWrite(inbox'[k], n) <=> IsWrite(inbox[k + lost], n)
                                 /\ inbox'[k].value = inbox[k + lost].value
    <3>1. \A k \in DOMAIN inbox' : k \in Nat /\ 1 <= k
          BY <2>1
    <3> QED BY <1>2, <3>1 DEF SameRequest, IsWrite
  <2>3. ASSUME NEW k \in DOMAIN inbox', LastWrite(k, n)'
        PROVE  k + lost \in DOMAIN inbox /\ LastWrite(k + lost, n)
    <3>1. k + lost \in DOMAIN inbox /\ IsWrite(inbox[k + lost], n)
          BY <2>2, <2>3 DEF LastWrite
    <3>2. ASSUME NEW j \in DOMAIN inbox, IsWrite(inbox[j], n) PROVE j <= k + lost
      <4>1. j \in Nat /\ 1 <= j /\ j <= Len(inbox) /\ Len(inbox') \in Nat
            BY <2>1
      <4>2. CASE j <= lost
            BY <2>2, <4>1, <4>2
      <4>3. CASE j > lost
        <5>1. PICK i \in Nat : i = j - lost
              BY <4>1, <4>3
        <5>2. i \in DOMAIN inbox'
              BY <1>2, <2>1, <4>1, <4>3, <5>1
        <5>3. i + lost = j
              BY <4>1, <5>1
        <5>4. IsWrite(inbox'[i], n)
              BY <2>2, <3>2, <5>2, <5>3
        <5>5. i <= k
              BY <2>3, <5>2, <5>4 DEF LastWrite
        <5> QED BY <2>2, <5>1, <5>3, <5>5
      <4> QED BY <4>1, <4>2, <4>3
    <3> QED BY <3>1, <3>2 DEF LastWrite
  <2>4. NoWrites(n) => NoWrites(n)'
        BY <2>2 DEF NoWrites
  <2>5. LastOf(n, v) => LastOf(n, v)'
        BY <2>2, <2>3 DEF LastOf
  <2> QED BY <2>4, <2>5
<1> QED BY <1>1, <1>2 DEF Shifts

LEMMA NewestSend ==
  ASSUME Typed, Typed', NEW r \in Request, inbox' = Append(inbox, r), NEW n \in ROLES, NEW v
  PROVE  /\ ~IsWrite(r, n) /\ NoWrites(n) => NoWrites(n)'
         /\ ~IsWrite(r, n) /\ LastOf(n, v) => LastOf(n, v)'
         /\ IsWrite(r, n) /\ r.value = v => LastOf(n, v)'
<1>1. /\ Len(inbox) + 1 \in DOMAIN inbox' /\ inbox'[Len(inbox) + 1] = r
      /\ \A k \in DOMAIN inbox : /\ k \in DOMAIN inbox' /\ inbox'[k] = inbox[k]
                                 /\ k \in Nat /\ k < Len(inbox) + 1
      /\ \A k \in DOMAIN inbox' : k \in DOMAIN inbox \/ k = Len(inbox) + 1
      /\ Len(inbox) \in Nat
  <2>1. inbox \in Seq(Request)
        BY DEF Typed, TypeOK
  <2> QED BY <2>1, AppendPlaces
<1>2. ~IsWrite(r, n) /\ NoWrites(n) => NoWrites(n)'
      BY <1>1 DEF NoWrites
<1>3. ASSUME ~IsWrite(r, n), NEW k \in DOMAIN inbox', LastWrite(k, n)'
      PROVE  k \in DOMAIN inbox /\ LastWrite(k, n)
  <2>1. k \in DOMAIN inbox /\ IsWrite(inbox[k], n)
        BY <1>1, <1>3 DEF LastWrite
  <2>2. \A j \in DOMAIN inbox : IsWrite(inbox[j], n) => j <= k
        BY <1>1, <1>3 DEF LastWrite
  <2> QED BY <2>1, <2>2 DEF LastWrite
<1>4. ~IsWrite(r, n) /\ LastOf(n, v) => LastOf(n, v)'
      BY <1>1, <1>3 DEF LastOf
<1>5. ASSUME IsWrite(r, n), r.value = v, NEW k \in DOMAIN inbox', LastWrite(k, n)'
      PROVE  inbox'[k].value = v
  <2>1. Len(inbox) + 1 <= k
        BY <1>1, <1>5 DEF LastWrite
  <2>2. k = Len(inbox) + 1
        BY <1>1, <2>1
  <2> QED BY <1>1, <1>5, <2>2
<1>6. IsWrite(r, n) /\ r.value = v => LastOf(n, v)'
      BY <1>5 DEF LastOf
<1> QED BY <1>2, <1>4, <1>6

(* A dispatch: the new write is the last, and not answered. *)
LEMMA NewestWrite ==
  ASSUME Typed, Typed', Undecided, Newest, Writes
  PROVE  Newest'
<1>1. PICK m \in ROLES : m = Top.name
      BY WriteDispatches
<1>2. /\ intents[m] # None /\ intents'[m].status = intents[m].status
      /\ \A n \in ROLES \ {m} : intents'[n] = intents[n]
      BY <1>1, WriteDispatches
<1>3. PICK r \in Request : /\ r.name = m /\ inbox' = Append(inbox, r)
                           /\ r.kind = "write" /\ r.value = intents[m].value
      BY <1>1, SendStep DEF Writes
<1>4. intents'[m].value = intents[m].value
  <2>1. /\ intents[m] \in Intent
        /\ intents' = [intents EXCEPT ![m] = [intents[m] EXCEPT !.dispatched = now + 1]]
        BY <1>1, SendStep DEF Writes
  <2>2. intents'[m] = [intents[m] EXCEPT !.dispatched = now + 1]
        BY <2>1 DEF Typed, TypeOK
  <2> QED BY <2>1, <2>2 DEF Intent
<1>5. intents'[m].status \notin Definite
  <2>1. calls # <<>> /\ ValidCall(Top) /\ Top = calls[1] /\ 1 \in DOMAIN calls
        BY TopIsCall DEF Writes, Send, Typed
  <2>2. intents[m].status \in {"pending", "superseded"}
        BY <1>1, <2>1 DEF Writes, Undecided, ValidCall
  <2>3. intents[m].status # "superseded"
        BY <1>1, <2>1 DEF ValidCall, Valid
  <2> QED BY <1>2, <2>2, <2>3 DEF Definite
<1>6. PICK v : v = intents[m].value
      OBVIOUS
<1>7. LastOf(m, v)' /\ intents'[m].value = v
      BY <1>3, <1>4, <1>6, NewestSend DEF IsWrite
<1>8. ASSUME NEW n \in ROLES \ {m}, NEW w
      PROVE  /\ NoWrites(n) => NoWrites(n)'
             /\ LastOf(n, w) => LastOf(n, w)'
      BY <1>3, NewestSend DEF IsWrite
<1>9. ASSUME NEW n \in ROLES, n # m, intents'[n] # None, intents'[n].dispatched # None
      PROVE  LastOf(n, intents[n].value)' /\ (intents'[n].status \in Definite => NoWrites(n)')
  <2>1. PICK w : w = intents[n].value
        OBVIOUS
  <2>2. intents'[n] = intents[n]
        BY <1>2, <1>9
  <2>3. LastOf(n, w) /\ (intents[n].status \in Definite => NoWrites(n))
        BY <1>9, <2>1, <2>2 DEF Newest
  <2>4. LastOf(n, w)'
        BY <1>8, <1>9, <2>3
  <2>5. w = intents'[n].value
        BY <2>1, <2>2
  <2>6. LastOf(n, intents[n].value)'
        BY <2>4, <2>5
  <2> QED BY <1>8, <1>9, <2>2, <2>3, <2>6
<1>10. LastOf(m, intents[m].value)'
       BY <1>7
<1> QED BY <1>5, <1>9, <1>10 DEF Newest

(* Any other step, but for the answer to a write. *)
LEMMA NewestKept ==
  ASSUME Typed, Typed', Newest,
         \A n \in ROLES : \A v : /\ NoWrites(n) => NoWrites(n)'
                                 /\ LastOf(n, v) => LastOf(n, v)',
         \/ StatusMoves
         \/ \E n \in ROLES, v \in Value : Command(n, v)
  PROVE  Newest'
<1>1. ASSUME NEW n \in ROLES, intents'[n] # None, intents'[n].dispatched # None
      PROVE  /\ intents[n] # None /\ intents[n].dispatched # None
             /\ intents'[n].value = intents[n].value
             /\ intents'[n].status \in Definite => intents[n].status \in Definite
  <2>1. CASE StatusMoves
        BY <1>1, <2>1 DEF StatusMoves
  <2>2. ASSUME NEW m \in ROLES, NEW v \in Value, Command(m, v) PROVE intents'[n] = intents[n]
    <3>1. PICK s : intents' = [intents EXCEPT ![m] = [value |-> v, gen |-> link.gen, id |-> FreshId,
                                                     status |-> s, dispatched |-> None]]
          BY <2>2 DEF Command
    <3> QED BY <1>1, <3>1 DEF Typed, TypeOK
  <2> QED BY <1>1, <2>1, <2>2
<1>2. ASSUME NEW n \in ROLES, intents'[n] # None, intents'[n].dispatched # None
      PROVE  LastOf(n, intents[n].value)' /\ (intents'[n].status \in Definite => NoWrites(n)')
  <2>1. PICK w : w = intents[n].value
        OBVIOUS
  <2>2. LastOf(n, w) /\ (intents[n].status \in Definite => NoWrites(n))
        BY <1>1, <1>2, <2>1 DEF Newest
  <2>3. LastOf(n, w)' /\ w = intents'[n].value
        BY <1>1, <1>2, <2>1, <2>2
  <2>4. LastOf(n, intents[n].value)'
        BY <2>3
  <2> QED BY <1>1, <1>2, <2>2, <2>4
<1> QED BY <1>2 DEF Newest

LEMMA NewestStep ==
  ASSUME Typed, Typed', Undecided, Serial, Newest, Next
  PROVE  Newest'
<1>1. CASE Writes
      BY <1>1, NewestWrite
<1>2. CASE WriteAnswered
  <2>1. /\ calls # <<>> /\ answers # <<>> /\ calls[1].sent /\ calls[1].cid = answers[1].cid
        /\ 1 \in DOMAIN calls /\ 1 \in DOMAIN answers /\ inbox' = inbox
        BY <1>2, TopIsCall, TailElements
           DEF WriteAnswered, Answers, AnswersTop, Top, Typed, TypeOK
  <2>2. ASSUME inbox # <<>> PROVE FALSE
    <3>1. inbox[Len(inbox)].cid = calls[1].cid /\ Len(inbox) \in DOMAIN inbox
          BY <2>1, <2>2, InboxIndices DEF Serial
    <3> QED BY <2>1, <3>1 DEF Serial
  <2>3. DOMAIN inbox' = {}
        BY <2>1, <2>2
  <2> QED BY <2>3 DEF Newest, LastOf, NoWrites
<1>3. CASE Send /\ ~Writes
  <2>1. PICK r \in Request : inbox' = Append(inbox, r) /\ r.kind # "write"
        BY <1>3, SendStep DEF Writes
  <2>2. \A n \in ROLES : \A v : /\ NoWrites(n) => NoWrites(n)'
                                /\ LastOf(n, v) => LastOf(n, v)'
        BY <2>1, NewestSend DEF IsWrite
  <2>3. StatusMoves
        BY <1>3 DEF Send, Writes, StatusMoves
  <2> QED BY <2>2, <2>3, NewestKept
<1>4. CASE ~Send /\ ~WriteAnswered
  <2>1. PICK lost \in {0, 1} : Shifts(lost)
        BY <1>4, InboxShifts
  <2>2. \A n \in ROLES : \A v : /\ NoWrites(n) => NoWrites(n)'
                                /\ LastOf(n, v) => LastOf(n, v)'
        BY <2>1, ShiftedWrites
  <2>3. StatusMoves \/ \E n \in ROLES, v \in Value : Command(n, v)
        BY <1>4, StatusEffects DEF Writes
  <2> QED BY <2>2, <2>3, NewestKept
<1> QED BY <1>1, <1>2, <1>3, <1>4 DEF Writes

(* The invariant under which no write contradicts what is shown as confirmed. *)
WritesInvariant == Invariant /\ Serial /\ Newest

LEMMA WritesInvariantHolds ==
  /\ Init => WritesInvariant
  /\ WritesInvariant /\ [Next]_vars => WritesInvariant'
<1>1. ASSUME Init PROVE WritesInvariant
  <2>1. calls = <<>> /\ inbox = <<>> /\ \A n \in ROLES : intents[n] = None
        BY <1>1 DEF Init
  <2>2. Serial /\ Newest
        BY <2>1 DEF Serial, Newest
  <2> QED BY <1>1, <2>2, InvariantInit DEF WritesInvariant
<1>2. ASSUME WritesInvariant, [Next]_vars PROVE WritesInvariant'
  <2>1. Invariant' /\ Typed /\ Typed' /\ Undecided /\ Matched
        BY <1>2, InvariantStep DEF WritesInvariant, Invariant, CallsInvariant
  <2>2. CASE Next
    <3>1. Newest'
          BY <1>2, <2>1, <2>2, NewestStep DEF WritesInvariant
    <3>2. CASE Send
          BY <1>2, <2>1, <3>1, <3>2, SerialSend DEF WritesInvariant
    <3>3. CASE ~Send
      <4>1. PICK lost \in {0, 1} : Shifts(lost) /\ Replies(lost)
            BY <2>1, <2>2, <3>3, InboxShifts
      <4>2. SentBefore
            BY <2>1, <2>2, <3>3, SentStays
      <4>3. Serial'
            BY <1>2, <2>1, <4>1, <4>2, SerialOtherwise DEF WritesInvariant
      <4> QED BY <2>1, <3>1, <4>3 DEF WritesInvariant
    <3> QED BY <3>2, <3>3
  <2>3. CASE UNCHANGED vars
    <3>1. Serial'
          BY <1>2, <2>3 DEF vars, WritesInvariant, Serial
    <3>2. Newest'
          BY <1>2, <2>3 DEF vars, WritesInvariant, Newest, LastOf, NoWrites, LastWrite
    <3> QED BY <2>1, <3>1, <3>2 DEF WritesInvariant
  <2> QED BY <1>2, <2>2, <2>3
<1> QED BY <1>1, <1>2

(* What LastWriteAgrees says of one step and one variable. *)
Confirms(n) ==
  /\ intents'[n] # intents[n] /\ intents'[n] # None /\ intents'[n].status = "confirmed"
  /\ intents[n] # None /\ intents[n].dispatched # None

LEMMA ConfirmedAgrees ==
  ASSUME WritesInvariant, [Next]_vars, NEW n \in ROLES, Confirms(n),
         NEW k \in DOMAIN inbox', LastWrite(k, n)'
  PROVE  inbox'[k].value = intents'[n].value
<1>1. Typed /\ Newest /\ Newest'
      BY WritesInvariantHolds DEF WritesInvariant, Invariant, CallsInvariant
<1>2. Next
      BY DEF vars, Confirms
<1>3. intents'[n].dispatched = None
  <2> SUFFICES ASSUME intents'[n].dispatched # None PROVE FALSE
      OBVIOUS
  <2>1. intents'[n] # None /\ intents'[n].status \in Definite
        BY DEF Confirms, Definite
  <2>2. ~IsWrite(inbox'[k], n)
        BY <1>1, <2>1 DEF Newest, NoWrites
  <2> QED BY <2>2 DEF LastWrite
<1>4. \E first \in {0, 1} : Decided(first)
      BY <1>1, <1>2, CallsStep
<1>5. ASSUME NEW first, Restated(first) PROVE FALSE
      BY <1>3, <1>5 DEF Restated, Confirms
<1>6. ASSUME Writes PROVE FALSE
  <2>1. now + 1 # None
        BY <1>1, NoneAssumption DEF Typed, TypeOK, Time
  <2>2. n = Top.name
        BY <1>1, <1>6, WriteDispatches DEF Confirms
  <2> QED BY <1>1, <1>3, <1>6, <2>1, <2>2, WriteDispatches
<1>7. PICK m \in ROLES, v \in Value : Command(m, v)
      BY <1>4, <1>5, <1>6 DEF Decided, Writes
<1>8. PICK s : /\ intents' = [intents EXCEPT ![m] = [value |-> v, gen |-> link.gen, id |-> FreshId,
                                                    status |-> s, dispatched |-> None]]
               /\ s = "confirmed" => ~Unresolved(intents[m], v)
  <2> DEFINE outcome == IF Blocked(m)
                        THEN IF link.up /\ link.registered THEN "unsupported" ELSE "rejected"
                        ELSE IF ~Unresolved(intents[m], v)
                                /\ (intents[m] = None \/ ~TaskRuns(intents[m], m)) /\ Held(obs, m) = v
                        THEN "confirmed" ELSE "pending"
  <2>1. intents' = [intents EXCEPT ![m] = [value |-> v, gen |-> link.gen, id |-> FreshId,
                                          status |-> outcome, dispatched |-> None]]
        BY <1>7 DEF Command
  <2>2. outcome = "confirmed" => ~Unresolved(intents[m], v)
        OBVIOUS
  <2> HIDE DEF outcome
  <2> QED BY <2>1, <2>2
<1>9. m = n /\ intents'[n].value = v /\ intents'[n].status = s
  <2>1. m = n
        BY <1>8 DEF Confirms, Typed, TypeOK
  <2> QED BY <1>1, <1>8, <2>1 DEF Typed, TypeOK
<1>10. ~Unresolved(intents[n], v) /\ intents[n] # None /\ intents[n].dispatched # None
       BY <1>8, <1>9 DEF Confirms
<1>11. inbox' = inbox /\ LastWrite(k, n)
       BY <1>7 DEF Command, LastWrite
<1>12. intents[n].status \notin Definite
       BY <1>1, <1>10, <1>11 DEF Newest, NoWrites, LastWrite
<1>13. intents[n].value = v
       BY <1>10, <1>12 DEF Unresolved, Definite
<1> QED BY <1>1, <1>9, <1>10, <1>11, <1>13 DEF Newest, LastOf

(* LastWriteAgrees, for all stations, features and bounds: a command that        *)
(* replaces an opposite one is answered at once only if that one was answered,   *)
(* and a write is answered only when the station has carried out all before it.  *)
THEOREM LastWriteAgreesHolds == Spec => LastWriteAgrees
<1>1. ASSUME WritesInvariant, [Next]_vars
      PROVE  [\A n \in ROLES :
                intents'[n] # intents[n] /\ intents'[n] # None /\ intents'[n].status = "confirmed"
                  /\ intents[n] # None /\ intents[n].dispatched # None
                => \A k \in DOMAIN inbox' :
                     LastWrite(k, n)' => inbox'[k].value = intents'[n].value]_vars
      BY <1>1, ConfirmedAgrees DEF Confirms
<1> QED BY <1>1, WritesInvariantHolds, PTL DEF Spec, LastWriteAgrees
=============================================================================
