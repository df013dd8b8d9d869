--------------------------- MODULE ControlCommand ---------------------------
(***************************************************************************)
(* Explicit commands to the wallbox and what is known of their effect: the *)
(* intents of Control (control.py), the serialized calls, inventory,       *)
(* readback and polling of the adapter (ocpp.py), and the observations of  *)
(* the two controlled variables (store.py).                                *)
(*                                                                         *)
(* A request may join, repeat or oppose a command whose answer is due.     *)
(* Answers, events and reads overtake each other; calls time out and are   *)
(* still carried out; connections end and stations boot.  One action is    *)
(* one callback, or one stretch of a task between two awaits.              *)
(***************************************************************************)
EXTENDS Integers, Sequences, SequencesExt, FiniteSets

CONSTANTS
  Stations,  \* the sets of controlled variables that stations may have
  Features,  \* which users and faults the environment has
  MaxOps,    \* bound: events of users and environment
  MaxCalls,  \* bound: calls waiting or under way
  None       \* no intent, no observation, no time

ROLES == {"ControlAuthority", "ChargingEnabled"}
AllFeatures == {"request", "local", "silent", "timeout", "refuse", "ignore", "unreadable",
                "link", "boot", "report"}
ASSUME StationsAssumption == Stations \subseteq (SUBSET ROLES) \ {{}}
ASSUME BoundsAssumption == /\ Features \subseteq AllFeatures
                           /\ MaxOps \in Nat /\ MaxCalls \in Nat \ {0}

VARIABLES
  now,      \* the clock: it moves when the station changes and at a dispatch
  link,     \* connection and generation of State and Adapter
  obs,      \* State.observations of the two variables
  intents,  \* Control.intents
  calls,    \* calls at the adapter's call lock; the head holds it
  boots,    \* the initialize task and the poll task
  station,  \* what the station really has
  inbox,    \* requests on their way to the station, answered in order
  answers,  \* answers on their way back
  notices,  \* events, reports and boots of the station, which answers overtake
  since,    \* history: the values the station had since the last dispatch
  ops       \* events so far, against MaxOps

vars == <<now, link, obs, intents, calls, boots, station, inbox, answers, notices, since, ops>>

-----------------------------------------------------------------------------
(* Types *)

Time == Nat
Value == {"on", "off"}  \* remote/true, local/false
Reported == Value \cup {"unknown"}
Status == {"pending", "accepted_unconfirmed", "confirmed", "superseded", "rejected",
           "unsupported", "timeout", "communication_failure"}
Intent == [value: Value, gen: Nat, id: Nat, status: Status, dispatched: Time \cup {None}]
Observation == [value: Reported, at: Time, gen: Nat]
ASSUME NoneAssumption == None \notin Nat /\ None \notin Observation
Call == [kind: {"write", "confirm", "report", "init", "poll"}, name: ROLES, id: Nat,
         cid: Nat, gen: Nat, at: Time, sent: BOOLEAN, heard: BOOLEAN]
Request == [kind: {"write", "read", "report"}, name: ROLES, value: Value, cid: Nat,
            answers: BOOLEAN]
Refusal == {"refused", "unsupported", "malformed"}
Message == [kind: {"answer", "event", "report", "boot"}, name: ROLES, cid: Nat, at: Time,
            value: Reported \cup Refusal \cup {"accepted", "ok", "broken"}, rw: SUBSET ROLES]

TypeOK ==
  /\ now \in Time /\ ops \in 0..MaxOps
  /\ link \in [up: BOOLEAN, gen: Nat, registered: BOOLEAN, epoch: Time, writable: SUBSET ROLES]
  /\ obs \in [ROLES -> Observation \cup {None}]
  /\ intents \in [ROLES -> Intent \cup {None}]
  /\ calls \in Seq(Call) /\ inbox \in Seq(Request) /\ answers \in Seq(Message) /\ notices \in Seq(Message)
  /\ boots \in [stage: {"none", "ask", "collect", "read"}, request: Nat,
              parts: {"none", "ok", "broken"}, rw: SUBSET ROLES,
              todo: SUBSET ROLES, poll: BOOLEAN]
  /\ station \in [value: [ROLES -> Value], has: Stations, rw: SUBSET ROLES, told: SUBSET ROLES]
  /\ since \in [ROLES -> SUBSET Value]

Quiescent == [stage |-> "none", request |-> 0, parts |-> "none", rw |-> {},
              todo |-> {}, poll |-> FALSE]

Init ==
  /\ now = 0 /\ ops = 0
  /\ link = [up |-> FALSE, gen |-> 0, registered |-> FALSE, epoch |-> 0, writable |-> {}]
  /\ obs = [n \in ROLES |-> None] /\ intents = [n \in ROLES |-> None]
  /\ calls = <<>> /\ inbox = <<>> /\ answers = <<>> /\ notices = <<>> /\ boots = Quiescent
  /\ \E has \in Stations :
       station = [value |-> [n \in ROLES |-> "off"], has |-> has, rw |-> has, told |-> has]
  /\ since = [n \in ROLES |-> {}]

May(feature) == feature \in Features /\ ops < MaxOps /\ ops' = ops + 1

-----------------------------------------------------------------------------
(* State: observations *)

Live(gen) == link.up /\ link.gen = gen
\* State.value
Held(o, n) == IF o[n] # None /\ Live(o[n].gen) THEN o[n].value ELSE "unknown"

\* mutant of Accepts: whatever arrives last is held
AcceptsLate(n, v, at) == at >= link.epoch
\* State.observe for a variable that is not a phase: the time of a report never
\* goes back within a generation, and a conflict at one time leaves nothing known
Accepts(n, v, at) ==
  at >= link.epoch
  /\ (obs[n] # None /\ obs[n].gen = link.gen => at >= obs[n].at /\ ~(at = obs[n].at /\ v = obs[n].value))
\* mutant of Observation_: a conflict leaves no value at all
ConflictBlank(n, v, at) ==
  [value |-> IF obs[n] # None /\ obs[n].gen = link.gen /\ at = obs[n].at THEN None ELSE v,
   at |-> at, gen |-> link.gen]
Observation_(n, v, at) ==
  [value |-> IF obs[n] # None /\ obs[n].gen = link.gen /\ at = obs[n].at THEN "unknown" ELSE v,
   at |-> at, gen |-> link.gen]
Observed(n, v, at) ==
  IF Accepts(n, v, at) THEN [obs EXCEPT ![n] = Observation_(n, v, at)] ELSE obs

-----------------------------------------------------------------------------
(* Control: intents *)

\* Control.blocked
Blocked(n) == ~link.up \/ ~link.registered \/ n \notin link.writable
Open == {"pending", "accepted_unconfirmed"}
Valid(i, n) == i.status # "superseded" /\ Live(i.gen) /\ ~Blocked(n)
Current(c) == intents[c.name] # None /\ intents[c.name].id = c.id
ValidCall(c) == Current(c) /\ Valid(intents[c.name], c.name)
TaskRuns(i, n) == \E k \in DOMAIN calls : calls[k].kind \in {"write", "confirm"}
                                          /\ calls[k].name = n /\ calls[k].id = i.id

\* Control.update: only the newest intent of a variable is changed
Updated(c, status) == IF Current(c) THEN [intents EXCEPT ![c.name].status = status] ELSE intents
\* mutant of Invalidated: only what was acknowledged is given up
InvalidatedAcknowledged ==
  [n \in ROLES |-> IF intents[n] # None /\ intents[n].status = "accepted_unconfirmed"
                   THEN [intents[n] EXCEPT !.status = "superseded"] ELSE intents[n]]
\* Control.invalidate
Invalidated == [n \in ROLES |-> IF intents[n] # None /\ intents[n].status \in Open
                                THEN [intents[n] EXCEPT !.status = "superseded"] ELSE intents[n]]
\* mutant of Settled: an observation from before the dispatch confirms
SettledEarly(ints, o, n) ==
  LET i == ints[n] IN
  IF i # None /\ i.status = "accepted_unconfirmed" /\ Valid(i, n)
     /\ o[n] # None /\ o[n].gen = i.gen /\ i.dispatched # None /\ Held(o, n) = i.value
  THEN [ints EXCEPT ![n].status = "confirmed"] ELSE ints
\* Control.observed
Settled(ints, o, n) ==
  LET i == ints[n] IN
  IF i # None /\ i.status = "accepted_unconfirmed" /\ Valid(i, n)
     /\ o[n] # None /\ o[n].gen = i.gen /\ i.dispatched # None
     /\ o[n].at >= i.dispatched /\ Held(o, n) = i.value
  THEN [ints EXCEPT ![n].status = "confirmed"] ELSE ints

\* an observation arrives
Reports(n, v, at) ==
  /\ obs' = Observed(n, v, at)
  /\ intents' = IF Accepts(n, v, at) THEN Settled(intents, obs', n) ELSE intents

Least(taken) == CHOOSE i \in 1..(Cardinality(taken) + 1) : i \notin taken
Some == CHOOSE n \in ROLES : TRUE
FreshId == Least({intents[n].id : n \in {m \in ROLES : intents[m] # None}}
                   \cup {calls[k].id : k \in DOMAIN calls})
FreshCall == Least({calls[k].cid : k \in DOMAIN calls} \cup {inbox[k].cid : k \in DOMAIN inbox}
                     \cup {answers[k].cid : k \in DOMAIN answers} \cup {notices[k].cid : k \in DOMAIN notices}
                     \cup {boots.request})
Queued(kind, n, id) ==
  Append(calls, [kind |-> kind, name |-> n, id |-> id, cid |-> FreshCall, gen |-> link.gen,
                 at |-> now, sent |-> FALSE, heard |-> TRUE])

\* the same command again: the task is joined, or an acknowledged one is read again
Repeat(n, v) ==
  /\ May("request") /\ intents[n] # None /\ intents[n].value = v /\ Valid(intents[n], n)
  /\ \/ TaskRuns(intents[n], n) /\ UNCHANGED calls
     \/ /\ ~TaskRuns(intents[n], n) /\ intents[n].status = "accepted_unconfirmed"
        /\ calls' = IF n = "ControlAuthority"
                    THEN Queued("confirm", n, intents[n].id) ELSE calls
  /\ UNCHANGED <<now, link, obs, intents, boots, station, inbox, answers, notices, since>>

\* mutant of Unresolved: a command that timed out is taken to be over
UnresolvedOpen(old, v) == old # None /\ old.value # v /\ old.status \in Open
\* an opposite command that went out may still take effect
Unresolved(old, v) == old # None /\ old.value # v /\ old.dispatched # None
                      /\ old.status \notin {"confirmed", "rejected", "unsupported"}
Joins(old, n, v) == old # None /\ old.value = v /\ Valid(old, n)
                    /\ (TaskRuns(old, n) \/ old.status = "accepted_unconfirmed")
Command(n, v) ==
  LET old == intents[n]
      outcome == IF Blocked(n)
                 THEN IF link.up /\ link.registered THEN "unsupported" ELSE "rejected"
                 ELSE IF ~Unresolved(old, v) /\ (old = None \/ ~TaskRuns(old, n)) /\ Held(obs, n) = v
                 THEN "confirmed" ELSE "pending"
  IN /\ May("request") /\ ~Joins(old, n, v) /\ Len(calls) < MaxCalls
     /\ intents' = [intents EXCEPT ![n] = [value |-> v, gen |-> link.gen, id |-> FreshId,
                                           status |-> outcome, dispatched |-> None]]
     /\ calls' = IF outcome = "pending" THEN Queued("write", n, FreshId) ELSE calls
     /\ UNCHANGED <<now, link, obs, boots, station, inbox, answers, notices, since>>

-----------------------------------------------------------------------------
(* Adapter: calls *)

Top == Head(calls)
\* _send under the call lock; a write passes the guard of its intent
Send ==
  /\ calls # <<>> /\ ~Top.sent /\ (Top.kind = "write" => ValidCall(Top))
  /\ calls' = [calls EXCEPT ![1].sent = TRUE]
  /\ inbox' = Append(inbox, [kind |-> CASE Top.kind = "write" -> "write"
                                        [] Top.kind = "report" -> "report"
                                        [] OTHER -> "read",
                             name |-> Top.name, cid |-> Top.cid, answers |-> TRUE,
                             value |-> IF Top.kind = "write" THEN intents[Top.name].value ELSE "on"])
  /\ IF Top.kind = "write"
     THEN /\ now' = now + 1
          /\ intents' = [intents EXCEPT ![Top.name].dispatched = now + 1]
          /\ since' = [since EXCEPT ![Top.name] = {station.value[Top.name]}]
     ELSE UNCHANGED <<now, intents, since>>
  /\ UNCHANGED <<link, obs, boots, station, answers, notices, ops>>
Refused ==
  /\ calls # <<>> /\ ~Top.sent /\ Top.kind = "write" /\ ~ValidCall(Top)
  /\ intents' = Updated(Top, "superseded") /\ calls' = Tail(calls)
  /\ UNCHANGED <<now, link, obs, boots, station, inbox, answers, notices, since, ops>>

\* the caller of the head goes on without an answer: TimeoutError
NextStage == IF boots.todo = {} THEN [boots EXCEPT !.stage = "none", !.poll = TRUE]
             ELSE boots
Answerable == \/ \E k \in DOMAIN inbox : inbox[k].cid = Top.cid /\ inbox[k].answers
              \/ \E k \in DOMAIN answers : answers[k].cid = Top.cid
TimedOut ==
  /\ calls # <<>> /\ Top.sent
  /\ (May("timeout") \/ (~Answerable /\ UNCHANGED ops))
  /\ intents' = CASE Top.kind = "write" -> Updated(Top, "timeout")
                  [] Top.kind = "confirm" /\ Current(Top) /\ ~ValidCall(Top) -> Updated(Top, "superseded")
                  [] OTHER -> intents
  /\ boots' = CASE Top.heard /\ Top.kind = "report" -> Quiescent
                [] Top.heard /\ Top.kind = "init" -> NextStage
                [] OTHER -> boots
  /\ calls' = Tail(calls)
  /\ UNCHANGED <<now, link, obs, station, inbox, answers, notices, since>>

AnswersTop == calls # <<>> /\ Top.sent /\ answers # <<>> /\ Top.cid = Head(answers).cid
M == Head(answers)
Answers(kinds) == AnswersTop /\ Top.kind \in kinds /\ answers' = Tail(answers)
LateAnswer ==
  /\ answers # <<>> /\ ~AnswersTop /\ answers' = Tail(answers)
  /\ UNCHANGED <<now, link, obs, intents, calls, boots, station, inbox, notices, since, ops>>

\* Control.execute after the response, up to the read that confirms
WriteAnswered ==
  /\ Answers({"write"})
  /\ LET accepted == [intents EXCEPT ![Top.name].status = "accepted_unconfirmed"]
         settled == Settled(accepted, obs, Top.name)
         status == CASE M.value = "malformed" -> "communication_failure"
                     [] M.value = "unsupported" -> "unsupported"
                     [] OTHER -> "rejected"
     IN IF ~ValidCall(Top)
        THEN intents' = Updated(Top, "superseded") /\ calls' = Tail(calls)
        ELSE IF M.value # "accepted"
        THEN intents' = Updated(Top, status) /\ calls' = Tail(calls)
        ELSE /\ intents' = settled
             /\ calls' = IF settled[Top.name].status = "confirmed" THEN Tail(calls)
                         ELSE Tail(Queued("confirm", Top.name, Top.id))
  /\ UNCHANGED <<now, link, obs, boots, station, inbox, notices, since, ops>>

\* Adapter.read after the response; its time is that of the request
ReadAnswered ==
  /\ Answers({"confirm", "init", "poll"})
  /\ IF Live(Top.gen) /\ Top.heard /\ M.value \in Value /\ (Top.kind = "confirm" => ValidCall(Top))
     THEN Reports(Top.name, M.value, Top.at)
     ELSE /\ UNCHANGED obs
          /\ intents' = IF Top.kind = "confirm" /\ Current(Top) /\ ~ValidCall(Top)
                        THEN Updated(Top, "superseded") ELSE intents
  /\ boots' = IF Top.kind = "init" /\ Top.heard THEN NextStage ELSE boots
  /\ calls' = Tail(calls)
  /\ UNCHANGED <<now, link, station, inbox, notices, since, ops>>

-----------------------------------------------------------------------------
(* Adapter: registration, inventory, poll *)

Told(kind, n, value) == [kind |-> kind, name |-> n, value |-> value, at |-> now, cid |-> 0,
                         rw |-> station.rw]
\* requests that reached the station are carried out, their answers are lost
Abandoned == [k \in DOMAIN inbox |-> [inbox[k] EXCEPT !.answers = FALSE]]

\* Listener.accept: a new connection replaces an old one
Connect ==
  /\ (May("link") \/ (link.gen = 0 /\ UNCHANGED ops))
  /\ link' = [up |-> TRUE, gen |-> link.gen + 1, registered |-> FALSE, epoch |-> now, writable |-> {}]
  /\ intents' = Invalidated /\ calls' = <<>> /\ boots' = Quiescent
  /\ notices' = <<Told("boot", Some, "ok")>> /\ answers' = <<>> /\ inbox' = Abandoned
  /\ UNCHANGED <<now, obs, station, since>>
\* the connection ends: Adapter.close, State.reset
Disconnect ==
  /\ May("link") /\ link.up
  /\ link' = [link EXCEPT !.up = FALSE, !.epoch = now]
  /\ intents' = Invalidated /\ calls' = <<>> /\ boots' = Quiescent
  /\ notices' = <<>> /\ answers' = <<>> /\ inbox' = Abandoned
  /\ UNCHANGED <<now, obs, station, since>>

Arrives(kind) == link.up /\ notices # <<>> /\ Head(notices).kind = kind /\ notices' = Tail(notices)
\* mutant of Boot: the inventory of the earlier incarnation stays
BootKeepsInventory ==
  /\ Arrives("boot")
  /\ intents' = Invalidated
  /\ link' = [link EXCEPT !.gen = @ + 1, !.registered = TRUE, !.epoch = now]
  /\ calls' = [k \in DOMAIN calls |->
                 [calls[k] EXCEPT !.heard = @ /\ calls[k].kind \in {"write", "confirm"}]]
  /\ boots' = [Quiescent EXCEPT !.stage = "ask"]
  /\ UNCHANGED <<now, obs, station, inbox, answers, since, ops>>
\* boot(); tasks of the earlier incarnation are cancelled, their calls are not
Boot ==
  /\ Arrives("boot")
  /\ intents' = Invalidated
  /\ link' = [link EXCEPT !.gen = @ + 1, !.registered = TRUE, !.epoch = now, !.writable = {}]
  /\ calls' = [k \in DOMAIN calls |->
                 [calls[k] EXCEPT !.heard = @ /\ calls[k].kind \in {"write", "confirm"}]]
  /\ boots' = [Quiescent EXCEPT !.stage = "ask"]
  /\ UNCHANGED <<now, obs, station, inbox, answers, since, ops>>

\* initialize() up to its first call
Initialize ==
  /\ boots.stage = "ask" /\ boots.request = 0
  /\ boots' = [boots EXCEPT !.request = FreshCall]
  /\ calls' = Queued("report", Some, 0)
  /\ UNCHANGED <<now, link, obs, intents, station, inbox, answers, notices, since, ops>>
ReportAnswered ==
  /\ Answers({"report"})
  /\ boots' = IF Top.heard THEN [boots EXCEPT !.stage = "collect"] ELSE boots
  /\ calls' = Tail(calls)
  /\ UNCHANGED <<now, link, obs, intents, station, inbox, notices, since, ops>>
\* NotifyReport: the parts of the report asked for, in order or not
Report ==
  /\ Arrives("report")
  /\ boots' = IF Head(notices).cid = boots.request /\ boots.request # 0
              THEN [boots EXCEPT !.parts = Head(notices).value, !.rw = Head(notices).rw] ELSE boots
  /\ UNCHANGED <<now, link, obs, intents, calls, station, inbox, answers, since, ops>>
\* the report is complete: it names what may be written and read
Inventory ==
  /\ boots.stage = "collect" /\ boots.parts = "ok"
  /\ link' = [link EXCEPT !.writable = boots.rw]
  /\ boots' = [Quiescent EXCEPT !.stage = "read", !.todo = station.has]
  /\ UNCHANGED <<now, obs, intents, calls, station, inbox, answers, notices, since, ops>>
\* it is broken or does not come within the response timeout
NoInventory ==
  /\ boots.stage = "collect"
  /\ \/ boots.parts = "broken"
     \/ boots.parts = "none" /\ ~\E k \in DOMAIN notices : notices[k].kind = "report"
  /\ boots' = Quiescent
  /\ UNCHANGED <<now, link, obs, intents, calls, station, inbox, answers, notices, since, ops>>
\* the optional reads after the inventory, one at a time
InitialRead(n) ==
  /\ boots.stage = "read" /\ n \in boots.todo
  /\ ~\E k \in DOMAIN calls : calls[k].kind = "init" /\ calls[k].heard
  /\ boots' = [boots EXCEPT !.todo = @ \ {n}]
  /\ calls' = Queued("init", n, 0)
  /\ UNCHANGED <<now, link, obs, intents, station, inbox, answers, notices, since, ops>>
\* poll_permission after its sleep
Poll ==
  /\ boots.poll /\ "ChargingEnabled" \in station.has /\ Len(calls) < MaxCalls
  /\ ~\E k \in DOMAIN calls : calls[k].kind = "poll"
  /\ calls' = Queued("poll", "ChargingEnabled", 0)
  /\ UNCHANGED <<now, link, obs, intents, boots, station, inbox, answers, notices, since, ops>>

\* notify_event
Event ==
  /\ Arrives("event") /\ Reports(Head(notices).name, Head(notices).value, Head(notices).at)
  /\ UNCHANGED <<now, link, calls, boots, station, inbox, answers, since, ops>>

-----------------------------------------------------------------------------
(* The station and the network *)

\* a value changes at the station; it notifies over the connection there is
Changed(n, v, told) ==
  /\ now' = now + 1
  /\ station' = [station EXCEPT !.value[n] = v, !.told = IF told THEN @ \cup {n} ELSE @ \ {n}]
  /\ since' = [since EXCEPT ![n] = @ \cup {v}]
  /\ notices' = IF link.up /\ told
                THEN Append(notices, [Told("event", n, v) EXCEPT !.at = now + 1]) ELSE notices

Next1 == Head(inbox)
Responds(value) ==
  answers' = IF Next1.answers
             THEN Append(answers, [Told("answer", Next1.name, value) EXCEPT !.cid = Next1.cid])
             ELSE answers
Part(value) == [Told("report", Some, value) EXCEPT !.cid = Next1.cid]
Unchanged == UNCHANGED <<now, station, since, notices>>

CarriesOut ==
  /\ inbox # <<>> /\ Next1.kind = "write" /\ inbox' = Tail(inbox)
  /\ \/ /\ station.value[Next1.name] = Next1.value /\ Unchanged /\ UNCHANGED ops
        /\ Responds("accepted")
     \/ /\ station.value[Next1.name] # Next1.value /\ UNCHANGED ops
        /\ Changed(Next1.name, Next1.value, TRUE) /\ Responds("accepted")
     \/ May("ignore") /\ Unchanged /\ Responds("accepted")  \* accepted, but without effect
     \/ May("refuse") /\ Unchanged /\ \E r \in Refusal : Responds(r)
  /\ UNCHANGED <<link, obs, intents, calls, boots>>
Tells ==
  /\ inbox # <<>> /\ Next1.kind = "read" /\ inbox' = Tail(inbox)
  /\ \/ UNCHANGED ops /\ Responds(station.value[Next1.name])
     \/ May("unreadable") /\ Responds("refused")
  /\ Unchanged /\ UNCHANGED <<link, obs, intents, calls, boots>>
\* the report, complete, broken or lost
ReportsBase ==
  /\ inbox # <<>> /\ Next1.kind = "report" /\ inbox' = Tail(inbox) /\ Responds("accepted")
  /\ \/ UNCHANGED ops /\ notices' = IF Next1.answers THEN Append(notices, Part("ok")) ELSE notices
     \/ May("report") /\ Next1.answers /\ notices' \in {notices, Append(notices, Part("broken"))}
  /\ UNCHANGED <<now, link, obs, intents, calls, boots, station, since>>

\* somebody operates the station, which notifies it or not
LocalChange(n, v, told) ==
  /\ May("local") /\ v # station.value[n] /\ (told \/ "silent" \in Features)
  /\ Changed(n, v, told)
  /\ UNCHANGED <<link, obs, intents, calls, boots, inbox, answers>>
\* the station boots on the open connection, with another inventory perhaps
StationBoots(rw) ==
  /\ May("boot") /\ link.up /\ station' = [station EXCEPT !.rw = rw]
  /\ inbox' = <<>> /\ notices' = Append(notices, Told("boot", Some, "ok"))
  /\ UNCHANGED <<now, link, obs, intents, calls, boots, answers, since>>

System ==
  \/ Send \/ Refused \/ TimedOut \/ LateAnswer \/ WriteAnswered \/ ReadAnswered
  \/ Boot \/ Initialize \/ ReportAnswered \/ Report \/ Inventory \/ NoInventory
  \/ (\E n \in ROLES : InitialRead(n)) \/ Event \/ CarriesOut \/ Tells \/ ReportsBase
World ==
  \/ Connect \/ Disconnect \/ Poll
  \/ \E n \in station.has, v \in Value :
       \/ (n = "ControlAuthority" => v = "on") /\ (Repeat(n, v) \/ Command(n, v))
       \/ \E told \in BOOLEAN : LocalChange(n, v, told)
  \/ \E rw \in SUBSET station.has : StationBoots(rw)
Next == System \/ World

\* The event loop runs its callbacks, the station works off its requests, and a
\* call that gets no answer times out.
Spec == Init /\ [][Next]_vars /\ WF_vars(System)

-----------------------------------------------------------------------------
(* Properties *)

\* A command that went out is only shown as confirmed when the station really
\* had its value at some time after that, whatever was observed before.
ConfirmedTrue ==
  \A n \in ROLES : intents[n] # None /\ intents[n].status = "confirmed"
                     /\ intents[n].dispatched # None => intents[n].value \in since[n]

\* When a command is shown as confirmed, and it or the one it replaces went out,
\* the last write of its variable that the station has still to carry out is no
\* opposite one: such a command is answered by a write of its own.
IsWrite(r, n) == r.kind = "write" /\ r.name = n
LastWrite(k, n) ==
  k \in DOMAIN inbox /\ IsWrite(inbox[k], n)
  /\ \A j \in DOMAIN inbox : IsWrite(inbox[j], n) => j <= k
LastWriteAgrees ==
  [][\A n \in ROLES :
       intents'[n] # intents[n] /\ intents'[n] # None /\ intents'[n].status = "confirmed"
         /\ intents[n] # None /\ intents[n].dispatched # None
       => \A k \in DOMAIN inbox' :
            LastWrite(k, n)' => inbox'[k].value = intents'[n].value]_vars

\* When all messages are through, what is held of a variable is what the
\* station has, or nothing, if it notified its last change.
HeldIsTrue ==
  calls = <<>> /\ inbox = <<>> /\ answers = <<>> /\ notices = <<>> =>
    \A n \in ROLES : n \in station.told => Held(obs, n) \in {station.value[n], "unknown"}

\* No write goes out for an intent that has been replaced or for an earlier
\* connection or boot, nor for a variable that the inventory since then did not
\* list as writable.
NoStaleWrite ==
  [][\A n \in ROLES : intents[n] # None /\ intents'[n] # None
       /\ intents'[n].dispatched # intents[n].dispatched /\ intents'[n].dispatched # None
       => link.up /\ link.registered /\ intents[n].gen = link.gen /\ n \in link.writable
          /\ boots.stage \notin {"ask", "collect"} /\ intents[n].status \in Open]_vars

\* Every command is answered, by confirmation, refusal, timeout or replacement,
\* and none stays open over the end of its connection.
Pending == {n \in ROLES : intents[n] # None /\ intents[n].status = "pending"}
Answered == Pending # {} ~> Pending = {}
=============================================================================
