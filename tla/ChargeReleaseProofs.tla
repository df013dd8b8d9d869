------------------------ MODULE ChargeReleaseProofs ------------------------
(* Theorems about ChargeRelease, for every set of profiles, powers, times,  *)
(* cards and features: the state stays well typed; unless the generic       *)
(* button is used, a release stays the one its Start was pressed for; what  *)
(* is not on disk is announced; the end of an edit window discards only its *)
(* own drafts; and, with authority kept and storage working, a release that *)
(* was revoked does not come back for good.                                 *)
EXTENDS ChargeRelease, SequenceTheorems, TLAPS

-----------------------------------------------------------------------------
(* The operators on documents return documents. *)

(* Nothing but instants is ever given to the schedule timer. *)
LEMMA DeadlinesType ==
  ASSUME now \in Nat
  PROVE  \A v \in Doc : \A tried : Deadlines(v, tried) \in SUBSET Nat
<1> SUFFICES ASSUME NEW v \in Doc, NEW tried,
                    v.request # None, v.release, v.profile = NETZ
             PROVE  Deadlines(v, tried) \in SUBSET Nat
    BY DEF Deadlines
<1>1. v.request \in Request
      BY DEF Doc
<1>2. BusinessDeadline(v) \in SUBSET Nat
      BY <1>1 DEF BusinessDeadline, Phase, Request
<1>3. EditDeadline(v, tried) \in SUBSET Nat
      BY DEF EditDeadline, Doc, Edit
<1> QED BY <1>2, <1>3 DEF Deadlines

(* The revisions of a document can be counted up. *)
LEMMA RevisionType ==
  \A v \in Doc : /\ v.drev \in Nat /\ v.drev + 1 \in Nat
                 /\ v.trev \in Nat /\ v.trev + 1 \in Nat
<1> TAKE v \in Doc
<1>1. v.drev \in Nat /\ v.trev \in Nat
      BY DEF Doc
<1> QED BY <1>1

(* Switching off keeps everything but the release and its schedule. *)
LEMMA OffType ==
  \A v \in Doc : /\ Off(v) \in Doc
                 /\ ~Off(v).release
                 /\ Off(v).profile = v.profile
BY DEF Off, Doc

(* Approving makes the drafts the approved values. *)
LEMMA ApproveType ==
  \A v \in Doc : /\ Approve(v) \in Doc
                 /\ Approve(v).release = v.release
                 /\ Approve(v).profile = v.profile
BY DEF Approve, Doc, Approved

(* An accepted schedule has a start, and an end unless none was asked for. *)
LEMMA ScheduleType ==
  ASSUME now \in Nat
  PROVE  \A v \in Doc : Schedule(v) \in Request
<1> TAKE v \in Doc
<1>1. v.approved.rev \in Nat /\ v.delay \in Nat
      BY TimesAssumption DEF Doc, Approved
<1>2. v.duration # None => v.duration \in Nat
      BY TimesAssumption DEF Doc
<1> QED BY <1>1, <1>2 DEF Schedule, Request

(* A window of time edits touches nothing else. *)
LEMMA EditWindowType ==
  ASSUME now \in Nat
  PROVE  \A v \in Doc : /\ EditWindow(v) \in Doc
                        /\ EditWindow(v).release = v.release
                        /\ EditWindow(v).profile = v.profile
<1> TAKE v \in Doc
<1>1. ASSUME v.release, v.request # None
      PROVE  [rev |-> v.trev, sched |-> v.request.rev, expires |-> now + Grace]
               \in Edit
      BY <1>1, TimesAssumption DEF Doc, Request, Edit
<1> QED BY <1>1 DEF EditWindow, Doc

(* What a task that is not a Start saves: a document that is released only  *)
(* if the one in memory is, and whose profile differs only once it is off.  *)
LEMMA CandidatesType ==
  ASSUME values \in Doc, now \in Nat, NEW job \in Job,
         NEW d \in Candidates(job), d # None
  PROVE  /\ d \in Doc
         /\ d.release => values.release
         /\ d.profile # values.profile => job.kind = "profile"
         /\ job.kind = "profile" => ~d.release
<1> USE DEF Same
<1>1. CASE job.kind = "power"
  <2> DEFINE w == [values EXCEPT !.power = job.power, !.drev = @ + 1]
  <2>1. job.power \in Powers
        BY <1>1 DEF Job
  <2>3. w \in Doc /\ w.release = values.release /\ w.profile = values.profile
        BY <2>1, RevisionType DEF Doc
  <2>2. d \in {w, Approve(w)}
        BY <1>1 DEF Candidates, EquivalentOrNot
  <2> QED BY <1>1, <2>2, <2>3, ApproveType
<1>2. CASE job.kind = "delay"
  <2> DEFINE u == [values EXCEPT !.delay = job.delay, !.drev = @ + 1,
                                 !.trev = @ + 1]
             w == EditWindow(u)
  <2>1. job.delay \in Delays
        BY <1>2 DEF Job
  <2>3. u \in Doc /\ u.release = values.release /\ u.profile = values.profile
        BY <2>1, RevisionType DEF Doc
  <2>2. d \in {w, Approve(w)}
        BY <1>2 DEF Candidates, EquivalentOrNot
  <2> HIDE DEF u
  <2> QED BY <1>2, <2>2, <2>3, ApproveType, EditWindowType
<1>3. CASE job.kind = "duration"
  <2> DEFINE u == [values EXCEPT !.duration = job.duration, !.drev = @ + 1,
                                 !.trev = @ + 1]
             w == EditWindow(u)
  <2>1. job.duration \in Durations \cup {None}
        BY <1>3 DEF Job
  <2>3. u \in Doc /\ u.release = values.release /\ u.profile = values.profile
        BY <2>1, RevisionType DEF Doc
  <2>2. d \in {w, Approve(w)}
        BY <1>3 DEF Candidates, EquivalentOrNot
  <2> HIDE DEF u
  <2> QED BY <1>3, <2>2, <2>3, ApproveType, EditWindowType
<1>4. CASE job.kind = "profile"
  <2>1. Off(values) \in Doc /\ ~Off(values).release
        BY OffType
  <2>2. d = [Off(values) EXCEPT !.profile = job.profile, !.trev = @ + 1]
        BY <1>4 DEF Candidates
  <2>3. job.profile \in Profiles
        BY <1>4 DEF Job
  <2> QED BY <1>4, <2>1, <2>2, <2>3, RevisionType DEF Doc
<1>5. CASE job.kind \in {"equivalent", "loss"}
      BY <1>5, ApproveType, OffType DEF Candidates
<1>6. CASE job.kind = "stop"
  <2>1. d = [Off(values) EXCEPT !.trev = job.trev] /\ job.trev \in Nat
        BY <1>6 DEF Candidates, Job
  <2> QED BY <2>1, OffType DEF Doc
<1>7. CASE job.kind = "expire"
  <2>1. d = [values EXCEPT !.delay = values.approved.delay,
                           !.duration = values.approved.duration,
                           !.drev = @ + 1, !.trev = @ + 1, !.edit = None]
        BY <1>7 DEF Candidates
  <2>2. /\ values.approved.delay \in Delays
        /\ values.approved.duration \in Durations \cup {None}
        BY DEF Doc, Approved
  <2> QED BY <1>7, <2>1, <2>2, RevisionType DEF Doc
<1> QED BY <1>1, <1>2, <1>3, <1>4, <1>5, <1>6, <1>7 DEF Candidates

(* An approval is a document of the same profile; an Apply of a run that is *)
(* off does not turn it on.                                                 *)
LEMMA ApprovalType ==
  ASSUME values \in Doc, now \in Nat, NEW start \in BOOLEAN
  PROVE  /\ Approval(start) \in Doc
         /\ Approval(start).profile = values.profile
         /\ Approval(start).release => start \/ values.release
<1> DEFINE a == Approve(values)
           request == IF start THEN Schedule(a) ELSE AppliedRequest(a)
           doc == [a EXCEPT !.release = start \/ values.release,
                            !.request = request, !.edit = None,
                            !.trev = @ + 1]
<1>1. a \in Doc /\ a.profile = values.profile
      BY ApproveType
<1>2. Schedule(a) \in Request
      BY <1>1, ScheduleType
<1>3. ASSUME values.request # None, values.duration # None
      PROVE  values.request.start + values.duration \in Nat
  <2>1. values.request.start \in Nat
        BY <1>3 DEF Doc, Request
  <2>2. values.duration \in Nat
        BY <1>3, TimesAssumption DEF Doc
  <2> QED BY <2>1, <2>2
<1>4. a.approved.rev \in Nat
      BY <1>1 DEF Doc, Approved
<1> HIDE DEF a
<1>5. AppliedRequest(a) \in Request \cup {None}
      BY <1>2, <1>3, <1>4 DEF AppliedRequest, Doc, Request
<1>6. request \in Request \cup {None}
      BY <1>2, <1>5
<1> HIDE DEF request
<1>7. doc \in Doc /\ doc.profile = values.profile
        /\ doc.release = (start \/ values.release)
  <2>1. (start \/ values.release) \in BOOLEAN /\ a.trev + 1 \in Nat
        BY <1>1, RevisionType DEF Doc
  <2>2. doc \in Doc
        BY <1>1, <1>6, <2>1, RevisionType DEF Doc
  <2>3. doc.profile = a.profile /\ doc.release = (start \/ values.release)
        BY <1>1 DEF Doc
  <2> HIDE DEF doc
  <2> QED BY <1>1, <2>2, <2>3
<1> HIDE DEF doc
<1>8. Approval(start) \in {doc, [doc EXCEPT !.release = FALSE, !.request = None]}
      BY DEF Approval, doc, request, a
<1> QED BY <1>7, <1>8 DEF Doc

-----------------------------------------------------------------------------
(* One task at a time works for the action that holds Grid.action_lock. *)

ForAction(job) == job.kind \in StartKinds \/ (job.kind = "stop" /\ job.button)

Free(q) == \A i \in 1 .. Len(q) : ~ForAction(q[i])
One(q) == \E i \in 1 .. Len(q) :
            /\ ForAction(q[i])
            /\ \A k \in 1 .. Len(q) : k # i => ~ForAction(q[k])

HolderFree == holder = None \/ ~ForAction(holder.job)
Waiting == act # None /\ act.stage = "lock"

OneTask ==
  \/ Free(queue) /\ HolderFree
  \/ Waiting /\ Free(queue) /\ holder # None /\ ForAction(holder.job)
  \/ Waiting /\ One(queue) /\ HolderFree

IndType == TypeOK /\ OneTask

(* What a task appended to the queue changes in this account. *)
LEMMA AppendTask ==
  ASSUME NEW q \in Seq(Job), NEW job \in Job
  PROVE  /\ Append(q, job) \in Seq(Job)
         /\ Free(q) /\ ~ForAction(job) => Free(Append(q, job))
         /\ One(q) /\ ~ForAction(job) => One(Append(q, job))
         /\ Free(q) /\ ForAction(job) => One(Append(q, job))
<1> DEFINE r == Append(q, job)
<1>1. /\ r \in Seq(Job) /\ Len(r) = Len(q) + 1 /\ Len(q) \in Nat
      /\ r[Len(q) + 1] = job
      /\ \A i \in 1 .. Len(q) : r[i] = q[i]
      BY LenProperties
<1> HIDE DEF r
<1>2. \A i \in 1 .. Len(r) : i \in 1 .. Len(q) \/ i = Len(q) + 1
      BY <1>1
<1>3. Free(q) /\ ~ForAction(job) => Free(r)
      BY <1>1, <1>2 DEF Free
<1>4. ASSUME One(q), ~ForAction(job)
      PROVE  One(r)
  <2>1. PICK i \in 1 .. Len(q) :
          /\ ForAction(q[i])
          /\ \A k \in 1 .. Len(q) : k # i => ~ForAction(q[k])
        BY <1>4 DEF One
  <2>2. i \in 1 .. Len(r) /\ ForAction(r[i])
        BY <1>1, <2>1
  <2>3. \A k \in 1 .. Len(r) : k # i => ~ForAction(r[k])
        BY <1>1, <1>2, <1>4, <2>1
  <2> QED BY <2>2, <2>3 DEF One
<1>5. ASSUME Free(q), ForAction(job)
      PROVE  One(r)
  <2>1. Len(q) + 1 \in 1 .. Len(r) /\ ForAction(r[Len(q) + 1])
        BY <1>1, <1>5
  <2>2. \A k \in 1 .. Len(r) : k # Len(q) + 1 => ~ForAction(r[k])
        BY <1>1, <1>2, <1>5 DEF Free
  <2> QED BY <2>1, <2>2 DEF One
<1> QED BY <1>1, <1>3, <1>4, <1>5 DEF r

(* What the first task taken from the queue changes in it. *)
LEMMA TakeTask ==
  ASSUME NEW q \in Seq(Job), q # <<>>
  PROVE  /\ Head(q) \in Job /\ Tail(q) \in Seq(Job)
         /\ Free(q) => ~ForAction(Head(q)) /\ Free(Tail(q))
         /\ One(q) /\ ForAction(Head(q)) => Free(Tail(q))
         /\ One(q) /\ ~ForAction(Head(q)) => One(Tail(q))
<1> DEFINE r == Tail(q)
<1>1. /\ Head(q) \in Job /\ r \in Seq(Job)
      /\ Len(q) \in Nat /\ Len(q) > 0 /\ Len(r) = Len(q) - 1
      /\ \A i \in 1 .. Len(r) : r[i] = q[i + 1]
      BY HeadTailProperties, LenProperties, EmptySeq
<1>2. Head(q) = q[1]
      OBVIOUS
<1> HIDE DEF r
<1>3. \A i \in 1 .. Len(r) : i + 1 \in 1 .. Len(q) /\ i + 1 # 1
      BY <1>1
<1>4. Free(q) => ~ForAction(Head(q)) /\ Free(r)
  <2>1. 1 \in 1 .. Len(q)
        BY <1>1
  <2> QED BY <1>1, <1>2, <1>3, <2>1 DEF Free
<1>5. ASSUME One(q)
      PROVE  IF ForAction(Head(q)) THEN Free(r) ELSE One(r)
  <2>1. PICK i \in 1 .. Len(q) :
          /\ ForAction(q[i])
          /\ \A k \in 1 .. Len(q) : k # i => ~ForAction(q[k])
        BY <1>5 DEF One
  <2>2. 1 \in 1 .. Len(q)
        BY <1>1
  <2>3. CASE ForAction(Head(q))
    <3>1. i = 1
          BY <1>2, <2>1, <2>2, <2>3
    <3> QED BY <1>1, <1>3, <2>1, <2>3, <3>1 DEF Free
  <2>4. CASE ~ForAction(Head(q))
    <3>1. i # 1
          BY <1>2, <2>1, <2>4
    <3>2. i - 1 \in 1 .. Len(r) /\ r[i - 1] = q[i]
          BY <1>1, <3>1
    <3>3. \A k \in 1 .. Len(r) : k # i - 1 => ~ForAction(r[k])
          BY <1>1, <1>3, <2>1
    <3> QED BY <2>1, <2>4, <3>2, <3>3 DEF One
  <2> QED BY <2>3, <2>4
<1> QED BY <1>1, <1>4, <1>5 DEF r

(* With nothing queued there is nothing to account for. *)
LEMMA EmptyFree == Free(<<>>) /\ <<>> \in Seq(Job)
BY DEF Free

(* The tasks that the handlers queue. *)
LEMMA JobType ==
  /\ \A p \in Powers : LET j == [kind |-> "power", power |-> p]
                       IN  j \in Job /\ ~ForAction(j)
  /\ \A d \in Delays : LET j == [kind |-> "delay", delay |-> d]
                       IN  j \in Job /\ ~ForAction(j)
  /\ \A d \in Durations \cup {None} :
       LET j == [kind |-> "duration", duration |-> d]
       IN  j \in Job /\ ~ForAction(j)
  /\ \A p \in Profiles : LET j == [kind |-> "profile", profile |-> p]
                         IN  j \in Job /\ ~ForAction(j)
  /\ \A k \in {"equivalent", "loss", "approve", "pv"} :
       LET j == [kind |-> k]
       IN  j \in Job /\ (ForAction(j) <=> k \in StartKinds)
  /\ \A n \in Nat, b \in BOOLEAN :
       LET j == [kind |-> "stop", trev |-> n, button |-> b]
       IN  j \in Job /\ (ForAction(j) <=> b)
  /\ \A m, n \in Nat : LET j == [kind |-> "expire", rev |-> m, sched |-> n]
                       IN  j \in Job /\ ~ForAction(j)
BY DEF Job, ForAction, StartKinds

-----------------------------------------------------------------------------
(* The effects shared by the handlers keep the types. *)

(* A document in memory can always be invalidated. *)
LEMMA InvalidateType ==
  ASSUME TypeOK
  PROVE  /\ \A v \in Doc : Invalidate(v) =>
              epoch' \in Nat /\ epoch' > epoch /\ timer' \in SUBSET Nat
         /\ \A v \in Doc : ReleaseChanged(v) =>
              /\ epoch' \in Nat /\ epoch' > epoch /\ timer' \in SUBSET Nat
              /\ generation' \in Nat
         /\ \A v \in Doc : \A tried : Deadlines(v, tried) \in SUBSET Nat
<1>1. now \in Nat /\ epoch \in Nat /\ generation \in Nat
      BY DEF TypeOK
<1>2. epoch + 1 \in Nat /\ epoch + 1 > epoch /\ generation + 1 \in Nat
      BY <1>1
<1> QED BY <1>1, <1>2, DeadlinesType DEF Invalidate, ReleaseChanged

(* A Stop switches off in memory and queues one save. *)
LEMMA StopType ==
  ASSUME TypeOK, NEW q \in Seq(Job), NEW b \in BOOLEAN, StopRelease(q, b)
  PROVE  /\ values' = Off(values) /\ values' \in Doc
         /\ queue' \in Seq(Job)
         /\ Free(q) => IF b THEN One(queue') ELSE Free(queue')
         /\ One(q) /\ ~b => One(queue')
         /\ epoch' \in Nat /\ epoch' > epoch
         /\ timer' \in SUBSET Nat /\ generation' \in Nat
         /\ revoked' = TRUE
<1> DEFINE j == [kind |-> "stop", trev |-> values.trev, button |-> b]
<1>1. values \in Doc /\ Off(values) \in Doc /\ values.trev \in Nat
      BY OffType, RevisionType DEF TypeOK
<1>2. j \in Job /\ (ForAction(j) <=> b)
      BY <1>1, JobType
<1>3. values' = Off(values) /\ ReleaseChanged(Off(values))
        /\ queue' = Append(q, j) /\ revoked' = TRUE
      BY DEF StopRelease
<1> HIDE DEF j
<1> QED BY <1>1, <1>2, <1>3, AppendTask, InvalidateType

(* A failed approval hands the action back, or goes on as its Stop. *)
LEMMA FailedType ==
  ASSUME TypeOK, NEW q \in Seq(Job), Free(q), Waiting, ApprovalFailed(q)
  PROVE  /\ values' \in Doc /\ queue' \in Seq(Job) /\ act' \in Act \cup {None}
         /\ Free(queue') \/ (Waiting' /\ One(queue'))
         /\ epoch' \in Nat /\ timer' \in SUBSET Nat /\ generation' \in Nat
         /\ revoked' \in BOOLEAN
<1>1. /\ values \in Doc /\ epoch \in Nat /\ generation \in Nat
      /\ act \in Act /\ act.stage = "lock" /\ revoked \in BOOLEAN
      BY DEF TypeOK, Waiting
<1>2. CASE /\ ReleaseChanged(values) /\ act' = None /\ queue' = q
           /\ UNCHANGED <<values, revoked>>
      BY <1>1, <1>2, InvalidateType
<1>3. CASE /\ StopRelease(q, TRUE)
           /\ act' = [act EXCEPT !.kind = "stop"]
  <2>1. act' \in Act /\ act'.stage = "lock" /\ act' # None
        BY <1>1, <1>3, NoneAssumption DEF Act
  <2> QED BY <1>3, <2>1, StopType DEF Waiting
<1>4. CASE /\ timer' = Deadlines(values, attempted) /\ act' = None
           /\ queue' = q
           /\ UNCHANGED <<values, generation, epoch, revoked>>
      BY <1>1, <1>4, InvalidateType
<1> QED BY <1>2, <1>3, <1>4 DEF ApprovalFailed

-----------------------------------------------------------------------------
(* Every step keeps the types and the account. *)

(* The context of a click is well typed. *)
LEMMA ContextType ==
  ASSUME TypeOK
  PROVE  ActionRevision \in Ctx
BY DEF TypeOK, ActionRevision, Ctx, Doc, Approved

(* Users that ask for the lock leave everything but the queue alone. *)
LEMMA AskStep ==
  ASSUME IndType, NEW job \in Job, ~ForAction(job), Ask(job), ops' \in Nat
  PROVE  IndType'
<1>1. TypeOK'
      BY AppendTask DEF IndType, TypeOK, Ask, docVars, fenceVars, timeVars,
                        history
<1>2. OneTask'
      BY AppendTask DEF IndType, TypeOK, OneTask, Ask, HolderFree, Waiting
<1> QED BY <1>1, <1>2 DEF IndType

(* A dashboard's click is only remembered. *)
LEMMA SendStep ==
  ASSUME IndType, NEW c \in Cards, NEW kind \in {"start", "apply", "stop"},
         Send(c, kind)
  PROVE  IndType'
<1>1. [kind |-> kind, ctx |-> ActionRevision] \in Click
      BY ContextType DEF Click, IndType
<1>2. ops' \in Nat
      BY DEF Send, Spend, IndType, TypeOK
<1>3. TypeOK'
      BY <1>1, <1>2 DEF Send, IndType, TypeOK, docVars, lockVars, fenceVars,
                        timeVars, history
<1>4. OneTask'
      BY DEF Send, IndType, OneTask, HolderFree, Waiting, lockVars
<1> QED BY <1>3, <1>4 DEF IndType

(* A profile change queues its save, and may end the release first. *)
LEMMA SetProfileStep ==
  ASSUME IndType, NEW p \in Profiles, SetProfile(p)
  PROVE  IndType'
<1> DEFINE j == [kind |-> "profile", profile |-> p]
           off == [values EXCEPT !.release = FALSE]
<1>1. j \in Job /\ ~ForAction(j) /\ off \in Doc
      BY JobType DEF Doc, IndType, TypeOK
<1>2. queue' = Append(queue, j) /\ ops' \in Nat
      BY DEF SetProfile, Enabled, Spend, IndType, TypeOK
<1>3. \/ values' = off /\ ReleaseChanged(off) /\ revoked' = TRUE
      \/ UNCHANGED <<values, generation, epoch, timer, revoked>>
      BY DEF SetProfile
<1>4. UNCHANGED <<disk, storageError, holder, click, act, context, remote,
                  attempted, now, granted>>
      BY DEF SetProfile
<1> HIDE DEF j, off
<1>5. /\ values' \in Doc /\ epoch' \in Nat /\ timer' \in SUBSET Nat
      /\ generation' \in Nat /\ revoked' \in BOOLEAN
      BY <1>1, <1>3, InvalidateType DEF IndType, TypeOK
<1>6. TypeOK'
      BY <1>1, <1>2, <1>4, <1>5, AppendTask DEF IndType, TypeOK
<1>7. OneTask'
      BY <1>1, <1>2, <1>4, AppendTask
      DEF IndType, TypeOK, OneTask, HolderFree, Waiting
<1> QED BY <1>6, <1>7 DEF IndType

(* An explicit Stop queues its own save beside the action's. *)
LEMMA StopStep ==
  ASSUME IndType, NEW c \in Cards, Stop(c)
  PROVE  IndType'
<1>1. /\ click' = [click EXCEPT ![c] = None]
      /\ UNCHANGED <<disk, storageError, holder, act, context, remote,
                     attempted, now, ops, granted>>
      BY DEF Stop
<1>2. CASE UNCHANGED <<values, queue, generation, epoch, timer, revoked>>
      BY <1>1, <1>2 DEF IndType, TypeOK, OneTask, HolderFree, Waiting
<1>3. CASE StopRelease(queue, FALSE)
  <2>1. queue \in Seq(Job)
        BY DEF IndType, TypeOK
  <2>2. /\ values' \in Doc /\ queue' \in Seq(Job) /\ epoch' \in Nat
        /\ timer' \in SUBSET Nat /\ generation' \in Nat /\ revoked' \in BOOLEAN
        /\ Free(queue) => Free(queue')
        /\ One(queue) => One(queue')
        BY <1>3, <2>1, StopType DEF IndType
  <2>3. TypeOK'
        BY <1>1, <2>2 DEF IndType, TypeOK
  <2>4. OneTask'
        BY <1>1, <2>2 DEF IndType, OneTask, HolderFree, Waiting
  <2> QED BY <2>3, <2>4 DEF IndType
<1>4. CASE /\ generation' = generation + 1 /\ epoch' = epoch + 1
           /\ timer' = {} /\ revoked' = TRUE
           /\ UNCHANGED <<values, queue>>
  <2>1. TypeOK'
        BY <1>1, <1>4 DEF IndType, TypeOK
  <2>2. OneTask'
        BY <1>1, <1>4 DEF IndType, OneTask, HolderFree, Waiting
  <2> QED BY <2>1, <2>2 DEF IndType
<1> QED BY <1>2, <1>3, <1>4 DEF Stop

(* Whoever takes action_lock puts the one task of the action in the queue. *)
LEMMA BeginStep ==
  ASSUME IndType, act = None, NEW by \in Cards \cup {"button"},
         NEW kind \in {"start", "apply", "stop"}, NEW ctx \in Ctx,
         Begin(by, kind, ctx)
  PROVE  /\ values' \in Doc /\ queue' \in Seq(Job) /\ act' \in Act
         /\ One(queue') /\ HolderFree /\ Waiting'
         /\ epoch' \in Nat /\ timer' \in SUBSET Nat /\ generation' \in Nat
         /\ revoked' \in BOOLEAN
<1>1. /\ values \in Doc /\ queue \in Seq(Job) /\ epoch \in Nat
      /\ timer \in SUBSET Nat /\ generation \in Nat /\ revoked \in BOOLEAN
      /\ TypeOK
      BY DEF IndType, TypeOK
<1>2. Free(queue) /\ HolderFree
      BY DEF IndType, OneTask, Waiting
<1>3. act' \in Act /\ act' # None /\ act'.stage = "lock"
  <2>1. values.request \in Request \cup {None}
        BY <1>1 DEF Doc
  <2>2. act' = [by |-> by, kind |-> kind, ctx |-> ctx,
                previous |-> values.request, stage |-> "lock"]
        BY DEF Begin
  <2>3. act' \in Act
        BY <2>1, <2>2 DEF Act
  <2> QED BY <2>2, <2>3, NoneAssumption
<1>4. CASE StopRelease(queue, TRUE)
      BY <1>1, <1>2, <1>3, <1>4, StopType DEF Waiting
<1>5. CASE /\ Invalidate(values)
           /\ queue' = Append(queue, [kind |-> "approve"])
           /\ UNCHANGED <<values, generation, revoked>>
  <2> DEFINE j == [kind |-> "approve"]
  <2>1. j \in Job /\ ForAction(j)
        BY JobType DEF StartKinds
  <2> HIDE DEF j
  <2>2. queue' = Append(queue, j)
        BY <1>5 DEF j
  <2> QED BY <1>1, <1>2, <1>3, <1>5, <2>1, <2>2, AppendTask, InvalidateType
          DEF Waiting
<1>6. CASE /\ queue' = Append(queue, [kind |-> "pv"])
           /\ UNCHANGED <<values, generation, epoch, timer, revoked>>
  <2> DEFINE j == [kind |-> "pv"]
  <2>1. j \in Job /\ ForAction(j)
        BY JobType DEF StartKinds
  <2> HIDE DEF j
  <2>2. queue' = Append(queue, j)
        BY <1>6 DEF j
  <2> QED BY <1>1, <1>2, <1>3, <1>6, <2>1, <2>2, AppendTask DEF Waiting
<1> QED BY <1>4, <1>5, <1>6 DEF Begin

(* An explicit Start or Apply begins, or is refused and forgotten. *)
LEMMA StartOrApplyStep ==
  ASSUME IndType, NEW c \in Cards, StartOrApply(c)
  PROVE  IndType'
<1>1. /\ click' = [click EXCEPT ![c] = None] /\ act = None
      /\ UNCHANGED <<disk, storageError, holder, context, remote, attempted,
                     now, ops, granted>>
      BY DEF StartOrApply
<1>2. click[c] \in Click
      BY DEF StartOrApply, IndType, TypeOK
<1>3. click[c].kind \in {"start", "apply", "stop"} /\ click[c].ctx \in Ctx
      BY <1>2 DEF Click
<1>4. CASE UNCHANGED <<act, values, queue, generation, epoch, timer, revoked>>
  <2>1. TypeOK'
        BY <1>1, <1>4 DEF IndType, TypeOK
  <2>2. OneTask'
        BY <1>1, <1>4 DEF IndType, OneTask, HolderFree, Waiting
  <2> QED BY <2>1, <2>2 DEF IndType
<1>5. CASE Begin(c, click[c].kind, click[c].ctx)
  <2>1. /\ values' \in Doc /\ queue' \in Seq(Job) /\ act' \in Act
        /\ One(queue') /\ HolderFree /\ Waiting'
        /\ epoch' \in Nat /\ timer' \in SUBSET Nat /\ generation' \in Nat
        /\ revoked' \in BOOLEAN
        BY <1>1, <1>3, <1>5, BeginStep
  <2>2. TypeOK'
        BY <1>1, <2>1 DEF IndType, TypeOK
  <2>3. OneTask'
        BY <1>1, <2>1 DEF OneTask, HolderFree
  <2> QED BY <2>2, <2>3 DEF IndType
<1> QED BY <1>4, <1>5 DEF StartOrApply

(* The generic button begins what is possible now. *)
LEMMA PressStep ==
  ASSUME IndType, Press
  PROVE  IndType'
<1>1. /\ act = None /\ ops' \in Nat
      /\ UNCHANGED <<disk, storageError, holder, click, context, remote,
                     attempted, now, granted>>
      BY DEF Press, Enabled, Spend, IndType, TypeOK
<1>2. PICK kind \in {"start", "apply", "stop"} :
        Begin("button", kind, ActionRevision)
      BY DEF Press, CurrentAction
<1>3. ActionRevision \in Ctx
      BY ContextType DEF IndType
<1>4. /\ values' \in Doc /\ queue' \in Seq(Job) /\ act' \in Act
      /\ One(queue') /\ HolderFree /\ Waiting'
      /\ epoch' \in Nat /\ timer' \in SUBSET Nat /\ generation' \in Nat
      /\ revoked' \in BOOLEAN
      BY <1>1, <1>2, <1>3, BeginStep
<1>5. TypeOK'
      BY <1>1, <1>4 DEF IndType, TypeOK
<1>6. OneTask'
      BY <1>1, <1>4 DEF OneTask, HolderFree
<1> QED BY <1>5, <1>6 DEF IndType

(* What the environment does to a running release. *)
LEMMA EnvironmentStep ==
  ASSUME IndType, Environment \/ Tick
  PROVE  IndType'
<1>1. CASE Observe \/ TakeControl
  <2>1. /\ ops' \in Nat /\ context' \in Nat /\ remote' \in BOOLEAN
        /\ epoch' \in Nat /\ timer' \in SUBSET Nat
        /\ UNCHANGED <<docVars, lockVars, click, act, generation, attempted,
                       now, history>>
    <3>1. epoch' \in Nat /\ timer' \in SUBSET Nat
          BY <1>1, InvalidateType DEF Observe, TakeControl, IndType, TypeOK
    <3>2. ops' \in Nat
          BY <1>1 DEF Observe, TakeControl, Enabled, Spend, IndType, TypeOK
    <3>4. context' \in Nat /\ remote' \in BOOLEAN
      <4>1. context \in Nat /\ context + 1 \in Nat /\ remote \in BOOLEAN
            BY DEF IndType, TypeOK
      <4>2. context' \in {context, context + 1} /\ remote' \in {remote, TRUE}
            BY <1>1 DEF Observe, TakeControl
      <4> QED BY <4>1, <4>2
    <3>3. UNCHANGED <<docVars, lockVars, click, act, generation, attempted, now,
                      history>>
          BY <1>1 DEF Observe, TakeControl
    <3> QED BY <3>1, <3>2, <3>3, <3>4
  <2>2. TypeOK'
        BY <2>1 DEF IndType, TypeOK, docVars, lockVars, history
  <2>3. OneTask'
        BY <2>1 DEF IndType, OneTask, HolderFree, Waiting, lockVars
  <2> QED BY <2>2, <2>3 DEF IndType
<1>2. CASE LoseAuthority
  <2>1. /\ ops' \in Nat /\ remote' = FALSE
        /\ UNCHANGED <<disk, storageError, holder, click, act, generation,
                       context, attempted, now, granted>>
        BY <1>2 DEF LoseAuthority, Enabled, Spend, IndType, TypeOK
  <2>2. /\ values' \in Doc /\ revoked' \in BOOLEAN /\ queue' \in Seq(Job)
        /\ Free(queue) => Free(queue')
        /\ One(queue) => One(queue')
    <3> DEFINE j == [kind |-> "loss"]
    <3>1. j \in Job /\ ~ForAction(j)
          BY JobType DEF StartKinds
    <3>2. \/ values' = Off(values) /\ queue' = Append(queue, j)
             /\ revoked' = TRUE
          \/ UNCHANGED <<values, queue, revoked>>
          BY <1>2 DEF LoseAuthority
    <3> HIDE DEF j
    <3> QED BY <3>1, <3>2, OffType, AppendTask DEF IndType, TypeOK
  <2>3. epoch' \in Nat /\ timer' \in SUBSET Nat
        BY <1>2, <2>2, InvalidateType DEF LoseAuthority, IndType
  <2>4. TypeOK'
        BY <2>1, <2>2, <2>3 DEF IndType, TypeOK
  <2>5. OneTask'
        BY <2>1, <2>2 DEF IndType, OneTask, HolderFree, Waiting
  <2> QED BY <2>4, <2>5 DEF IndType
<1>3. CASE ReevaluatePending
  <2>1. [kind |-> "equivalent"] \in Job /\ ~ForAction([kind |-> "equivalent"])
        BY JobType DEF StartKinds
  <2>2. ops' \in Nat /\ Ask([kind |-> "equivalent"])
        BY <1>3 DEF ReevaluatePending, Enabled, Spend, IndType, TypeOK
  <2> QED BY <2>1, <2>2, AskStep
<1>4. CASE Restart
  <2>1. disk' \in Doc
    <3>1. holder # None => holder.doc \in Doc
          BY DEF IndType, TypeOK, Holder
    <3> QED BY <1>4, <3>1 DEF Restart, IndType, TypeOK
  <2>2. /\ values' \in Doc /\ storageError' = FALSE /\ holder' = None
        /\ queue' = <<>> /\ act' = None /\ epoch' \in Nat /\ timer' = {}
        /\ generation' \in Nat /\ attempted' = None /\ remote' = FALSE
        /\ revoked' = TRUE /\ ops' \in Nat
        /\ UNCHANGED <<click, context, now, granted>>
        BY <1>4, <2>1, OffType DEF Restart, Enabled, Spend, IndType, TypeOK
  <2>3. TypeOK'
        BY <2>1, <2>2, EmptyFree DEF IndType, TypeOK
  <2>4. OneTask'
        BY <2>2, EmptyFree DEF OneTask, HolderFree
  <2> QED BY <2>3, <2>4 DEF IndType
<1>5. CASE Tick
  <2>1. TypeOK'
        BY <1>5 DEF Tick, IndType, TypeOK, docVars, lockVars, fenceVars, history
  <2>2. OneTask'
        BY <1>5 DEF Tick, IndType, OneTask, HolderFree, Waiting, lockVars
  <2> QED BY <2>1, <2>2 DEF IndType
<1> QED BY <1>1, <1>2, <1>3, <1>4, <1>5 DEF Environment

(* A deadline stops the run, asks for a rollback or arms the next one. *)
LEMMA FireStep ==
  ASSUME IndType, Fire
  PROVE  IndType'
<1>1. UNCHANGED <<disk, storageError, holder, click, act, context, remote, now,
                  ops, granted>>
      BY DEF Fire
<1>2. /\ values' \in Doc /\ queue' \in Seq(Job) /\ revoked' \in BOOLEAN
      /\ Free(queue) => Free(queue')
      /\ One(queue) => One(queue')
      /\ epoch' \in Nat /\ timer' \in SUBSET Nat /\ generation' \in Nat
      /\ attempted' \in Nat \cup {None}
  <2>1. /\ values \in Doc /\ queue \in Seq(Job) /\ revoked \in BOOLEAN
        /\ epoch \in Nat /\ generation \in Nat /\ TypeOK
        /\ attempted \in Nat \cup {None}
        BY DEF IndType, TypeOK
  <2>2. CASE StopRelease(queue, FALSE) /\ UNCHANGED attempted
        BY <2>1, <2>2, StopType
  <2>3. CASE /\ \E d \in EditDeadline(values, attempted) : d <= now
             /\ attempted' = values.edit.rev
             /\ timer' = Deadlines(values, values.edit.rev)
             /\ queue' = Append(queue, [kind |-> "expire",
                                        rev |-> values.edit.rev,
                                        sched |-> values.edit.sched])
             /\ UNCHANGED <<values, generation, epoch, revoked>>
    <3> DEFINE j == [kind |-> "expire", rev |-> values.edit.rev,
                     sched |-> values.edit.sched]
    <3>1. values.edit \in Edit
          BY <2>1, <2>3 DEF EditDeadline, Doc
    <3>2. values.edit.rev \in Nat /\ values.edit.sched \in Nat
          BY <3>1 DEF Edit
    <3>3. j \in Job /\ ~ForAction(j)
          BY <3>2, JobType
    <3>4. queue' = Append(queue, j)
          BY <2>3
    <3> HIDE DEF j
    <3> QED BY <2>1, <2>3, <3>2, <3>3, <3>4, AppendTask, InvalidateType
  <2>4. CASE /\ timer' = Deadlines(values, attempted)
             /\ UNCHANGED <<values, queue, generation, epoch, attempted, revoked>>
        BY <2>1, <2>4, InvalidateType
  <2> QED BY <2>2, <2>3, <2>4 DEF Fire
<1>3. TypeOK'
      BY <1>1, <1>2 DEF IndType, TypeOK
<1>4. OneTask'
      BY <1>1, <1>2 DEF IndType, OneTask, HolderFree, Waiting
<1> QED BY <1>3, <1>4 DEF IndType

(* What a task holds of the document while storage works. *)
LEMMA HoldType ==
  ASSUME TypeOK, NEW job \in Job, job = Head(queue), NEW d \in Doc, Hold(d)
  PROVE  /\ holder' \in Holder /\ holder' # None
         /\ holder'.job = job /\ holder'.doc = d /\ holder'.stage = "save"
         /\ holder'.epoch = epoch
<1>1. holder' = [job |-> job, doc |-> d, stage |-> "save", epoch |-> epoch,
                 prev |-> values.approved]
      BY DEF Hold
<1>2. epoch \in Nat /\ values.approved \in Approved
      BY DEF TypeOK, Doc
<1>3. holder' \in Holder
      BY <1>1, <1>2 DEF Holder
<1> QED BY <1>1, <1>3, NoneAssumption

(* A task that gets the lock holds it, or finds nothing to do. *)
LEMMA AcquireStep ==
  ASSUME IndType, Acquire
  PROVE  IndType'
<1> DEFINE job == Head(queue)
<1>1. /\ holder = None /\ queue # <<>> /\ queue' = Tail(queue)
      /\ job.kind \notin StartKinds
      /\ UNCHANGED <<docVars, click, act, fenceVars, attempted, now, ops,
                     history>>
      BY DEF Acquire, StartKinds
<1>2. /\ job \in Job /\ queue' \in Seq(Job)
      /\ Free(queue) => ~ForAction(job) /\ Free(queue')
      /\ One(queue) /\ ForAction(job) => Free(queue')
      /\ One(queue) /\ ~ForAction(job) => One(queue')
      BY <1>1, TakeTask DEF IndType, TypeOK
<1>3. /\ timer' \in SUBSET Nat /\ holder' \in Holder \cup {None}
      /\ holder' # None => holder'.job = job
      /\ holder' = None => ~ForAction(job)
  <2>1. PICK d \in Candidates(job) :
          IF d = None THEN /\ holder' = None
                           /\ IF job.kind = "expire"
                              THEN timer' = Deadlines(values, attempted)
                              ELSE UNCHANGED timer
                      ELSE Hold(d) /\ UNCHANGED timer
        BY DEF Acquire
  <2>2. timer' \in SUBSET Nat
    <3>1. timer' = timer \/ timer' = Deadlines(values, attempted)
          BY <2>1
    <3>2. timer \in SUBSET Nat /\ values \in Doc /\ TypeOK
          BY DEF IndType, TypeOK
    <3> QED BY <3>1, <3>2, InvalidateType
  <2>3. CASE d = None
    <3>1. job.kind # "stop"
      <4>1. job.kind = "stop" => d = [Off(values) EXCEPT !.trev = job.trev]
            BY DEF Candidates
      <4>2. Off(values) \in Doc
            BY OffType DEF IndType, TypeOK
      <4>3. job.kind = "stop" => d \in Doc
            BY <1>2, <4>1, <4>2 DEF Doc, Job
      <4> QED BY <2>3, <4>3, NoneAssumption
    <3> QED BY <1>1, <2>1, <2>2, <2>3, <3>1 DEF ForAction
  <2>4. CASE d # None
    <3>1. d \in Doc
          BY <1>2, <2>4, CandidatesType DEF IndType, TypeOK
    <3> QED BY <1>2, <2>1, <2>2, <2>4, <3>1, HoldType DEF IndType
  <2> QED BY <2>3, <2>4
<1>4. TypeOK'
      BY <1>1, <1>2, <1>3 DEF IndType, TypeOK, docVars, fenceVars, history
<1> HIDE DEF job
<1>5. OneTask'
      BY <1>1, <1>2, <1>3 DEF IndType, OneTask, HolderFree, Waiting
<1> QED BY <1>4, <1>5 DEF IndType

(* An approval that gets the lock is saved, found done already, or fails. *)
LEMMA AcquireApprovalStep ==
  ASSUME IndType, AcquireApproval
  PROVE  IndType'
<1> DEFINE job == Head(queue)
<1>1. /\ holder = None /\ queue # <<>> /\ job.kind = "approve"
      /\ UNCHANGED <<disk, storageError, click, context, remote, attempted, now,
                     ops, granted>>
      BY DEF AcquireApproval
<1>2. job \in Job /\ ForAction(job) /\ Waiting /\ Free(Tail(queue))
        /\ Tail(queue) \in Seq(Job)
      BY <1>1, TakeTask DEF IndType, TypeOK, OneTask, ForAction, StartKinds
<1>3. act \in Act /\ TypeOK /\ values \in Doc
      BY <1>2 DEF Waiting, IndType, TypeOK
<1>4. CASE /\ act' = [act EXCEPT !.stage = "task"]
           /\ Invalidate(values) /\ queue' = Tail(queue)
           /\ UNCHANGED <<holder, values, generation, revoked>>
  <2>1. act' \in Act
        BY <1>3, <1>4 DEF Act
  <2>2. epoch' \in Nat /\ timer' \in SUBSET Nat
        BY <1>3, <1>4, InvalidateType
  <2>3. TypeOK'
        BY <1>1, <1>2, <1>4, <2>1, <2>2 DEF IndType, TypeOK
  <2>4. OneTask'
        BY <1>1, <1>2, <1>4 DEF OneTask, HolderFree
  <2> QED BY <2>3, <2>4 DEF IndType
<1>5. CASE /\ Hold(Approval(act.kind = "start")) /\ queue' = Tail(queue)
           /\ UNCHANGED <<values, act, generation, epoch, timer, revoked>>
  <2> DEFINE d == Approval(act.kind = "start")
  <2>1. d \in Doc
        BY <1>3, ApprovalType DEF TypeOK
  <2> HIDE DEF d
  <2>2. /\ holder' \in Holder /\ holder' # None /\ holder'.job = job
        BY <1>2, <1>3, <1>5, <2>1, HoldType DEF d
  <2>3. TypeOK'
        BY <1>1, <1>2, <1>5, <2>2 DEF IndType, TypeOK
  <2> HIDE DEF job
  <2>4. OneTask'
        BY <1>1, <1>2, <1>5, <2>2 DEF OneTask, Waiting
  <2> QED BY <2>3, <2>4 DEF IndType
<1>6. CASE ApprovalFailed(Tail(queue)) /\ UNCHANGED holder
  <2>1. /\ values' \in Doc /\ queue' \in Seq(Job) /\ act' \in Act \cup {None}
        /\ Free(queue') \/ (Waiting' /\ One(queue'))
        /\ epoch' \in Nat /\ timer' \in SUBSET Nat /\ generation' \in Nat
        /\ revoked' \in BOOLEAN
        BY <1>2, <1>3, <1>6, FailedType
  <2>2. TypeOK'
        BY <1>1, <1>6, <2>1 DEF IndType, TypeOK
  <2>3. OneTask'
        BY <1>1, <1>6, <2>1 DEF OneTask, HolderFree
  <2> QED BY <2>2, <2>3 DEF IndType
<1> QED BY <1>4, <1>5, <1>6 DEF AcquireApproval

(* A PV Start that gets the lock is saved, or given up. *)
LEMMA AcquirePVStep ==
  ASSUME IndType, AcquirePV
  PROVE  IndType'
<1> DEFINE job == Head(queue)
           d == [values EXCEPT !.release = TRUE]
<1>1. /\ holder = None /\ queue # <<>> /\ job.kind = "pv"
      /\ queue' = Tail(queue)
      /\ UNCHANGED <<docVars, click, fenceVars, timeVars, ops, history>>
      BY DEF AcquirePV
<1>2. job \in Job /\ ForAction(job) /\ Waiting /\ Free(queue')
        /\ queue' \in Seq(Job)
      BY <1>1, TakeTask DEF IndType, TypeOK, OneTask, ForAction, StartKinds
<1>3. TypeOK /\ d \in Doc
      BY DEF IndType, TypeOK, Doc
<1>4. CASE Hold(d) /\ UNCHANGED act
  <2> HIDE DEF d
  <2>1. /\ holder' \in Holder /\ holder' # None /\ holder'.job = job
        BY <1>2, <1>3, <1>4, HoldType
  <2>2. TypeOK'
        BY <1>1, <1>2, <1>4, <2>1
        DEF IndType, TypeOK, docVars, fenceVars, timeVars, history
  <2> HIDE DEF job
  <2>3. OneTask'
        BY <1>1, <1>2, <1>4, <2>1 DEF OneTask, Waiting
  <2> QED BY <2>2, <2>3 DEF IndType
<1>5. CASE act' = None /\ UNCHANGED holder
  <2>1. TypeOK'
        BY <1>1, <1>2, <1>5
        DEF IndType, TypeOK, docVars, fenceVars, timeVars, history
  <2>2. OneTask'
        BY <1>1, <1>2, <1>5 DEF OneTask, HolderFree
  <2> QED BY <2>1, <2>2 DEF IndType
<1> QED BY <1>4, <1>5 DEF AcquirePV

(* Storage keeps a document, the new one or the one it had. *)
LEMMA StorageType ==
  ASSUME TypeOK, holder # None
  PROVE  /\ holder \in Holder /\ holder.job \in Job /\ holder.doc \in Doc
         /\ holder.prev \in Approved
         /\ Stored => disk' \in Doc /\ storageError' \in BOOLEAN
         /\ NotStored => /\ disk' \in Doc /\ storageError' \in BOOLEAN
                         /\ ops' \in Nat
<1>1. /\ holder \in Holder /\ holder.job \in Job /\ holder.doc \in Doc
      /\ holder.prev \in Approved
      BY DEF TypeOK, Holder
<1>2. Stored => disk' \in Doc /\ storageError' \in BOOLEAN
      BY <1>1 DEF Stored
<1>3. NotStored => disk' \in Doc /\ storageError' \in BOOLEAN
      BY <1>1 DEF NotStored, TypeOK
<1>4. NotStored => ops' \in Nat
      BY DEF NotStored, Enabled, Spend, TypeOK
<1> QED BY <1>1, <1>2, <1>3, <1>4

(* The end of a plain save, and of the Stop of the generic button with it. *)
LEMMA PlainStep ==
  ASSUME IndType, PlainStored \/ PlainNotStored
  PROVE  IndType'
<1>1. /\ TypeOK /\ holder # None /\ holder.job.kind \in PlainKinds
      /\ holder' = None /\ ButtonGoesOn
      /\ UNCHANGED <<queue, click, context, remote, attempted, now, history>>
      BY DEF PlainStored, PlainNotStored, Saving, IndType, fenceVars, timeVars
<1>2. holder.doc \in Doc
      BY <1>1, StorageType
<1>3. /\ epoch \in Nat /\ epoch + 1 \in Nat
      /\ generation \in Nat /\ generation + 1 \in Nat
      /\ timer \in SUBSET Nat /\ Deadlines(holder.doc, attempted) \in SUBSET Nat
      /\ ops \in Nat /\ values \in Doc
      BY <1>1, <1>2, InvalidateType DEF TypeOK
<1>4. /\ disk' \in Doc /\ storageError' \in BOOLEAN /\ ops' \in Nat
      /\ values' \in Doc
      BY <1>1, <1>2, <1>3, StorageType DEF PlainStored, PlainNotStored
<1>5. epoch' \in Nat /\ generation' \in Nat /\ timer' \in SUBSET Nat
  <2>1. /\ epoch' \in {epoch, epoch + 1}
        /\ generation' \in {generation, generation + 1}
        /\ timer' \in {timer, Deadlines(holder.doc, attempted)}
        BY DEF PlainStored, PlainNotStored, fenceVars, timeVars
  <2> QED BY <1>3, <2>1
<1>6. CASE ForAction(holder.job)
  <2>1. Waiting /\ Free(queue)
        BY <1>1, <1>6 DEF IndType, OneTask, HolderFree
  <2>2. act \in Act
        BY <1>1, <2>1 DEF Waiting, TypeOK
  <2>3. act' = [act EXCEPT !.stage = "task"]
        BY <1>1, <1>6 DEF ForAction, ButtonGoesOn, PlainKinds, StartKinds
  <2>4. act' \in Act
        BY <2>2, <2>3 DEF Act
  <2>5. TypeOK'
        BY <1>1, <1>4, <1>5, <2>4 DEF TypeOK, history
  <2>6. OneTask'
        BY <1>1, <2>1 DEF OneTask, HolderFree
  <2> QED BY <2>5, <2>6 DEF IndType
<1>7. CASE ~ForAction(holder.job)
  <2>1. act' = act
        BY <1>1, <1>7 DEF ForAction, ButtonGoesOn
  <2>2. TypeOK'
        BY <1>1, <1>4, <1>5, <2>1 DEF TypeOK, history
  <2>3. OneTask'
        BY <1>1, <1>7, <2>1 DEF IndType, OneTask, HolderFree, Waiting
  <2> QED BY <2>2, <2>3 DEF IndType
<1> QED BY <1>6, <1>7

(* The end of a rollback of time drafts, or of the write that takes the     *)
(* rollback of an ended run back.                                           *)
LEMMA ExpireStep ==
  ASSUME IndType, ExpireStored \/ ExpireUndone \/ ExpireNotStored
  PROVE  IndType'
<1>1. /\ TypeOK /\ holder # None /\ holder.job.kind = "expire"
      /\ UNCHANGED <<queue, click, act, context, remote, attempted, now, granted>>
      BY DEF ExpireStored, ExpireUndone, ExpireNotStored, Saving, IndType,
             fenceVars, history
<1>2. holder \in Holder /\ holder.doc \in Doc /\ holder.job \in Job
      BY <1>1, StorageType
<1>3. ~ForAction(holder.job)
      BY <1>1 DEF ForAction, StartKinds
<1>4. disk' \in Doc /\ storageError' \in BOOLEAN /\ ops' \in Nat
  <2>1. ops \in Nat
        BY <1>1 DEF TypeOK
  <2> QED BY <1>1, <2>1, StorageType
          DEF ExpireStored, ExpireUndone, ExpireNotStored
<1>5. /\ values' \in Doc /\ epoch' \in Nat /\ generation' \in Nat
      /\ timer' \in SUBSET Nat /\ revoked' \in BOOLEAN
      /\ holder' \in Holder \cup {None}
      /\ holder' # None => holder'.job = holder.job
  <2>1. /\ values \in Doc /\ epoch \in Nat /\ generation \in Nat
        /\ revoked \in BOOLEAN /\ Off(values) \in Doc
        BY <1>1, OffType DEF TypeOK
  <2>2. CASE /\ values' = Off(values) /\ ReleaseChanged(Off(values))
             /\ holder' = [holder EXCEPT !.stage = "undo", !.doc = Off(values)]
             /\ revoked' = TRUE
    <3>1. holder' \in Holder /\ holder'.job = holder.job
          BY <1>2, <2>1, <2>2 DEF Holder
    <3> QED BY <1>1, <2>1, <2>2, <3>1, InvalidateType
  <2>3. CASE /\ values' \in {values, holder.doc} /\ holder' = None
             /\ \/ timer' = Deadlines(holder.doc, attempted)
                \/ timer' = Deadlines(values, attempted)
             /\ UNCHANGED <<generation, epoch, revoked>>
        BY <1>1, <1>2, <2>1, <2>3, InvalidateType
  <2> QED BY <2>2, <2>3 DEF ExpireStored, ExpireUndone, ExpireNotStored,
                            fenceVars, history
<1>6. TypeOK'
      BY <1>1, <1>4, <1>5 DEF TypeOK
<1>7. OneTask'
      BY <1>1, <1>3, <1>5 DEF IndType, OneTask, HolderFree, Waiting
<1> QED BY <1>6, <1>7 DEF IndType

(* While a Start or Apply is saved, its action waits and nothing else does. *)
LEMMA StartSaving ==
  ASSUME IndType, holder # None, holder.job.kind \in StartKinds
  PROVE  /\ TypeOK /\ holder \in Holder /\ holder.doc \in Doc
         /\ holder.prev \in Approved
         /\ act \in Act /\ Waiting /\ Free(queue) /\ ForAction(holder.job)
<1>1. TypeOK /\ ForAction(holder.job)
      BY DEF IndType, ForAction
<1>2. Waiting /\ Free(queue)
      BY <1>1 DEF IndType, OneTask, HolderFree
<1>3. act \in Act
      BY <1>1, <1>2 DEF TypeOK, Waiting
<1> QED BY <1>1, <1>2, <1>3, StorageType

(* A Start or Apply is durable, and current. *)
LEMMA GrantStep ==
  ASSUME IndType, ApprovalStored \/ PVStored
  PROVE  IndType'
<1>1. /\ holder # None /\ holder.job.kind \in StartKinds
      /\ Stored /\ values' = holder.doc /\ holder' = None
      /\ UNCHANGED <<queue, click, context, remote, attempted, now, ops>>
      BY DEF ApprovalStored, PVStored, Saving, StartKinds
<1>2. /\ TypeOK /\ holder.doc \in Doc /\ act \in Act /\ Free(queue)
      BY <1>1, StartSaving
<1>3. disk' \in Doc /\ storageError' \in BOOLEAN
      BY <1>1, <1>2, StorageType
<1>4. epoch' \in Nat /\ timer' \in SUBSET Nat /\ generation' \in Nat
  <2>1. generation \in Nat
        BY <1>2 DEF TypeOK
  <2> QED BY <1>2, <2>1, InvalidateType DEF ApprovalStored, PVStored
<1>5. act' \in Act \cup {None}
      BY <1>2 DEF ApprovalStored, PVStored, Act
<1>6. granted' \in Profiles \cup {None} /\ revoked' \in BOOLEAN
  <2>1. act.ctx.profile \in Profiles
        BY <1>2 DEF Act, Ctx
  <2>2. granted \in Profiles \cup {None} /\ revoked \in BOOLEAN
        BY <1>2 DEF TypeOK
  <2> QED BY <2>1, <2>2 DEF ApprovalStored, PVStored, history
<1>7. TypeOK'
      BY <1>1, <1>2, <1>3, <1>4, <1>5, <1>6 DEF TypeOK
<1>8. OneTask'
      BY <1>1, <1>2 DEF OneTask, HolderFree
<1> QED BY <1>7, <1>8 DEF IndType

(* A superseded Start is taken back in memory, and then in the store. *)
LEMMA SupersededStep ==
  ASSUME IndType, Superseded \/ SupersededUndone
  PROVE  IndType'
<1>1. /\ holder # None /\ holder.job.kind \in StartKinds /\ Stored
      /\ UNCHANGED <<queue, click, context, remote, attempted, now, ops, history>>
      BY DEF Superseded, SupersededUndone, Saving, fenceVars, timeVars
<1>2. /\ TypeOK /\ holder \in Holder /\ holder.doc \in Doc /\ act \in Act
      /\ Waiting /\ Free(queue) /\ ForAction(holder.job)
      /\ holder.prev \in Approved
      BY <1>1, StartSaving
<1>3. disk' \in Doc /\ storageError' \in BOOLEAN
      BY <1>1, <1>2, StorageType
<1>4. CASE Superseded
  <2> DEFINE off == [holder.doc EXCEPT !.release = FALSE]
             undo == IF holder.job.kind = "pv" THEN off
                     ELSE [Off(holder.doc) EXCEPT !.approved = holder.prev]
  <2>1. off \in Doc
        BY <1>2 DEF Doc
  <2>2. Off(holder.doc) \in Doc
        BY <1>2, OffType
  <2>3. undo \in Doc
        BY <1>2, <2>1, <2>2 DEF Doc
  <2>4. /\ values' = off
        /\ holder' = [holder EXCEPT !.stage = "undo", !.doc = undo]
        /\ UNCHANGED <<act, epoch, generation, timer>>
        BY <1>4 DEF Superseded, fenceVars, timeVars
  <2> HIDE DEF off, undo
  <2>5. holder' \in Holder /\ holder'.job = holder.job
        BY <1>2, <2>3, <2>4 DEF Holder
  <2>6. TypeOK'
        BY <1>1, <1>2, <1>3, <2>1, <2>4, <2>5 DEF TypeOK, history
  <2>7. OneTask'
        BY <1>1, <1>2, <2>4, <2>5, NoneAssumption DEF OneTask, Waiting
  <2> QED BY <2>6, <2>7 DEF IndType
<1>5. CASE SupersededUndone
  <2>1. /\ values' = holder.doc /\ holder' = None /\ act' = None
        /\ ReleaseChanged(holder.doc)
        BY <1>5 DEF SupersededUndone
  <2>2. epoch' \in Nat /\ timer' \in SUBSET Nat /\ generation' \in Nat
        BY <1>2, <2>1, InvalidateType
  <2>3. TypeOK'
        BY <1>1, <1>2, <1>3, <2>1, <2>2 DEF TypeOK, history
  <2>4. OneTask'
        BY <1>1, <1>2, <2>1 DEF OneTask, HolderFree
  <2> QED BY <2>3, <2>4 DEF IndType
<1> QED BY <1>4, <1>5

(* A Start or Apply that cannot be stored ends its action. *)
LEMMA StartFailsStep ==
  ASSUME IndType, ApprovalNotStored \/ PVNotStored
  PROVE  IndType'
<1>1. /\ holder # None /\ holder.job.kind \in StartKinds
      /\ NotStored /\ holder' = None
      /\ UNCHANGED <<click, context, remote, attempted, now, granted>>
      BY DEF ApprovalNotStored, PVNotStored, Saving, StartKinds, fenceVars,
             timeVars, history
<1>2. /\ TypeOK /\ Waiting /\ Free(queue) /\ queue \in Seq(Job)
      BY <1>1, StartSaving DEF TypeOK
<1>3. disk' \in Doc /\ storageError' \in BOOLEAN /\ ops' \in Nat
      BY <1>1, <1>2, StorageType
<1>4. CASE ApprovalFailed(queue)
  <2>1. /\ values' \in Doc /\ queue' \in Seq(Job) /\ act' \in Act \cup {None}
        /\ Free(queue') \/ (Waiting' /\ One(queue'))
        /\ epoch' \in Nat /\ timer' \in SUBSET Nat /\ generation' \in Nat
        /\ revoked' \in BOOLEAN
        BY <1>2, <1>4, FailedType
  <2>2. TypeOK'
        BY <1>1, <1>2, <1>3, <2>1 DEF TypeOK
  <2>3. OneTask'
        BY <1>1, <2>1 DEF OneTask, HolderFree
  <2> QED BY <2>2, <2>3 DEF IndType
<1>5. CASE PVNotStored
  <2>1. /\ act' = None
        /\ UNCHANGED <<values, queue, click, fenceVars, timeVars, history>>
        BY <1>5 DEF PVNotStored
  <2>2. TypeOK'
        BY <1>1, <1>2, <1>3, <2>1 DEF TypeOK, fenceVars, timeVars, history
  <2>3. OneTask'
        BY <1>1, <1>2, <2>1 DEF OneTask, HolderFree
  <2> QED BY <2>2, <2>3 DEF IndType
<1> QED BY <1>4, <1>5 DEF ApprovalNotStored, PVNotStored

(* The dispatch task of an action has no task of its own left. *)
LEMMA TaskEndsStep ==
  ASSUME IndType, TaskEnds
  PROVE  IndType'
<1>1. /\ ~Waiting /\ act' = None
      /\ UNCHANGED <<docVars, lockVars, click, fenceVars, timeVars, ops, history>>
      BY DEF TaskEnds, Waiting
<1>2. TypeOK'
      BY <1>1 DEF IndType, TypeOK, docVars, lockVars, fenceVars, timeVars,
                  history
<1>3. OneTask'
      BY <1>1 DEF IndType, OneTask, HolderFree, lockVars
<1> QED BY <1>2, <1>3 DEF IndType

(* The tasks users queue directly. *)
LEMMA SettingStep ==
  ASSUME IndType,
         \/ \E p \in Powers : SetPower(p)
         \/ \E d \in Delays : SetDelay(d)
         \/ \E d \in Durations \cup {None} : SetDuration(d)
  PROVE  IndType'
<1>1. PICK job \in Job : ~ForAction(job) /\ Ask(job) /\ ops' \in Nat
  <2>1. Spend => ops' \in Nat
        BY DEF Spend, IndType, TypeOK
  <2> QED BY <2>1, JobType DEF SetPower, SetDelay, SetDuration, Enabled
<1> QED BY <1>1, AskStep

-----------------------------------------------------------------------------
(* The state is well typed, and one task at a time works for the action.   *)

(* The loaded document satisfies the type invariant, and no task works yet. *)
LEMMA IndTypeInit == Init => IndType
<1> SUFFICES ASSUME Init
             PROVE  IndType
    OBVIOUS
<1>1. values \in Doc
      BY DEF Init, Doc, Approved
<1>2. TypeOK
      BY <1>1, EmptyFree DEF Init, TypeOK
<1>3. OneTask
      BY EmptyFree DEF Init, OneTask, HolderFree
<1> QED BY <1>2, <1>3 DEF IndType

(* Every handler, user, fault and storage answer keeps the type invariant. *)
LEMMA IndTypeNext == IndType /\ [Next]_vars => IndType'
<1> SUFFICES ASSUME IndType, [Next]_vars
             PROVE  IndType'
    OBVIOUS
<1>1. CASE Users
      BY <1>1, SendStep, PressStep, SettingStep, SetProfileStep DEF Users
<1>2. CASE Environment \/ Tick
      BY <1>2, EnvironmentStep
<1>3. CASE Handlers
      BY <1>3, StopStep, StartOrApplyStep, AcquireStep, AcquireApprovalStep,
         AcquirePVStep, FireStep, TaskEndsStep DEF Handlers
<1>4. CASE StoreAnswers
      BY <1>4, PlainStep, ExpireStep, GrantStep, SupersededStep, StartFailsStep
      DEF StoreAnswers
<1>5. CASE UNCHANGED vars
      BY <1>5 DEF IndType, TypeOK, OneTask, HolderFree, Waiting, vars, docVars,
                  lockVars, fenceVars, timeVars, history
<1> QED BY <1>1, <1>2, <1>3, <1>4, <1>5 DEF Next

(* Every reachable state is well typed, for all values of the constants:   *)
(* in particular the handlers that continue an action (approval stored, not *)
(* stored, superseded) find that action still there.                        *)
THEOREM TypeCorrect == Spec => []TypeOK
<1>1. IndType => TypeOK
      BY DEF IndType
<1> QED BY <1>1, IndTypeInit, IndTypeNext, PTL DEF Spec

-----------------------------------------------------------------------------
(* Explicit actions: where every release on its way comes from. *)

(* No action comes from the generic button. *)
Explicit == act # None => act.by # "button"

(* Only a profile change saves another profile than the selected one. *)
HeldProfile ==
  holder # None /\ holder.job.kind # "profile"
    => holder.doc.profile = values.profile

(* A save that keeps a release on keeps one that was granted; only a Start  *)
(* turns one on, and only before it is taken back.                          *)
HeldRelease ==
  holder # None /\ holder.doc.release =>
    /\ holder.stage = "save" /\ holder.job.kind # "profile"
    /\ granted = holder.doc.profile
       \/ holder.job.kind = "pv"
       \/ (holder.job.kind = "approve" /\ act.kind = "start")

(* The save of a Start or Apply was validated for the profile it is for, and *)
(* its epoch is overtaken as soon as the context of its click is.           *)
HeldContext ==
  holder # None =>
    /\ holder.epoch <= epoch
    /\ holder.job.kind \in StartKinds /\ holder.stage = "save"
         => /\ act.ctx.profile = holder.doc.profile
            /\ holder.epoch = epoch => act.ctx = ActionRevision

IndGrant ==
  IndType /\ Explicit /\ HeldProfile /\ HeldRelease /\ HeldContext /\ GrantedProfile

(* A step that saves nothing disturbs none of this if it overtakes what is  *)
(* being saved whenever it changes the context.                             *)
LEMMA QuietStep ==
  ASSUME IndGrant, IndType', Explicit',
         UNCHANGED <<holder, granted>>,
         values'.profile = values.profile,
         values'.release => values.release,
         holder # None /\ holder.job.kind \in StartKinds => act' = act,
         epoch' > epoch \/ (epoch' = epoch /\ ActionRevision' = ActionRevision)
  PROVE  IndGrant'
<1>1. holder # None => holder.epoch \in Nat
      BY DEF IndGrant, IndType, TypeOK, Holder
<1>2. epoch \in Nat /\ epoch' \in Nat
      BY DEF IndGrant, IndType, TypeOK
<1>3. GrantedProfile' /\ HeldProfile'
      BY DEF IndGrant, GrantedProfile, HeldProfile
<1>4. HeldRelease'
      BY DEF IndGrant, HeldRelease, StartKinds
<1>5. HeldContext'
  <2>1. holder' # None => holder'.epoch <= epoch'
        BY <1>1, <1>2 DEF IndGrant, HeldContext
  <2>2. ASSUME holder' # None, holder'.job.kind \in StartKinds,
               holder'.stage = "save"
        PROVE  /\ act'.ctx.profile = holder'.doc.profile
               /\ holder'.epoch = epoch' => act'.ctx = ActionRevision'
    <3>1. act' = act /\ act.ctx.profile = holder.doc.profile
          BY <2>2 DEF IndGrant, HeldContext
    <3>2. holder.epoch = epoch' => epoch' = epoch
          BY <1>1, <1>2, <2>2 DEF IndGrant, HeldContext
    <3> QED BY <2>2, <1>2, <3>1, <3>2 DEF IndGrant, HeldContext
  <2> QED BY <2>1, <2>2 DEF HeldContext
<1> QED BY <1>3, <1>4, <1>5 DEF IndGrant

(* A step that frees the lock only has to leave a granted release behind. *)
LEMMA FreeStep ==
  ASSUME IndGrant, IndType', Explicit', GrantedProfile', holder' = None
  PROVE  IndGrant'
BY DEF IndGrant, HeldProfile, HeldRelease, HeldContext

(* Taking back keeps the profile and has nothing to release. *)
LEMMA UndoStep ==
  ASSUME IndGrant, IndType', holder # None, NEW d \in Doc, ~d.release,
         holder'.stage = "undo", holder'.doc = d, holder'.job = holder.job,
         holder'.epoch = holder.epoch,
         d.profile = values'.profile, ~values'.release, UNCHANGED act,
         epoch' >= epoch
  PROVE  IndGrant'
<1>1. /\ holder \in Holder /\ holder.epoch \in Nat /\ epoch \in Nat
      /\ epoch' \in Nat
      BY DEF IndGrant, IndType, TypeOK, Holder
<1>2. holder.epoch <= epoch'
      BY <1>1 DEF IndGrant, HeldContext
<1> QED BY <1>2 DEF IndGrant, Explicit, HeldProfile, HeldRelease,
                          HeldContext, GrantedProfile

(* Whatever Stop, or a failed approval, does to the release in memory. *)
LEMMA RevokedQuiet ==
  ASSUME IndGrant
  PROVE  /\ \A q \in Seq(Job), b \in BOOLEAN : StopRelease(q, b) =>
              /\ values'.profile = values.profile /\ ~values'.release
              /\ epoch' > epoch
         /\ \A q \in Seq(Job) : Waiting /\ ApprovalFailed(q) =>
              /\ values'.profile = values.profile
              /\ values'.release => values.release
              /\ act' # None => act'.by = act.by
<1>1. TypeOK /\ values \in Doc
      BY DEF IndGrant, IndType, TypeOK
<1>2. \A q \in Seq(Job), b \in BOOLEAN : StopRelease(q, b) =>
        /\ values'.profile = values.profile /\ ~values'.release
        /\ epoch' > epoch
      BY <1>1, StopType, OffType
<1>3. Waiting => act \in Act
      BY <1>1 DEF Waiting, TypeOK
<1>4. ASSUME NEW q \in Seq(Job), Waiting, ApprovalFailed(q)
      PROVE  /\ values'.profile = values.profile
             /\ values'.release => values.release
             /\ act' # None => act'.by = act.by
  <2>1. /\ values' = values \/ StopRelease(q, TRUE)
        /\ act' = None \/ act' = [act EXCEPT !.kind = "stop"]
        BY <1>4 DEF ApprovalFailed
  <2>2. [act EXCEPT !.kind = "stop"].by = act.by
        BY <1>3, <1>4 DEF Act
  <2> QED BY <1>2, <2>1, <2>2
<1> QED BY <1>2, <1>4

(* Users and environment: every change of the context moves the epoch. *)
LEMMA UsersQuiet ==
  ASSUME IndGrant, IndType', "button" \notin Features, Users
  PROVE  IndGrant'
<1>1. values \in Doc /\ TypeOK /\ epoch \in Nat
      BY DEF IndGrant, IndType, TypeOK
<1>2. CASE \E c \in Cards, kind \in {"start", "apply", "stop"} : Send(c, kind)
      BY <1>2, QuietStep DEF Send, docVars, lockVars, fenceVars, history,
         IndGrant, Explicit, ActionRevision
<1>3. CASE \/ \E p \in Powers : SetPower(p)
           \/ \E d \in Delays : SetDelay(d)
           \/ \E d \in Durations \cup {None} : SetDuration(d)
      BY <1>3, QuietStep DEF SetPower, SetDelay, SetDuration, Ask, docVars,
         fenceVars, history, IndGrant, Explicit, ActionRevision
<1>4. ASSUME NEW p \in Profiles, SetProfile(p)
      PROVE  IndGrant'
  <2> DEFINE off == [values EXCEPT !.release = FALSE]
  <2>1. off \in Doc /\ ~off.release /\ off.profile = values.profile
        BY <1>1 DEF Doc
  <2>2. /\ UNCHANGED <<holder, granted, act, context, remote>>
        /\ \/ values' = off /\ ReleaseChanged(off)
           \/ UNCHANGED <<values, generation, epoch>>
        BY <1>4 DEF SetProfile
  <2>3. Explicit'
        BY <2>2 DEF IndGrant, Explicit
  <2> HIDE DEF off
  <2>4. CASE values' = off /\ ReleaseChanged(off)
        BY <1>1, <2>1, <2>2, <2>3, <2>4, InvalidateType, QuietStep
  <2>5. CASE UNCHANGED <<values, generation, epoch>>
        BY <2>2, <2>3, <2>5, QuietStep DEF ActionRevision
  <2> QED BY <2>2, <2>4, <2>5
<1>5. ~Press
      BY DEF Press, Enabled
<1> QED BY <1>2, <1>3, <1>4, <1>5 DEF Users

(* Observations, authority changes and a restart keep the grant invariant. *)
LEMMA EnvironmentQuiet ==
  ASSUME IndGrant, IndType', Environment \/ Tick
  PROVE  IndGrant'
<1>1. values \in Doc /\ TypeOK /\ epoch \in Nat
      BY DEF IndGrant, IndType, TypeOK
<1>2. CASE Observe \/ TakeControl
  <2>1. /\ UNCHANGED <<holder, granted, act, values>>
        /\ Invalidate(values)
        BY <1>2 DEF Observe, TakeControl, docVars, lockVars, history
  <2> QED BY <1>1, <2>1, InvalidateType, QuietStep DEF IndGrant, Explicit
<1>3. CASE LoseAuthority
  <2>1. /\ UNCHANGED <<holder, granted, act>>
        /\ values' \in {values, Off(values)} /\ Invalidate(values')
        BY <1>3 DEF LoseAuthority
  <2>2. values' \in Doc /\ values'.profile = values.profile
          /\ (values'.release => values.release)
        BY <1>1, <2>1, OffType
  <2> QED BY <1>1, <2>1, <2>2, InvalidateType, QuietStep DEF IndGrant, Explicit
<1>4. CASE ReevaluatePending \/ Tick
      BY <1>4, QuietStep DEF ReevaluatePending, Ask, Tick, docVars, lockVars,
         fenceVars, history, IndGrant, Explicit, ActionRevision
<1>5. CASE Restart
  <2>1. disk' \in Doc
        BY DEF IndType, TypeOK
  <2>2. holder' = None /\ act' = None /\ ~values'.release
        BY <1>5, <2>1, OffType DEF Restart
  <2> QED BY <2>2, FreeStep DEF Explicit, GrantedProfile
<1> QED BY <1>2, <1>3, <1>4, <1>5 DEF Environment

(* Stop, Start and Apply, before they get the lock. *)
LEMMA ClickQuiet ==
  ASSUME IndGrant, IndType', NEW c \in Cards, Stop(c) \/ StartOrApply(c)
  PROVE  IndGrant'
<1>1. /\ values \in Doc /\ TypeOK /\ epoch \in Nat /\ generation \in Nat
      /\ queue \in Seq(Job)
      BY DEF IndGrant, IndType, TypeOK
<1>2. UNCHANGED <<holder, granted, context, remote>>
      BY DEF Stop, StartOrApply
<1>3. CASE Stop(c)
  <2>1. UNCHANGED act /\ Explicit'
        BY <1>3 DEF Stop, IndGrant, Explicit
  <2>2. CASE UNCHANGED <<values, generation, epoch>>
        BY <1>2, <2>1, <2>2, QuietStep DEF ActionRevision
  <2>3. CASE StopRelease(queue, FALSE)
        BY <1>1, <1>2, <2>1, <2>3, RevokedQuiet, QuietStep
  <2>4. CASE epoch' = epoch + 1 /\ UNCHANGED values
        BY <1>1, <1>2, <2>1, <2>4, QuietStep
  <2> QED BY <1>3, <2>2, <2>3, <2>4 DEF Stop
<1>4. CASE StartOrApply(c)
  <2>1. act = None /\ ~(holder # None /\ holder.job.kind \in StartKinds)
        BY <1>4, StartSaving DEF StartOrApply, Waiting, IndGrant
  <2>2. CASE UNCHANGED <<act, values, generation, epoch>>
        BY <1>2, <2>1, <2>2, QuietStep DEF IndGrant, Explicit, ActionRevision
  <2>3. CASE Begin(c, click[c].kind, click[c].ctx)
    <3>1. act'.by = c /\ Explicit'
          BY <2>3, CardsAssumption DEF Begin, Explicit
    <3>2. CASE StopRelease(queue, TRUE)
          BY <1>1, <1>2, <2>1, <3>1, <3>2, RevokedQuiet, QuietStep
    <3>3. CASE Invalidate(values) /\ UNCHANGED values
          BY <1>1, <1>2, <2>1, <3>1, <3>3, InvalidateType, QuietStep
    <3>4. CASE UNCHANGED <<values, generation, epoch>>
          BY <1>2, <2>1, <3>1, <3>4, QuietStep DEF ActionRevision
    <3> QED BY <2>3, <3>2, <3>3, <3>4 DEF Begin
  <2> QED BY <1>4, <2>2, <2>3 DEF StartOrApply
<1> QED BY <1>3, <1>4

(* A deadline can only end a release. *)
LEMMA FireQuiet ==
  ASSUME IndGrant, IndType', Fire
  PROVE  IndGrant'
<1>1. queue \in Seq(Job)
      BY DEF IndGrant, IndType, TypeOK
<1>2. UNCHANGED <<holder, granted, act, context, remote>> /\ Explicit'
      BY DEF Fire, IndGrant, Explicit
<1>3. CASE StopRelease(queue, FALSE)
      BY <1>1, <1>2, <1>3, RevokedQuiet, QuietStep
<1>4. CASE UNCHANGED <<values, generation, epoch>>
      BY <1>2, <1>4, QuietStep DEF ActionRevision
<1> QED BY <1>3, <1>4 DEF Fire

(* The lock is given to a task that saves the selected profile, unless it   *)
(* changes it, and that turns on only what was validated.                   *)
LEMMA HoldGrant ==
  ASSUME IndGrant, IndType', UNCHANGED <<values, act, granted, epoch>>,
         UNCHANGED <<generation, context, remote>>,
         NEW d \in Doc, Hold(d), NEW job \in Job, job = Head(queue),
         job.kind # "profile" => d.profile = values.profile,
         d.release => /\ job.kind # "profile"
                      /\ \/ values.release \/ job.kind = "pv"
                         \/ (job.kind = "approve" /\ act.kind = "start"),
         job.kind \in StartKinds => act.ctx = ActionRevision
  PROVE  IndGrant'
<1>1. /\ TypeOK /\ epoch \in Nat
      BY DEF IndGrant, IndType, TypeOK
<1>2. /\ holder' # None /\ holder'.job = job /\ holder'.doc = d
      /\ holder'.stage = "save" /\ holder'.epoch = epoch
      BY <1>1, HoldType
<1>3. ActionRevision' = ActionRevision
      BY DEF ActionRevision
<1>4. Explicit' /\ GrantedProfile' /\ HeldProfile'
      BY <1>2 DEF IndGrant, Explicit, GrantedProfile, HeldProfile
<1>5. HeldRelease'
      BY <1>2 DEF IndGrant, HeldRelease, GrantedProfile
<1>6. HeldContext'
  <2>1. job.kind \in StartKinds => act.ctx.profile = d.profile
        BY DEF ActionRevision, StartKinds
  <2> QED BY <1>1, <1>2, <1>3, <2>1 DEF HeldContext
<1> QED BY <1>4, <1>5, <1>6 DEF IndGrant

(* A waiting save that gets the lock does not change what was granted.     *)
LEMMA AcquireGrant ==
  ASSUME IndGrant, IndType', Acquire
  PROVE  IndGrant'
<1> DEFINE job == Head(queue)
<1>1. /\ UNCHANGED <<values, act, granted, epoch>>
      /\ UNCHANGED <<generation, context, remote>>
      /\ job.kind \notin StartKinds /\ queue # <<>>
      BY DEF Acquire, docVars, fenceVars, history, StartKinds
<1>2. job \in Job /\ values \in Doc /\ now \in Nat /\ Explicit'
      BY <1>1, TakeTask DEF IndGrant, IndType, TypeOK, Explicit
<1>3. PICK d \in Candidates(job) : IF d = None THEN holder' = None ELSE Hold(d)
      BY DEF Acquire
<1>4. CASE d = None
      BY <1>1, <1>2, <1>3, <1>4, FreeStep DEF IndGrant, GrantedProfile
<1>5. CASE d # None
  <2>1. /\ d \in Doc
        /\ d.release => values.release
        /\ d.profile # values.profile => job.kind = "profile"
        /\ job.kind = "profile" => ~d.release
        BY <1>2, <1>5, CandidatesType
  <2> QED BY <1>1, <1>2, <1>3, <1>5, <2>1, HoldGrant
<1> QED BY <1>4, <1>5

(* A Start or Apply gets the lock and is validated again under it. *)
LEMMA AcquireStartGrant ==
  ASSUME IndGrant, IndType', AcquireApproval \/ AcquirePV
  PROVE  IndGrant'
<1> DEFINE job == Head(queue)
<1>1. /\ queue # <<>> /\ job.kind \in StartKinds /\ holder = None
      /\ UNCHANGED <<granted, context, remote>>
      BY DEF AcquireApproval, AcquirePV, fenceVars, history, StartKinds
<1>2. /\ TypeOK /\ values \in Doc /\ job \in Job /\ Tail(queue) \in Seq(Job)
      /\ Waiting /\ act \in Act /\ act.by # "button" /\ act # None
      BY <1>1, TakeTask DEF IndGrant, IndType, TypeOK, OneTask, ForAction,
                            Waiting, Explicit
<1>3. CASE AcquireApproval
  <2>1. CASE /\ act' = [act EXCEPT !.stage = "task"] /\ Invalidate(values)
             /\ UNCHANGED <<holder, values>>
    <3>1. act'.by = act.by
          BY <1>2, <2>1 DEF Act
    <3> QED BY <1>1, <1>2, <2>1, <3>1, FreeStep
            DEF IndGrant, Explicit, GrantedProfile
  <2>2. CASE /\ ApprovalCurrent
             /\ Hold(Approval(act.kind = "start"))
             /\ UNCHANGED <<values, act, generation, epoch>>
    <3> DEFINE d == Approval(act.kind = "start")
    <3>1. /\ d \in Doc /\ d.profile = values.profile
          /\ d.release => act.kind = "start" \/ values.release
          BY <1>2, ApprovalType DEF TypeOK
    <3>2. act.ctx = ActionRevision
          BY <1>2, <2>2 DEF ApprovalCurrent, Validated
    <3>3. job.kind = "approve" /\ job.kind # "profile"
          BY <1>3 DEF AcquireApproval
    <3> HIDE DEF d
    <3> QED BY <1>1, <1>2, <2>2, <3>1, <3>2, <3>3, HoldGrant DEF d
  <2>3. CASE ApprovalFailed(Tail(queue)) /\ UNCHANGED holder
    <3>1. /\ values'.profile = values.profile
          /\ values'.release => values.release
          /\ act' # None => act'.by = act.by
          BY <1>2, <2>3, RevokedQuiet
    <3> QED BY <1>1, <1>2, <2>3, <3>1, FreeStep
            DEF IndGrant, Explicit, GrantedProfile
  <2> QED BY <1>3, <2>1, <2>2, <2>3 DEF AcquireApproval
<1>4. CASE AcquirePV
  <2> DEFINE d == [values EXCEPT !.release = TRUE]
  <2>1. /\ UNCHANGED <<values, generation, epoch>> /\ job.kind = "pv"
        BY <1>4 DEF AcquirePV, docVars, fenceVars
  <2>2. CASE Validated /\ Hold(d) /\ UNCHANGED act
    <3>1. d \in Doc /\ d.profile = values.profile
          BY <1>2 DEF Doc
    <3>2. act.ctx = ActionRevision
          BY <1>2, <2>2 DEF Validated
    <3> HIDE DEF d
    <3> QED BY <1>1, <1>2, <2>1, <2>2, <3>1, <3>2, HoldGrant
  <2>3. CASE act' = None /\ UNCHANGED holder
        BY <1>1, <2>1, <2>3, FreeStep DEF IndGrant, Explicit, GrantedProfile
  <2> QED BY <1>4, <2>2, <2>3 DEF AcquirePV
<1> QED BY <1>3, <1>4

(* Storage answers: what it makes current was granted. *)
LEMMA StoreGrant ==
  ASSUME IndGrant, IndType', StoreAnswers
  PROVE  IndGrant'
<1>1. /\ TypeOK /\ IndType /\ values \in Doc /\ holder # None
      /\ holder \in Holder /\ holder.doc \in Doc /\ epoch \in Nat
      /\ queue \in Seq(Job)
  <2>1. holder # None
        BY DEF StoreAnswers, PlainStored, PlainNotStored, ExpireStored,
               ExpireUndone, ExpireNotStored, ApprovalStored, PVStored,
               Superseded, SupersededUndone, ApprovalNotStored, PVNotStored,
               Saving
  <2> QED BY <2>1, StorageType DEF IndGrant, IndType, TypeOK
<1>2. CASE PlainStored \/ PlainNotStored
  <2>1. /\ holder' = None /\ UNCHANGED granted /\ ButtonGoesOn
        /\ values' \in {values, holder.doc}
        /\ holder.job.kind \notin StartKinds
        BY <1>2 DEF PlainStored, PlainNotStored, Saving, history, PlainKinds,
                    StartKinds
  <2>2. GrantedProfile'
        BY <2>1, <1>1 DEF IndGrant, GrantedProfile, HeldRelease, StartKinds
  <2>3. Explicit'
    <3>1. CASE ForAction(holder.job)
      <4>1. act \in Act /\ act # None
            BY <1>1, <3>1 DEF IndType, OneTask, HolderFree, Waiting, TypeOK
      <4>2. act' = act \/ act' = [act EXCEPT !.stage = "task"]
            BY <2>1 DEF ButtonGoesOn
      <4> QED BY <4>1, <4>2 DEF Act, IndGrant, Explicit
    <3>2. CASE ~ForAction(holder.job)
          BY <2>1, <3>2 DEF ForAction, ButtonGoesOn, IndGrant, Explicit
    <3> QED BY <3>1, <3>2
  <2> QED BY <2>1, <2>2, <2>3, FreeStep
<1>3. CASE ExpireStored
  <2>1. /\ holder.job.kind = "expire" /\ UNCHANGED <<act, granted>>
        /\ Explicit'
        BY <1>3 DEF ExpireStored, Saving, IndGrant, Explicit
  <2>2. CASE /\ values' = Off(values) /\ ReleaseChanged(Off(values))
             /\ holder' = [holder EXCEPT !.stage = "undo", !.doc = Off(values)]
    <3>1. /\ Off(values) \in Doc /\ ~Off(values).release
          /\ Off(values).profile = values.profile
          /\ epoch' >= epoch
          BY <1>1, <2>2, OffType, InvalidateType
    <3>2. /\ holder'.stage = "undo" /\ holder'.doc = Off(values)
          /\ holder'.job = holder.job /\ holder'.epoch = holder.epoch
          BY <1>1, <2>2 DEF Holder
    <3> QED BY <1>1, <2>1, <2>2, <3>1, <3>2, UndoStep
  <2>3. CASE values' = holder.doc /\ holder' = None
        BY <1>1, <2>1, <2>3, FreeStep
        DEF IndGrant, GrantedProfile, HeldRelease, StartKinds
  <2> QED BY <1>3, <2>2, <2>3 DEF ExpireStored
<1>4. CASE ExpireUndone \/ ExpireNotStored
  <2>1. /\ holder.job.kind = "expire" /\ UNCHANGED <<act, granted>>
        /\ values' \in {values, holder.doc} /\ holder' = None
        BY <1>4 DEF ExpireUndone, ExpireNotStored, Saving, history
  <2>2. CASE values' = values
        BY <2>1, <2>2, FreeStep DEF IndGrant, Explicit, GrantedProfile
  <2>3. CASE values' = holder.doc
        BY <1>1, <2>1, <2>3, FreeStep
        DEF IndGrant, Explicit, GrantedProfile, HeldRelease
  <2> QED BY <2>1, <2>2, <2>3
<1>5. CASE ApprovalStored \/ PVStored
  <2>1. /\ holder.job.kind \in StartKinds /\ holder.stage = "save"
        /\ values' = holder.doc /\ holder' = None
        BY <1>5 DEF ApprovalStored, PVStored, Saving, StartKinds
  <2>2. act \in Act /\ act # None
        BY <1>1, <2>1, StartSaving DEF Waiting
  <2>3. Explicit'
        BY <1>5, <2>2 DEF ApprovalStored, PVStored, IndGrant, Explicit, Act
  <2>4. holder.doc.release => granted' = holder.doc.profile
        BY <1>5, <1>1, <2>1
        DEF ApprovalStored, PVStored, Saving, IndGrant, HeldRelease,
            HeldContext, history
  <2> QED BY <2>1, <2>3, <2>4, FreeStep DEF GrantedProfile
<1>6. CASE Superseded
  <2> DEFINE off == [holder.doc EXCEPT !.release = FALSE]
             undo == IF holder.job.kind = "pv" THEN off
                     ELSE [Off(holder.doc) EXCEPT !.approved = holder.prev]
  <2>1. /\ values' = off /\ UNCHANGED <<act, epoch>>
        /\ holder' = [holder EXCEPT !.stage = "undo", !.doc = undo]
        BY <1>6 DEF Superseded, fenceVars
  <2>2. off \in Doc /\ ~off.release /\ off.profile = holder.doc.profile
        BY <1>1 DEF Doc
  <2>3. undo \in Doc /\ ~undo.release /\ undo.profile = holder.doc.profile
    <3>1. holder.prev \in Approved
          BY <1>1, StorageType
    <3>2. /\ Off(holder.doc) \in Doc /\ ~Off(holder.doc).release
          /\ Off(holder.doc).profile = holder.doc.profile
          BY <1>1, OffType
    <3> QED BY <2>2, <3>1, <3>2 DEF Doc
  <2> HIDE DEF off, undo
  <2>4. /\ holder'.stage = "undo" /\ holder'.doc = undo
        /\ holder'.job = holder.job /\ holder'.epoch = holder.epoch
        BY <1>1, <2>1 DEF Holder
  <2> QED BY <1>1, <2>1, <2>2, <2>3, <2>4, UndoStep
<1>7. CASE SupersededUndone
  <2>1. /\ values' = holder.doc /\ holder' = None /\ act' = None
        /\ holder.stage = "undo"
        BY <1>7 DEF SupersededUndone, Saving
  <2> QED BY <1>1, <2>1, FreeStep
          DEF IndGrant, HeldRelease, Explicit, GrantedProfile
<1>8. CASE ApprovalNotStored
  <2>1. Waiting /\ holder' = None /\ ApprovalFailed(queue) /\ UNCHANGED granted
        BY <1>1, <1>8, StartSaving DEF ApprovalNotStored, Saving, StartKinds
  <2>2. /\ values'.profile = values.profile
        /\ values'.release => values.release
        /\ act' # None => act'.by = act.by
        BY <1>1, <2>1, RevokedQuiet
  <2> QED BY <2>1, <2>2, FreeStep
          DEF IndGrant, Explicit, GrantedProfile, Waiting
<1>9. CASE PVNotStored
      BY <1>9, FreeStep
      DEF PVNotStored, IndGrant, Explicit, GrantedProfile, history
<1> QED BY <1>2, <1>3, <1>4, <1>5, <1>6, <1>7, <1>8, <1>9 DEF StoreAnswers

(* Every step but the press of the generic button. *)
LEMMA IndGrantNext ==
  ASSUME "button" \notin Features, IndGrant, [Next]_vars
  PROVE  IndGrant'
<1>1. IndType'
      BY IndTypeNext DEF IndGrant
<1>2. CASE Handlers
  <2>1. CASE TaskEnds
    <3>1. ~(holder # None /\ holder.job.kind \in StartKinds) /\ act' = None
          BY <2>1, StartSaving DEF TaskEnds, Waiting, IndGrant
    <3> QED BY <1>1, <2>1, <3>1, QuietStep
            DEF TaskEnds, docVars, lockVars, fenceVars, history, Explicit,
                ActionRevision
  <2> QED BY <1>1, <1>2, <2>1, ClickQuiet, FireQuiet, AcquireGrant,
             AcquireStartGrant DEF Handlers
<1>3. CASE UNCHANGED vars
      BY <1>1, <1>3, QuietStep
      DEF vars, docVars, lockVars, fenceVars, history, IndGrant, Explicit,
          ActionRevision
<1> QED BY <1>1, <1>2, <1>3, UsersQuiet, EnvironmentQuiet, StoreGrant DEF Next

(* Nothing is released at first, so nothing had to be granted.             *)
LEMMA IndGrantInit == Init => IndGrant
<1> SUFFICES ASSUME Init
             PROVE  IndGrant
    OBVIOUS
<1>1. act = None /\ holder = None /\ ~values.release
      BY DEF Init
<1> QED BY <1>1, IndTypeInit DEF IndGrant, Explicit, HeldProfile, HeldRelease,
                                 HeldContext, GrantedProfile

(* With explicit actions only, a release that is on was granted by a Start  *)
(* pressed for the profile that is selected, for any number of dashboards,  *)
(* profiles, drafts and any interleaving with saves, failures and restarts. *)
THEOREM GrantedProfileHolds ==
  ASSUME "button" \notin Features
  PROVE  Spec => []GrantedProfile
<1>1. IndGrant => GrantedProfile
      BY DEF IndGrant
<1>2. IndGrant /\ [Next]_vars => IndGrant'
      BY IndGrantNext
<1> QED BY <1>1, <1>2, IndGrantInit, PTL DEF Spec

(* While a Start is saved nothing but storage's answer can turn it on, and  *)
(* only with the context of its click untouched.                            *)
LEMMA GrantIsCurrent ==
  ASSUME IndGrant, Next, holder # None, holder.job.kind \in StartKinds,
         ~values.release, values'.release
  PROVE  act.ctx = ActionRevision
<1>1. /\ TypeOK /\ IndType /\ values \in Doc /\ queue \in Seq(Job)
      /\ holder.doc \in Doc /\ Waiting
      BY StartSaving DEF IndGrant, IndType, TypeOK
<1>2. \A q \in Seq(Job), b \in BOOLEAN : ~StopRelease(q, b)
      BY RevokedQuiet
<1>3. \A q \in Seq(Job) : ~ApprovalFailed(q)
      BY <1>1, RevokedQuiet
<1>4. values' # values /\ values' # Off(values)
      BY <1>1, OffType
<1>5. ~Users
  <2>1. \A p \in Profiles : ~SetProfile(p)
    <3> SUFFICES ASSUME NEW p \in Profiles, SetProfile(p)
                 PROVE  FALSE
        OBVIOUS
    <3>1. values' = [values EXCEPT !.release = FALSE]
          BY <1>4 DEF SetProfile
    <3> QED BY <1>1, <3>1 DEF Doc
  <2>2. ~Press
        BY <1>1 DEF Press, Waiting
  <2> QED BY <1>4, <2>1, <2>2
          DEF Users, Send, SetPower, SetDelay, SetDuration, Ask, docVars
<1>6. ~Environment /\ ~Tick
  <2>1. ~Restart
    <3> SUFFICES ASSUME Restart
                 PROVE  FALSE
        OBVIOUS
    <3>1. disk' \in Doc
          BY <1>1 DEF Restart, TypeOK
    <3> QED BY <3>1, OffType DEF Restart
  <2> QED BY <1>4, <2>1
          DEF Environment, Observe, TakeControl, LoseAuthority,
              ReevaluatePending, Ask, Tick, docVars
<1>7. ~Handlers
  <2>1. \A c \in Cards : ~Stop(c) /\ ~StartOrApply(c)
        BY <1>1, <1>2, <1>4 DEF Stop, StartOrApply, Waiting
  <2> QED BY <1>1, <1>2, <1>4, <2>1
          DEF Handlers, Acquire, AcquireApproval, AcquirePV, Fire, TaskEnds,
              docVars
<1>8. CASE StoreAnswers
  <2>1. ~PlainStored /\ ~PlainNotStored
        BY DEF PlainStored, PlainNotStored, Saving, PlainKinds, StartKinds
  <2>2. ~ExpireStored /\ ~ExpireUndone /\ ~ExpireNotStored
        BY DEF ExpireStored, ExpireUndone, ExpireNotStored, Saving, StartKinds
  <2>3. ~Superseded
        BY <1>1 DEF Superseded, Doc
  <2>4. ~SupersededUndone
        BY DEF SupersededUndone, Saving, IndGrant, HeldRelease
  <2>5. ~ApprovalNotStored /\ ~PVNotStored
        BY <1>1, <1>3, <1>4 DEF ApprovalNotStored, PVNotStored
  <2>6. CASE ApprovalStored \/ PVStored
        BY <2>6 DEF ApprovalStored, PVStored, Saving, StillCurrent, IndGrant,
                    HeldContext
  <2> QED BY <1>8, <2>1, <2>2, <2>3, <2>4, <2>5, <2>6 DEF StoreAnswers
<1> QED BY <1>5, <1>6, <1>7, <1>8 DEF Next

(* With explicit actions only, the write of a Start turns the release on    *)
(* only while the context its operator saw is still the system's.           *)
THEOREM NoStaleGrantHolds ==
  ASSUME "button" \notin Features
  PROVE  Spec => NoStaleGrant
<1> DEFINE Current ==
      /\ holder # None /\ holder.job.kind \in StartKinds
      /\ ~values.release /\ values'.release
      => act.ctx = ActionRevision
<1>1. IndGrant /\ [Next]_vars => [Current]_vars
      BY GrantIsCurrent
<1>2. IndGrant /\ [Next]_vars => IndGrant'
      BY IndGrantNext
<1>3. NoStaleGrant <=> [][Current]_vars
      BY DEF NoStaleGrant
<1> HIDE DEF Current
<1> QED BY <1>1, <1>2, <1>3, IndGrantInit, PTL DEF Spec

-----------------------------------------------------------------------------
(* What a step can do to the document: for the invariants of what is saved. *)

(* The release alone is taken from a document. *)
Unreleased(v) == [v EXCEPT !.release = FALSE]

(* A step that neither takes nor gives back the lock and leaves the store  *)
(* alone changes no more of the document in memory than its release.       *)
InMemory ==
  /\ UNCHANGED <<holder, disk, storageError>>
  /\ values' \in {values, Off(values), Unreleased(values)}

(* A task gets the lock and begins to save d. *)
Begins(d) ==
  /\ holder = None /\ queue # <<>> /\ Hold(d) /\ queue' = Tail(queue)
  /\ UNCHANGED <<values, disk, storageError, act, epoch, revoked>>
  /\ \/ d \in Candidates(Head(queue)) /\ Head(queue).kind \notin StartKinds
     \/ /\ d = Approval(act.kind = "start") /\ Head(queue).kind = "approve"
     \/ /\ d = [values EXCEPT !.release = TRUE] /\ Head(queue).kind = "pv"

(* A failed approval leaves the document alone, or takes its release. *)
LEMMA FailedInMemory ==
  \A q : ApprovalFailed(q) => values' \in {values, Off(values)}
BY DEF ApprovalFailed, StopRelease

(* Every step works in memory, begins a save, restarts or ends a save. *)
LEMMA StepKinds ==
  ASSUME IndType, [Next]_vars
  PROVE  \/ InMemory
         \/ \E d \in Doc : Begins(d)
         \/ Restart
         \/ StoreAnswers
<1>1. CASE Users
  <2>1. CASE \E c \in Cards, kind \in {"start", "apply", "stop"} : Send(c, kind)
        BY <2>1 DEF Send, InMemory, docVars, lockVars
  <2>2. CASE Press
        BY <2>2 DEF Press, Begin, StopRelease, InMemory
  <2>3. CASE \/ \E p \in Powers : SetPower(p)
             \/ \E d \in Delays : SetDelay(d)
             \/ \E d \in Durations \cup {None} : SetDuration(d)
        BY <2>3 DEF SetPower, SetDelay, SetDuration, Ask, InMemory, docVars
  <2>4. CASE \E p \in Profiles : SetProfile(p)
        BY <2>4 DEF SetProfile, InMemory, Unreleased
  <2> QED BY <1>1, <2>1, <2>2, <2>3, <2>4 DEF Users
<1>2. CASE Environment \/ Tick
      BY <1>2 DEF Environment, Observe, TakeControl, LoseAuthority,
         ReevaluatePending, Ask, Tick, InMemory, docVars, lockVars
<1>3. CASE Handlers
  <2>1. CASE \E c \in Cards : Stop(c) \/ StartOrApply(c)
        BY <2>1 DEF Stop, StartOrApply, Begin, StopRelease, InMemory
  <2>2. CASE Fire \/ TaskEnds
        BY <2>2 DEF Fire, TaskEnds, StopRelease, InMemory, docVars, lockVars
  <2>3. CASE Acquire
    <3>1. PICK d \in Candidates(Head(queue)) :
            IF d = None THEN holder' = None ELSE Hold(d)
          BY <2>3 DEF Acquire
    <3>2. /\ holder = None /\ queue # <<>> /\ queue' = Tail(queue)
          /\ Head(queue).kind \notin StartKinds
          /\ UNCHANGED <<values, disk, storageError, act, epoch, revoked>>
          BY <2>3 DEF Acquire, StartKinds, docVars, fenceVars, history
    <3>3. CASE d = None
          BY <3>1, <3>2, <3>3 DEF InMemory
    <3>4. CASE d # None
      <4>1. Head(queue) \in Job
            BY <3>2, TakeTask DEF IndType, TypeOK
      <4>2. d \in Doc
            BY <3>4, <4>1, CandidatesType DEF IndType, TypeOK
      <4> QED BY <3>1, <3>2, <3>4, <4>2 DEF Begins
    <3> QED BY <3>3, <3>4
  <2>4. CASE AcquireApproval
    <3>1. /\ holder = None /\ queue # <<>> /\ Head(queue).kind = "approve"
          /\ UNCHANGED <<disk, storageError>>
          BY <2>4 DEF AcquireApproval
    <3>2. CASE UNCHANGED <<holder, values>>
          BY <3>1, <3>2 DEF InMemory
    <3>3. CASE /\ Hold(Approval(act.kind = "start")) /\ queue' = Tail(queue)
               /\ UNCHANGED <<values, act, epoch, revoked>>
      <4> DEFINE d == Approval(act.kind = "start")
      <4>1. d \in Doc
            BY ApprovalType DEF IndType, TypeOK
      <4>2. Begins(d)
            BY <3>1, <3>3 DEF Begins
      <4> QED BY <4>1, <4>2
    <3>4. CASE ApprovalFailed(Tail(queue)) /\ UNCHANGED holder
          BY <3>1, <3>4, FailedInMemory DEF InMemory
    <3> QED BY <2>4, <3>2, <3>3, <3>4 DEF AcquireApproval
  <2>5. CASE AcquirePV
    <3>1. /\ holder = None /\ queue # <<>> /\ Head(queue).kind = "pv"
          /\ queue' = Tail(queue)
          /\ UNCHANGED <<values, disk, storageError, epoch, revoked>>
          BY <2>5 DEF AcquirePV, docVars, fenceVars, history
    <3>2. CASE UNCHANGED holder
          BY <3>1, <3>2 DEF InMemory
    <3>3. CASE Hold([values EXCEPT !.release = TRUE]) /\ UNCHANGED act
      <4> DEFINE d == [values EXCEPT !.release = TRUE]
      <4>1. d \in Doc
            BY DEF IndType, TypeOK, Doc
      <4>2. Begins(d)
            BY <3>1, <3>3 DEF Begins
      <4> QED BY <4>1, <4>2
    <3> QED BY <2>5, <3>2, <3>3 DEF AcquirePV
  <2> QED BY <1>3, <2>1, <2>2, <2>3, <2>4, <2>5 DEF Handlers
<1>4. CASE UNCHANGED vars
      BY <1>4 DEF vars, InMemory, docVars, lockVars
<1> QED BY <1>1, <1>2, <1>3, <1>4 DEF Next

-----------------------------------------------------------------------------
(* What is not on disk was announced. *)

(* The release and its schedule are not part of the configuration. *)
LEMMA ConfigOff ==
  \A v \in Doc : /\ Config(Off(v)) = Config(v)
                 /\ Config(Unreleased(v)) = Config(v)
BY DEF Config, Off, Unreleased, Doc

(* What a superseded Start or Apply saves to take itself back. *)
Undone ==
  IF holder.job.kind = "pv" THEN Unreleased(holder.doc)
  ELSE [Off(holder.doc) EXCEPT !.approved = holder.prev]

(* Taking back leaves nothing released and the configuration as it was. *)
LEMMA UndoneType ==
  ASSUME IndType, holder # None
  PROVE  /\ Undone \in Doc /\ ~Undone.release
         /\ Undone.profile = holder.doc.profile
         /\ Undone.edit # None => Undone.edit = holder.doc.edit
         /\ Undone.trev = holder.doc.trev
<1>1. holder.doc \in Doc /\ holder.prev \in Approved
      BY StorageType DEF IndType
<1> QED BY <1>1 DEF Undone, Unreleased, Off, Doc

(* A save goes on under the same lock: it takes back what it has stored. *)
TakesBack(d) ==
  /\ holder # None /\ Stored
  /\ holder' = [holder EXCEPT !.stage = "undo", !.doc = d]
  /\ \/ d = Off(values) /\ values' = d /\ holder.job.kind = "expire"
     \/ d = Undone /\ values' = Unreleased(holder.doc)
        /\ holder.job.kind \in StartKinds
  /\ UNCHANGED <<queue, act>>

(* Storage's answer leaves what it stored in memory, unless another save    *)
(* follows under the same lock or the failure is announced.                 *)
LEMMA StoreKinds ==
  ASSUME IndType, StoreAnswers
  PROVE  /\ holder # None
         /\ \/ Stored /\ values' = holder.doc /\ holder' = None
            \/ \E d \in Doc : TakesBack(d)
            \/ NotStored /\ holder' = None /\ values' \in {values, Off(values)}
<1>1. holder # None
      BY DEF StoreAnswers, PlainStored, PlainNotStored, ExpireStored,
             ExpireUndone, ExpireNotStored, ApprovalStored, PVStored,
             Superseded, SupersededUndone, ApprovalNotStored, PVNotStored,
             Saving
<1>2. CASE \/ PlainStored \/ ExpireUndone \/ ApprovalStored \/ PVStored
           \/ SupersededUndone
      BY <1>1, <1>2 DEF PlainStored, ExpireUndone, ApprovalStored, PVStored,
                        SupersededUndone
<1>3. CASE ExpireStored
  <2>1. CASE Stored /\ values' = holder.doc /\ holder' = None
        BY <1>1, <2>1
  <2>2. CASE /\ values' = Off(values)
             /\ holder' = [holder EXCEPT !.stage = "undo", !.doc = Off(values)]
    <3>1. Off(values) \in Doc
          BY OffType DEF IndType, TypeOK
    <3>2. TakesBack(Off(values))
          BY <1>1, <1>3, <2>2 DEF ExpireStored, Saving, TakesBack
    <3> QED BY <1>1, <3>1, <3>2
  <2> QED BY <1>3, <2>1, <2>2 DEF ExpireStored
<1>4. CASE Superseded
  <2>1. Undone \in Doc
        BY <1>1, UndoneType
  <2>2. TakesBack(Undone)
        BY <1>1, <1>4 DEF Superseded, Saving, TakesBack, Undone, Unreleased
  <2> QED BY <1>1, <2>1, <2>2
<1>5. CASE \/ PlainNotStored \/ ExpireNotStored \/ ApprovalNotStored
           \/ PVNotStored
      BY <1>1, <1>5, FailedInMemory
      DEF PlainNotStored, ExpireNotStored, ApprovalNotStored, PVNotStored
<1> QED BY <1>2, <1>3, <1>4, <1>5 DEF StoreAnswers

(* The holder of the lock that takes back what it has stored. *)
LEMMA TakesBackType ==
  ASSUME IndType, NEW d \in Doc, TakesBack(d)
  PROVE  /\ holder' # None /\ holder'.stage = "undo" /\ holder'.doc = d
         /\ holder'.job = holder.job /\ holder'.epoch = holder.epoch
<1>1. holder \in Holder
      BY StorageType DEF TakesBack, IndType
<1>2. holder' = [holder EXCEPT !.stage = "undo", !.doc = d]
      BY DEF TakesBack
<1>3. /\ holder' \in Holder /\ holder'.stage = "undo" /\ holder'.doc = d
      /\ holder'.job = holder.job /\ holder'.epoch = holder.epoch
      BY <1>1, <1>2 DEF Holder
<1> QED BY <1>3, NoneAssumption

(* Memory and disk agree whenever the lock is given back without a warning. *)
LEMMA DurableNext ==
  ASSUME IndType, Durable, IndType', [Next]_vars
  PROVE  Durable'
<1>1. values \in Doc /\ disk' \in Doc
      BY DEF IndType, TypeOK
<1>2. CASE InMemory
      BY <1>1, <1>2, ConfigOff DEF InMemory, Durable
<1>3. ASSUME NEW d \in Doc, Begins(d)
      PROVE  Durable'
  <2>1. Head(queue) \in Job
        BY <1>3, TakeTask DEF Begins, IndType, TypeOK
  <2>2. holder' # None
        BY <1>3, <2>1, HoldType DEF Begins, IndType
  <2> QED BY <2>2 DEF Durable
<1>4. CASE Restart
      BY <1>1, <1>4, ConfigOff DEF Restart, Durable
<1>5. CASE StoreAnswers
  <2>1. CASE Stored /\ values' = holder.doc /\ holder' = None
        BY <2>1 DEF Stored, Durable
  <2>2. ASSUME NEW d \in Doc, TakesBack(d)
        PROVE  Durable'
        BY <2>2, TakesBackType DEF Durable
  <2>3. CASE NotStored
        BY <2>3 DEF NotStored, Durable
  <2> QED BY <1>5, <2>1, <2>2, <2>3, StoreKinds
<1> QED BY <1>2, <1>3, <1>4, <1>5, StepKinds

(* With the lock free and no warning shown, memory and store hold the same  *)
(* configuration: for every interleaving of saves, immediate stops, failed  *)
(* or unverifiable writes, approvals taken back and restarts.               *)
THEOREM DurableHolds == Spec => []Durable
<1>1. Init => Durable
      BY DEF Init, Durable
<1>2. IndType /\ Durable /\ [Next]_vars => IndType' /\ Durable'
      BY IndTypeNext, DurableNext
<1> QED BY <1>1, <1>2, IndTypeInit, PTL DEF Spec

-----------------------------------------------------------------------------
(* The end of an edit window: whose drafts it discards.                     *)

(* An edit window belongs to the revision of the times it was opened for,   *)
(* in memory and in what is being saved; the rollback that is being saved   *)
(* was asked for by the window that is open.                                *)
WindowRevision(v) == v.edit # None => v.edit.rev = v.trev
Edits ==
  /\ WindowRevision(values)
  /\ holder # None => WindowRevision(holder.doc)
  /\ holder # None /\ holder.job.kind = "expire" /\ holder.stage = "save"
       => holder.job.rev = values.trev

(* What happens to the window of a document that is changed in memory. *)
LEMMA WindowOff ==
  \A v \in Doc : /\ WindowRevision(Off(v))
                 /\ WindowRevision(v) => WindowRevision(Unreleased(v))
                 /\ Off(v).trev = v.trev /\ Unreleased(v).trev = v.trev
BY DEF WindowRevision, Off, Unreleased, Doc

(* A new window is opened for the revision just written. *)
LEMMA WindowOpened ==
  ASSUME now \in Nat
  PROVE  \A v \in Doc : WindowRevision(EditWindow(v))
BY DEF WindowRevision, EditWindow, Doc

(* A new approval of the power keeps the window. *)
LEMMA WindowApproved ==
  \A v \in Doc : WindowRevision(v) => WindowRevision(Approve(v))
BY DEF WindowRevision, Approve, Doc

(* Every document a task begins to save has a window of its own times.     *)
LEMMA WindowCandidates ==
  ASSUME values \in Doc, now \in Nat, WindowRevision(values), NEW job \in Job,
         NEW d \in Candidates(job), d # None
  PROVE  WindowRevision(d)
<1> USE DEF Same
<1>1. CASE job.kind = "power"
  <2> DEFINE w == [values EXCEPT !.power = job.power, !.drev = @ + 1]
  <2>1. job.power \in Powers
        BY <1>1 DEF Job
  <2>2. w \in Doc /\ WindowRevision(w)
        BY <2>1, RevisionType DEF Doc, WindowRevision
  <2>3. d \in {w, Approve(w)}
        BY <1>1 DEF Candidates, EquivalentOrNot
  <2> QED BY <2>2, <2>3, WindowApproved
<1>2. CASE job.kind = "delay"
  <2> DEFINE u == [values EXCEPT !.delay = job.delay, !.drev = @ + 1,
                                 !.trev = @ + 1]
             w == EditWindow(u)
  <2>1. job.delay \in Delays
        BY <1>2 DEF Job
  <2>2. u \in Doc
        BY <2>1, RevisionType DEF Doc
  <2>3. d \in {w, Approve(w)}
        BY <1>2 DEF Candidates, EquivalentOrNot
  <2> HIDE DEF u
  <2> QED BY <2>2, <2>3, EditWindowType, WindowOpened, WindowApproved
<1>3. CASE job.kind = "duration"
  <2> DEFINE u == [values EXCEPT !.duration = job.duration, !.drev = @ + 1,
                                 !.trev = @ + 1]
             w == EditWindow(u)
  <2>1. job.duration \in Durations \cup {None}
        BY <1>3 DEF Job
  <2>2. u \in Doc
        BY <2>1, RevisionType DEF Doc
  <2>3. d \in {w, Approve(w)}
        BY <1>3 DEF Candidates, EquivalentOrNot
  <2> HIDE DEF u
  <2> QED BY <2>2, <2>3, EditWindowType, WindowOpened, WindowApproved
<1>4. CASE job.kind = "profile"
  <2>1. d = [Off(values) EXCEPT !.profile = job.profile, !.trev = @ + 1]
        BY <1>4 DEF Candidates
  <2> QED BY <2>1 DEF WindowRevision, Off, Doc
<1>5. CASE job.kind \in {"equivalent", "loss"}
      BY <1>5, WindowApproved, WindowOff DEF Candidates
<1>6. CASE job.kind = "stop"
  <2>1. d = [Off(values) EXCEPT !.trev = job.trev]
        BY <1>6 DEF Candidates
  <2> QED BY <2>1 DEF WindowRevision, Off, Doc
<1>7. CASE job.kind = "expire"
  <2>1. d.edit = None
        BY <1>7 DEF Candidates, Doc
  <2> QED BY <2>1 DEF WindowRevision
<1> QED BY <1>1, <1>2, <1>3, <1>4, <1>5, <1>6, <1>7 DEF Candidates

(* The save of an approval closes the window. *)
LEMMA WindowClosed ==
  ASSUME values \in Doc, now \in Nat, NEW start \in BOOLEAN
  PROVE  Approval(start).edit = None
<1> DEFINE a == Approve(values)
           request == IF start THEN Schedule(a) ELSE AppliedRequest(a)
           doc == [a EXCEPT !.release = start \/ values.release,
                            !.request = request, !.edit = None,
                            !.trev = @ + 1]
<1>1. a \in Doc
      BY ApproveType
<1> HIDE DEF a, request
<1>2. doc.edit = None /\ [doc EXCEPT !.release = FALSE, !.request = None].edit = None
      BY <1>1 DEF Doc
<1> HIDE DEF doc
<1>3. Approval(start) \in {doc, [doc EXCEPT !.release = FALSE, !.request = None]}
      BY DEF Approval, doc, request, a
<1> QED BY <1>2, <1>3

(* A rollback begins to be saved for the window that asked for it. *)
LEMMA RollbackBegins ==
  ASSUME values \in Doc, WindowRevision(values), NEW job \in Job,
         job.kind = "expire", NEW d \in Candidates(job), d # None
  PROVE  job.rev = values.trev
BY DEF Candidates, Same, WindowRevision

(* Every step keeps windows and revisions together. *)
LEMMA EditsNext ==
  ASSUME IndType, IndType', Edits, [Next]_vars
  PROVE  Edits'
<1>1. values \in Doc /\ now \in Nat /\ WindowRevision(values)
      BY DEF IndType, TypeOK, Edits
<1>2. CASE InMemory
      BY <1>1, <1>2, WindowOff DEF InMemory, Edits
<1>3. ASSUME NEW d \in Doc, Begins(d)
      PROVE  Edits'
  <2> DEFINE job == Head(queue)
  <2>1. job \in Job /\ UNCHANGED values
        BY <1>3, TakeTask DEF Begins, IndType, TypeOK
  <2>2. /\ holder' # None /\ holder'.job = job /\ holder'.doc = d
        BY <1>3, <2>1, HoldType DEF Begins, IndType
  <2>3. WindowRevision(d)
    <3>1. CASE d \in Candidates(job)
          BY <1>1, <2>1, <3>1, NoneAssumption, WindowCandidates
    <3>2. CASE d = Approval(act.kind = "start")
          BY <1>1, <3>2, WindowClosed DEF WindowRevision
    <3>3. CASE d = [values EXCEPT !.release = TRUE]
          BY <1>1, <3>3 DEF WindowRevision, Doc
    <3> QED BY <1>3, <3>1, <3>2, <3>3 DEF Begins
  <2>4. job.kind = "expire" => job.rev = values.trev
    <3> HAVE job.kind = "expire"
    <3>1. d \in Candidates(job) /\ d # None
          BY <1>3, NoneAssumption DEF Begins
    <3> QED BY <1>1, <2>1, <3>1, RollbackBegins
  <2> HIDE DEF job
  <2> QED BY <1>1, <2>1, <2>2, <2>3, <2>4 DEF Edits, WindowRevision
<1>4. CASE Restart
  <2>1. values' = Off(disk') /\ holder' = None /\ disk' \in Doc
        BY <1>4 DEF Restart, IndType, TypeOK
  <2> QED BY <2>1, WindowOff DEF Edits, WindowRevision
<1>5. CASE StoreAnswers
  <2>1. /\ holder # None /\ holder.doc \in Doc /\ WindowRevision(holder.doc)
        BY <1>5, StoreKinds, StorageType DEF IndType, Edits
  <2>2. CASE values' = holder.doc /\ holder' = None
        BY <2>1, <2>2 DEF Edits, WindowRevision
  <2>3. ASSUME NEW d \in Doc, TakesBack(d)
        PROVE  Edits'
    <3>1. /\ holder' # None /\ holder'.stage = "undo" /\ holder'.doc = d
          BY <2>3, TakesBackType
    <3>2. WindowRevision(d) /\ WindowRevision(values')
      <4>1. CASE d = Off(values) /\ values' = d
            BY <1>1, <4>1, WindowOff
      <4>2. CASE d = Undone /\ values' = Unreleased(holder.doc)
            BY <2>1, <4>2, WindowOff, UndoneType DEF WindowRevision
      <4> QED BY <2>3, <4>1, <4>2 DEF TakesBack
    <3> QED BY <3>1, <3>2 DEF Edits, WindowRevision
  <2>4. CASE holder' = None /\ values' \in {values, Off(values)}
        BY <1>1, <2>4, WindowOff DEF Edits, WindowRevision
  <2> QED BY <1>5, <2>2, <2>3, <2>4, StoreKinds
<1> QED BY <1>2, <1>3, <1>4, <1>5, StepKinds

(* A stored rollback that changes the times is the open window's, of a run  *)
(* that lives.                                                              *)
LEMMA RollbackIsLive ==
  ASSUME IndType, Edits, ExpireStored,
         <<values'.delay, values'.duration>> # <<values.delay, values.duration>>
  PROVE  /\ values.release /\ Phase(values) # "expired"
         /\ values.trev = holder.job.rev
<1>1. values \in Doc
      BY DEF IndType, TypeOK
<1>2. Off(values).delay = values.delay /\ Off(values).duration = values.duration
      BY <1>1 DEF Off, Doc
<1>3. values.release /\ Phase(values) # "expired"
      BY <1>2 DEF ExpireStored
<1>4. holder # None /\ holder.job.kind = "expire" /\ holder.stage = "save"
      BY DEF ExpireStored, Saving
<1> QED BY <1>3, <1>4 DEF Edits

(* The end of an edit window discards the time drafts of that window only,  *)
(* and only of a run that still lives, however its write is interleaved     *)
(* with edits, stops, the end of the run and other saves.                   *)
THEOREM RollbackOnlyLiveHolds == Spec => RollbackOnlyLive
<1> DEFINE Live ==
      /\ ExpireStored
      /\ <<values'.delay, values'.duration>> # <<values.delay, values.duration>>
      => /\ values.release /\ Phase(values) # "expired"
         /\ values.trev = holder.job.rev
<1>1. IndType /\ Edits /\ [Next]_vars => [Live]_vars
      BY RollbackIsLive
<1>2. IndType /\ Edits /\ [Next]_vars => IndType' /\ Edits'
      BY IndTypeNext, EditsNext
<1>3. Init => Edits
      BY DEF Init, Edits, WindowRevision
<1>4. RollbackOnlyLive <=> [][Live]_vars
      BY DEF RollbackOnlyLive
<1> HIDE DEF Live
<1> QED BY <1>1, <1>2, <1>3, <1>4, IndTypeInit, PTL DEF Spec

-----------------------------------------------------------------------------
(* A release that was revoked does not come back for good.                  *)

(* A waiting task that will end the release of a document of this profile. *)
Ends(job, profile) ==
  job.kind = "stop" \/ (job.kind = "profile" /\ job.profile # profile)
EndWaits(q, profile) == \E i \in 1 .. Len(q) : Ends(q[i], profile)
EndQueued == EndWaits(queue, values.profile)

(* The save under way is a Start's: it becomes the last accepted one, or was *)
(* overtaken and takes itself back.                                          *)
Granting ==
  /\ holder.job.kind \in StartKinds /\ holder.stage = "save"
  /\ holder.epoch # epoch \/ holder.job.kind = "pv" \/ act.kind = "start"

(* After a revocation, whatever is still released will be ended.           *)
Ending ==
  revoked =>
    /\ values.release => EndQueued \/ (holder # None /\ ~holder.doc.release)
    /\ holder # None /\ holder.doc.release => EndQueued \/ Granting

(* What a save can turn on: only a Start's, or after a revocation.         *)
Restoring ==
  holder # None =>
    /\ holder.epoch <= epoch
    /\ holder.stage = "undo" => ~holder.doc.release
    /\ holder.job.kind = "profile" => ~holder.doc.release
    /\ holder.doc.release /\ ~values.release
         => revoked \/ holder.job.kind \in StartKinds
    /\ holder.doc.release /\ ~values.release
         /\ holder.job.kind = "approve" /\ act.kind # "start"
         => holder.epoch < epoch

IndEnd == IndType /\ HeldProfile /\ Ending /\ Restoring

(* A task that joins the queue ends what those before it end, and its own. *)
LEMMA EndAppended ==
  ASSUME NEW q \in Seq(Job), NEW job \in Job, NEW profile
  PROVE  /\ EndWaits(q, profile) => EndWaits(Append(q, job), profile)
         /\ Ends(job, profile) => EndWaits(Append(q, job), profile)
<1> DEFINE r == Append(q, job)
<1>1. /\ Len(r) = Len(q) + 1 /\ Len(q) \in Nat /\ r[Len(q) + 1] = job
      /\ \A i \in 1 .. Len(q) : r[i] = q[i]
      BY LenProperties
<1> HIDE DEF r
<1>2. EndWaits(q, profile) => EndWaits(r, profile)
      BY <1>1 DEF EndWaits
<1>3. Ends(job, profile) => EndWaits(r, profile)
  <2>1. Len(q) + 1 \in 1 .. Len(r)
        BY <1>1
  <2> QED BY <1>1, <2>1 DEF EndWaits
<1> QED BY <1>2, <1>3 DEF r

(* The task that gets the lock leaves the others behind. *)
LEMMA EndTaken ==
  ASSUME NEW q \in Seq(Job), q # <<>>, NEW profile, EndWaits(q, profile)
  PROVE  Ends(Head(q), profile) \/ EndWaits(Tail(q), profile)
<1> DEFINE r == Tail(q)
<1>1. /\ Len(q) \in Nat /\ Len(q) > 0 /\ Len(r) = Len(q) - 1
      /\ \A i \in 1 .. Len(r) : r[i] = q[i + 1]
      BY HeadTailProperties, LenProperties, EmptySeq
<1>2. Head(q) = q[1]
      OBVIOUS
<1> HIDE DEF r
<1>3. PICK i \in 1 .. Len(q) : Ends(q[i], profile)
      BY DEF EndWaits
<1>4. CASE i = 1
      BY <1>2, <1>3, <1>4
<1>5. CASE i # 1
  <2>1. i - 1 \in 1 .. Len(r) /\ (i - 1) + 1 = i
        BY <1>1, <1>5
  <2>2. Ends(r[i - 1], profile)
        BY <1>1, <1>3, <2>1
  <2> QED BY <2>1, <2>2 DEF EndWaits, r
<1> QED BY <1>4, <1>5

(* No task waits in an empty queue. *)
LEMMA NoneWaits == \A profile : ~EndWaits(<<>>, profile)
BY DEF EndWaits

(* A step that revokes nothing: the document and the save stay as they are, *)
(* and nothing that ends a release leaves the queue.                        *)
Calm ==
  /\ UNCHANGED <<values, holder, revoked>> /\ epoch' >= epoch
  /\ EndQueued => EndWaits(queue', values.profile)
  /\ holder # None /\ holder.job.kind \in StartKinds => act' = act

(* A step that revokes: off at once, and an end waits for the lock; or,     *)
(* with nothing to stop, only overtaking what is being saved.               *)
Revokes ==
  /\ UNCHANGED holder /\ revoked' /\ epoch' > epoch
  /\ ~values'.release /\ values'.profile = values.profile
  /\ \/ EndWaits(queue', values.profile)
     \/ /\ UNCHANGED <<values, queue>>
  /\ holder # None /\ holder.job.kind \in StartKinds => act' = act

(* A calm step keeps the account of what ends. *)
LEMMA CalmEnds ==
  ASSUME IndEnd, IndType', Calm
  PROVE  IndEnd'
<1>1. holder # None => holder.epoch \in Nat
      BY DEF IndEnd, IndType, TypeOK, Holder
<1>2. epoch \in Nat /\ epoch' \in Nat
      BY DEF IndEnd, IndType, TypeOK
<1>3. HeldProfile'
      BY DEF Calm, IndEnd, HeldProfile
<1>4. EndQueued => EndQueued'
      BY DEF Calm, EndQueued
<1>5. holder # None /\ Granting /\ holder.epoch <= epoch => Granting'
      BY <1>1, <1>2 DEF Calm, Granting
<1>6. Ending'
      BY <1>4, <1>5 DEF Calm, IndEnd, Ending, Restoring
<1>7. Restoring'
      BY <1>1, <1>2 DEF Calm, IndEnd, Restoring, StartKinds
<1> QED BY <1>3, <1>6, <1>7 DEF IndEnd

(* A revocation leaves nothing released that no task will end. *)
LEMMA RevokesEnds ==
  ASSUME IndEnd, IndType', Revokes
  PROVE  IndEnd'
<1>1. holder # None => holder.epoch \in Nat /\ holder.stage \in {"save", "undo"}
      BY DEF IndEnd, IndType, TypeOK, Holder
<1>2. epoch \in Nat /\ epoch' \in Nat
      BY DEF IndEnd, IndType, TypeOK
<1>3. HeldProfile'
      BY DEF Revokes, IndEnd, HeldProfile
<1>4. Ending'
  <2>1. CASE EndWaits(queue', values.profile)
        BY <2>1 DEF Revokes, Ending, EndQueued
  <2>2. CASE UNCHANGED <<values, queue>>
    <3> SUFFICES ASSUME holder # None, holder.doc.release
                 PROVE  EndQueued' \/ Granting'
        BY <2>2 DEF Revokes, Ending
    <3>1. holder.stage = "save" /\ holder.epoch < epoch'
          BY <1>1, <1>2 DEF Revokes, IndEnd, Restoring
    <3>2. EndQueued => EndQueued'
          BY <2>2 DEF EndQueued
    <3>3. holder.job.kind \in StartKinds => Granting'
          BY <1>1, <1>2, <3>1 DEF Revokes, Granting
    <3>4. revoked \/ holder.job.kind \in StartKinds
          BY <2>2 DEF Revokes, IndEnd, Restoring
    <3> QED BY <3>2, <3>3, <3>4 DEF IndEnd, Ending, Granting
  <2> QED BY <2>1, <2>2 DEF Revokes
<1>5. Restoring'
      BY <1>1, <1>2 DEF Revokes, IndEnd, Restoring, StartKinds
<1> QED BY <1>3, <1>4, <1>5 DEF IndEnd

(* A Stop revokes, whatever has just left the queue. *)
LEMMA StopRevokes ==
  ASSUME IndType, NEW q \in Seq(Job), NEW b \in BOOLEAN, StopRelease(q, b),
         UNCHANGED holder,
         holder # None /\ holder.job.kind \in StartKinds => act' = act
  PROVE  Revokes
<1> DEFINE j == [kind |-> "stop", trev |-> values.trev, button |-> b]
<1>1. values \in Doc /\ values.trev \in Nat /\ TypeOK
      BY RevisionType DEF IndType, TypeOK
<1>2. j \in Job /\ Ends(j, values.profile)
      BY <1>1, JobType DEF Ends
<1>3. queue' = Append(q, j)
      BY DEF StopRelease
<1> HIDE DEF j
<1>4. EndWaits(queue', values.profile)
      BY <1>2, <1>3, EndAppended
<1>5. /\ ~values'.release /\ values'.profile = values.profile
      /\ epoch' > epoch /\ revoked'
      BY <1>1, StopType, OffType
<1> QED BY <1>4, <1>5 DEF Revokes

(* Beginning an action: a Stop revokes, a Start or Apply only asks. *)
LEMMA BeginEnds ==
  ASSUME IndEnd, IndType', act = None, NEW by, NEW kind, NEW ctx,
         Begin(by, kind, ctx), UNCHANGED holder
  PROVE  IndEnd'
<1>1. /\ IndType /\ queue \in Seq(Job) /\ values \in Doc /\ epoch \in Nat
      /\ TypeOK
      BY DEF IndEnd, IndType, TypeOK
<1>2. ~(holder # None /\ holder.job.kind \in StartKinds)
      BY <1>1, StartSaving DEF Waiting
<1>3. CASE StopRelease(queue, TRUE)
      BY <1>1, <1>2, <1>3, StopRevokes, RevokesEnds
<1>4. CASE /\ \/ Invalidate(values) /\ queue' = Append(queue, [kind |-> "approve"])
              \/ UNCHANGED epoch /\ queue' = Append(queue, [kind |-> "pv"])
           /\ UNCHANGED <<values, revoked>>
  <2>1. PICK j \in Job : queue' = Append(queue, j)
        BY <1>4, JobType
  <2>2. epoch' >= epoch
        BY <1>1, <1>4, InvalidateType
  <2>3. EndQueued => EndWaits(queue', values.profile)
        BY <1>1, <2>1, EndAppended DEF EndQueued
  <2> QED BY <1>2, <1>4, <2>2, <2>3, CalmEnds DEF Calm
<1> QED BY <1>3, <1>4 DEF Begin

(* Users ask for the lock; a profile change ends the release first. *)
LEMMA UsersEnds ==
  ASSUME IndEnd, IndType', Users
  PROVE  IndEnd'
<1>1. /\ IndType /\ queue \in Seq(Job) /\ values \in Doc /\ epoch \in Nat
      /\ TypeOK
      BY DEF IndEnd, IndType, TypeOK
<1>2. CASE \E c \in Cards, kind \in {"start", "apply", "stop"} : Send(c, kind)
      BY <1>1, <1>2, CalmEnds
      DEF Send, Calm, EndQueued, docVars, lockVars, fenceVars, history
<1>3. CASE Press
      BY <1>1, <1>3, BeginEnds DEF Press
<1>4. CASE \/ \E p \in Powers : SetPower(p)
           \/ \E d \in Delays : SetDelay(d)
           \/ \E d \in Durations \cup {None} : SetDuration(d)
  <2>1. PICK j \in Job : Ask(j)
        BY <1>4, JobType DEF SetPower, SetDelay, SetDuration
  <2>2. EndQueued => EndWaits(queue', values.profile)
        BY <1>1, <2>1, EndAppended DEF Ask, EndQueued
  <2> QED BY <1>1, <2>1, <2>2, CalmEnds DEF Ask, Calm, docVars, fenceVars, history
<1>5. ASSUME NEW p \in Profiles, SetProfile(p)
      PROVE  IndEnd'
  <2> DEFINE j == [kind |-> "profile", profile |-> p]
             off == [values EXCEPT !.release = FALSE]
  <2>1. j \in Job /\ (p # values.profile => Ends(j, values.profile))
        BY JobType DEF Ends
  <2>2. off \in Doc /\ ~off.release /\ off.profile = values.profile
        BY <1>1 DEF Doc
  <2>3. queue' = Append(queue, j) /\ UNCHANGED <<holder, act>>
        BY <1>5 DEF SetProfile
  <2>4. CASE /\ p # values.profile /\ values' = off /\ ReleaseChanged(off)
             /\ revoked' = TRUE
    <3> HIDE DEF j, off
    <3>1. EndWaits(queue', values.profile)
          BY <1>1, <2>1, <2>3, <2>4, EndAppended
    <3>2. epoch' > epoch
          BY <1>1, <2>2, <2>4, InvalidateType
    <3> QED BY <2>2, <2>3, <2>4, <3>1, <3>2, RevokesEnds DEF Revokes
  <2>5. CASE UNCHANGED <<values, epoch, revoked>>
    <3> HIDE DEF j, off
    <3>1. EndQueued => EndWaits(queue', values.profile)
          BY <1>1, <2>1, <2>3, EndAppended DEF EndQueued
    <3> QED BY <1>1, <2>3, <2>5, <3>1, CalmEnds DEF Calm
  <2> QED BY <1>5, <2>4, <2>5 DEF SetProfile
<1> QED BY <1>2, <1>3, <1>4, <1>5 DEF Users

(* Without a loss of authority the environment only overtakes or restarts. *)
LEMMA EnvironmentEnds ==
  ASSUME IndEnd, IndType', Environment \/ Tick, "loss" \notin Features
  PROVE  IndEnd'
<1>1. /\ IndType /\ queue \in Seq(Job) /\ values \in Doc /\ epoch \in Nat
      /\ TypeOK
      BY DEF IndEnd, IndType, TypeOK
<1>2. CASE Observe \/ TakeControl
  <2>1. epoch' >= epoch
        BY <1>1, <1>2, InvalidateType DEF Observe, TakeControl
  <2> QED BY <1>2, <2>1, CalmEnds
          DEF Observe, TakeControl, Calm, EndQueued, docVars, lockVars, history
<1>3. ~LoseAuthority
      BY DEF LoseAuthority, Enabled
<1>4. CASE ReevaluatePending
  <2> DEFINE j == [kind |-> "equivalent"]
  <2>1. j \in Job /\ Ask(j)
        BY <1>4, JobType DEF ReevaluatePending
  <2> HIDE DEF j
  <2>2. EndQueued => EndWaits(queue', values.profile)
        BY <1>1, <2>1, EndAppended DEF Ask, EndQueued
  <2> QED BY <1>1, <2>1, <2>2, CalmEnds DEF Ask, Calm, docVars, fenceVars, history
<1>5. CASE Restart
  <2>1. disk' \in Doc
        BY DEF IndType, TypeOK
  <2>2. holder' = None /\ ~values'.release
        BY <1>5, <2>1, OffType DEF Restart
  <2> QED BY <2>2 DEF IndEnd, HeldProfile, Ending, Restoring
<1>6. CASE Tick
      BY <1>1, <1>6, CalmEnds
      DEF Tick, Calm, EndQueued, docVars, lockVars, fenceVars, history
<1> QED BY <1>2, <1>3, <1>4, <1>5, <1>6 DEF Environment

(* Clicks, deadlines and the end of a dispatch. *)
LEMMA HandlersEnds ==
  ASSUME IndEnd, IndType',
         (\E c \in Cards : Stop(c) \/ StartOrApply(c)) \/ Fire \/ TaskEnds
  PROVE  IndEnd'
<1>1. /\ IndType /\ queue \in Seq(Job) /\ values \in Doc /\ epoch \in Nat
      /\ TypeOK
      BY DEF IndEnd, IndType, TypeOK
<1>2. ASSUME NEW c \in Cards, Stop(c)
      PROVE  IndEnd'
  <2>1. UNCHANGED <<holder, act>>
        BY <1>2 DEF Stop
  <2>2. CASE UNCHANGED <<values, queue, epoch, revoked>>
        BY <1>1, <2>1, <2>2, CalmEnds DEF Calm, EndQueued
  <2>3. CASE StopRelease(queue, FALSE)
        BY <1>1, <2>1, <2>3, StopRevokes, RevokesEnds
  <2>4. CASE /\ ~values.release /\ epoch' = epoch + 1 /\ revoked' = TRUE
             /\ UNCHANGED <<values, queue>>
    <3>1. epoch' > epoch
          BY <1>1, <2>4
    <3> QED BY <2>1, <2>4, <3>1, RevokesEnds DEF Revokes
  <2> QED BY <1>2, <2>2, <2>3, <2>4 DEF Stop
<1>3. ASSUME NEW c \in Cards, StartOrApply(c)
      PROVE  IndEnd'
  <2>1. UNCHANGED holder /\ act = None
        BY <1>3 DEF StartOrApply
  <2>2. CASE UNCHANGED <<act, values, queue, epoch, revoked>>
        BY <1>1, <2>1, <2>2, CalmEnds DEF Calm, EndQueued
  <2>3. CASE Begin(c, click[c].kind, click[c].ctx)
        BY <2>1, <2>3, BeginEnds
  <2> QED BY <1>3, <2>2, <2>3 DEF StartOrApply
<1>4. CASE Fire
  <2>1. UNCHANGED <<holder, act>>
        BY <1>4 DEF Fire
  <2>2. CASE StopRelease(queue, FALSE)
        BY <1>1, <2>1, <2>2, StopRevokes, RevokesEnds
  <2>3. CASE UNCHANGED <<values, epoch, revoked, queue>>
        BY <1>1, <2>1, <2>3, CalmEnds DEF Calm, EndQueued
  <2>4. CASE /\ \E d \in EditDeadline(values, attempted) : d <= now
             /\ queue' = Append(queue, [kind |-> "expire",
                                        rev |-> values.edit.rev,
                                        sched |-> values.edit.sched])
             /\ UNCHANGED <<values, epoch, revoked>>
    <3> DEFINE j == [kind |-> "expire", rev |-> values.edit.rev,
                     sched |-> values.edit.sched]
    <3>1. values.edit \in Edit
          BY <1>1, <2>4 DEF EditDeadline, Doc
    <3>2. j \in Job /\ queue' = Append(queue, j)
          BY <2>4, <3>1, JobType DEF Edit
    <3> HIDE DEF j
    <3>3. EndQueued => EndWaits(queue', values.profile)
          BY <1>1, <3>2, EndAppended DEF EndQueued
    <3> QED BY <1>1, <2>1, <2>4, <3>3, CalmEnds DEF Calm
  <2> QED BY <1>4, <2>2, <2>3, <2>4 DEF Fire
<1>5. CASE TaskEnds
  <2>1. ~(holder # None /\ holder.job.kind \in StartKinds)
        BY <1>1, <1>5, StartSaving DEF TaskEnds, Waiting
  <2> QED BY <1>1, <1>5, <2>1, CalmEnds
          DEF TaskEnds, Calm, EndQueued, docVars, lockVars, fenceVars, history
<1> QED BY <1>2, <1>3, <1>4, <1>5

(* The task that ends a release saves a document that is not released. *)
LEMMA EndSaves ==
  ASSUME values \in Doc, NEW job \in Job, Ends(job, values.profile),
         NEW d \in Candidates(job)
  PROVE  d # None /\ ~d.release
<1>1. Off(values) \in Doc /\ ~Off(values).release
      BY OffType
<1>2. CASE job.kind = "stop"
  <2>1. d = [Off(values) EXCEPT !.trev = job.trev] /\ job.trev \in Nat
        BY <1>2 DEF Candidates, Job
  <2>2. d \in Doc /\ ~d.release
        BY <1>1, <2>1 DEF Doc
  <2> QED BY <2>2, NoneAssumption
<1>3. CASE job.kind = "profile" /\ job.profile # values.profile
  <2>1. d = [Off(values) EXCEPT !.profile = job.profile, !.trev = @ + 1]
          /\ job.profile \in Profiles
        BY <1>3 DEF Candidates, Job
  <2>2. d \in Doc /\ ~d.release
        BY <1>1, <2>1, RevisionType DEF Doc
  <2> QED BY <2>2, NoneAssumption
<1> QED BY <1>2, <1>3 DEF Ends

(* A task that has nothing to save gives the lock back. *)
LEMMA IdleEnds ==
  ASSUME IndEnd, IndType', queue # <<>>, ~Ends(Head(queue), values.profile),
         queue' = Tail(queue), holder = None,
         UNCHANGED <<values, holder, revoked>>, epoch' >= epoch
  PROVE  IndEnd'
<1>1. queue \in Seq(Job)
      BY DEF IndEnd, IndType, TypeOK
<1>2. EndQueued => EndWaits(queue', values.profile)
      BY <1>1, EndTaken DEF EndQueued
<1> QED BY <1>2, CalmEnds DEF Calm

(* A task that begins to save: what it keeps released will be ended if it   *)
(* was revoked, and only a Start turns on what was off.                     *)
LEMMA BeginsEnds ==
  ASSUME IndEnd, IndType', NEW d \in Doc, Begins(d)
  PROVE  IndEnd'
<1> DEFINE job == Head(queue)
<1>1. /\ job \in Job /\ values \in Doc /\ now \in Nat /\ epoch \in Nat
      /\ TypeOK /\ queue \in Seq(Job) /\ queue # <<>> /\ holder = None
      /\ UNCHANGED <<values, act, epoch, revoked>> /\ queue' = Tail(queue)
      BY TakeTask DEF Begins, IndEnd, IndType, TypeOK
<1>2. /\ holder' # None /\ holder'.job = job /\ holder'.doc = d
      /\ holder'.stage = "save" /\ holder'.epoch = epoch
      BY <1>1, HoldType DEF Begins
<1>3. /\ d.profile # values.profile => job.kind = "profile"
      /\ job.kind = "profile" => ~d.release
      /\ d.release => \/ values.release \/ job.kind = "pv"
                      \/ (job.kind = "approve" /\ act.kind = "start")
      /\ d.release => ~Ends(job, values.profile)
  <2>1. CASE d \in Candidates(job) /\ job.kind \notin StartKinds
        BY <1>1, <2>1, NoneAssumption, CandidatesType, EndSaves
  <2>2. CASE d = Approval(act.kind = "start") /\ job.kind = "approve"
    <3>1. /\ d.profile = values.profile
          /\ d.release => act.kind = "start" \/ values.release
          BY <1>1, <2>2, ApprovalType
    <3> QED BY <2>2, <3>1 DEF Ends
  <2>3. CASE d = [values EXCEPT !.release = TRUE] /\ job.kind = "pv"
        BY <1>1, <2>3 DEF Doc, Ends
  <2> QED BY <2>1, <2>2, <2>3 DEF Begins
<1> HIDE DEF job
<1>4. EndQueued => EndQueued' \/ Ends(job, values.profile)
      BY <1>1, EndTaken DEF EndQueued, job
<1>5. HeldProfile'
      BY <1>1, <1>2, <1>3 DEF HeldProfile
<1>6. Ending'
  <2>1. revoked /\ values.release => EndQueued
        BY <1>1 DEF IndEnd, Ending
  <2>2. revoked /\ values.release => EndQueued' \/ ~d.release
        BY <1>3, <1>4, <2>1
  <2>3. job.kind = "pv" \/ (job.kind = "approve" /\ act.kind = "start")
          => Granting'
        BY <1>1, <1>2 DEF Granting, StartKinds
  <2> QED BY <1>1, <1>2, <1>3, <2>2, <2>3 DEF Ending
<1>7. Restoring'
      BY <1>1, <1>2, <1>3 DEF Restoring, StartKinds
<1> QED BY <1>5, <1>6, <1>7 DEF IndEnd

(* A waiting task gets the lock and saves, or finds nothing to do. *)
LEMMA AcquireEnds ==
  ASSUME IndEnd, IndType', Acquire \/ AcquireApproval \/ AcquirePV
  PROVE  IndEnd'
<1>1. /\ IndType /\ TypeOK /\ queue \in Seq(Job) /\ values \in Doc
      /\ now \in Nat /\ epoch \in Nat /\ queue # <<>> /\ holder = None
      /\ Head(queue) \in Job /\ Tail(queue) \in Seq(Job)
      BY TakeTask
      DEF IndEnd, IndType, TypeOK, Acquire, AcquireApproval, AcquirePV
<1>2. CASE Acquire
  <2>1. PICK d \in Candidates(Head(queue)) :
          IF d = None THEN holder' = None ELSE Hold(d)
        BY <1>2 DEF Acquire
  <2>2. /\ queue' = Tail(queue) /\ Head(queue).kind \notin StartKinds
        /\ UNCHANGED <<values, disk, storageError, act, epoch, revoked>>
        BY <1>2 DEF Acquire, StartKinds, docVars, fenceVars, history
  <2>3. CASE d = None
    <3>1. ~Ends(Head(queue), values.profile)
          BY <1>1, <2>3, EndSaves
    <3> QED BY <1>1, <2>1, <2>2, <2>3, <3>1, IdleEnds
  <2>4. CASE d # None
    <3>1. d \in Doc
          BY <1>1, <2>4, CandidatesType
    <3>2. Begins(d)
          BY <1>1, <2>1, <2>2, <2>4 DEF Begins
    <3> QED BY <3>1, <3>2, BeginsEnds
  <2> QED BY <2>3, <2>4
<1>3. CASE AcquireApproval
  <2>1. /\ Head(queue).kind = "approve" /\ ~Ends(Head(queue), values.profile)
        /\ UNCHANGED <<disk, storageError>>
        BY <1>3 DEF AcquireApproval, Ends
  <2>2. CASE /\ Invalidate(values) /\ queue' = Tail(queue)
             /\ UNCHANGED <<holder, values, revoked>>
    <3>1. epoch' >= epoch
          BY <1>1, <2>2, InvalidateType
    <3> QED BY <1>1, <2>1, <2>2, <3>1, IdleEnds
  <2>3. CASE /\ Hold(Approval(act.kind = "start")) /\ queue' = Tail(queue)
             /\ UNCHANGED <<values, act, epoch, revoked>>
    <3> DEFINE d == Approval(act.kind = "start")
    <3>1. d \in Doc
          BY <1>1, ApprovalType
    <3>2. Begins(d)
          BY <1>1, <2>1, <2>3 DEF Begins
    <3> HIDE DEF d
    <3> QED BY <3>1, <3>2, BeginsEnds
  <2>4. CASE ApprovalFailed(Tail(queue)) /\ UNCHANGED holder
    <3>1. CASE StopRelease(Tail(queue), TRUE)
          BY <1>1, <2>4, <3>1, StopRevokes, RevokesEnds
    <3>2. CASE /\ ReleaseChanged(values) \/ UNCHANGED epoch
               /\ queue' = Tail(queue) /\ UNCHANGED <<values, revoked>>
      <4>1. epoch' >= epoch
            BY <1>1, <3>2, InvalidateType
      <4> QED BY <1>1, <2>1, <2>4, <3>2, <4>1, IdleEnds
    <3> QED BY <2>4, <3>1, <3>2 DEF ApprovalFailed
  <2> QED BY <1>3, <2>2, <2>3, <2>4 DEF AcquireApproval
<1>4. CASE AcquirePV
  <2>1. /\ Head(queue).kind = "pv" /\ ~Ends(Head(queue), values.profile)
        /\ queue' = Tail(queue)
        /\ UNCHANGED <<values, disk, storageError, epoch, revoked>>
        BY <1>4 DEF AcquirePV, Ends, docVars, fenceVars, history
  <2>2. CASE UNCHANGED holder
        BY <1>1, <2>1, <2>2, IdleEnds
  <2>3. CASE Hold([values EXCEPT !.release = TRUE]) /\ UNCHANGED act
    <3> DEFINE d == [values EXCEPT !.release = TRUE]
    <3>1. d \in Doc
          BY <1>1 DEF Doc
    <3>2. Begins(d)
          BY <1>1, <2>1, <2>3 DEF Begins
    <3> HIDE DEF d
    <3> QED BY <3>1, <3>2, BeginsEnds
  <2> QED BY <1>4, <2>2, <2>3 DEF AcquirePV
<1> QED BY <1>2, <1>3, <1>4

(* A save that ends: what it keeps released was a Start's, or an end waits. *)
LEMMA StoredEnds ==
  ASSUME IndEnd, IndType', StoreAnswers, UNCHANGED queue,
         values' = holder.doc, holder' = None,
         revoked' => revoked,
         holder # None /\ revoked' => ~Granting
  PROVE  IndEnd'
<1>1. holder # None
      BY StoreKinds DEF IndEnd
<1>2. holder.doc.release => holder.doc.profile = values.profile
      BY <1>1 DEF IndEnd, HeldProfile, Restoring
<1>3. revoked' /\ holder.doc.release => EndQueued
      BY <1>1 DEF IndEnd, Ending
<1>4. EndQueued /\ holder.doc.release => EndQueued'
      BY <1>2 DEF EndQueued
<1> QED BY <1>3, <1>4 DEF IndEnd, HeldProfile, Ending, Restoring

(* Taking back releases nothing. *)
LEMMA TakenBackEnds ==
  ASSUME IndEnd, IndType', NEW d \in Doc, TakesBack(d), epoch' >= epoch
  PROVE  IndEnd'
<1>1. /\ values \in Doc /\ epoch \in Nat /\ epoch' \in Nat
      /\ holder \in Holder /\ holder.doc \in Doc /\ holder # None
      BY StorageType DEF IndEnd, IndType, TypeOK, TakesBack
<1>2. /\ holder' # None /\ holder'.stage = "undo" /\ holder'.doc = d
      /\ holder'.job = holder.job /\ holder'.epoch = holder.epoch
      BY TakesBackType DEF IndEnd
<1>3. ~d.release /\ ~values'.release /\ d.profile = values'.profile
  <2>1. CASE d = Off(values) /\ values' = d
        BY <1>1, <2>1, OffType
  <2>2. CASE d = Undone /\ values' = Unreleased(holder.doc)
    <3>1. ~d.release /\ d.profile = holder.doc.profile
          BY <1>1, <2>2, UndoneType DEF IndEnd
    <3> QED BY <1>1, <2>2, <3>1 DEF Unreleased, Doc
  <2> QED BY <2>1, <2>2 DEF TakesBack
<1>4. holder.epoch \in Nat /\ holder'.epoch <= epoch'
  <2>1. holder.epoch \in Nat
        BY <1>1 DEF Holder
  <2> QED BY <1>1, <1>2, <2>1 DEF IndEnd, Restoring
<1> QED BY <1>2, <1>3, <1>4 DEF IndEnd, HeldProfile, Ending, Restoring

(* While storage works, every answer keeps the account of what ends. *)
LEMMA StoreEnds ==
  ASSUME IndEnd, IndType', StoreAnswers, "storage" \notin Features
  PROVE  IndEnd'
<1>1. /\ IndType /\ TypeOK /\ values \in Doc /\ epoch \in Nat
      /\ holder # None /\ holder \in Holder /\ holder.doc \in Doc
      BY StoreKinds, StorageType DEF IndEnd, IndType, TypeOK
<1>2. ~NotStored
      BY DEF NotStored, Enabled
<1>3. CASE PlainStored
      BY <1>3, StoredEnds
      DEF PlainStored, Saving, Granting, PlainKinds, StartKinds, history
<1>4. CASE ExpireUndone \/ SupersededUndone
  <2>1. /\ holder.stage = "undo" /\ values' = holder.doc /\ holder' = None
        /\ UNCHANGED <<queue, revoked>>
        BY <1>4 DEF ExpireUndone, SupersededUndone, Saving, history
  <2> QED BY <2>1, StoredEnds DEF Granting
<1>5. CASE ApprovalStored \/ PVStored
  <2>1. /\ holder.epoch = epoch /\ values' = holder.doc /\ holder' = None
        /\ UNCHANGED queue
        /\ \/ ~revoked'
           \/ UNCHANGED revoked /\ holder.job.kind = "approve" /\ act.kind # "start"
        BY <1>5
        DEF ApprovalStored, PVStored, Saving, StillCurrent, history
  <2> QED BY <2>1, StoredEnds DEF Granting
<1>6. CASE ExpireStored
  <2>1. CASE values' = holder.doc /\ holder' = None /\ UNCHANGED revoked
        BY <1>6, <2>1, StoredEnds
        DEF ExpireStored, Saving, Granting, StartKinds
  <2>2. CASE /\ values' = Off(values) /\ ReleaseChanged(Off(values))
             /\ holder' = [holder EXCEPT !.stage = "undo", !.doc = Off(values)]
    <3>1. /\ Off(values) \in Doc /\ ~Off(values).release
          /\ epoch' >= epoch
      <4>1. Off(values) \in Doc /\ ~Off(values).release
            BY <1>1, OffType
      <4>2. epoch' > epoch /\ epoch' \in Nat
            BY <1>1, <2>2, <4>1, InvalidateType
      <4> QED BY <1>1, <4>1, <4>2
    <3>2. TakesBack(Off(values))
          BY <1>1, <1>6, <2>2 DEF ExpireStored, Saving, TakesBack
    <3> QED BY <1>1, <2>2, <3>1, <3>2, TakenBackEnds
  <2> QED BY <1>6, <2>1, <2>2 DEF ExpireStored
<1>7. CASE Superseded
  <2>1. TakesBack(Undone) /\ Undone \in Doc /\ UNCHANGED epoch
        BY <1>1, <1>7, UndoneType
        DEF Superseded, Saving, TakesBack, Undone, Unreleased, fenceVars
  <2> QED BY <1>1, <2>1, TakenBackEnds
<1> QED BY <1>2, <1>3, <1>4, <1>5, <1>6, <1>7
    DEF StoreAnswers, PlainNotStored, ExpireNotStored, ApprovalNotStored,
        PVNotStored

(* Every step of a station that keeps its authority, with storage working. *)
LEMMA IndEndNext ==
  ASSUME "loss" \notin Features, "storage" \notin Features, IndEnd,
         [Next]_vars
  PROVE  IndEnd'
<1>1. IndType'
      BY IndTypeNext DEF IndEnd
<1>2. CASE UNCHANGED vars
  <2>1. epoch \in Nat
        BY DEF IndEnd, IndType, TypeOK
  <2> QED BY <1>1, <1>2, <2>1, CalmEnds
          DEF vars, Calm, EndQueued, docVars, lockVars, fenceVars, history
<1> QED BY <1>1, <1>2, UsersEnds, EnvironmentEnds, HandlersEnds, AcquireEnds,
           StoreEnds DEF Next, Handlers

(* While the station keeps its authority and storage works: once no write   *)
(* is pending, a release that is on has not been revoked since its Start,   *)
(* with or without the generic button and for every interleaving of stops,  *)
(* profile changes and ends of runs with the saves under way.               *)
THEOREM SettledReleaseHolds ==
  ASSUME "loss" \notin Features, "storage" \notin Features
  PROVE  Spec => []SettledRelease
<1>1. Init => IndEnd
  <2> SUFFICES ASSUME Init
               PROVE  IndEnd
      OBVIOUS
  <2>1. holder = None /\ ~values.release
        BY DEF Init
  <2> QED BY <2>1, IndTypeInit DEF IndEnd, HeldProfile, Ending, Restoring
<1>2. IndEnd /\ [Next]_vars => IndEnd'
      BY IndEndNext
<1>3. IndEnd => SettledRelease
  <2> SUFFICES ASSUME IndEnd, Idle, values.release
               PROVE  ~revoked
      BY DEF SettledRelease
  <2>1. ~EndQueued
        BY NoneWaits DEF Idle, EndQueued
  <2> QED BY <2>1 DEF IndEnd, Ending, Idle
<1> QED BY <1>1, <1>2, <1>3, PTL DEF Spec

=============================================================================
