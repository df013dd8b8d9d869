------------------------ MODULE BatteryReserveProofs ------------------------
(***************************************************************************)
(* Theorems about BatteryReserve, for every range and step of the reserve, *)
(* every value users set and every bound.  The state stays well typed; a   *)
(* value the user has set is not written over; the task comes to rest with *)
(* the override that is called for; and, unless a call lands after the     *)
(* journal stopped waiting for it, an override that shows has its original *)
(* value in the store, as the contract of ownership demands.               *)
(***************************************************************************)
EXTENDS BatteryReserve, TLAPS

-----------------------------------------------------------------------------
(* Types *)

(* Rounding down to a multiple of a positive step does not exceed a number. *)
LEMMA Rounding ==
  \A n \in Int, s \in Nat \ {0} : /\ (n \div s) * s \in Int
                                   /\ (n \div s) * s <= n
<1> TAKE n \in Int, s \in Nat \ {0}
<1>1. /\ n \div s \in Int /\ n % s \in 0..(s-1)
      /\ n = s * (n \div s) + (n % s)
      OBVIOUS
<1> DEFINE q == n \div s
<1>2. q * s = s * q /\ q * s \in Int
  <2> HIDE DEF q
  <2> SUFFICES ASSUME q \in Int PROVE q * s = s * q /\ q * s \in Int
      BY <1>1 DEF q
  <2> QED OBVIOUS
<1> QED BY <1>1, <1>2

LEMMA PlannedType ==
  ASSUME NEW requested \in Nat, soc \in Nat, NEW original \in Levels
  PROVE  Planned(requested, original) \in Levels
<1> DEFINE bounded == Lesser(Lesser(requested, soc), High)
           whole == ((bounded - Low) \div Step) * Step
<1>1. bounded \in Int /\ bounded <= High
      BY RangeAssumption DEF Lesser
<1>2. whole \in Int /\ whole <= bounded - Low
  <2> HIDE DEF bounded
  <2>1. bounded - Low \in Int
        BY <1>1, RangeAssumption
  <2> QED BY <2>1, Rounding, RangeAssumption
<1>3. Planned(requested, original) = Greater(original, Low + whole)
      BY DEF Planned
<1> HIDE DEF whole, bounded
<1>4. Low + whole \in Int /\ Low + whole <= High
      BY <1>1, <1>2, RangeAssumption
<1> QED BY <1>3, <1>4, RangeAssumption DEF Greater, Levels


(* What the types rest on: a journal exists where its fields are used.      *)
Aware ==
  /\ task.pc = "known" => R # None
  /\ task.pc = "save" /\ task.then \in {"known", "active", "dispatch"} => R # None
  /\ task.pc \in {"dispatch", "write"} => R # None /\ task.target \in Levels
Typed == TypeOK /\ Aware

Places == Straight \cup Awaiting \cup {"off", "done"}
Thens == {"known", "active", "external", "dropped", "dispatch", "restored", "after"}

(* A task that moves on keeps what it has read. *)
Keeps(t) == /\ t.requested = task.requested /\ t.current = task.current
            /\ t.target = task.target
LEMMA GoesType ==
  ASSUME task \in Task, NEW pc \in Places, Goes(pc)
  PROVE  /\ task' \in Task /\ task'.pc = pc /\ task'.then = task.then
         /\ Keeps(task')
BY DEF Task, Goes, Places, Keeps, Straight, Awaiting

LEMMA SavesType ==
  ASSUME task \in Task, NEW then \in Thens, Saves(then)
  PROVE  /\ task' \in Task /\ task'.pc = "save" /\ task'.then = then
         /\ Keeps(task')
BY DEF Task, Saves, Thens, Keeps, Awaiting

LEMMA WritesType ==
  ASSUME task \in Task, NEW target \in Levels, NEW then \in Thens, Writes(target, then)
  PROVE  /\ task' \in Task /\ task'.pc = "dispatch" /\ task'.then = then
         /\ task'.target = target
BY DEF Task, Writes, Thens, Straight

(* A task that looks at the reserve remembers what it saw. *)
LEMMA ReadsType ==
  ASSUME Typed
  PROVE  /\ \A pc \in Places : Reads(pc) =>
              /\ task' \in Task /\ task'.pc = pc /\ task'.then = task.then
              /\ task'.current = entity.value /\ task'.requested = Asked
         /\ \A then \in Thens : ReadsAndSaves(then) =>
              /\ task' \in Task /\ task'.pc = "save" /\ task'.then = then
              /\ task'.current = entity.value /\ task'.requested = Asked
<1>1. Asked \in Nat \cup {None} /\ entity.value \in Levels /\ task \in Task
      BY DEF Typed, TypeOK, Asked, Task
<1>2. ASSUME NEW pc \in Places, Reads(pc)
      PROVE  /\ task' \in Task /\ task'.pc = pc /\ task'.then = task.then
             /\ task'.current = entity.value /\ task'.requested = Asked
      BY <1>1, <1>2 DEF Reads, Task, Places
<1>3. ASSUME NEW then \in Thens, ReadsAndSaves(then)
      PROVE  /\ task' \in Task /\ task'.pc = "save" /\ task'.then = then
             /\ task'.current = entity.value /\ task'.requested = Asked
      BY <1>1, <1>3 DEF ReadsAndSaves, Task, Thens, Awaiting
<1> QED BY <1>2, <1>3

(* Outcomes leave the journal alone; what is forgotten is only the journal. *)
LEMMA OwnType ==
  \A o \in Own, s \in Status :
    /\ Settled(o, s) \in Own /\ Settled(o, s).record = o.record /\ Settled(o, s).status = s
    /\ Forgotten(o) \in Own /\ Forgotten(o).record = None /\ Forgotten(o).status = o.status
    /\ [o EXCEPT !.status = s] \in Own /\ [o EXCEPT !.status = s].record = o.record
    /\ [o EXCEPT !.status = s].status = s
BY DEF Own, Settled, Forgotten, Journal

LEMMA FailsType ==
  ASSUME own \in Own, task \in Task, Fails
  PROVE  /\ own' \in Own /\ R' = R /\ own'.status = "error"
         /\ task' \in Task /\ task'.pc = "after"
BY DEF Own, Task, Fails, Goes, R, Status, Straight


-----------------------------------------------------------------------------
(* What each action does to the journal, the status and the task, and that  *)
(* it leaves the state well typed.                                          *)

LEMMA OnlyTaskType ==
  ASSUME Typed, OnlyTask, own' \in Own, task' \in Task, Aware'
  PROVE  Typed'
BY DEF Typed, TypeOK, OnlyTask, world

(* The history attributes what it did before. *)
SamePast == /\ past'.base = past.base /\ past'.ours = past.ours /\ past'.raced = past.raced
Around == {"loop", "sense", "update", "after", "done"}
Certain == {"active", "preserved"}

(* The task moves on with the journal it has. *)
Passes ==
  /\ R' = R /\ UNCHANGED <<entity, disk, flight>> /\ SamePast
  /\ task'.pc \in Around

LEMMA LoadType ==
  ASSUME Typed, Load
  PROVE  /\ Typed' /\ R' = disk /\ own'.status = own.status
         /\ UNCHANGED <<entity, disk, flight, past>> /\ task'.pc \in {"update", "loop"}
<1>1. own' \in Own /\ R' = disk /\ own'.status = own.status
      BY DEF Load, Typed, TypeOK, Own, R
<1>2. task' \in Task /\ task'.pc \in {"update", "loop"}
  <2>1. task \in Task
        BY DEF Typed, TypeOK
  <2>2. \/ task' = [task EXCEPT !.pc = "update", !.requested = None]
        \/ task' = [task EXCEPT !.pc = "loop", !.for = "cycle"]
        BY DEF Load
  <2> QED BY <2>1, <2>2 DEF Task, Straight
<1> QED BY <1>1, <1>2 DEF Load, Typed, TypeOK, Aware, world

LEMMA IterateType ==
  ASSUME Typed, Iterate
  PROVE  Typed' /\ Passes /\ own'.status = own.status
<1>1. own' \in Own /\ R' = R /\ own'.status = own.status
  <2>1. own \in Own
        BY DEF Typed, TypeOK
  <2> QED BY <2>1 DEF Iterate, Own, R
<1>2. task' \in Task /\ task'.pc \in {"update", "sense"}
  <2>1. CASE Goes("sense")
        BY <2>1, GoesType DEF Typed, TypeOK, Places, Straight
  <2>2. CASE task' = [task EXCEPT !.pc = "update", !.for = "remap", !.requested = None]
        BY <2>2 DEF Typed, TypeOK, Task, Straight
  <2> QED BY <2>1, <2>2 DEF Iterate
<1>3. /\ past' \in [base: Levels, ours: BOOLEAN, raced: BOOLEAN, touched: BOOLEAN]
      /\ SamePast
      BY DEF Iterate, Typed, TypeOK, SamePast
<1> QED BY <1>1, <1>2, <1>3 DEF Iterate, Typed, TypeOK, Aware, world, Passes, Around

LEMMA FinishType ==
  ASSUME Typed, Finish \/ Hold
  PROVE  Typed' /\ Passes /\ own'.status = own.status
<1>1. own' = own /\ OnlyTask
      BY DEF Finish, Hold
<1>2. task' \in Task /\ task'.pc \in {"done", "loop"}
      BY GoesType DEF Finish, Hold, Typed, TypeOK, Task, Straight, Idle, Goes
<1>3. Aware'
      BY <1>2 DEF Aware
<1> QED BY <1>1, <1>2, <1>3, OnlyTaskType
        DEF Typed, TypeOK, Passes, Around, SamePast, OnlyTask, R

LEMMA EvaluateType ==
  ASSUME Typed, Evaluate
  PROVE  /\ Typed' /\ Passes
         /\ \/ own'.status = own.status
            \/ own'.status \notin Certain
            \/ entity.value = IF R.pending # None THEN R.pending ELSE R.temporary
<1>1. /\ own' \in Own /\ R' = R
      /\ \/ own'.status \in {own.status, "write_unconfirmed"}
         \/ entity.value = IF R.pending # None THEN R.pending ELSE R.temporary
      BY DEF Evaluate, Typed, TypeOK, Own, Resumed, R, Status
<1>2. task' \in Task /\ task'.pc = "update"
      BY InputsAssumption DEF Evaluate, Typed, TypeOK, Task, Straight
<1>3. Aware' /\ OnlyTask
      BY <1>2 DEF Aware, Evaluate
<1> QED BY <1>1, <1>2, <1>3, OnlyTaskType
        DEF Passes, Around, SamePast, OnlyTask, R, Certain

LEMMA AfterType ==
  ASSUME Typed, After
  PROVE  Typed' /\ Passes /\ own'.status = own.status
<1>1. own' \in Own /\ R' = R /\ own'.status = own.status
      BY DEF After, Typed, TypeOK, Own, R
<1>2. task' \in Task /\ task'.pc \in {"loop", "sense"}
      BY DEF After, Typed, TypeOK, Task, Straight, Goes
<1>3. /\ past' \in [base: Levels, ours: BOOLEAN, raced: BOOLEAN, touched: BOOLEAN]
      /\ SamePast
      BY DEF After, Typed, TypeOK, SamePast
<1>4. Aware'
      BY <1>2 DEF Aware
<1>5. alarm' \in BOOLEAN /\ dirty' \in BOOLEAN
      BY DEF After, Typed, TypeOK
<1> QED BY <1>1, <1>2, <1>3, <1>4, <1>5 DEF After, Typed, TypeOK, world, Passes, Around

LEMMA NoJournalType ==
  ASSUME Typed, NoJournal
  PROVE  /\ Typed' /\ OnlyTask /\ own' = own /\ task'.pc = "rest"
         /\ R = None
<1>1. task' \in Task /\ task'.pc = "rest"
      BY DEF NoJournal, Typed, TypeOK, Task, Straight, Asked
<1>2. Aware'
      BY <1>1 DEF Aware
<1> QED BY <1>1, <1>2, OnlyTaskType DEF NoJournal, Typed, TypeOK

LEMMA UnreadableType ==
  ASSUME Typed, Unreadable \/ Refuse
  PROVE  Typed' /\ Passes /\ own'.status = "error"
<1>1. Fails /\ OnlyTask
      BY DEF Unreadable, Refuse
<1>2. /\ own' \in Own /\ R' = R /\ own'.status = "error"
      /\ task' \in Task /\ task'.pc = "after"
      BY <1>1, FailsType DEF Typed, TypeOK
<1>3. Aware'
      BY <1>2 DEF Aware
<1> QED BY <1>1, <1>2, <1>3, OnlyTaskType DEF Passes, Around, OnlyTask, SamePast

LEMMA WaitsType ==
  ASSUME Typed, WaitsForEntity \/ KeepsPending
  PROVE  Typed' /\ Passes /\ own'.status = own.status
<1>1. own' = own /\ OnlyTask /\ Reads("after")
      BY DEF WaitsForEntity, KeepsPending
<1>2. task' \in Task /\ task'.pc = "after"
      BY <1>1, ReadsType DEF Places, Straight
<1>3. Aware'
      BY <1>2 DEF Aware
<1> QED BY <1>1, <1>2, <1>3, OnlyTaskType
        DEF Typed, TypeOK, Passes, Around, OnlyTask, SamePast, R

LEMMA NothingPendingType ==
  ASSUME Typed, NothingPending
  PROVE  /\ Typed' /\ OnlyTask /\ own' = own /\ task'.pc = "known"
         /\ R # None /\ R.pending = None /\ task'.current = entity.value
<1>1. own' = own /\ OnlyTask /\ Reads("known") /\ R # None /\ R.pending = None
      BY DEF NothingPending, Journaled
<1>2. task' \in Task /\ task'.pc = "known" /\ task'.current = entity.value
      BY <1>1, ReadsType DEF Places, Straight
<1>3. Aware'
      BY <1>1, <1>2 DEF Aware, R
<1> QED BY <1>1, <1>2, <1>3, OnlyTaskType DEF Typed, TypeOK

LEMMA LateConfirmedType ==
  ASSUME Typed, LateConfirmed
  PROVE  /\ Typed' /\ OnlyTask /\ own'.status = "active"
         /\ R \in Record /\ R.pending = entity.value
         /\ R' = [R EXCEPT !.temporary = entity.value, !.pending = None, !.asked = None]
         /\ task'.pc = "save" /\ task'.then = "known" /\ task'.current = entity.value
<1>1. R \in Record /\ R.pending = entity.value /\ entity.value \in Levels
      BY DEF LateConfirmed, Journaled, Typed, TypeOK, Own, Journal, R
<1> DEFINE r == [R EXCEPT !.temporary = R.pending, !.pending = None, !.asked = None]
<1>2. r \in Record
      BY <1>1 DEF Record
<1>3. own' \in Own /\ R' = r /\ own'.status = "active"
      BY <1>1, <1>2 DEF LateConfirmed, Settled, Typed, TypeOK, Own, Journal, R, Status
<1>4. /\ task' \in Task /\ task'.pc = "save" /\ task'.then = "known"
      /\ task'.current = entity.value
      BY ReadsType DEF LateConfirmed, Thens
<1>5. Aware'
      BY <1>2, <1>3, <1>4, NoneAssumption DEF Aware, Record
<1> QED BY <1>1, <1>3, <1>4, <1>5, OnlyTaskType DEF LateConfirmed

LEMMA ChangedType ==
  ASSUME Typed, ChangedWhilePending
  PROVE  /\ Typed' /\ OnlyTask /\ R' = None
         /\ R # None /\ entity.value \notin {R.temporary, R.pending}
         /\ task'.pc = "save" /\ task'.then = "external"
<1>1. own' \in Own /\ R' = None
  <2>1. Forgotten(own) \in Own /\ Forgotten(own).record = None
        BY OwnType DEF Typed, TypeOK, Status
  <2>2. own' = [Forgotten(own) EXCEPT !.status = "external_change"]
        BY DEF ChangedWhilePending
  <2> QED BY <2>1, <2>2, OwnType DEF R, Status
<1>2. task' \in Task /\ task'.pc = "save" /\ task'.then = "external"
      BY ReadsType DEF ChangedWhilePending, Thens
<1>3. Aware'
      BY <1>2 DEF Aware
<1> QED BY <1>1, <1>2, <1>3, OnlyTaskType DEF ChangedWhilePending, Journaled, Older

LEMMA SupersedesType ==
  ASSUME Typed, Supersedes
  PROVE  /\ Typed' /\ OnlyTask /\ own'.status = own.status
         /\ R \in Record /\ R.pending # None /\ R.pending # entity.value
         /\ R' = [R EXCEPT !.superseded = @ \cup {R.pending}, !.pending = None,
                           !.asked = None]
         /\ task'.pc = "save" /\ task'.then = "active" /\ task'.current = entity.value
         /\ task'.requested # None => entity.value = R.temporary
<1>1. R \in Record /\ R.pending \notin {None, entity.value}
      BY DEF Supersedes, Journaled, Typed, TypeOK, Own, Journal, R
<1> DEFINE r == [R EXCEPT !.superseded = @ \cup {R.pending}, !.pending = None, !.asked = None]
<1>2. r \in Record
      BY <1>1 DEF Record
<1>3. own' \in Own /\ R' = r /\ own'.status = own.status
      BY <1>1, <1>2 DEF Supersedes, Typed, TypeOK, Own, Journal, R
<1>4. /\ task' \in Task /\ task'.pc = "save" /\ task'.then = "active"
      /\ task'.current = entity.value /\ task'.requested = Asked
      BY ReadsType DEF Supersedes, Thens
<1>5. Aware'
      BY <1>2, <1>3, <1>4, NoneAssumption DEF Aware
<1>6. Asked # None => entity.value = R.temporary
      BY DEF Supersedes, StaysPending
<1> QED BY <1>1, <1>3, <1>4, <1>5, <1>6, OnlyTaskType DEF Supersedes

(* The status of a journal that the reserve shows again. *)
LEMMA AdoptedType ==
  ASSUME Typed
  PROVE  /\ Adopted \in Own /\ Adopted.record = R
         /\ \/ Adopted.status = own.status
            \/ Adopted.status = "active" /\ Cur = R.temporary
<1>1. own \in Own
      BY DEF Typed, TypeOK
<1>2. CASE Recovers
      BY <1>1, <1>2, OwnType DEF Adopted, Recovers, R, Status
<1>3. CASE ~Recovers
      BY <1>1, <1>3 DEF Adopted, R
<1> QED BY <1>2, <1>3

LEMMA RevertedType ==
  ASSUME Typed, Reverted \/ GivesUp
  PROVE  /\ Typed' /\ Passes /\ Known
         /\ own'.status = own.status \/ Cur = R.temporary
<1>1. Goes("after") /\ OnlyTask /\ Known /\ own' \in {own, Adopted}
      BY DEF Reverted, GivesUp
<1>2. task' \in Task /\ task'.pc = "after"
      BY <1>1, GoesType DEF Typed, TypeOK, Places, Straight
<1>3. own' \in Own /\ R' = R /\ (own'.status = own.status \/ Cur = R.temporary)
      BY <1>1, AdoptedType DEF Typed, TypeOK, R
<1>4. Aware'
      BY <1>2 DEF Aware
<1> QED BY <1>1, <1>2, <1>3, <1>4, OnlyTaskType DEF Passes, Around, OnlyTask, SamePast

LEMMA FollowsType ==
  ASSUME Typed, Follows
  PROVE  /\ Typed' /\ OnlyTask /\ R' = R /\ Known /\ task'.pc = "rest"
         /\ own'.status = own.status \/ Cur = R.temporary
<1>1. Goes("rest") /\ OnlyTask /\ Known /\ own' = Adopted
      BY DEF Follows
<1>2. task' \in Task /\ task'.pc = "rest"
      BY <1>1, GoesType DEF Typed, TypeOK, Places, Straight
<1>3. own' \in Own /\ R' = R /\ (own'.status = own.status \/ Cur = R.temporary)
      BY <1>1, AdoptedType DEF Typed, TypeOK, R
<1>4. Aware'
      BY <1>2 DEF Aware
<1> QED BY <1>1, <1>2, <1>3, <1>4, OnlyTaskType

LEMMA DropsType ==
  ASSUME Typed, Drops
  PROVE  /\ Typed' /\ OnlyTask /\ Known /\ Cur # R.temporary
         /\ R' = None /\ task'.pc = "save" /\ task'.then = "dropped"
<1>1. own' \in Own /\ R' = None
  <2>1. Forgotten(own) \in Own /\ Forgotten(own).record = None
        BY OwnType DEF Typed, TypeOK, Status
  <2>2. own' = [Forgotten(own) EXCEPT
                  !.status = IF Cur # R.original THEN "external_change" ELSE @]
        BY DEF Drops
  <2>3. Forgotten(own).status \in Status
        BY <2>1 DEF Own
  <2>4. PICK s \in Status : own' = [Forgotten(own) EXCEPT !.status = s]
    <3>1. CASE Cur # R.original
          BY <2>2, <3>1 DEF Status
    <3>2. CASE Cur = R.original
          BY <2>2, <2>3, <3>2
    <3> QED BY <3>1, <3>2
  <2> QED BY <2>1, <2>4, OwnType DEF R
<1>2. task' \in Task /\ task'.pc = "save" /\ task'.then = "dropped"
  <2>1. Cur \in Levels \cup {None} /\ task \in Task
        BY DEF Typed, TypeOK, Task, Cur
  <2>2. PICK target \in Levels \cup {None} :
          task' = [task EXCEPT !.pc = "save", !.then = "dropped", !.target = target]
        BY <2>1 DEF Drops
  <2> QED BY <2>1, <2>2 DEF Task, Awaiting
<1>3. Aware'
      BY <1>2 DEF Aware
<1> QED BY <1>1, <1>2, <1>3, OnlyTaskType DEF Drops

LEMMA RestoresType ==
  ASSUME Typed, Restores
  PROVE  /\ Typed' /\ OnlyTask /\ Known /\ Cur = R.temporary
         /\ \/ /\ Cur # R.original /\ R' = R /\ own'.status = own.status
               /\ task'.pc = "dispatch" /\ task'.then = "restored"
               /\ task'.target = R.original
            \/ /\ Cur = R.original /\ R' = None
               /\ task'.pc = "save" /\ task'.then = "restored"
<1>1. R \in Record /\ R # None
      BY DEF Restores, Known, Typed, TypeOK, Aware, Own, Journal, R
<1>2. CASE /\ Cur # R.original /\ own' = [own EXCEPT !.failed = TRUE]
           /\ Writes(R.original, "restored")
  <2>1. own' \in Own /\ R' = R /\ own'.status = own.status
        BY <1>2 DEF Typed, TypeOK, Own, R
  <2>2. /\ task' \in Task /\ task'.pc = "dispatch" /\ task'.then = "restored"
        /\ task'.target = R.original /\ R.original \in Levels
    <3>1. R.original \in Levels
          BY <1>1 DEF Record
    <3> QED BY <1>2, <3>1, WritesType DEF Typed, TypeOK, Thens
  <2>3. Aware'
        BY <1>1, <2>1, <2>2 DEF Aware
  <2> QED BY <1>2, <2>1, <2>2, <2>3, OnlyTaskType DEF Restores
<1>3. CASE Cur = R.original /\ own' = Forgotten(own) /\ Saves("restored")
  <2>1. own' \in Own /\ R' = None
        BY <1>3, OwnType DEF Typed, TypeOK, R, Status
  <2>2. task' \in Task /\ task'.pc = "save" /\ task'.then = "restored"
        BY <1>3, SavesType DEF Typed, TypeOK, Thens
  <2>3. Aware'
        BY <2>2 DEF Aware
  <2> QED BY <1>3, <2>1, <2>2, <2>3, OnlyTaskType DEF Restores
<1> QED BY <1>2, <1>3 DEF Restores

LEMMA RefrainsType ==
  ASSUME Typed, Refrains
  PROVE  Typed' /\ Passes /\ own'.status = own.status
<1>1. own' \in Own /\ R' = R /\ own'.status = own.status
      BY DEF Refrains, Typed, TypeOK, Own, R
<1>2. task' \in Task /\ task'.pc = "after"
      BY GoesType DEF Refrains, Typed, TypeOK, Places, Straight
<1>3. /\ past' \in [base: Levels, ours: BOOLEAN, raced: BOOLEAN, touched: BOOLEAN]
      /\ SamePast
      BY DEF Refrains, Typed, TypeOK, SamePast
<1>4. Aware'
      BY <1>2 DEF Aware
<1> QED BY <1>1, <1>2, <1>3, <1>4 DEF Refrains, Typed, TypeOK, world, Passes, Around

LEMMA AdjustsType ==
  ASSUME Typed, Adjusts
  PROVE  /\ Typed' /\ Rest
         /\ \/ Passes /\ (own'.status = own.status \/ own'.status \notin Certain)
            \/ /\ UNCHANGED <<entity, disk, flight>>
               /\ R \in Record /\ own.status \in Certain /\ own'.status = own.status
               /\ \E planned \in Levels :
                    /\ planned # R.temporary
                    /\ R' = [R EXCEPT !.pending = planned, !.asked = task.requested]
                    /\ past' = IF planned = entity.value THEN Unattributed ELSE past
               /\ task'.pc = "save" /\ task'.then = "dispatch"
<1> DEFINE planned == Planned(task.requested, R.original)
<1>1. R \in Record /\ R # None /\ task.requested \in Nat
      BY DEF Adjusts, Typed, TypeOK, Own, Journal, R, Task
<1>2. CASE ~CanPlan /\ Fails /\ UNCHANGED past
  <2>1. /\ own' \in Own /\ R' = R /\ own'.status = "error"
        /\ task' \in Task /\ task'.pc = "after"
        BY <1>2, FailsType DEF Typed, TypeOK
  <2>2. Aware' /\ OnlyTask
        BY <1>2, <2>1 DEF Aware, Adjusts, OnlyTask
  <2> QED BY <2>1, <2>2, OnlyTaskType
          DEF Adjusts, Passes, Around, Certain, SamePast, OnlyTask
<1>3. CASE CanPlan /\ planned = R.temporary /\ Goes("after") /\ UNCHANGED <<own, past>>
  <2>1. task' \in Task /\ task'.pc = "after"
        BY <1>3, GoesType DEF Typed, TypeOK, Places, Straight
  <2>2. Aware' /\ OnlyTask /\ R' = R
        BY <1>3, <2>1 DEF Aware, Adjusts, OnlyTask, R
  <2> QED BY <1>3, <2>1, <2>2, OnlyTaskType
          DEF Adjusts, Passes, Around, SamePast, OnlyTask, Typed, TypeOK
<1>4. CASE /\ CanPlan /\ planned # R.temporary
           /\ own' = [own EXCEPT !.record.pending = planned,
                                 !.record.asked = task.requested]
           /\ past' = IF planned = entity.value THEN Unattributed ELSE past
           /\ Saves("dispatch")
  <2>1. soc \in Nat /\ R.original \in Levels
        BY <1>1, <1>4, InputsAssumption DEF CanPlan, Typed, TypeOK, Record
  <2>2. planned \in Levels
        BY <1>1, <2>1, PlannedType
  <2> HIDE DEF planned
  <2> DEFINE r == [R EXCEPT !.pending = planned, !.asked = task.requested]
  <2>3. r \in Record
        BY <1>1, <2>2 DEF Record
  <2>4. own' \in Own /\ R' = r /\ own'.status = own.status
        BY <1>1, <1>4, <2>3 DEF Typed, TypeOK, Own, Journal, R
  <2>5. task' \in Task /\ task'.pc = "save" /\ task'.then = "dispatch"
        BY <1>4, SavesType DEF Typed, TypeOK, Thens
  <2>6. past' \in [base: Levels, ours: BOOLEAN, raced: BOOLEAN, touched: BOOLEAN]
        BY <1>4 DEF Typed, TypeOK, Unattributed
  <2>7. Aware'
        BY <2>3, <2>4, <2>5, NoneAssumption DEF Aware
  <2>8. Typed'
        BY <2>4, <2>5, <2>6, <2>7 DEF Adjusts, Typed, TypeOK, world
  <2>9. UNCHANGED <<entity, disk, flight>> /\ own.status \in Certain /\ Rest
        BY DEF Adjusts, Certain
  <2> QED BY <1>1, <1>4, <2>2, <2>4, <2>5, <2>8, <2>9
<1> QED BY <1>2, <1>3, <1>4 DEF Adjusts

LEMMA TakesOverType ==
  ASSUME Typed, TakesOver
  PROVE  /\ Typed' /\ OnlyTask /\ Rest /\ R = None
         /\ \/ Passes /\ R' = None
            \/ /\ R' \in Record /\ R'.original = entity.value
               /\ R'.temporary # entity.value
               /\ R'.pending = None /\ R'.superseded = {}
               /\ task'.pc = "save" /\ task'.then = "dispatch"
<1> DEFINE mine == [own EXCEPT !.session = TRUE]
<1>1. OnlyTask /\ Rest /\ R = None /\ task.requested \in Nat
      BY DEF TakesOver, Typed, TypeOK, Task
<1>2. mine \in Own /\ mine.record = None
      BY <1>1 DEF Typed, TypeOK, Own, R
<1>3. CASE /\ own'.record = None /\ own' \in Own /\ Goes("after")
  <2>1. task' \in Task /\ task'.pc = "after"
        BY <1>3, GoesType DEF Typed, TypeOK, Places, Straight
  <2>2. Aware'
        BY <2>1 DEF Aware
  <2> QED BY <1>1, <1>3, <2>1, <2>2, OnlyTaskType
          DEF Passes, Around, SamePast, OnlyTask, R
<1>4. CASE /\ ~CannotRaise /\ Raised # entity.value
           /\ own' = [mine EXCEPT !.record =
                       [original |-> entity.value, temporary |-> Raised, pending |-> None,
                        asked |-> None, superseded |-> {}]]
           /\ Saves("dispatch")
  <2>1. entity.value \in Levels
        BY DEF Typed, TypeOK
  <2>2. Raised \in Levels
    <3>1. CASE task.requested <= entity.value
          BY <2>1, <3>1 DEF Raised
    <3>2. CASE ~(task.requested <= entity.value)
      <4>1. task.requested > entity.value
            BY <1>1, <2>1, <3>2, RangeAssumption DEF Levels
      <4>2. soc \in Nat
            BY <1>4, <4>1, InputsAssumption DEF CannotRaise, Typed, TypeOK
      <4> QED BY <1>1, <2>1, <3>2, <4>2, PlannedType DEF Raised
    <3> QED BY <3>1, <3>2
  <2> DEFINE r == [original |-> entity.value, temporary |-> Raised, pending |-> None,
                   asked |-> None, superseded |-> {}]
  <2>3. r \in Record
        BY <2>1, <2>2 DEF Record
  <2>4. own' \in Own /\ R' = r
        BY <1>2, <1>4, <2>3 DEF Own, Journal, R
  <2>5. task' \in Task /\ task'.pc = "save" /\ task'.then = "dispatch"
        BY <1>4, SavesType DEF Typed, TypeOK, Thens
  <2>6. Aware'
        BY <2>3, <2>4, <2>5, NoneAssumption DEF Aware
  <2> QED BY <1>1, <1>4, <2>3, <2>4, <2>5, <2>6, OnlyTaskType
<1>5. [mine EXCEPT !.status = "error", !.reason = "failure"].record = None
      /\ [mine EXCEPT !.status = "error", !.reason = "failure"] \in Own
      /\ [mine EXCEPT !.status = "unchanged"].record = None
      /\ [mine EXCEPT !.status = "unchanged"] \in Own
      BY <1>2 DEF Own, Status
<1> HIDE DEF mine
<1> QED BY <1>1, <1>3, <1>4, <1>5 DEF TakesOver, mine

(* What a save leads to, by what follows it. *)
SavedTo ==
  \/ /\ task.then = "known" /\ task'.pc = "known" /\ Keeps(task')
     /\ own'.status = own.status
  \/ /\ task.then = "active" /\ task'.pc = "known" /\ Keeps(task')
     /\ own'.status \in {own.status, "active"}
  \/ /\ task.then = "dispatch" /\ task'.pc = "dispatch" /\ task'.then = "after"
     /\ task'.target = IF R.pending = None THEN R.temporary ELSE R.pending
     /\ own'.status = own.status
  \/ /\ task.then \in {"external", "after"} /\ task'.pc = "after"
     /\ own'.status = own.status
  \/ /\ task.then \in {"dropped", "restored"} /\ task'.pc = "rest"
     /\ own'.status \in {own.status, "restored"}

LEMMA SavedType ==
  ASSUME Typed, Saved
  PROVE  /\ Typed' /\ R' = R /\ disk' = R /\ flight' = Remaining(R)
         /\ UNCHANGED entity /\ SamePast /\ SavedTo
<1>1. own \in Own /\ task \in Task /\ task.then \in Thens
      BY DEF Typed, TypeOK, Task, Thens
<1>2. /\ disk' = R /\ flight' = Remaining(R)
      /\ UNCHANGED <<entity, world, dirty, alarm, ops>>
      BY DEF Saved, R
<1>3. flight' \subseteq Levels /\ disk' \in Journal
      BY <1>1, <1>2 DEF Remaining, Typed, TypeOK, Own, R
<1>4. SUFFICES /\ own' \in Own /\ R' = R /\ task' \in Task /\ SavedTo /\ Aware'
               /\ past' \in [base: Levels, ours: BOOLEAN, raced: BOOLEAN, touched: BOOLEAN]
               /\ SamePast
      BY <1>2, <1>3 DEF Typed, TypeOK, world
<1>5. UNCHANGED past => SamePast
      BY DEF SamePast
<1>6. CASE task.then = "known"
  <2>1. Goes("known") /\ UNCHANGED <<own, past>> /\ R # None
        BY <1>6 DEF Saved, Typed, Aware
  <2>2. task' \in Task /\ task'.pc = "known" /\ Keeps(task')
        BY <1>1, <2>1, GoesType DEF Places, Straight
  <2> QED BY <1>5, <1>6, <2>1, <2>2 DEF Typed, TypeOK, R, Aware, SavedTo
<1>7. CASE task.then = "active"
  <2>1. /\ Goes("known") /\ UNCHANGED past /\ R # None
        /\ own' \in {Settled(own, "active"), own}
        BY <1>7 DEF Saved, Typed, Aware
  <2>2. task' \in Task /\ task'.pc = "known" /\ Keeps(task')
        BY <1>1, <2>1, GoesType DEF Places, Straight
  <2>3. own' \in Own /\ R' = R /\ own'.status \in {own.status, "active"}
    <3>1. CASE own' = own
          BY <1>1, <3>1 DEF R
    <3>2. CASE own' = Settled(own, "active")
          BY <1>1, <3>2, OwnType DEF Status, R
    <3> QED BY <2>1, <3>1, <3>2
  <2> QED BY <1>5, <1>7, <2>1, <2>2, <2>3 DEF Typed, TypeOK, Aware, SavedTo
<1>8. CASE task.then = "external"
  <2>1. Goes("after") /\ own' = [own EXCEPT !.session = @ /\ task.requested # None]
        /\ past' = [past EXCEPT !.touched = @ /\ task.requested # None]
        BY <1>8 DEF Saved
  <2>2. task' \in Task /\ task'.pc = "after"
        BY <1>1, <2>1, GoesType DEF Places, Straight
  <2>3. own' \in Own /\ R' = R /\ own'.status = own.status
        BY <1>1, <2>1 DEF Own, R
  <2>4. /\ past' \in [base: Levels, ours: BOOLEAN, raced: BOOLEAN, touched: BOOLEAN]
        /\ SamePast
        BY <2>1 DEF Typed, TypeOK, SamePast
  <2> QED BY <1>8, <2>2, <2>3, <2>4 DEF Aware, SavedTo
<1>9. CASE task.then = "dropped" \/ task.then = "restored"
  <2>1. /\ Goes("rest") /\ UNCHANGED past
        /\ own' \in {Settled(own, "restored"), own}
        BY <1>9 DEF Saved
  <2>2. task' \in Task /\ task'.pc = "rest"
        BY <1>1, <2>1, GoesType DEF Places, Straight
  <2>3. own' \in Own /\ R' = R /\ own'.status \in {own.status, "restored"}
    <3>1. CASE own' = own
          BY <1>1, <3>1 DEF R
    <3>2. CASE own' = Settled(own, "restored")
          BY <1>1, <3>2, OwnType DEF Status, R
    <3> QED BY <2>1, <3>1, <3>2
  <2> QED BY <1>5, <1>9, <2>1, <2>2, <2>3 DEF Typed, TypeOK, Aware, SavedTo
<1>10. CASE task.then = "dispatch"
  <2> DEFINE target == IF R.pending = None THEN R.temporary ELSE R.pending
  <2>1. Writes(target, "after") /\ UNCHANGED <<own, past>> /\ R # None
        BY <1>10 DEF Saved, Typed, Aware
  <2>2. target \in Levels
        BY <1>1, <2>1 DEF Own, Journal, Record, R
  <2>3. /\ task' \in Task /\ task'.pc = "dispatch" /\ task'.then = "after"
        /\ task'.target = target
        BY <1>1, <2>1, <2>2, WritesType DEF Thens
  <2> QED BY <1>5, <1>10, <2>1, <2>2, <2>3 DEF Typed, TypeOK, R, Aware, SavedTo
<1>11. CASE task.then = "after"
  <2>1. Goes("after") /\ UNCHANGED <<own, past>>
        BY <1>11 DEF Saved
  <2>2. task' \in Task /\ task'.pc = "after"
        BY <1>1, <2>1, GoesType DEF Places, Straight
  <2> QED BY <1>5, <1>11, <2>1, <2>2 DEF Typed, TypeOK, R, Aware, SavedTo
<1> QED BY <1>1, <1>6, <1>7, <1>8, <1>9, <1>10, <1>11 DEF Thens

LEMMA DispatchType ==
  ASSUME Typed, Dispatch
  PROVE  /\ Typed' /\ R' = R /\ own'.status = "confirmation_pending"
         /\ entity.value \in Replaceable(R) /\ flight' = flight \cup {task.target}
         /\ UNCHANGED <<entity, disk, past>>
         /\ task'.pc = "write" /\ task'.then = task.then /\ task'.target = task.target
<1>1. own' \in Own /\ R' = R /\ own'.status = "confirmation_pending"
      BY OwnType DEF Dispatch, Typed, TypeOK, Status, R
<1>2. /\ task' \in Task /\ task'.pc = "write" /\ task'.then = task.then
      /\ task'.target = task.target
      BY GoesType DEF Dispatch, Typed, TypeOK, Places, Awaiting, Keeps
<1>3. R # None /\ task.target \in Levels
      BY DEF Dispatch, Typed, Aware
<1>4. Aware'
      BY <1>1, <1>2, <1>3 DEF Aware
<1> QED BY <1>1, <1>2, <1>3, <1>4 DEF Dispatch, Writable, Typed, TypeOK, world

LEMMA ConfirmedType ==
  ASSUME Typed, Confirmed
  PROVE  /\ Typed' /\ OnlyTask /\ R # None /\ entity.value = task.target
         /\ \/ /\ task.then = "restored" /\ R' = None
               /\ task'.pc = "save" /\ task'.then = "restored"
            \/ /\ task.then # "restored" /\ R.pending = None
               /\ Passes /\ own'.status = "active"
            \/ /\ task.then # "restored" /\ R.pending \in Levels
               /\ task'.pc = "save" /\ task'.then = "after"
               /\ \/ R.pending = R.original /\ R' = None
                  \/ /\ R.pending # R.original /\ own'.status = "active"
                     /\ R' = [R EXCEPT !.temporary = R.pending, !.asked = None,
                                       !.pending = None]
<1>1. /\ own \in Own /\ task \in Task /\ R \in Record /\ R # None
      /\ OnlyTask /\ entity.value = task.target
      BY DEF Confirmed, Matches, Typed, TypeOK, Aware, Own, Journal, R
<1>2. CASE task.then = "restored"
  <2>1. own' = Forgotten(own) /\ Saves("restored")
        BY <1>2 DEF Confirmed, Accepted
  <2>2. own' \in Own /\ R' = None
        BY <1>1, <2>1, OwnType DEF R, Status
  <2>3. task' \in Task /\ task'.pc = "save" /\ task'.then = "restored"
        BY <1>1, <2>1, SavesType DEF Thens
  <2>4. Aware'
        BY <2>3 DEF Aware
  <2> QED BY <1>1, <1>2, <2>2, <2>3, <2>4, OnlyTaskType
<1>3. CASE task.then # "restored" /\ R.pending = None
  <2>1. own' = Settled(own, "active") /\ Goes("after")
        BY <1>3 DEF Confirmed, Accepted
  <2>2. own' \in Own /\ R' = R /\ own'.status = "active"
    <3>1. own' \in Own
          BY <1>1, <2>1, OwnType DEF Status
    <3> QED BY <1>1, <2>1, <3>1 DEF R, Settled, Own
  <2>3. task' \in Task /\ task'.pc = "after"
        BY <1>1, <2>1, GoesType DEF Places, Straight
  <2>4. Aware'
        BY <2>3 DEF Aware
  <2> QED BY <1>1, <1>3, <2>2, <2>3, <2>4, OnlyTaskType
          DEF Passes, Around, SamePast, OnlyTask
<1>4. CASE task.then # "restored" /\ R.pending # None
  <2>1. R.pending \in Levels
        BY <1>1, <1>4 DEF Record
  <2>2. Saves("after")
        BY <1>4 DEF Confirmed, Accepted
  <2>3. task' \in Task /\ task'.pc = "save" /\ task'.then = "after"
        BY <1>1, <2>2, SavesType DEF Thens
  <2>4. Aware'
        BY <2>3 DEF Aware
  <2>5. CASE R.pending = R.original
    <3>1. own' = [Settled(own, "unchanged") EXCEPT !.record = None]
          BY <1>4, <2>5 DEF Confirmed, Accepted
    <3>2. own' \in Own /\ R' = None
          BY <1>1, <3>1 DEF Settled, Own, Status, R, Journal
    <3> QED BY <1>1, <1>4, <2>1, <2>3, <2>4, <2>5, <3>2, OnlyTaskType
  <2>6. CASE R.pending # R.original
    <3> DEFINE r == [R EXCEPT !.temporary = R.pending, !.asked = None, !.pending = None]
    <3>1. own' = Settled([own EXCEPT !.record.temporary = R.pending, !.record.asked = None,
                                     !.record.pending = None], "active")
          BY <1>4, <2>6 DEF Confirmed, Accepted
    <3>2. r \in Record
          BY <1>1, <2>1 DEF Record
    <3>3. own' \in Own /\ R' = r /\ own'.status = "active"
          BY <1>1, <3>1, <3>2 DEF Settled, Own, Status, R, Journal
    <3> QED BY <1>1, <1>4, <2>1, <2>3, <2>4, <2>6, <3>3, OnlyTaskType
  <2> QED BY <2>5, <2>6
<1> QED BY <1>2, <1>3, <1>4

LEMMA TimedOutType ==
  ASSUME Typed, TimedOut
  PROVE  Typed' /\ Passes /\ own'.status \notin Certain
<1>1. own' \in Own /\ R' = R /\ own'.status = "write_unconfirmed"
      BY DEF TimedOut, Typed, TypeOK, Own, Status, R
<1>2. task' \in Task /\ task'.pc = "after"
      BY GoesType DEF TimedOut, Typed, TypeOK, Places, Straight
<1>3. Aware' /\ OnlyTask
      BY <1>2 DEF Aware, TimedOut
<1> QED BY <1>1, <1>2, <1>3, OnlyTaskType DEF Passes, Around, SamePast, OnlyTask, Certain

LEMMA CallRefusedType ==
  ASSUME Typed, CallRefused
  PROVE  /\ Typed' /\ R' = R /\ own'.status \notin Certain /\ task'.pc = "after"
         /\ UNCHANGED <<entity, disk, past>> /\ flight' \subseteq flight
<1>1. /\ own' \in Own /\ R' = R /\ own'.status = "error"
      /\ task' \in Task /\ task'.pc = "after"
      BY FailsType DEF CallRefused, Typed, TypeOK
<1>2. ops' \in 0..MaxOps
      BY BoundsAssumption DEF CallRefused, Typed, TypeOK
<1>3. Aware'
      BY <1>1 DEF Aware
<1> QED BY <1>1, <1>2, <1>3 DEF CallRefused, Typed, TypeOK, world, Certain

LEMMA StartType ==
  ASSUME Typed, Start
  PROVE  /\ Typed' /\ OnlyTask /\ R' = None /\ own'.status = "idle"
         /\ task.pc = "off" /\ task'.pc = "load"
<1>1. own' \in Own /\ R' = None /\ own'.status = "idle"
      BY DEF Start, Fresh, Typed, TypeOK, Own, Journal, Status, R
<1>2. task' \in Task /\ task'.pc = "load"
      BY DEF Start, Idle, Task, Awaiting, Thens
<1>3. Aware'
      BY <1>2 DEF Aware
<1> QED BY <1>1, <1>2, <1>3, OnlyTaskType DEF Start


(* What happens meanwhile wakes the task if it sleeps, and does no more. *)
Woke(t) == /\ t.pc = IF task.pc = "done" /\ t.pc # "done" THEN "loop" ELSE task.pc
           /\ t.then = task.then /\ Keeps(t)

LEMMA ChangesType ==
  ASSUME Typed, Yielded, Changes
  PROVE  dirty' \in BOOLEAN /\ task' \in Task /\ Woke(task')
<1>1. task \in Task /\ dirty \in BOOLEAN
      BY DEF Typed, TypeOK
<1>2. dirty' \in BOOLEAN
      BY <1>1 DEF Changes, Watching
<1>3. CASE task' = task
      BY <1>1, <1>2, <1>3 DEF Woke, Keeps
<1>4. CASE task' = Woken
      BY <1>1, <1>2, <1>4 DEF Woke, Keeps, Woken, Task, Straight
<1> QED BY <1>2, <1>3, <1>4 DEF Changes

(* The world changes nothing of the reserve, of the journal or of the task. *)
Aside ==
  /\ R' = R /\ own'.status = own.status /\ UNCHANGED <<disk, past>>
  /\ entity'.value = entity.value /\ flight' \subseteq flight
  /\ task.pc \in Awaiting \cup {"off", "done"} /\ Woke(task')

LEMMA YieldedPlaces ==
  ASSUME Typed, Yielded
  PROVE  task.pc \in Awaiting \cup {"off", "done"}
BY DEF Typed, TypeOK, Task, Yielded

LEMMA AwareAside ==
  ASSUME Typed, Yielded, R' = R, Woke(task')
  PROVE  Aware'
BY DEF Typed, Aware, Woke, Keeps

LEMMA AsideType ==
  ASSUME Typed,
         \/ LosesReading \/ RegainsReading \/ Remap
         \/ \E v \in Levels : Lose(v)
         \/ \E s \in Socs \cup {None} : SocChanges(s)
         \/ \E w \in Wishes : WishChanges(w)
         \/ \E s \in Scenes : SceneChanges(s)
  PROVE  Typed' /\ Aside
<1>1. Yielded
      BY DEF LosesReading, RegainsReading, Remap, Lose, SocChanges, WishChanges,
             SceneChanges, May
<1>2. own' \in Own /\ R' = R /\ own'.status = own.status
  <2>1. own' = own \/ own' = [own EXCEPT !.failed = FALSE]
        BY DEF LosesReading, RegainsReading, Remap, Lose, SocChanges, WishChanges,
               SceneChanges
  <2>2. [own EXCEPT !.failed = FALSE] \in Own
        BY DEF Typed, TypeOK, Own
  <2>3. /\ [own EXCEPT !.failed = FALSE].record = own.record
        /\ [own EXCEPT !.failed = FALSE].status = own.status
        BY DEF Typed, TypeOK, Own
  <2> QED BY <2>1, <2>2, <2>3 DEF Typed, TypeOK, R
<1>3. dirty' \in BOOLEAN /\ task' \in Task /\ Woke(task')
  <2>1. CASE Changes
        BY <1>1, <2>1, ChangesType
  <2>2. CASE UNCHANGED <<dirty, task>>
        BY <2>2 DEF Typed, TypeOK, Woke, Keeps
  <2> QED BY <2>1, <2>2 DEF LosesReading, RegainsReading, Remap, Lose, SocChanges,
          WishChanges, SceneChanges
<1>4. ops' \in 0..MaxOps
      BY BoundsAssumption DEF LosesReading, RegainsReading, Remap, Lose, SocChanges,
         WishChanges, SceneChanges, May, Typed, TypeOK
<1>5. /\ entity' \in [value: Levels, readable: BOOLEAN] /\ entity'.value = entity.value
      /\ UNCHANGED <<disk, past, alarm>> /\ flight' \subseteq flight
      BY DEF LosesReading, RegainsReading, Remap, Lose, SocChanges, WishChanges,
             SceneChanges, Typed, TypeOK
<1>6. /\ soc' \in Socs \cup {None} /\ wish' \in Wishes /\ mapped' \in BOOLEAN
      /\ scene' \in Scenes
      BY DEF LosesReading, RegainsReading, Remap, Lose, SocChanges, WishChanges,
             SceneChanges, Typed, TypeOK, world
<1>7. Aware'
      BY <1>1, <1>2, <1>3, AwareAside
<1> QED BY <1>1, <1>2, <1>3, <1>4, <1>5, <1>6, <1>7, YieldedPlaces
        DEF Typed, TypeOK, Aside

LEMMA UserSetsType ==
  ASSUME Typed, NEW v \in UserLevels, UserSets(v)
  PROVE  /\ Typed' /\ R' = R /\ own'.status = own.status /\ UNCHANGED <<disk, flight>>
         /\ entity'.value = v /\ ~past'.ours /\ Yielded /\ Woke(task')
         /\ \/ past'.raced
            \/ ~Named(v) /\ past'.base = v /\ flight = {}
<1>1. v \in Levels
      BY InputsAssumption
<1>2. entity' \in [value: Levels, readable: BOOLEAN] /\ entity'.value = v
      BY <1>1 DEF UserSets, Typed, TypeOK
<1>3. /\ past' \in [base: Levels, ours: BOOLEAN, raced: BOOLEAN, touched: BOOLEAN]
      /\ ~past'.ours
      /\ past'.raced \/ (~Named(v) /\ past'.base = v /\ flight = {})
  <2>1. CASE Named(v)
    <3>1. past' = [[past EXCEPT !.raced = TRUE, !.touched = FALSE] EXCEPT !.ours = FALSE]
          BY <2>1 DEF UserSets, Unattributed
    <3> QED BY <3>1 DEF Typed, TypeOK
  <2>2. CASE ~Named(v)
    <3>1. past' = [base |-> v, ours |-> FALSE, raced |-> flight # {},
                   touched |-> IF J = None THEN past.touched
                               ELSE Episode /\ v # J.original]
          BY <2>2 DEF UserSets
    <3>2. (IF J = None THEN past.touched ELSE Episode /\ v # J.original) \in BOOLEAN
          BY DEF Typed, TypeOK
    <3> QED BY <1>1, <2>2, <3>1, <3>2
  <2> QED BY <2>1, <2>2
<1>4. Yielded /\ Changes
      BY DEF UserSets, May
<1>5. dirty' \in BOOLEAN /\ task' \in Task /\ Woke(task')
      BY <1>4, ChangesType
<1>6. ops' \in 0..MaxOps
      BY BoundsAssumption DEF UserSets, May, Typed, TypeOK
<1>7. R' = R /\ own' = own /\ UNCHANGED <<disk, flight>>
      BY DEF UserSets, R
<1>8. Aware'
      BY <1>4, <1>5, <1>7, AwareAside
<1> QED BY <1>2, <1>3, <1>4, <1>5, <1>6, <1>7, <1>8 DEF UserSets, Typed, TypeOK, world

LEMMA LandType ==
  ASSUME Typed, NEW v \in Levels, Land(v)
  PROVE  /\ Typed' /\ R' = R /\ own'.status = own.status /\ UNCHANGED disk
         /\ v \in Remaining(J) /\ flight' = flight \ {v} /\ entity'.value = v
         /\ past'.base = past.base /\ past'.raced = past.raced
         /\ past'.ours = (v # past.base /\ ~past.raced)
         /\ Yielded /\ Woke(task')
<1>1. entity' \in [value: Levels, readable: BOOLEAN] /\ entity'.value = v
      BY DEF Land, Typed, TypeOK
<1>2. /\ past' \in [base: Levels, ours: BOOLEAN, raced: BOOLEAN, touched: BOOLEAN]
      /\ past'.base = past.base /\ past'.raced = past.raced
      /\ past'.ours = (v # past.base /\ ~past.raced)
      BY DEF Land, Typed, TypeOK
<1>3. Yielded /\ Changes
      BY DEF Land
<1>4. dirty' \in BOOLEAN /\ task' \in Task /\ Woke(task')
      BY <1>3, ChangesType
<1>5. R' = R /\ own' = own /\ UNCHANGED disk
      BY DEF Land, R
<1>6. Aware'
      BY <1>3, <1>4, <1>5, AwareAside
<1>7. flight' \subseteq Levels
      BY DEF Land, Typed, TypeOK
<1> QED BY <1>1, <1>2, <1>3, <1>4, <1>5, <1>6, <1>7 DEF Land, Typed, TypeOK, world

LEMMA CrashType ==
  ASSUME Typed, Crash
  PROVE  /\ Typed' /\ R' = None /\ own'.status = "idle" /\ task'.pc = "off"
         /\ UNCHANGED entity /\ SamePast /\ Yielded /\ task.pc # "off"
         /\ disk' = disk \/ (task.pc = "save" /\ disk' = R)
         /\ flight' = Remaining(disk')
<1>1. own' \in Own /\ R' = None /\ own'.status = "idle"
      BY DEF Crash, Fresh, Typed, TypeOK, Own, Journal, Status, R
<1>2. task' \in Task /\ task'.pc = "off"
      BY DEF Crash, Idle, Task, Thens
<1>3. Aware'
      BY <1>2 DEF Aware
<1>4. ops' \in 0..MaxOps
      BY BoundsAssumption DEF Crash, May, Typed, TypeOK
<1>5. /\ disk' = disk \/ (task.pc = "save" /\ disk' = R)
      /\ disk' \in Journal
      BY DEF Crash, Typed, TypeOK, Own, R
<1>6. flight' = Remaining(disk') /\ flight' \subseteq Levels
      BY DEF Crash, Remaining, Typed, TypeOK
<1>7. /\ past' \in [base: Levels, ours: BOOLEAN, raced: BOOLEAN, touched: BOOLEAN]
      /\ SamePast
      BY DEF Crash, Typed, TypeOK, SamePast
<1>8. scene' \in Scenes /\ Yielded /\ task.pc # "off"
      BY DEF Crash, Scenes, May
<1> QED BY <1>1, <1>2, <1>3, <1>4, <1>5, <1>6, <1>7, <1>8 DEF Crash, Typed, TypeOK

-----------------------------------------------------------------------------
(* The state stays well typed. *)

LEMMA TypedStep ==
  ASSUME Typed, [Next]_vars
  PROVE  Typed'
<1>1. CASE TaskStep
      BY <1>1, LoadType, IterateType, FinishType, EvaluateType, AfterType, NoJournalType,
         UnreadableType, WaitsType, NothingPendingType, LateConfirmedType, ChangedType,
         SupersedesType, RevertedType, DropsType, FollowsType, RestoresType, RefrainsType,
         AdjustsType, TakesOverType, SavedType, DispatchType, ConfirmedType, TimedOutType,
         StartType DEF TaskStep
<1>2. CASE World
      BY <1>2, AsideType, UserSetsType, LandType, CrashType, CallRefusedType DEF World
<1>3. CASE UNCHANGED vars
      BY <1>3 DEF vars, world, Typed, TypeOK, Aware, R
<1> QED BY <1>1, <1>2, <1>3 DEF Next

LEMMA TypedInit ==
  ASSUME Init
  PROVE  Typed
<1>1. own \in Own
      BY DEF Init, Fresh, Own, Journal, Status
<1>2. task \in Task /\ task.pc = "done"
      BY DEF Init, Idle, Task
<1>3. entity \in [value: Levels, readable: BOOLEAN]
      BY InputsAssumption DEF Init
<1>4. past \in [base: Levels, ours: BOOLEAN, raced: BOOLEAN, touched: BOOLEAN]
      BY <1>3 DEF Init
<1>5. /\ soc \in Socs \cup {None} /\ wish \in Wishes /\ mapped \in BOOLEAN
      /\ scene \in Scenes /\ disk \in Journal /\ flight \subseteq Levels
      BY DEF Init, Scenes, Journal
<1>6. dirty \in BOOLEAN /\ alarm \in BOOLEAN
      BY DEF Init
<1>7. ops \in 0..MaxOps
      BY BoundsAssumption DEF Init
<1> QED BY <1>1, <1>2, <1>3, <1>4, <1>5, <1>6, <1>7 DEF Typed, TypeOK, Aware

(* Every reachable state is well typed: a journal is complete or absent,    *)
(* every value written or planned lies in the range of the entity, and the  *)
(* task uses the fields of a journal only where there is one                *)
(* (BatteryReserve.plan, write, update).                                    *)
THEOREM TypeCorrect == Spec => []TypeOK
<1>1. Spec => []Typed
      BY TypedInit, TypedStep, PTL DEF Spec
<1>2. Typed => TypeOK
      BY DEF Typed
<1> QED BY <1>1, <1>2, PTL

-----------------------------------------------------------------------------
(* The inductive invariant *)

(* No call for the temporary value is under way, unless it is the original, *)
(* or the history attributes nothing any more.                              *)
Safe(r) == past.raced \/ r.temporary \notin flight \/ r.temporary = r.original

(* What a journal says of the reserve, in memory or in the store: an        *)
(* override that shows is its temporary or pending value, and the user's    *)
(* value is none that it wrote, but its original.                           *)
Tells(r) ==
  /\ r.pending # r.temporary
  /\ ~past.raced => past.base = r.original \/ past.base \notin Targets(r)
  /\ r.pending # None \/ r.superseded # {} => Safe(r)
  /\ past.ours => /\ r.original = past.base
                  /\ entity.value \in {r.temporary, r.pending}

(* The history, the reserve, the calls under way and the store. *)
Attributed ==
  /\ past.ours => /\ disk # None /\ ~past.raced
                  /\ entity.value # past.base /\ entity.value \notin flight
  /\ ~past.raced /\ ~past.ours => entity.value = past.base
  /\ flight \subseteq Awaits(disk)
  /\ ~past.raced /\ flight # {} => disk.original = past.base
  /\ disk # None => Tells(disk)
  /\ R # None => Tells(R)

(* A save between two journals, by what follows it. *)
Saving ==
  /\ R = None => ~past.ours /\ task.then \notin {"known", "active", "dispatch"}
  /\ task.then \in {"dropped", "restored"} => R = None
  /\ disk = None => R # None
  /\ R # None /\ disk # None => R.original = disk.original
  /\ task.then \in {"known", "active"} =>
       /\ R.pending = None /\ Safe(R)
       /\ Cur = R.temporary \/ ~past.ours
  /\ task.then = "dispatch" =>
       /\ R.pending = None => R.superseded = {}
       /\ disk # None => /\ R.pending # None
                         /\ disk.pending = None /\ disk.temporary = R.temporary
       /\ past.ours => R.pending # None /\ entity.value = R.temporary

(* What a call about to go out, or out, writes. *)
Writing ==
  /\ R # None
  /\ \/ task.then = "restored" /\ task.target = R.original
     \/ /\ task.then = "after"
        /\ task.target = IF R.pending = None THEN R.temporary ELSE R.pending

(* The journal in memory and in the store, by the place of the task. *)
Placed ==
  /\ task.pc \in {"off", "load"} => R = None /\ own.status = "idle"
  /\ task.pc \notin {"off", "load", "save"} => disk = R
  /\ R # None /\ own.status \in {"active", "preserved"} => Safe(R)
  /\ task.pc = "save" => Saving
  /\ task.pc = "known" => /\ R # None /\ R.pending = None
                          /\ IF Cur = R.temporary THEN Safe(R) ELSE ~past.ours
  /\ task.pc = "rest" /\ R # None => R.pending = None
  /\ task.pc \in {"dispatch", "write"} => Writing
  /\ task.pc = "dispatch" /\ task.then = "after" =>
       /\ R.pending = None => R.superseded = {}
       /\ past.ours => R.pending # None /\ entity.value = R.temporary

Consistent == Typed /\ Attributed /\ Placed

LEMMA RecordOrNone ==
  ASSUME Typed
  PROVE  /\ R = None \/ R \in Record
         /\ disk = None \/ disk \in Record
BY DEF Typed, TypeOK, Own, Journal, R

(* Where the task moves on with the journal it has. *)
LEMMA PassesKeeps ==
  ASSUME Consistent, Passes, task.pc \notin {"off", "load", "save"},
         own'.status \in Certain => own'.status = own.status \/ R = None \/ Safe(R)
  PROVE  Attributed' /\ Placed'
<1>1. Attributed'
      BY DEF Consistent, Passes, SamePast, Attributed, Tells, Safe, Targets, Awaits
<1>2. disk' = R' /\ (R' # None /\ own'.status \in Certain => Safe(R)')
      BY DEF Consistent, Passes, SamePast, Placed, Safe, Certain
<1> QED BY <1>1, <1>2 DEF Placed, Passes, Around, Certain

LEMMA AsideKeeps ==
  ASSUME Consistent, Aside
  PROVE  Attributed' /\ Placed'
<1>1. Attributed'
      BY DEF Consistent, Aside, SamePast, Attributed, Tells, Safe, Targets, Awaits
<1>2. Placed'
      BY DEF Consistent, Aside, Placed, Safe, Saving, Writing, Woke, Keeps, Cur, Awaiting
<1> QED BY <1>1, <1>2

LEMMA LoadKeeps ==
  ASSUME Consistent, Load
  PROVE  Attributed' /\ Placed'
<1>1. /\ R' = disk /\ own'.status = own.status /\ UNCHANGED <<entity, disk, flight, past>>
      /\ task'.pc \in {"update", "loop"}
      BY LoadType DEF Consistent
<1>2. task.pc = "load" /\ own'.status \notin Certain
      BY <1>1 DEF Load, Consistent, Placed, Certain
<1>3. Attributed'
      BY <1>1 DEF Consistent, Attributed, Tells, Safe, Targets, Awaits
<1> QED BY <1>1, <1>2, <1>3 DEF Placed, Certain

LEMMA NothingPendingKeeps ==
  ASSUME Consistent, NothingPending
  PROVE  Attributed' /\ Placed'
<1>1. /\ OnlyTask /\ own' = own /\ task'.pc = "known" /\ R # None /\ R.pending = None
      /\ task'.current = entity.value /\ task.pc = "update"
      BY NothingPendingType DEF Consistent, NothingPending, Journaled, Updating
<1>2. Attributed'
      BY <1>1 DEF Consistent, OnlyTask, Attributed, Tells, Safe, Targets, Awaits, R
<1>3. IF entity.value = R.temporary THEN Safe(R) ELSE ~past.ours
  <2>1. entity.value \in Levels /\ R.temporary # None
        BY <1>1, RecordOrNone, NoneAssumption, RangeAssumption
           DEF Consistent, Typed, TypeOK, Record, Levels
  <2>2. CASE past.ours
        BY <1>1, <2>1, <2>2, NoneAssumption, RangeAssumption
           DEF Consistent, Attributed, Tells, Safe, Levels
  <2>3. CASE ~past.ours
        BY <1>1, <2>3 DEF Consistent, Attributed, Tells, Safe, Targets
  <2> QED BY <2>2, <2>3
<1> QED BY <1>1, <1>2, <1>3 DEF Consistent, Placed, OnlyTask, Safe, Certain, R, Cur

LEMMA LateConfirmedKeeps ==
  ASSUME Consistent, LateConfirmed
  PROVE  Attributed' /\ Placed'
<1>1. /\ OnlyTask /\ R \in Record /\ R.pending = entity.value
      /\ own'.status = "active"
      /\ R' = [R EXCEPT !.temporary = entity.value, !.pending = None, !.asked = None]
      /\ task'.pc = "save" /\ task'.then = "known" /\ task'.current = entity.value
      /\ task.pc = "update"
      BY LateConfirmedType DEF Consistent, LateConfirmed, Journaled, Updating
<1>2. /\ R # None /\ entity.value # None /\ disk = R /\ entity.value \in Levels
      BY <1>1, NoneAssumption, RangeAssumption
         DEF Consistent, Placed, Typed, TypeOK, Levels
<1>3. /\ R'.original = R.original /\ R'.temporary = entity.value /\ R'.pending = None
      /\ R'.superseded = R.superseded /\ R' # None
  <2>1. R' \in Record
        BY <1>1, <1>2 DEF Record
  <2> QED BY <1>1, <2>1, NoneAssumption DEF Record
<1>4. past.raced \/ entity.value \notin flight \/ entity.value = R.original
      BY <1>1, <1>2 DEF Consistent, Attributed, Tells, Targets
<1>5. Attributed'
      BY <1>1, <1>2, <1>3, <1>4
         DEF Consistent, OnlyTask, Attributed, Tells, Safe, Targets, Awaits
<1> QED BY <1>1, <1>2, <1>3, <1>4, <1>5
        DEF Placed, OnlyTask, Saving, Safe, Certain, Cur

LEMMA ChangedKeeps ==
  ASSUME Consistent, ChangedWhilePending
  PROVE  Attributed' /\ Placed'
<1>1. /\ OnlyTask /\ R' = None /\ R # None /\ entity.value \notin {R.temporary, R.pending}
      /\ task'.pc = "save" /\ task'.then = "external" /\ task.pc = "update"
      BY ChangedType DEF Consistent, ChangedWhilePending, Journaled, Updating
<1>2. disk = R /\ ~past.ours
      BY <1>1 DEF Consistent, Placed, Attributed, Tells
<1>3. Attributed'
      BY <1>1, <1>2 DEF Consistent, OnlyTask, Attributed, Tells, Safe, Targets, Awaits
<1> QED BY <1>1, <1>2, <1>3 DEF Placed, OnlyTask, Saving

LEMMA SupersedesKeeps ==
  ASSUME Consistent, Supersedes
  PROVE  Attributed' /\ Placed'
<1>1. /\ OnlyTask /\ own'.status = own.status
      /\ R \in Record /\ R.pending # None /\ R.pending # entity.value
      /\ R' = [R EXCEPT !.superseded = @ \cup {R.pending}, !.pending = None,
                        !.asked = None]
      /\ task'.pc = "save" /\ task'.then = "active" /\ task'.current = entity.value
      /\ task.pc = "update"
      BY SupersedesType DEF Consistent, Supersedes, Journaled, Updating
<1>2. R # None /\ disk = R
      BY <1>1, NoneAssumption DEF Consistent, Placed
<1>3. /\ R'.original = R.original /\ R'.temporary = R.temporary /\ R'.pending = None
      /\ R'.superseded = R.superseded \cup {R.pending} /\ R' # None
  <2>1. R' \in Record
        BY <1>1 DEF Record
  <2> QED BY <1>1, <2>1, NoneAssumption DEF Record
<1>4. R.temporary # None
      BY <1>1, NoneAssumption, RangeAssumption DEF Record, Levels
<1>5. Safe(R) /\ (past.ours => entity.value = R.temporary)
      BY <1>1, <1>2 DEF Consistent, Attributed, Tells
<1>6. Attributed'
      BY <1>1, <1>2, <1>3, <1>4, <1>5
         DEF Consistent, OnlyTask, Attributed, Tells, Safe, Targets, Awaits
<1> QED BY <1>1, <1>2, <1>3, <1>5, <1>6
        DEF Consistent, Placed, OnlyTask, Saving, Safe, Certain, Cur

LEMMA DropsKeeps ==
  ASSUME Consistent, Drops
  PROVE  Attributed' /\ Placed'
<1>1. /\ OnlyTask /\ R' = None /\ Cur # R.temporary /\ task.pc = "known"
      /\ task'.pc = "save" /\ task'.then = "dropped"
      BY DropsType DEF Consistent, Known
<1>2. disk = R /\ R # None /\ ~past.ours
      BY <1>1 DEF Consistent, Placed
<1>3. Attributed'
      BY <1>1, <1>2 DEF Consistent, OnlyTask, Attributed, Tells, Safe, Targets, Awaits
<1> QED BY <1>1, <1>2, <1>3 DEF Placed, OnlyTask, Saving

LEMMA FollowsKeeps ==
  ASSUME Consistent, Follows
  PROVE  Attributed' /\ Placed'
<1>1. /\ OnlyTask /\ R' = R /\ task.pc = "known" /\ task'.pc = "rest"
      /\ own'.status = own.status \/ Cur = R.temporary
      BY FollowsType DEF Consistent, Known
<1>2. Attributed'
      BY <1>1 DEF Consistent, OnlyTask, Attributed, Tells, Safe, Targets, Awaits
<1> QED BY <1>1, <1>2 DEF Consistent, Placed, OnlyTask, Safe, Certain

LEMMA RestoresKeeps ==
  ASSUME Consistent, Restores
  PROVE  Attributed' /\ Placed'
<1>1. OnlyTask /\ Cur = R.temporary /\ task.pc = "known"
      BY RestoresType DEF Consistent, Known
<1>2. disk = R /\ R # None /\ R.pending = None
      BY <1>1 DEF Consistent, Placed
<1>3. CASE /\ Cur # R.original /\ R' = R /\ own'.status = own.status
           /\ task'.pc = "dispatch" /\ task'.then = "restored"
           /\ task'.target = R.original
  <2>1. Attributed'
        BY <1>1, <1>3 DEF Consistent, OnlyTask, Attributed, Tells, Safe, Targets, Awaits
  <2> QED BY <1>1, <1>2, <1>3, <2>1 DEF Consistent, Placed, OnlyTask, Safe, Writing
<1>4. CASE /\ Cur = R.original /\ R' = None
           /\ task'.pc = "save" /\ task'.then = "restored"
  <2>1. ~past.ours
    <3>1. R \in Record
          BY <1>2, RecordOrNone DEF Consistent
    <3>2. entity.value \in Levels /\ entity.value # None
          BY NoneAssumption, RangeAssumption DEF Consistent, Typed, TypeOK, Levels
    <3> QED BY <1>1, <1>2, <1>4, <3>1, <3>2 DEF Consistent, Attributed, Tells
  <2>2. Attributed'
        BY <1>1, <1>4, <2>1 DEF Consistent, OnlyTask, Attributed, Tells, Safe, Targets, Awaits
  <2> QED BY <1>1, <1>2, <1>4, <2>1, <2>2 DEF Placed, OnlyTask, Saving
<1> QED BY <1>3, <1>4, RestoresType DEF Consistent

LEMMA AdjustsKeeps ==
  ASSUME Consistent, Adjusts
  PROVE  Attributed' /\ Placed'
<1>1. task.pc = "rest" /\ disk = R /\ R # None /\ R.pending = None
      BY DEF Consistent, Adjusts, Rest, Placed
<1>2. CASE Passes /\ (own'.status = own.status \/ own'.status \notin Certain)
      BY <1>1, <1>2, PassesKeeps
<1>3. CASE /\ UNCHANGED <<entity, disk, flight>>
           /\ R \in Record /\ own.status \in Certain /\ own'.status = own.status
           /\ \E planned \in Levels :
                /\ planned # R.temporary
                /\ R' = [R EXCEPT !.pending = planned, !.asked = task.requested]
                /\ past' = IF planned = entity.value THEN Unattributed ELSE past
           /\ task'.pc = "save" /\ task'.then = "dispatch"
  <2>1. PICK planned \in Levels :
          /\ planned # R.temporary
          /\ R' = [R EXCEPT !.pending = planned, !.asked = task.requested]
          /\ past' = IF planned = entity.value THEN Unattributed ELSE past
        BY <1>3
  <2>2. /\ R'.original = R.original /\ R'.temporary = R.temporary
        /\ R'.pending = planned /\ R'.superseded = R.superseded
        BY <1>3, <2>1 DEF Record
  <2>3. R' # None /\ planned # None
    <3>1. task.requested \in Nat \cup {None}
          BY DEF Consistent, Typed, TypeOK, Task
    <3>2. R' \in Record
          BY <1>3, <2>1, <3>1 DEF Record
    <3> QED BY <3>2, NoneAssumption, RangeAssumption DEF Levels
  <2>4. Safe(R) /\ (past.ours => entity.value = R.temporary)
    <3>1. entity.value # None
          BY NoneAssumption, RangeAssumption DEF Consistent, Typed, TypeOK, Levels
    <3>2. Safe(R)
          BY <1>1, <1>3 DEF Consistent, Placed, Certain
    <3> QED BY <1>1, <3>1, <3>2 DEF Consistent, Attributed, Tells
  <2>5. /\ past'.base = past.base /\ past'.ours = past.ours
        /\ past'.raced = (past.raced \/ planned = entity.value)
        BY <2>1 DEF Consistent, Typed, TypeOK, Unattributed
  <2>6. Attributed'
    <3>1. Tells(R)'
      <4>1. planned # R.temporary /\ Tells(R)
            BY <1>1, <2>1 DEF Consistent, Attributed
      <4>2. ~past'.raced => past.base = R.original \/ past.base # planned
            BY <1>1, <2>4, <2>5 DEF Consistent, Attributed, Tells
      <4> QED BY <1>1, <1>3, <2>2, <2>3, <2>4, <2>5, <4>1, <4>2 DEF Tells, Safe, Targets
    <3>2. disk' # None => Tells(disk)'
          BY <1>1, <1>3, <2>5 DEF Consistent, Attributed, Tells, Safe, Targets
    <3>3. past.ours => ~past'.raced
          BY <1>1, <1>3, <2>1, <2>4, <2>5 DEF Consistent, Attributed
    <3> QED BY <1>1, <1>3, <2>5, <3>1, <3>2, <3>3 DEF Consistent, Attributed, Awaits
  <2> QED BY <1>1, <1>3, <2>2, <2>3, <2>4, <2>5, <2>6
          DEF Placed, Saving, Safe, Certain
<1> QED BY <1>2, <1>3, AdjustsType DEF Consistent

LEMMA TakesOverKeeps ==
  ASSUME Consistent, TakesOver
  PROVE  Attributed' /\ Placed'
<1>1. OnlyTask /\ task.pc = "rest" /\ R = None /\ disk = None
      BY TakesOverType DEF Consistent, Rest, Placed
<1>2. flight = {} /\ ~past.ours
      BY <1>1 DEF Consistent, Attributed, Awaits
<1>3. CASE Passes /\ R' = None
      BY <1>1, <1>3, PassesKeeps
<1>4. CASE /\ R' \in Record /\ R'.original = entity.value
           /\ R'.temporary # entity.value
           /\ R'.pending = None /\ R'.superseded = {}
           /\ task'.pc = "save" /\ task'.then = "dispatch"
  <2>1. R' # None /\ R'.temporary # None
        BY <1>4, NoneAssumption, RangeAssumption DEF Record, Levels
  <2>2. Attributed'
        BY <1>1, <1>2, <1>4, <2>1
           DEF Consistent, OnlyTask, Attributed, Tells, Safe, Targets, Awaits
  <2> QED BY <1>1, <1>2, <1>4, <2>1, <2>2 DEF Placed, OnlyTask, Saving, Safe
<1> QED BY <1>3, <1>4, TakesOverType DEF Consistent

(* The calls that remain after a save are those the new journal waits for. *)
LEMMA RemainingCalls ==
  ASSUME "stray" \notin Features, NEW r
  PROVE  Remaining(r) = flight \cap Awaits(r)
BY DEF Remaining

LEMMA SavedKeeps ==
  ASSUME "stray" \notin Features, Consistent, Saved
  PROVE  Attributed' /\ Placed'
<1>1. /\ R' = R /\ disk' = R /\ flight' = flight \cap Awaits(R)
      /\ UNCHANGED entity /\ SamePast /\ SavedTo
      BY SavedType, RemainingCalls DEF Consistent
<1>2. task.pc = "save" /\ Saving
      BY DEF Saved, Consistent, Placed
<1>3. past.ours => R # None
      BY <1>2 DEF Saving
<1>4. disk = None => flight = {}
      BY DEF Consistent, Attributed, Awaits
<1>5. Attributed'
  <2>1. flight' \subseteq Awaits(disk')
        BY <1>1
  <2>2. flight' # {} => R # None /\ disk # None /\ disk.original = R.original
        BY <1>1, <1>2, <1>4 DEF Awaits, Saving
  <2>3. flight' \subseteq flight
        BY <1>1
  <2> QED BY <1>1, <1>3, <2>1, <2>2, <2>3
          DEF Consistent, SamePast, Attributed, Tells, Safe, Targets, Awaits
<1>6. R # None /\ own.status \in Certain => Safe(R)
      BY DEF Consistent, Placed, Certain
<1>7. CASE task.then \in {"known", "active"} /\ task'.pc = "known" /\ Keeps(task')
           /\ own'.status \in {own.status, "active"}
  <2>1. R # None /\ R.pending = None /\ Safe(R) /\ (Cur = R.temporary \/ ~past.ours)
        BY <1>2, <1>7 DEF Saving
  <2>2. Cur' = Cur
        BY <1>7 DEF Keeps, Cur
  <2> QED BY <1>1, <1>5, <1>7, <2>1, <2>2 DEF Placed, SamePast, Safe
<1>8. CASE /\ task.then = "dispatch" /\ task'.pc = "dispatch" /\ task'.then = "after"
           /\ task'.target = IF R.pending = None THEN R.temporary ELSE R.pending
           /\ own'.status = own.status
  <2>1. R # None /\ (R.pending = None => R.superseded = {})
        /\ (past.ours => R.pending # None /\ entity.value = R.temporary)
        BY <1>2, <1>8 DEF Saving
  <2> QED BY <1>1, <1>5, <1>6, <1>8, <2>1 DEF Placed, SamePast, Safe, Writing, Certain
<1>9. CASE task'.pc \in {"after", "rest"} /\ own'.status \in {own.status, "restored"}
           /\ (task'.pc = "rest" => R = None)
      BY <1>1, <1>5, <1>6, <1>9 DEF Placed, SamePast, Safe, Certain
<1>10. task.then \in {"dropped", "restored"} => R = None
       BY <1>2 DEF Saving
<1> QED BY <1>1, <1>7, <1>8, <1>9, <1>10 DEF SavedTo

LEMMA DispatchKeeps ==
  ASSUME Consistent, Dispatch
  PROVE  Attributed' /\ Placed'
<1>1. /\ R' = R /\ own'.status = "confirmation_pending"
      /\ entity.value \in Replaceable(R) /\ flight' = flight \cup {task.target}
      /\ UNCHANGED <<entity, disk, past>>
      /\ task'.pc = "write" /\ task'.then = task.then /\ task'.target = task.target
      BY DispatchType DEF Consistent
<1>2. /\ task.pc = "dispatch" /\ disk = R /\ Writing
      /\ task.then = "after" =>
           /\ R.pending = None => R.superseded = {}
           /\ past.ours => R.pending # None /\ entity.value = R.temporary
      BY DEF Dispatch, Consistent, Placed
<1>3. R # None /\ task.target # None
      BY <1>2, NoneAssumption, RangeAssumption DEF Dispatch, Consistent, Typed, Aware, Levels
<1>4. task.target \in Awaits(R)
      BY <1>2, <1>3 DEF Writing, Awaits
<1>5. past.ours => entity.value # task.target
      BY <1>2 DEF Writing, Consistent, Attributed, Tells
<1>6. ~past.raced => R.original = past.base
      BY <1>1, <1>2, <1>3 DEF Consistent, Attributed, Tells, Replaceable
<1>7. R.pending # None \/ R.superseded # {} => Safe(R)'
  <2>1. R.pending # None \/ R.superseded # {} =>
          task.target # R.temporary \/ R.temporary = R.original
        BY <1>2, <1>3 DEF Writing, Consistent, Attributed, Tells
  <2>2. R.pending # None \/ R.superseded # {} => Safe(R)
        BY <1>3 DEF Consistent, Attributed, Tells
  <2> QED BY <1>1, <2>1, <2>2 DEF Safe
<1>8. Tells(R)'
      BY <1>1, <1>3, <1>7 DEF Consistent, Attributed, Tells, Targets, Safe
<1>9. Attributed'
      BY <1>1, <1>2, <1>3, <1>4, <1>5, <1>6, <1>8
         DEF Consistent, Attributed, Tells, Targets, Safe, Awaits
<1> QED BY <1>1, <1>2, <1>9 DEF Placed, Writing, Certain

LEMMA ConfirmedKeeps ==
  ASSUME Consistent, Confirmed
  PROVE  Attributed' /\ Placed'
<1>1. OnlyTask /\ R # None /\ entity.value = task.target
      BY ConfirmedType DEF Consistent
<1>2. task.pc = "write" /\ disk = R /\ Writing /\ R \in Record
      BY <1>1, RecordOrNone DEF Confirmed, Consistent, Placed
<1>3. CASE /\ task.then = "restored" /\ R' = None
           /\ task'.pc = "save" /\ task'.then = "restored"
  <2>1. ~past.ours
        BY <1>1, <1>2, <1>3 DEF Writing, Consistent, Attributed, Tells
  <2>2. Attributed'
        BY <1>1, <1>3, <2>1 DEF Consistent, OnlyTask, Attributed, Tells, Safe, Targets, Awaits
  <2> QED BY <1>1, <1>2, <1>3, <2>1, <2>2 DEF Placed, OnlyTask, Saving
<1>4. CASE /\ task.then # "restored" /\ R.pending = None
           /\ Passes /\ own'.status = "active"
  <2>1. entity.value = R.temporary
        BY <1>1, <1>2, <1>4 DEF Writing
  <2>2. Safe(R)
        BY <1>1, <2>1 DEF Consistent, Attributed, Tells, Safe, Targets
  <2> QED BY <1>2, <1>4, <2>2, PassesKeeps
<1>5. CASE /\ task.then # "restored" /\ R.pending \in Levels
           /\ task'.pc = "save" /\ task'.then = "after"
  <2>1. entity.value = R.pending /\ R.pending # None
        BY <1>1, <1>2, <1>5, NoneAssumption, RangeAssumption DEF Writing, Levels
  <2>2. CASE R.pending = R.original /\ R' = None
    <3>1. ~past.ours
          BY <1>1, <2>1, <2>2 DEF Consistent, Attributed, Tells
    <3>2. Attributed'
          BY <1>1, <2>2, <3>1
             DEF Consistent, OnlyTask, Attributed, Tells, Safe, Targets, Awaits
    <3> QED BY <1>1, <1>2, <1>5, <2>2, <3>1, <3>2 DEF Placed, OnlyTask, Saving
  <2>3. CASE /\ R.pending # R.original /\ own'.status = "active"
             /\ R' = [R EXCEPT !.temporary = R.pending, !.asked = None, !.pending = None]
    <3>1. /\ R'.original = R.original /\ R'.temporary = entity.value
          /\ R'.pending = None /\ R'.superseded = R.superseded /\ R' # None
      <4>1. R' \in Record
            BY <1>2, <1>5, <2>3 DEF Record
      <4> QED BY <1>2, <2>1, <2>3, <4>1, NoneAssumption DEF Record
    <3>2. past.raced \/ entity.value \notin flight \/ entity.value = R.original
          BY <1>1, <2>1 DEF Consistent, Attributed, Tells, Targets
    <3>3. Attributed'
          BY <1>1, <1>2, <2>1, <3>1, <3>2
             DEF Consistent, OnlyTask, Attributed, Tells, Safe, Targets, Awaits
    <3> QED BY <1>1, <1>2, <1>5, <2>3, <3>1, <3>2, <3>3
            DEF Placed, OnlyTask, Saving, Safe
  <2> QED BY <1>5, <2>2, <2>3, ConfirmedType, <1>1, <2>1 DEF Consistent
<1> QED BY <1>3, <1>4, <1>5, ConfirmedType DEF Consistent

LEMMA CallRefusedKeeps ==
  ASSUME Consistent, CallRefused
  PROVE  Attributed' /\ Placed'
<1>1. /\ R' = R /\ own'.status \notin Certain /\ task'.pc = "after"
      /\ UNCHANGED <<entity, disk, past>> /\ flight' \subseteq flight
      /\ task.pc = "write"
      BY CallRefusedType DEF Consistent, CallRefused
<1>2. Attributed'
      BY <1>1 DEF Consistent, Attributed, Tells, Safe, Targets, Awaits
<1> QED BY <1>1, <1>2 DEF Consistent, Placed, Certain

LEMMA StartKeeps ==
  ASSUME Consistent, Start
  PROVE  Attributed' /\ Placed'
<1>1. /\ OnlyTask /\ R' = None /\ own'.status = "idle" /\ task.pc = "off"
      /\ task'.pc = "load"
      BY StartType DEF Consistent
<1>2. Attributed'
      BY <1>1 DEF Consistent, OnlyTask, Attributed, Tells, Safe, Targets, Awaits
<1> QED BY <1>1, <1>2 DEF Placed

LEMMA CrashKeeps ==
  ASSUME "stray" \notin Features, Consistent, Crash
  PROVE  Attributed' /\ Placed'
<1>1. /\ R' = None /\ own'.status = "idle" /\ task'.pc = "off"
      /\ UNCHANGED entity /\ SamePast
      /\ disk' = disk \/ (task.pc = "save" /\ disk' = R)
      /\ flight' = flight \cap Awaits(disk')
      BY CrashType, RemainingCalls DEF Consistent
<1>2. flight' # {} => disk # None /\ disk' # None /\ disk'.original = disk.original
  <2>1. disk = None => flight = {}
        BY DEF Consistent, Attributed, Awaits
  <2>2. disk' = None => flight' = {}
        BY <1>1 DEF Awaits
  <2>3. task.pc = "save" => Saving
        BY DEF Consistent, Placed
  <2> QED BY <1>1, <2>1, <2>2, <2>3 DEF Saving
<1>3. disk' # None => Tells(disk)'
  <2>1. disk' # None => Tells(disk')
        BY <1>1 DEF Consistent, Attributed
  <2> QED BY <1>1, <2>1 DEF SamePast, Tells, Safe, Targets
<1>4. past.ours => disk' # None
      BY <1>1 DEF Consistent, Attributed, Placed, Saving
<1>5. Attributed'
  <2>1. flight' \subseteq Awaits(disk')
        BY <1>1
  <2>2. flight' \subseteq flight
        BY <1>1
  <2> QED BY <1>1, <1>2, <1>3, <1>4, <2>1, <2>2
          DEF Consistent, SamePast, Attributed, Awaits
<1> QED BY <1>1, <1>5 DEF Placed

LEMMA UserSetsKeeps ==
  ASSUME Consistent, NEW v \in UserLevels, UserSets(v)
  PROVE  Attributed' /\ Placed'
<1>1. /\ R' = R /\ own'.status = own.status /\ UNCHANGED <<disk, flight>>
      /\ entity'.value = v /\ ~past'.ours /\ Yielded /\ Woke(task')
      /\ \/ past'.raced
         \/ ~Named(v) /\ past'.base = v /\ flight = {}
      BY UserSetsType DEF Consistent
<1>2. task.pc \in Awaiting \cup {"off", "done"}
      BY <1>1, YieldedPlaces DEF Consistent
<1>3. CASE past'.raced
  <2>1. Attributed'
        BY <1>1, <1>3 DEF Consistent, Attributed, Tells, Safe, Targets, Awaits
  <2>2. Placed'
        BY <1>1, <1>2, <1>3
           DEF Consistent, Placed, Safe, Saving, Writing, Woke, Keeps, Cur, Awaiting
  <2> QED BY <2>1, <2>2
<1>4. CASE ~Named(v) /\ past'.base = v /\ flight = {}
  <2>1. /\ disk # None => v \notin Targets(disk)
        /\ R # None => v \notin Targets(R)
        BY <1>4 DEF Named
  <2>2. Attributed'
        BY <1>1, <1>4, <2>1 DEF Consistent, Attributed, Tells, Safe, Targets, Awaits
  <2>3. Placed'
        BY <1>1, <1>2, <1>4
           DEF Consistent, Placed, Safe, Saving, Writing, Woke, Keeps, Cur, Awaiting
  <2> QED BY <2>2, <2>3
<1> QED BY <1>1, <1>3, <1>4

LEMMA LandKeeps ==
  ASSUME "stray" \notin Features, Consistent, NEW v \in Levels, Land(v)
  PROVE  Attributed' /\ Placed'
<1>1. /\ R' = R /\ own'.status = own.status /\ UNCHANGED disk
      /\ v \in flight /\ v \in Awaits(J) /\ flight' = flight \ {v} /\ entity'.value = v
      /\ past'.base = past.base /\ past'.raced = past.raced
      /\ past'.ours = (v # past.base /\ ~past.raced)
      /\ Yielded /\ Woke(task')
      BY LandType, RemainingCalls DEF Consistent
<1>2. task.pc \in Awaiting \cup {"off", "done"}
      BY <1>1, YieldedPlaces DEF Consistent
<1>3. /\ disk # None /\ v \in Awaits(disk)
      /\ ~past.raced => disk.original = past.base
      BY <1>1 DEF Consistent, Attributed, Awaits
<1>4. R # None => R.original = disk.original /\ v \in Awaits(R)
      BY <1>1, <1>2, <1>3 DEF Consistent, Placed, Saving, J, Awaiting
<1>5. task.pc = "save" => R # None
      BY <1>1 DEF J, Awaits
<1>6. Tells(disk)' /\ (R' # None => Tells(R)')
      BY <1>1, <1>3, <1>4 DEF Consistent, Attributed, Tells, Safe, Targets, Awaits
<1>7. Attributed'
      BY <1>1, <1>3, <1>6 DEF Consistent, Attributed, Awaits
<1>8. task.pc = "save" => Saving'
  <2> SUFFICES ASSUME task.pc = "save" PROVE Saving'
      OBVIOUS
  <2>1. /\ R # None /\ task'.then = task.then /\ Cur' = Cur
        /\ v \in {R.original, R.temporary, R.pending} /\ v # None
        BY <1>1, <1>4, <1>5 DEF Woke, Keeps, Cur, Awaits
  <2>2. Safe(R)' \/ ~Safe(R)
        BY <1>1 DEF Safe
  <2>3. Saving
        BY DEF Consistent, Placed
  <2>4. task.then \in {"known", "active"} => /\ R.pending = None /\ Safe(R)
                                            /\ (Cur = R.temporary \/ ~past'.ours)
        BY <1>1, <1>3, <1>4, <2>1, <2>3 DEF Saving, Safe
  <2>5. task.then = "dispatch" /\ past'.ours => R.pending # None /\ v = R.temporary
        BY <1>1, <1>3, <1>4, <2>1, <2>3 DEF Saving, Awaits
  <2> QED BY <1>1, <2>1, <2>2, <2>3, <2>4, <2>5 DEF Saving
<1> QED BY <1>1, <1>2, <1>7, <1>8
        DEF Consistent, Placed, Safe, Writing, Woke, Keeps, Awaiting

(* Every step keeps the invariant. *)
LEMMA ConsistentStep ==
  ASSUME "stray" \notin Features, Consistent, [Next]_vars
  PROVE  Consistent'
<1>1. Typed'
      BY TypedStep DEF Consistent
<1> SUFFICES Attributed' /\ Placed'
    BY <1>1 DEF Consistent
<1>2. CASE Iterate \/ Finish \/ Hold \/ After \/ Unreadable \/ WaitsForEntity
           \/ KeepsPending \/ Refrains \/ Refuse \/ TimedOut
  <2>1. task.pc \in {"loop", "sense", "after", "update", "rest", "dispatch", "write"}
        BY <1>2 DEF Iterate, Finish, Hold, After, Unreadable, WaitsForEntity, KeepsPending,
           Refrains, Refuse, TimedOut, Updating, Journaled, Rest
  <2>2. Passes /\ (own'.status \in Certain => own'.status = own.status)
        BY <1>2, IterateType, FinishType, AfterType, UnreadableType, WaitsType, RefrainsType,
           TimedOutType DEF Consistent, Certain
  <2> QED BY <2>1, <2>2, PassesKeeps
<1>3. CASE Evaluate
  <2>1. Passes /\ (\/ own'.status = own.status \/ own'.status \notin Certain
                   \/ entity.value = IF R.pending # None THEN R.pending ELSE R.temporary)
        BY <1>3, EvaluateType DEF Consistent
  <2>2. /\ task.pc = "sense" /\ disk = R
        BY <1>3 DEF Evaluate, Consistent, Placed
  <2>3. R # None /\ entity.value = (IF R.pending # None THEN R.pending ELSE R.temporary)
          => Safe(R)
        BY DEF Consistent, Attributed, Tells, Safe, Targets
  <2> QED BY <2>1, <2>2, <2>3, PassesKeeps
<1>4. CASE Reverted \/ GivesUp
  <2>1. Passes /\ task.pc = "known" /\ (own'.status = own.status \/ Cur = R.temporary)
        BY <1>4, RevertedType DEF Consistent, Known
  <2>2. Cur = R.temporary => Safe(R)
        BY <2>1 DEF Consistent, Placed
  <2> QED BY <2>1, <2>2, PassesKeeps
<1>5. CASE NoJournal
  <2>1. OnlyTask /\ own' = own /\ task'.pc = "rest" /\ R = None /\ task.pc = "update"
        BY <1>5, NoJournalType DEF Consistent, NoJournal, Updating
  <2>2. Attributed'
        BY <2>1 DEF Consistent, OnlyTask, Attributed, Tells, Safe, Targets, Awaits, R
  <2> QED BY <2>1, <2>2 DEF Consistent, Placed, OnlyTask, R
<1>6. CASE World
  <2>1. CASE \/ LosesReading \/ RegainsReading \/ Remap
             \/ \E v \in Levels : Lose(v)
             \/ \E s \in Socs \cup {None} : SocChanges(s)
             \/ \E w \in Wishes : WishChanges(w)
             \/ \E s \in Scenes : SceneChanges(s)
        BY <2>1, AsideType, AsideKeeps DEF Consistent
  <2> QED BY <1>6, <2>1, UserSetsKeeps, LandKeeps, CrashKeeps, CallRefusedKeeps DEF World
<1>7. CASE UNCHANGED vars
  <2>1. UNCHANGED <<entity, disk, own, task, flight, past>>
        BY <1>7 DEF vars, world
  <2> QED BY <2>1 DEF Consistent, Attributed, Placed, Tells, Safe, Targets, Awaits, Saving,
          Writing, Cur, R
<1>8. CASE Load \/ NothingPending \/ LateConfirmed \/ ChangedWhilePending \/ Supersedes
           \/ Drops \/ Follows \/ Restores \/ Adjusts \/ TakesOver \/ Saved \/ Dispatch
           \/ Confirmed \/ Start
      BY <1>8, LoadKeeps, NothingPendingKeeps, LateConfirmedKeeps, ChangedKeeps,
         SupersedesKeeps, DropsKeeps, FollowsKeeps, RestoresKeeps, AdjustsKeeps,
         TakesOverKeeps, SavedKeeps, DispatchKeeps, ConfirmedKeeps, StartKeeps
<1> QED BY <1>2, <1>3, <1>4, <1>5, <1>6, <1>7, <1>8 DEF Next, TaskStep

LEMMA ConsistentInit ==
  ASSUME Init
  PROVE  Consistent
<1>1. /\ R = None /\ disk = None /\ flight = {} /\ task.pc = "done"
      /\ ~past.ours /\ past.base = entity.value
      BY DEF Init, Fresh, Idle, R
<1> QED BY <1>1, TypedInit DEF Consistent, Attributed, Placed, Awaits

(* Unless a call lands after the journal stopped waiting for it, an         *)
(* override that the reserve shows has a journal in the store, and it names *)
(* the value the user had set: across crashes in a save, late and lost      *)
(* calls and users who change the reserve meanwhile (BatteryReserve.update, *)
(* write, restore).                                                         *)
THEOREM OriginalIsKept ==
  ASSUME "stray" \notin Features
  PROVE  Spec => []OriginalKept
<1>1. Spec => []Consistent
      BY ConsistentInit, ConsistentStep, PTL DEF Spec
<1>2. Consistent => OriginalKept
      BY DEF Consistent, Attributed, Tells, OriginalKept
<1> QED BY <1>1, <1>2, PTL

-----------------------------------------------------------------------------
(* The contract of ownership *)

(* Nothing that the contract speaks of changes. *)
Quiet == /\ entity'.value = entity.value /\ disk' = disk /\ past'.ours = past.ours
LEMMA QuietStutters ==
  ASSUME Quiet
  PROVE  UNCHANGED Contract!vars
BY DEF Quiet, Contract!vars

(* The store changes only to the journal that is being saved: it is kept    *)
(* anew, kept on, or forgotten while no override shows.                     *)
LEMMA StoreFollows ==
  ASSUME Consistent, task.pc = "save", disk' \in {disk, R},
         entity'.value = entity.value, past'.ours = past.ours
  PROVE  [Contract!Next]_Contract!vars
<1>1. Saving
      BY DEF Consistent, Placed
<1>2. \A r \in Record : r.original \in Levels /\ r.original # None
      BY NoneAssumption, RangeAssumption DEF Record, Levels
<1>3. CASE disk' = disk
      BY <1>3, QuietStutters DEF Quiet
<1>4. CASE disk' = R /\ R = None
  <2>1. disk # None /\ ~past.ours
        BY <1>1, <1>4 DEF Saving
  <2>2. Contract!Forget
        BY <1>2, <1>4, <2>1, RecordOrNone DEF Consistent, Contract!Forget
  <2> QED BY <2>2 DEF Contract!Next
<1>5. CASE disk' = R /\ R # None /\ disk = None
  <2>1. ~past.ours
        BY <1>5 DEF Consistent, Attributed
  <2>2. R.original \in Levels
        BY <1>2, <1>5, RecordOrNone DEF Consistent
  <2>3. Contract!Hold(R.original)
        BY <1>5, <2>1 DEF Contract!Hold
  <2> QED BY <2>2, <2>3 DEF Contract!Next
<1>6. CASE disk' = R /\ R # None /\ disk # None
  <2>1. R.original = disk.original
        BY <1>1, <1>6 DEF Saving
  <2> QED BY <1>6, <2>1 DEF Contract!vars
<1> QED BY <1>3, <1>4, <1>5, <1>6

LEMMA UserFollows ==
  ASSUME Consistent, NEW v \in UserLevels, UserSets(v)
  PROVE  [Contract!Next]_Contract!vars
<1>1. disk' = disk /\ entity'.value = v /\ ~past'.ours /\ v \in Levels
      BY UserSetsType, InputsAssumption DEF Consistent
<1>2. past'.ours \in BOOLEAN
      BY UserSetsType DEF Consistent, Typed, TypeOK
<1>3. Contract!UserSets(v)
      BY <1>1, <1>2 DEF Contract!UserSets
<1> QED BY <1>1, <1>3 DEF Contract!Next

(* A call lands only while the store holds the original value. *)
LEMMA LandFollows ==
  ASSUME "stray" \notin Features, Consistent, NEW v \in Levels, Land(v)
  PROVE  [Contract!Next]_Contract!vars
<1>1. /\ disk' = disk /\ v \in flight /\ entity'.value = v
      BY LandType, RemainingCalls DEF Consistent
<1>2. past'.ours \in BOOLEAN
      BY LandType DEF Consistent, Typed, TypeOK
<1>3. disk # None
      BY <1>1 DEF Consistent, Attributed, Awaits
<1>4. disk.original # None
      BY <1>3, RecordOrNone, NoneAssumption, RangeAssumption DEF Consistent, Record, Levels
<1>5. Contract!Override(v)
      BY <1>1, <1>2, <1>3, <1>4 DEF Contract!Override
<1> QED BY <1>5 DEF Contract!Next

LEMMA ContractStep ==
  ASSUME "stray" \notin Features, Consistent, [Next]_vars
  PROVE  [Contract!Next]_Contract!vars
<1>1. CASE Saved
  <2>1. task.pc = "save" /\ disk' = R /\ entity'.value = entity.value
        BY <1>1 DEF Saved, R
  <2>2. past'.ours = past.ours
        BY <1>1, SavedType DEF Consistent, SamePast
  <2> QED BY <2>1, <2>2, StoreFollows
<1>2. CASE Crash
  <2>1. /\ entity'.value = entity.value /\ past'.ours = past.ours
        /\ disk' = disk \/ (task.pc = "save" /\ disk' = R)
        BY <1>2, CrashType DEF Consistent, SamePast
  <2>2. CASE disk' = disk
        BY <2>1, <2>2, QuietStutters DEF Quiet
  <2> QED BY <2>1, <2>2, StoreFollows
<1>3. CASE \/ Load \/ Iterate \/ Finish \/ Hold \/ Evaluate \/ After
           \/ NoJournal \/ Unreadable \/ WaitsForEntity \/ NothingPending
           \/ LateConfirmed \/ ChangedWhilePending \/ KeepsPending \/ Supersedes
           \/ Reverted \/ Drops \/ Follows \/ GivesUp \/ Restores \/ TakesOver
           \/ Dispatch \/ Refuse \/ Confirmed \/ TimedOut \/ CallRefused \/ Start
  <2>1. Quiet
    <3>1. CASE Iterate \/ After
          BY <3>1, IterateType, AfterType DEF Consistent, Passes, SamePast, Quiet
    <3>2. UNCHANGED <<entity, disk, past>> => Quiet
          BY DEF Quiet
    <3> QED BY <1>3, <3>1, <3>2
            DEF Load, Finish, Hold, Evaluate, NoJournal, Unreadable, WaitsForEntity,
                NothingPending, LateConfirmed, ChangedWhilePending, KeepsPending, Supersedes,
                Reverted, Drops, Follows, GivesUp, Restores, TakesOver, Dispatch, Refuse,
                Confirmed, TimedOut, CallRefused, Start, OnlyTask
  <2> QED BY <2>1, QuietStutters
<1>4. CASE Refrains \/ Adjusts
  <2>1. UNCHANGED <<entity, disk>>
        BY <1>4 DEF Refrains, Adjusts
  <2>2. past'.ours = past.ours
    <3>1. past \in [base: Levels, ours: BOOLEAN, raced: BOOLEAN, touched: BOOLEAN]
          BY DEF Consistent, Typed, TypeOK
    <3> QED BY <1>4, <3>1 DEF Refrains, Adjusts, Unattributed
  <2> QED BY <2>1, <2>2, QuietStutters DEF Quiet
<1>5. CASE \/ LosesReading \/ RegainsReading \/ Remap
           \/ \E v \in Levels : Lose(v)
           \/ \E s \in Socs \cup {None} : SocChanges(s)
           \/ \E w \in Wishes : WishChanges(w)
           \/ \E s \in Scenes : SceneChanges(s)
      BY <1>5, AsideType, QuietStutters DEF Consistent, Aside, Quiet
<1>6. CASE UNCHANGED vars
      BY <1>6, QuietStutters DEF vars, Quiet
<1> QED BY <1>1, <1>2, <1>3, <1>4, <1>5, <1>6, UserFollows, LandFollows
        DEF Next, TaskStep, World

LEMMA ContractInit ==
  ASSUME Init
  PROVE  Contract!Init
<1>1. entity.value \in Levels
      BY TypedInit DEF Typed, TypeOK
<1> QED BY <1>1 DEF Init, Contract!Init

(* Unless a call lands after the journal stopped waiting for it, the        *)
(* journal in the store and the reserve follow the contract: the reserve is *)
(* changed only while its original value is stored, that value does not     *)
(* change while it is stored, and it is not forgotten while an override     *)
(* shows (BatteryReserve.update, write and the saves of the journal).       *)
THEOREM ContractIsKept ==
  ASSUME "stray" \notin Features
  PROVE  Spec => KeepsContract
<1>1. Spec => []Consistent
      BY ConsistentInit, ConsistentStep, PTL DEF Spec
<1>2. Consistent /\ [Next]_vars => [Contract!Next]_Contract!vars
      BY ContractStep
<1>3. Init => Contract!Init
      BY ContractInit
<1> QED BY <1>1, <1>2, <1>3, PTL DEF Spec, KeepsContract, Contract!Spec

-----------------------------------------------------------------------------
(* What the user has set *)

Down == task.pc \in {"off", "load"}
(* An update that ends the episode, after it has forgotten the journal. *)
Ends ==
  /\ task.requested = None
  /\ \/ task.pc = "rest"
     \/ task.pc = "save" /\ task.then \in {"external", "dropped", "restored"}

(* A write aims at a value of the journal. *)
Aimed == task.pc \in {"dispatch", "write"} => task.target \in Replaceable(R)
(* An update raises nothing while the journal waits to be resumed. *)
Cautious ==
  own.recovering /\ task.pc \in {"known", "save", "rest", "dispatch", "write"} =>
    task.requested = None
(* A value the user has set in an episode is none of the journal's, and     *)
(* without a journal this episode does not take over again.                 *)
Respected ==
  past.touched =>
    /\ J # None => entity.value \notin Replaceable(J)
    /\ Down => disk # None
    /\ ~Down => own.session \/ own.recovering \/ Ends
    /\ ~Down /\ R = None => own.status # "unchanged" \/ Ends
Heeded == Typed /\ Aimed /\ Cautious /\ Respected

LEMMA AimedStep ==
  ASSUME Typed, Aimed, [Next]_vars
  PROVE  Aimed'
<1> SUFFICES ASSUME task'.pc \in {"dispatch", "write"}
             PROVE  task'.target \in Replaceable(R)'
    BY DEF Aimed
<1> USE DEF Replaceable, Targets
<1>1. CASE Restores
      BY <1>1, RestoresType DEF Restores
<1>2. CASE Saved
      BY <1>2, SavedType DEF SavedTo
<1>3. CASE Dispatch
      BY <1>3, DispatchType DEF Aimed, Dispatch
<1>4. CASE \/ Load \/ Iterate \/ Finish \/ Hold \/ Evaluate \/ After \/ NoJournal
           \/ Unreadable \/ WaitsForEntity \/ NothingPending \/ LateConfirmed
           \/ ChangedWhilePending \/ KeepsPending \/ Supersedes \/ Reverted \/ Drops
           \/ Follows \/ GivesUp \/ Refrains \/ Adjusts \/ TakesOver \/ Refuse
           \/ Confirmed \/ TimedOut \/ Start \/ CallRefused \/ Crash
      BY <1>4, LoadType, IterateType, FinishType, EvaluateType, AfterType, NoJournalType,
         UnreadableType, WaitsType, NothingPendingType, LateConfirmedType, ChangedType,
         SupersedesType, RevertedType, DropsType, FollowsType, RefrainsType,
         AdjustsType, TakesOverType, ConfirmedType, TimedOutType, StartType,
         CallRefusedType, CrashType DEF Passes, Around
<1>5. CASE \/ LosesReading \/ RegainsReading \/ Remap
           \/ \E v \in Levels : Lose(v)
           \/ \E s \in Socs \cup {None} : SocChanges(s)
           \/ \E w \in Wishes : WishChanges(w)
           \/ \E s \in Scenes : SceneChanges(s)
      BY <1>5, AsideType DEF Aside, Woke, Keeps, Aimed
<1>6. CASE \/ \E v \in UserLevels : UserSets(v)
           \/ \E v \in Levels : Land(v)
      BY <1>6, UserSetsType, LandType DEF Woke, Keeps, Aimed
<1>7. CASE UNCHANGED vars
      BY <1>7 DEF vars, Aimed, R
<1> QED BY <1>1, <1>2, <1>3, <1>4, <1>5, <1>6, <1>7 DEF Next, TaskStep, World

(* What outcomes and an abandoned journal leave of the episode. *)
LEMMA EpisodeKept ==
  ASSUME Typed
  PROVE  /\ \A s \in Status :
              /\ Settled(own, s).session = own.session
              /\ Settled(own, s).recovering = own.recovering
         /\ Forgotten(own).session = own.session
         /\ Forgotten(own).recovering = FALSE
         /\ Adopted.session = own.session /\ Adopted.recovering = own.recovering
         /\ Fails => own'.session = own.session /\ own'.recovering = own.recovering
BY DEF Typed, TypeOK, Own, Settled, Forgotten, Adopted, Fails, Status

LEMMA RecoveringStep ==
  ASSUME Typed, TaskStep, own'.recovering
  PROVE  own.recovering \/ Load
<1>1. own \in Own
      BY DEF Typed, TypeOK
<1>2. CASE Iterate \/ Finish \/ Hold \/ Evaluate \/ After \/ Start
  <2>1. Finish \/ Hold => own' = own
        BY DEF Finish, Hold
  <2>2. Iterate \/ After => own'.recovering \in {own.recovering, FALSE}
        BY <1>1 DEF Iterate, After, Own
  <2>3. Evaluate => own'.recovering \in {own.recovering, FALSE}
        BY <1>1 DEF Evaluate, Resumed, Own
  <2>4. Start => ~own'.recovering
        BY DEF Start, Fresh
  <2> QED BY <1>2, <2>1, <2>2, <2>3, <2>4
<1>3. CASE NoJournal \/ Unreadable \/ WaitsForEntity \/ NothingPending \/ KeepsPending
           \/ Reverted \/ Follows \/ GivesUp \/ Refuse
      BY <1>3, EpisodeKept DEF NoJournal, Unreadable, WaitsForEntity, NothingPending,
         KeepsPending, Reverted, Follows, GivesUp, Refuse
<1>4. CASE LateConfirmed
      BY <1>1, <1>4 DEF LateConfirmed, Settled, Own
<1>5. CASE ChangedWhilePending \/ Drops
      BY <1>1, <1>5 DEF ChangedWhilePending, Drops, Forgotten, Own
<1>6. CASE Supersedes \/ Restores \/ Refrains
      BY <1>1, <1>6 DEF Supersedes, Restores, Refrains, Forgotten, Own
<1>7. CASE Adjusts
      BY <1>1, <1>7, EpisodeKept DEF Adjusts, Own
<1>8. CASE TakesOver
      BY <1>1, <1>8 DEF TakesOver, Own
<1>9. CASE Saved
  <2>1. \/ own' = own \/ own' = Settled(own, "active") \/ own' = Settled(own, "restored")
        \/ own' = [own EXCEPT !.session = @ /\ task.requested # None]
    <3>1. task.then \in {"known", "active", "external", "dropped", "dispatch", "restored",
                         "after"}
          BY DEF Typed, TypeOK, Task
    <3> QED BY <1>9, <3>1 DEF Saved
  <2> QED BY <1>1, <2>1, EpisodeKept DEF Own, Status
<1>10. CASE Dispatch \/ TimedOut
      BY <1>1, <1>10 DEF Dispatch, TimedOut, Own
<1>11. CASE Confirmed
      BY <1>1, <1>11 DEF Confirmed, Accepted, Settled, Forgotten, Own
<1> QED BY <1>2, <1>3, <1>4, <1>5, <1>6, <1>7, <1>8, <1>9, <1>10, <1>11 DEF TaskStep

LEMMA CautiousStep ==
  ASSUME Typed, Cautious, [Next]_vars
  PROVE  Cautious'
<1> SUFFICES ASSUME own'.recovering,
                    task'.pc \in {"known", "save", "rest", "dispatch", "write"}
             PROVE  task'.requested = None
    BY DEF Cautious
<1>1. CASE TaskStep
  <2>1. own.recovering \/ Load
        BY <1>1, RecoveringStep
  <2>2. ~Load
        BY LoadType DEF Load
  <2>3. own.recovering
        BY <2>1, <2>2
  <2>4. CASE NoJournal \/ WaitsForEntity \/ NothingPending \/ LateConfirmed
             \/ ChangedWhilePending \/ KeepsPending \/ Supersedes
    <3>1. task'.requested = Asked
          BY <2>4, ReadsType DEF NoJournal, WaitsForEntity, NothingPending, LateConfirmed,
             ChangedWhilePending, KeepsPending, Supersedes, Typed, TypeOK, Task, Places,
             Thens, Straight
    <3> QED BY <2>3, <3>1 DEF Asked
  <2>5. CASE Reverted \/ Drops \/ Follows \/ GivesUp \/ Restores \/ Refrains \/ Adjusts
             \/ TakesOver \/ Saved \/ Dispatch \/ Confirmed
    <3>1. task.pc \in {"known", "save", "rest", "dispatch", "write"}
          BY <2>5 DEF Reverted, Drops, Follows, GivesUp, Restores, Refrains, Adjusts,
             TakesOver, Saved, Dispatch, Confirmed, Known, Rest
    <3>2. task'.requested = task.requested
      <4>1. task \in Task
            BY DEF Typed, TypeOK
      <4>2. \/ \E pc \in Places : Goes(pc)
            \/ \E then \in Thens : Saves(then)
            \/ \E target, then : Writes(target, then)
            \/ Drops
        <5>1. task.then \in Thens
              BY <4>1 DEF Task, Thens
        <5> QED BY <2>5, <5>1 DEF Reverted, Follows, GivesUp, Restores, Refrains, Adjusts,
                TakesOver, Saved, Dispatch, Confirmed, Accepted, Fails, Places, Thens,
                Straight, Awaiting
      <4> QED BY <4>1, <4>2 DEF Drops, Goes, Saves, Writes, Task
    <3> QED BY <2>3, <3>1, <3>2 DEF Cautious
  <2>6. CASE Iterate \/ Finish \/ Hold \/ Evaluate \/ After \/ Unreadable \/ Refuse
             \/ TimedOut \/ Start
    BY <2>6, IterateType, FinishType, EvaluateType, AfterType, UnreadableType,
       TimedOutType, StartType DEF Passes, Around
  <2> QED BY <1>1, <2>2, <2>4, <2>5, <2>6 DEF TaskStep
<1>2. CASE CallRefused \/ Crash
      BY <1>2, CallRefusedType, CrashType
<1>3. CASE \/ LosesReading \/ RegainsReading \/ Remap
           \/ \E v \in UserLevels : UserSets(v)
           \/ \E v \in Levels : Land(v) \/ Lose(v)
           \/ \E s \in Socs \cup {None} : SocChanges(s)
           \/ \E w \in Wishes : WishChanges(w)
           \/ \E s \in Scenes : SceneChanges(s)
  <2>1. Woke(task')
        BY <1>3, AsideType, UserSetsType, LandType DEF Aside
  <2>2. own'.recovering = own.recovering
        BY <1>3 DEF LosesReading, RegainsReading, Remap, UserSets, Land, Lose, SocChanges,
           WishChanges, SceneChanges, Typed, TypeOK, Own
  <2> QED BY <2>1, <2>2 DEF Woke, Keeps, Cautious
<1>4. CASE UNCHANGED vars
      BY <1>4 DEF vars, Cautious
<1> QED BY <1>1, <1>2, <1>3, <1>4 DEF Next, World

(* A journal that names no more than before still names no value of the user. *)
LEMMA StillForeign ==
  ASSUME Typed, Respected, ~Down, ~Down', entity'.value = entity.value,
         past'.touched => past.touched,
         R' = None \/ (R # None /\ Replaceable(R)' \subseteq Replaceable(R)),
         past'.touched => own'.session \/ own'.recovering \/ Ends',
         past'.touched /\ R' = None => own'.status # "unchanged" \/ Ends'
  PROVE  Respected'
BY DEF Respected, Down, J

(* Where the reserve shows a value of the journal, none of the user's shows. *)
LEMMA NoneTouched ==
  ASSUME Respected, ~Down, R # None, entity.value \in Replaceable(R)
  PROVE  ~past.touched
BY DEF Respected, Down, J

(* The task moves on with journal and episode as they are. *)
LEMMA MovesRespected ==
  ASSUME Typed, Respected, ~Down, ~Down', ~Ends, UNCHANGED <<entity, past>>, R' = R,
         own'.session = own.session, own'.recovering = own.recovering,
         R # None \/ own'.status = own.status
  PROVE  Respected'
BY DEF Respected, Down, J, Replaceable, Targets

LEMMA PassesRespected ==
  ASSUME Heeded,
         \/ Iterate \/ Finish \/ Hold \/ Evaluate \/ After \/ NoJournal \/ Unreadable
         \/ WaitsForEntity \/ NothingPending \/ KeepsPending \/ Reverted \/ Follows
         \/ GivesUp \/ Refuse \/ TimedOut
  PROVE  Respected'
<1>1. own \in Own /\ Typed /\ Respected
      BY DEF Heeded, Typed, TypeOK
<1>2. ~Down /\ ~Ends
      BY DEF Down, Ends, Iterate, Finish, Hold, Evaluate, After, NoJournal, Unreadable,
         WaitsForEntity, NothingPending, KeepsPending, Reverted, Follows, GivesUp, Refuse,
         TimedOut, Updating, Journaled, Known
<1>3. R' = R /\ UNCHANGED entity /\ ~Down'
      BY <1>1, IterateType, FinishType, EvaluateType, AfterType, NoJournalType,
         UnreadableType, WaitsType, NothingPendingType, RevertedType, FollowsType,
         TimedOutType DEF Passes, Around, Down, OnlyTask, R
<1>4. CASE Iterate
  <2>1. CASE mapped # own.configured
    <3>1. ~past'.touched
          BY <1>4, <2>1, <1>1 DEF Iterate, Typed, TypeOK
    <3> QED BY <3>1 DEF Respected
  <2>2. CASE mapped = own.configured
        BY <1>1, <1>2, <1>3, <1>4, <2>2, MovesRespected DEF Iterate
  <2> QED BY <2>1, <2>2
<1>5. CASE After
  <2>1. CASE ~past'.touched
        BY <2>1 DEF Respected
  <2>2. CASE UNCHANGED <<own, past>>
        BY <1>1, <1>2, <1>3, <2>2, MovesRespected
  <2> QED BY <1>1, <1>5, <2>1, <2>2 DEF After, Typed, TypeOK
<1>6. CASE Evaluate
  <2>1. UNCHANGED past
        BY <1>6 DEF Evaluate, OnlyTask
  <2>2. CASE own' = own
        BY <1>1, <1>2, <1>3, <2>1, <2>2, MovesRespected
  <2>3. CASE own' = Resumed
    <3>1. own'.session /\ own'.status # "unchanged"
          BY <1>1, <2>3 DEF Resumed, Own
    <3> QED BY <1>1, <1>2, <1>3, <2>1, <3>1, StillForeign DEF Replaceable, Targets
  <2> QED BY <1>6, <2>2, <2>3 DEF Evaluate
<1>7. CASE Finish \/ Hold \/ NoJournal \/ WaitsForEntity \/ NothingPending \/ KeepsPending
           \/ GivesUp
  <2>1. own' = own /\ UNCHANGED past
        BY <1>7 DEF Finish, Hold, NoJournal, WaitsForEntity, NothingPending, KeepsPending,
           GivesUp, OnlyTask
  <2> QED BY <1>1, <1>2, <1>3, <2>1, MovesRespected
<1>8. CASE Unreadable \/ Refuse \/ Reverted \/ Follows \/ TimedOut
  <2>1. R # None
        BY <1>1, <1>8 DEF Typed, Aware, Unreadable, Refuse, Reverted, Follows, TimedOut, Known
  <2>2. own'.session = own.session /\ own'.recovering = own.recovering
    <3>1. CASE TimedOut
          BY <1>1, <3>1 DEF TimedOut, Own
    <3> QED BY <1>1, <1>8, <3>1, EpisodeKept DEF Unreadable, Refuse, Reverted, Follows
  <2>3. UNCHANGED past
        BY <1>8 DEF Unreadable, Refuse, Reverted, Follows, TimedOut, OnlyTask
  <2> QED BY <1>1, <1>2, <1>3, <2>1, <2>2, <2>3, MovesRespected
<1> QED BY <1>4, <1>5, <1>6, <1>7, <1>8

(* What forgets the journal before the charging has ended.  *)
LEMMA DropsRespected ==
  ASSUME Heeded, ChangedWhilePending \/ Drops \/ Restores
  PROVE  Respected'
<1>1. own \in Own /\ task \in Task /\ Typed /\ Respected /\ Cautious
      BY DEF Heeded, Typed, TypeOK
<1>2. ~Down /\ ~Ends /\ UNCHANGED <<entity, past>>
      BY DEF Down, Ends, ChangedWhilePending, Drops, Restores, Updating, Journaled, Known,
         OnlyTask
<1>3. CASE ChangedWhilePending
  <2>1. R' = None /\ task'.pc = "save" /\ task'.then = "external" /\ task'.requested = Asked
        BY <1>1, <1>3, ChangedType, ReadsType DEF ChangedWhilePending, Thens
  <2>2. own'.session = own.session /\ own'.status = "external_change"
        BY <1>1, <1>3 DEF ChangedWhilePending, Forgotten, Own, Status
  <2>3. own.recovering => Ends'
        BY <2>1 DEF Ends, Asked
  <2>4. past'.touched => own'.session \/ own'.recovering \/ Ends'
        BY <1>1, <1>2, <2>1, <2>2, <2>3 DEF Respected
  <2> QED BY <1>1, <1>2, <2>1, <2>2, <2>4, StillForeign DEF Down
<1>4. CASE Drops
  <2>1. /\ R' = None /\ task'.pc = "save" /\ task'.then = "dropped"
        /\ task'.requested = task.requested /\ Known
        BY <1>1, <1>4, DropsType DEF Drops, Task
  <2>2. /\ own'.session = own.session
        /\ Cur # R.original => own'.status = "external_change"
        BY <1>1, <1>4 DEF Drops, Forgotten, Own, Status
  <2>3. Cur = R.original => task.requested = None
        BY <1>4 DEF Drops
  <2>4. own.recovering => task.requested = None
        BY <1>1, <2>1 DEF Cautious, Known
  <2>5. task.requested = None => Ends'
        BY <2>1 DEF Ends
  <2>6. past'.touched => own'.session \/ own'.recovering \/ Ends'
        BY <1>1, <1>2, <2>2, <2>4, <2>5 DEF Respected
  <2> QED BY <1>1, <1>2, <2>1, <2>2, <2>3, <2>5, <2>6, StillForeign DEF Down
<1>5. CASE Restores
  <2>1. task.requested = None /\ task'.requested = task.requested
        BY <1>1, <1>5 DEF Restores, Writes, Saves, Task
  <2>2. CASE R' = R /\ task'.pc = "dispatch"
    <3>1. own'.session = own.session /\ own'.recovering = own.recovering
          BY <1>1, <1>5, <2>2 DEF Restores, Writes, Saves, Own, Task
    <3>2. R # None
          BY <1>1, <1>5 DEF Restores, Known, Typed, Aware
    <3> QED BY <1>1, <1>2, <2>2, <3>1, <3>2, MovesRespected DEF Down
  <2>3. CASE R' = None /\ task'.pc = "save" /\ task'.then = "restored"
    <3>1. Ends'
          BY <2>1, <2>3 DEF Ends
    <3> QED BY <1>1, <1>2, <2>3, <3>1, StillForeign DEF Down
  <2> QED BY <1>1, <1>5, <2>2, <2>3, RestoresType
<1> QED BY <1>3, <1>4, <1>5

LEMMA NarrowedRespected ==
  ASSUME Heeded, LateConfirmed \/ Supersedes
  PROVE  Respected'
<1>1. own \in Own /\ Typed /\ Respected
      BY DEF Heeded, Typed, TypeOK
<1>2. ~Down /\ ~Ends /\ UNCHANGED <<entity, past>>
      BY DEF Down, Ends, LateConfirmed, Supersedes, Updating, Journaled, OnlyTask
<1>3. CASE LateConfirmed
  <2>1. R # None /\ R.pending = entity.value /\ entity.value # None
        BY <1>1, <1>3, NoneAssumption, RangeAssumption
           DEF LateConfirmed, Journaled, Typed, TypeOK, Levels
  <2>2. ~past'.touched
        BY <1>1, <1>2, <2>1, NoneTouched DEF Replaceable, Targets
  <2> QED BY <2>2 DEF Respected
<1>4. CASE Supersedes
  <2>1. /\ R \in Record /\ R.pending # None /\ task'.pc = "save"
        /\ R' = [R EXCEPT !.superseded = @ \cup {R.pending}, !.pending = None,
                          !.asked = None]
        /\ own'.status = own.status
        BY <1>1, <1>4, SupersedesType
  <2>2. /\ R'.original = R.original /\ R'.temporary = R.temporary /\ R'.pending = None
        /\ R'.superseded = R.superseded \cup {R.pending}
        BY <2>1 DEF Record
  <2>3. Replaceable(R)' \subseteq Replaceable(R)
        BY <2>1, <2>2 DEF Replaceable, Targets
  <2>4. R # None /\ R' # None
    <3>1. R' \in Record
          BY <2>1 DEF Record
    <3> QED BY <2>1, <3>1, NoneAssumption
  <2>5. own'.session = own.session /\ own'.recovering = own.recovering
        BY <1>1, <1>4 DEF Supersedes, Own
  <2>6. past'.touched => own'.session \/ own'.recovering
        BY <1>1, <1>2, <2>5 DEF Respected
  <2>7. past'.touched => past.touched
        BY <1>2
  <2>8. ~Down' /\ entity'.value = entity.value
        BY <1>2, <2>1 DEF Down
  <2> QED BY <1>1, <1>2, <2>3, <2>4, <2>6, <2>7, <2>8, StillForeign
<1> QED BY <1>3, <1>4

LEMMA RestRespected ==
  ASSUME Heeded, Refrains \/ Adjusts \/ TakesOver
  PROVE  Respected'
<1>1. /\ own \in Own /\ task \in Task /\ Typed /\ Respected /\ Cautious
      /\ past \in [base: Levels, ours: BOOLEAN, raced: BOOLEAN, touched: BOOLEAN]
      BY DEF Heeded, Typed, TypeOK
<1>2. task.pc = "rest" /\ UNCHANGED entity /\ ~Down
      BY DEF Refrains, Adjusts, TakesOver, Rest, OnlyTask, Down
<1>3. past.touched /\ task.requested # None => own.session /\ ~own.recovering
      BY <1>1, <1>2 DEF Respected, Cautious, Ends, Down
<1>4. CASE Refrains
  <2>1. CASE task.requested = None
    <3>1. ~past'.touched
          BY <1>1, <1>4, <2>1 DEF Refrains
    <3> QED BY <3>1 DEF Respected
  <2>2. CASE task.requested # None
    <3>1. past'.touched = past.touched /\ UNCHANGED entity
          BY <1>1, <1>4, <2>2 DEF Refrains
    <3>2. R' = R /\ own'.session = own.session /\ own'.status = own.status
          BY <1>1, <1>4, <2>2 DEF Refrains, Own, R
    <3>3. task'.pc = "after"
          BY <1>1, <1>4, GoesType DEF Refrains, Places, Straight
    <3>4. ~Ends
          BY <2>2 DEF Ends
    <3>5. past'.touched /\ R' = None => own'.status # "unchanged"
          BY <1>1, <1>2, <3>1, <3>2, <3>4 DEF Respected
    <3>6. past'.touched => own'.session
          BY <1>3, <2>2, <3>1, <3>2
    <3>7. R' = None \/ (R # None /\ Replaceable(R)' \subseteq Replaceable(R))
          BY <3>2 DEF Replaceable, Targets
    <3>8. ~Down'
          BY <3>3 DEF Down
    <3> QED BY <1>1, <1>2, <3>1, <3>5, <3>6, <3>7, <3>8, StillForeign
  <2> QED BY <2>1, <2>2
<1>5. CASE TakesOver
  <2>1. task.requested # None /\ R = None /\ (~own.session \/ own.status = "unchanged")
        BY <1>5 DEF TakesOver
  <2>2. ~past.touched
        BY <1>1, <1>2, <1>3, <2>1 DEF Respected, Ends, Down
  <2>3. ~past'.touched
        BY <1>5, <2>2 DEF TakesOver, OnlyTask
  <2> QED BY <2>3 DEF Respected
<1>6. CASE Adjusts
  <2>1. R # None /\ task.requested # None
        BY <1>6 DEF Adjusts
  <2>2. ~Ends
        BY <2>1 DEF Ends
  <2>3. CASE R' = R /\ UNCHANGED past /\ task'.pc = "after"
             /\ own'.session = own.session /\ own'.recovering = own.recovering
        BY <1>1, <1>2, <2>1, <2>2, <2>3, MovesRespected DEF Down
  <2>4. CASE R \in Record /\ (\E planned \in Levels :
                /\ planned # R.temporary
                /\ R' = [R EXCEPT !.pending = planned, !.asked = task.requested]
                /\ past' = IF planned = entity.value THEN Unattributed ELSE past)
             /\ task'.pc = "save" /\ own'.session = own.session
             /\ own'.recovering = own.recovering
    <3>1. PICK planned \in Levels :
                /\ R' = [R EXCEPT !.pending = planned, !.asked = task.requested]
                /\ past' = IF planned = entity.value THEN Unattributed ELSE past
          BY <2>4
    <3>2. CASE planned = entity.value
      <4>1. ~past'.touched
            BY <1>1, <3>1, <3>2 DEF Unattributed
      <4> QED BY <4>1 DEF Respected
    <3>3. CASE planned # entity.value
      <4>1. past' = past
            BY <3>1, <3>3
      <4>2. /\ R'.original = R.original /\ R'.temporary = R.temporary
            /\ R'.pending = planned /\ R'.superseded = R.superseded
            BY <2>4, <3>1 DEF Record
      <4>3. Replaceable(R)' \subseteq Replaceable(R) \cup {planned}
            BY <4>2 DEF Replaceable, Targets
      <4>4. R' # None
        <5>1. task.requested \in Nat \cup {None}
              BY <1>1 DEF Task
        <5>2. R' \in Record
              BY <2>4, <3>1, <5>1 DEF Record
        <5> QED BY <5>2, NoneAssumption
      <4>5. past'.touched => entity'.value \notin Replaceable(R)'
            BY <1>1, <1>2, <2>1, <3>3, <4>1, <4>3 DEF Respected, J, Down
      <4>6. past'.touched => own'.session
            BY <1>3, <2>1, <2>4, <4>1
      <4> QED BY <2>4, <4>4, <4>5, <4>6 DEF Respected, J, Down
    <3> QED BY <3>2, <3>3
  <2>5. own'.session = own.session /\ own'.recovering = own.recovering
        BY <1>1, <1>6, EpisodeKept DEF Adjusts, Own
  <2>6. CASE Fails /\ UNCHANGED past
        BY <1>1, <2>3, <2>5, <2>6, FailsType
  <2>7. CASE Goes("after") /\ UNCHANGED <<own, past>>
        BY <1>1, <2>3, <2>5, <2>7, GoesType DEF Places, Straight, R
  <2>8. CASE Saves("dispatch")
    <3>1. task'.pc = "save"
          BY <1>1, <2>8, SavesType DEF Thens
    <3> QED BY <1>1, <1>6, <2>4, <2>5, <3>1, AdjustsType DEF Passes, Around
  <2> QED BY <1>6, <2>6, <2>7, <2>8 DEF Adjusts
<1> QED BY <1>4, <1>5, <1>6

LEMMA SavedRespected ==
  ASSUME Heeded, Saved
  PROVE  Respected'
<1>1. /\ own \in Own /\ task \in Task /\ Typed /\ Respected /\ Cautious
      /\ past \in [base: Levels, ours: BOOLEAN, raced: BOOLEAN, touched: BOOLEAN]
      BY DEF Heeded, Typed, TypeOK
<1>2. /\ task.pc = "save" /\ R' = R /\ UNCHANGED entity /\ SavedTo /\ ~Down
      BY <1>1, SavedType DEF Saved, Down
<1>3. ~Down'
      BY <1>2 DEF SavedTo, Down
<1>4. Replaceable(R)' = Replaceable(R)
      BY <1>2 DEF Replaceable, Targets
<1>5. task.then \in Thens
      BY <1>1 DEF Task, Thens
<1>6. CASE task.then \in {"known", "active", "dispatch", "after"}
  <2>1. past' = past
        BY <1>6 DEF Saved
  <2>2. \/ own' = own \/ own' = Settled(own, "active")
        BY <1>6 DEF Saved
  <2>3. own'.session = own.session /\ own'.recovering = own.recovering
        BY <1>1, <2>2, EpisodeKept DEF Status
  <2>4. own'.status = own.status \/ own'.status = "active"
        BY <1>1, <2>2 DEF Settled, Own
  <2>5. ~Ends
        BY <1>2, <1>6 DEF Ends
  <2>6. past'.touched => own'.session \/ own'.recovering
        BY <1>1, <1>2, <2>1, <2>3, <2>5 DEF Respected
  <2>7. past'.touched /\ R' = None => own'.status # "unchanged"
        BY <1>1, <1>2, <2>1, <2>4, <2>5 DEF Respected
  <2> QED BY <1>1, <1>2, <1>3, <1>4, <2>1, <2>6, <2>7, StillForeign
<1>7. CASE task.then = "external"
  <2>1. /\ own'.session = (own.session /\ task.requested # None)
        /\ past'.touched = (past.touched /\ task.requested # None)
        /\ own'.status = own.status
        BY <1>1, <1>7 DEF Saved, Own
  <2>2. past'.touched => own'.session
        BY <1>1, <1>2, <2>1 DEF Respected, Cautious, Ends
  <2>3. past'.touched /\ R' = None => own'.status # "unchanged"
        BY <1>1, <1>2, <2>1 DEF Respected, Ends
  <2> QED BY <1>1, <1>2, <1>3, <1>4, <2>1, <2>2, <2>3, StillForeign
<1>8. CASE task.then \in {"dropped", "restored"}
  <2>1. past' = past /\ task'.pc = "rest"
        BY <1>1, <1>2, <1>8 DEF Saved, SavedTo
  <2>2. own' = own \/ own' = Settled(own, "restored")
        BY <1>8 DEF Saved
  <2>3. own'.session = own.session /\ own'.recovering = own.recovering
        BY <1>1, <2>2, EpisodeKept DEF Status
  <2>4. own'.status = own.status \/ own'.status = "restored"
        BY <1>1, <2>2 DEF Settled, Own
  <2>5. task'.requested = task.requested
        BY <1>1, <1>8 DEF Saved, Goes, Task
  <2>6. Ends => Ends'
        BY <1>2, <2>1, <2>5 DEF Ends
  <2>7. past'.touched => own'.session \/ own'.recovering \/ Ends'
        BY <1>1, <1>2, <2>1, <2>3, <2>6 DEF Respected
  <2>8. past'.touched /\ R' = None => own'.status # "unchanged" \/ Ends'
        BY <1>1, <1>2, <2>1, <2>4, <2>6 DEF Respected
  <2> QED BY <1>1, <1>2, <1>3, <1>4, <2>1, <2>7, <2>8, StillForeign
<1> QED BY <1>5, <1>6, <1>7, <1>8 DEF Thens

(* A call goes out, and is confirmed, only where a value of the journal shows. *)
LEMMA WritesRespected ==
  ASSUME Heeded, Dispatch \/ Confirmed
  PROVE  ~past.touched /\ Respected'
<1>1. task.pc \in {"dispatch", "write"} /\ UNCHANGED past /\ Typed /\ Respected /\ Aimed
      BY DEF Dispatch, Confirmed, OnlyTask, Heeded
<1>2. R # None /\ entity.value \in Replaceable(R)
  <2>1. CASE Dispatch
        BY <1>1, <2>1 DEF Dispatch, Writable, Typed, Aware
  <2>2. CASE Confirmed
        BY <1>1, <2>2 DEF Confirmed, Matches, Typed, Aware, Aimed
  <2> QED BY <2>1, <2>2
<1>3. ~past.touched
      BY <1>1, <1>2, NoneTouched DEF Down
<1> QED BY <1>1, <1>3 DEF Respected

LEMMA StartRespected ==
  ASSUME Heeded, Start \/ Load
  PROVE  Respected'
<1>1. Typed /\ Respected /\ own \in Own
      BY DEF Heeded, Typed, TypeOK
<1>2. CASE Start
  <2>1. Down /\ Down' /\ UNCHANGED <<entity, disk, past>>
        BY <1>1, <1>2, StartType DEF Down, OnlyTask
  <2> QED BY <1>1, <2>1 DEF Respected, J, Down, Replaceable, Targets
<1>3. CASE Load
  <2>1. /\ R' = disk /\ UNCHANGED <<entity, disk, past>> /\ Down /\ ~Down'
        BY <1>1, <1>3, LoadType DEF Load, Down
  <2>2. own'.recovering = (disk # None)
        BY <1>1, <1>3 DEF Load, Own
  <2> QED BY <1>1, <2>1, <2>2 DEF Respected, J, Down, Replaceable, Targets
<1> QED BY <1>2, <1>3

(* While the environment acts, only a user makes a value the user's. *)
LEMMA WorldRespected ==
  ASSUME Heeded, World
  PROVE  Respected'
<1>1. /\ own \in Own /\ Typed /\ Respected
      /\ past \in [base: Levels, ours: BOOLEAN, raced: BOOLEAN, touched: BOOLEAN]
      BY DEF Heeded, Typed, TypeOK
<1>2. CASE Crash \/ \E v \in Levels : Land(v)
  <2>1. ~past'.touched
        BY <1>1, <1>2 DEF Crash, Land
  <2> QED BY <2>1 DEF Respected
<1>3. CASE CallRefused
  <2>1. /\ R' = R /\ UNCHANGED <<entity, past>> /\ task'.pc = "after" /\ task.pc = "write"
        BY <1>1, <1>3, CallRefusedType DEF CallRefused
  <2>2. R # None
        BY <1>1, <2>1 DEF Typed, Aware
  <2>3. own'.session = own.session /\ own'.recovering = own.recovering
        BY <1>1, <1>3, EpisodeKept DEF CallRefused
  <2> QED BY <1>1, <2>1, <2>2, <2>3, MovesRespected DEF Down, Ends
<1>4. CASE \/ LosesReading \/ RegainsReading \/ Remap
           \/ \E v \in Levels : Lose(v)
           \/ \E s \in Socs \cup {None} : SocChanges(s)
           \/ \E w \in Wishes : WishChanges(w)
           \/ \E s \in Scenes : SceneChanges(s)
  <2>1. /\ R' = R /\ own'.status = own.status /\ UNCHANGED <<disk, past>>
        /\ entity'.value = entity.value /\ Woke(task')
        /\ task.pc \in Awaiting \cup {"off", "done"}
        BY <1>1, <1>4, AsideType DEF Aside
  <2>2. own'.session = own.session /\ own'.recovering = own.recovering
        BY <1>1, <1>4 DEF LosesReading, RegainsReading, Remap, Lose, SocChanges, WishChanges,
           SceneChanges, Own
  <2> QED BY <1>1, <2>1, <2>2
          DEF Respected, J, Down, Ends, Replaceable, Targets, Woke, Keeps, Awaiting
<1>5. CASE \E v \in UserLevels : UserSets(v)
  <2>1. PICK v \in UserLevels : UserSets(v)
        BY <1>5
  <2>2. /\ R' = R /\ own' = own /\ UNCHANGED disk /\ entity'.value = v /\ Woke(task')
        /\ Yielded
        BY <1>1, <2>1, UserSetsType DEF UserSets
  <2>3. task.pc \in Awaiting \cup {"off", "done"}
        BY <1>1, <2>2, YieldedPlaces
  <2>4. Down' = Down /\ J' = J /\ Ends' = Ends
        BY <2>2, <2>3 DEF Down, J, Ends, Woke, Keeps, Awaiting
  <2>5. CASE Named(v)
    <3>1. ~past'.touched
          BY <1>1, <2>1, <2>5 DEF UserSets, Unattributed
    <3> QED BY <3>1 DEF Respected
  <2>6. CASE ~Named(v) /\ J = None
    <3>1. past'.touched = past.touched
          BY <2>1, <2>6 DEF UserSets
    <3> QED BY <1>1, <2>2, <2>4, <2>6, <3>1 DEF Respected
  <2>7. CASE ~Named(v) /\ J # None
    <3>1. past'.touched = (Episode /\ v # J.original)
          BY <2>1, <2>7 DEF UserSets
    <3>2. J \in {disk, R}
          BY DEF J
    <3>3. v \notin Targets(J)
          BY <2>7, <3>2 DEF Named
    <3>4. past'.touched => v \notin Replaceable(J)
          BY <3>1, <3>3 DEF Replaceable
    <3>5. Down => J = disk
          BY DEF J, Down
    <3>6. ~Down => J = R
          BY DEF J, Down
    <3>7. past'.touched /\ ~Down => own.session \/ own.recovering
          BY <3>1 DEF Episode, Down
    <3>8. Replaceable(J)' = Replaceable(J)
          BY <2>4 DEF Replaceable, Targets
    <3> QED BY <2>2, <2>4, <2>7, <3>4, <3>5, <3>6, <3>7, <3>8 DEF Respected
  <2> QED BY <2>5, <2>6, <2>7
<1> QED BY <1>2, <1>3, <1>4, <1>5 DEF World

LEMMA HeededStep ==
  ASSUME Heeded, [Next]_vars
  PROVE  Heeded'
<1>1. Typed' /\ Aimed' /\ Cautious'
      BY TypedStep, AimedStep, CautiousStep DEF Heeded
<1>2. CASE TaskStep
  <2>1. Respected'
        BY <1>2, PassesRespected, DropsRespected, NarrowedRespected, RestRespected,
           SavedRespected, WritesRespected, StartRespected DEF TaskStep
  <2> QED BY <1>1, <2>1 DEF Heeded
<1>3. CASE World
      BY <1>1, <1>3, WorldRespected DEF Heeded
<1>4. CASE UNCHANGED vars
  <2>1. UNCHANGED <<entity, disk, own, task, past>>
        BY <1>4 DEF vars
  <2>2. Respected'
        BY <2>1 DEF Heeded, Respected, J, R, Down, Ends, Replaceable, Targets
  <2> QED BY <1>1, <2>2 DEF Heeded
<1> QED BY <1>2, <1>3, <1>4 DEF Next

LEMMA HeededInit ==
  ASSUME Init
  PROVE  Heeded
BY TypedInit DEF Init, Fresh, Idle, Heeded, Aimed, Cautious, Respected

(* No step writes over a value the user has set since the takeover, and in  *)
(* that charging episode the reserve is not taken over again: whatever      *)
(* calls land, are lost or stray, crashes and changed mappings included     *)
(* (BatteryReserve.write compares the reserve again before the call;        *)
(* session and external_change in update).                                  *)
THEOREM ExternalWinsHolds == Spec => ExternalWins
<1>1. Spec => []Heeded
      BY HeededInit, HeededStep, PTL DEF Spec
<1>2. Heeded /\ [Next]_vars => (task.pc = "dispatch" /\ task'.pc = "write" => ~past.touched)
  <2> SUFFICES ASSUME Heeded, [Next]_vars, task.pc = "dispatch", task'.pc = "write"
               PROVE  ~past.touched
      OBVIOUS
  <2>1. CASE Dispatch
        BY <2>1, WritesRespected
  <2>2. Typed
        BY DEF Heeded
  <2>3. CASE Refuse
        BY <2>2, <2>3, UnreadableType DEF Passes, Around
  <2>4. CASE Crash
        BY <2>2, <2>4, CrashType
  <2>5. CASE \/ Load \/ Iterate \/ Finish \/ Hold \/ Evaluate \/ After \/ NoJournal
             \/ Unreadable \/ WaitsForEntity \/ NothingPending \/ LateConfirmed
             \/ ChangedWhilePending \/ KeepsPending \/ Supersedes \/ Reverted \/ Drops
             \/ Follows \/ GivesUp \/ Restores \/ Refrains \/ Adjusts \/ TakesOver
             \/ Saved \/ Confirmed \/ TimedOut \/ Start \/ CallRefused
        BY <2>5 DEF Load, Iterate, Finish, Hold, Evaluate, After, NoJournal, Unreadable,
           WaitsForEntity, NothingPending, LateConfirmed, ChangedWhilePending, KeepsPending,
           Supersedes, Reverted, Drops, Follows, GivesUp, Restores, Refrains, Adjusts,
           TakesOver, Saved, Confirmed, TimedOut, Start, CallRefused, Updating, Journaled,
           Known, Rest
  <2>6. CASE \/ LosesReading \/ RegainsReading \/ Remap
             \/ \E v \in UserLevels : UserSets(v)
             \/ \E v \in Levels : Land(v) \/ Lose(v)
             \/ \E s \in Socs \cup {None} : SocChanges(s)
             \/ \E w \in Wishes : WishChanges(w)
             \/ \E s \in Scenes : SceneChanges(s)
    <3>1. Yielded
          BY <2>6 DEF LosesReading, RegainsReading, Remap, UserSets, Land, Lose, SocChanges,
             WishChanges, SceneChanges, May
    <3> QED BY <3>1 DEF Yielded, Straight
  <2>7. CASE UNCHANGED vars
        BY <2>7 DEF vars
  <2> QED BY <2>1, <2>3, <2>4, <2>5, <2>6, <2>7 DEF Next, TaskStep, World
<1>3. Heeded /\ [Next]_vars =>
        [task.pc = "dispatch" /\ task'.pc = "write" => ~past.touched]_vars
      BY <1>2
<1> QED BY <1>1, <1>3, PTL DEF Spec, ExternalWins

-----------------------------------------------------------------------------
(* The override follows profile and state of charge *)

(* What Followed says of the task at rest. *)
Fits ==
  /\ Charging /\ R # None /\ own.configured = mapped /\ Preview # None
  /\ R.temporary # R.original
  => R.temporary = Preview

(* The cycle asks for what the charging calls for ... *)
Asks ==
  /\ ~own.recovering
  /\ Charging /\ R # None => task.requested # None
  /\ task.requested # None => task.requested = wish
(* ... and has read the reserve as it is; what it saves or writes is planned   *)
(* from it, and where it ends, the journal fits.                               *)
Wanted(v) == v = Planned(task.requested, R.original)
Reading == task.pc = "known" \/ (task.pc = "save" /\ task.then \in {"known", "active"})
Raising == \/ task.pc = "save" /\ task.then = "dispatch"
           \/ task.pc \in {"dispatch", "write"} /\ task.then # "restored"
Stands ==
  /\ Reading => Cur = entity.value
  /\ task.pc = "save" /\ task.then = "external" => R = None
  /\ Raising => /\ R # None /\ task.requested # None
                /\ Wanted(IF R.pending = None THEN R.temporary ELSE R.pending)
  /\ task.pc = "save" /\ task.then = "after" => R = None \/ Wanted(R.temporary)
  /\ task.pc = "after" => Fits

Inside == {"update", "known", "rest", "save", "dispatch", "write", "after"}
(* What an update is for, by where the task is. *)
Staged ==
  /\ task.pc = "load" => task.for = "start"
  /\ task.pc \in {"loop", "sense", "done"} => task.for = "cycle"
  /\ task.pc = "done" => ~dirty
(* All this holds of an iteration in which nothing has changed since it began; *)
(* an update for the mapping waits for the journal to be given back.           *)
Steady ==
  ~dirty =>
    /\ task.pc \in {"loop", "done"} => Fits
    /\ task.pc \in Inside /\ task.for = "remap" => own.configured # mapped
    /\ task.pc \in Inside /\ task.for = "cycle" => Asks /\ Stands
Current == Typed /\ Staged /\ Steady

(* Where the journal fits after a step. *)
LEMMA FitsAfter ==
  ASSUME \/ R' = None \/ own'.status \notin Certain \/ own'.recovering
         \/ own'.configured # mapped' \/ ~Charging'
         \/ R'.pending # None \/ entity'.value # R'.temporary \/ R'.temporary = R'.original
         \/ R'.temporary = Planned(wish, R.original)'
  PROVE  Fits'
BY DEF Fits, Preview, R, Certain

SameWorld == UNCHANGED <<entity, world, dirty>>

LEMMA FitsKept ==
  ASSUME SameWorld, own' = own
  PROVE  Fits => Fits'
BY DEF SameWorld, world, Fits, Preview, R, Charging, Planned

(* A step within an iteration. *)
LEMMA AsksKept ==
  ASSUME SameWorld, Asks, own'.recovering \in {own.recovering, FALSE},
         task'.requested = task.requested, R' # None => R # None \/ task.requested # None
  PROVE  Asks'
BY DEF SameWorld, world, Asks, Charging, R

LEMMA InsideStep ==
  ASSUME Steady, SameWorld, task.pc \in Inside, task'.pc \in Inside, task'.for = task.for,
         own'.configured = own.configured,
         ~dirty /\ task.for = "cycle" /\ Asks /\ Stands => Asks' /\ Stands'
  PROVE  Staged' /\ Steady'
BY DEF Staged, Steady, SameWorld, world, Inside

(* Where a step leads, and that it belongs to the same update. *)
LEMMA SameUpdate ==
  ASSUME Typed
  PROVE  /\ \A pc : Goes(pc) => task'.for = task.for /\ task'.requested = task.requested
         /\ \A then : Saves(then) => task'.for = task.for /\ task'.requested = task.requested
         /\ \A target, then : Writes(target, then) =>
              task'.for = task.for /\ task'.requested = task.requested
         /\ \A pc : Reads(pc) => task'.for = task.for /\ task'.requested = Asked
         /\ \A then : ReadsAndSaves(then) => task'.for = task.for /\ task'.requested = Asked
BY DEF Typed, TypeOK, Task, Goes, Saves, Writes, Reads, ReadsAndSaves

LEMMA SameConfiguration ==
  ASSUME Typed
  PROVE  /\ \A s \in Status :
              /\ Settled(own, s).configured = own.configured
              /\ Settled(own, s).recovering = own.recovering
              /\ Settled(own, s).record = R
         /\ Forgotten(own).configured = own.configured /\ ~Forgotten(own).recovering
         /\ Forgotten(own).record = None
         /\ Adopted.configured = own.configured /\ Adopted.recovering = own.recovering
         /\ Adopted.record = R
         /\ Fails => /\ own'.configured = own.configured /\ own'.recovering = own.recovering
                     /\ R' = R /\ own'.status = "error" /\ task'.pc = "after"
BY DEF Typed, TypeOK, Own, Task, Settled, Forgotten, Adopted, Fails, Goes, Status, R

(* It suffices to look at an update for the cycle that nothing has overtaken. *)
Timely == ~dirty /\ task.for = "cycle" /\ Asks /\ Stands
LEMMA MovesSteady ==
  ASSUME Current, SameWorld, task.pc \in Inside, task'.pc \in Inside, task'.for = task.for,
         own'.configured = own.configured, own'.recovering \in {own.recovering, FALSE},
         Timely => /\ task'.requested = task.requested
                   /\ R' # None => R # None \/ task.requested # None
                   /\ Stands'
  PROVE  Staged' /\ Steady'
<1>1. ~dirty /\ task.for = "cycle" /\ Asks /\ Stands => Asks' /\ Stands'
      BY AsksKept DEF Timely
<1> QED BY <1>1, InsideStep DEF Current

LEMMA EndsSteady ==
  ASSUME Current, SameWorld, task.pc \in Inside, task'.pc = "after", task'.for = task.for,
         own'.configured = own.configured, own'.recovering \in {own.recovering, FALSE},
         Timely => /\ task'.requested = task.requested
                   /\ R' # None => R # None
                   /\ Fits'
  PROVE  Staged' /\ Steady'
<1>1. task'.pc \in Inside
      BY DEF Inside
<1>2. Fits' => Stands'
      BY DEF Stands, Reading, Raising
<1> QED BY <1>1, <1>2, MovesSteady

(* Users, entities and the station: what changes is looked at once more. *)
LEMMA ChangesSteady ==
  ASSUME Current, Changes
  PROVE  Staged' /\ Steady'
<1>1. task \in Task /\ Staged
      BY DEF Current, Typed, TypeOK
<1>2. CASE Watching
  <2>1. dirty' /\ task' = Woken
        BY <1>2 DEF Changes
  <2>2. Staged'
        BY <1>1, <1>2, <2>1 DEF Staged, Woken, Task, Watching, Running
  <2> QED BY <2>1, <2>2 DEF Steady
<1>3. CASE ~Watching
  <2>1. task' = task
        BY <1>3 DEF Changes
  <2>2. task.pc = "off" \/ (task.for = "start" /\ task.pc \notin {"off", "done"})
        BY <1>3 DEF Watching, Running
  <2> QED BY <1>1, <2>1, <2>2 DEF Staged, Steady, Inside
<1> QED BY <1>2, <1>3

LEMMA StuttersSteady ==
  ASSUME Current, UNCHANGED <<entity, world, own, dirty, task>>
  PROVE  Staged' /\ Steady'
BY DEF Current, Staged, Steady, world, Fits, Preview, Planned, Charging, R, Asks, Stands,
   Reading, Raising, Wanted, Cur

LEMMA CrashSteady ==
  ASSUME Current, Crash \/ Start
  PROVE  Staged' /\ Steady'
BY DEF Crash, Start, Idle, Staged, Steady, Inside

LEMMA WorldSteady ==
  ASSUME Current, World
  PROVE  Staged' /\ Steady'
<1>1. CASE CallRefused
  <2>1. Typed /\ task.pc = "write" /\ Fails /\ SameWorld
        BY <1>1 DEF Current, CallRefused, SameWorld
  <2>2. /\ own'.configured = own.configured /\ own'.recovering = own.recovering
        /\ R' = R /\ own'.status = "error" /\ task'.pc = "after"
        BY <2>1, SameConfiguration
  <2>3. task'.for = task.for /\ task'.requested = task.requested
        BY <2>1, SameUpdate DEF Fails
  <2>4. Fits'
        BY <2>2, FitsAfter DEF Certain
  <2> QED BY <2>1, <2>2, <2>3, <2>4, EndsSteady DEF Inside
<1>2. CASE \E v \in Levels : Lose(v)
      BY <1>2, StuttersSteady DEF Lose
<1>3. CASE Crash
      BY <1>3, CrashSteady
<1>4. CASE \/ LosesReading \/ RegainsReading \/ Remap
           \/ \E v \in UserLevels : UserSets(v)
           \/ \E v \in Levels : Land(v)
           \/ \E s \in Socs \cup {None} : SocChanges(s)
           \/ \E w \in Wishes : WishChanges(w)
           \/ \E s \in Scenes : SceneChanges(s)
  <2>1. Changes
        BY <1>4 DEF LosesReading, RegainsReading, Remap, UserSets, Land, SocChanges,
           WishChanges, SceneChanges
  <2> QED BY <2>1, ChangesSteady
<1> QED BY <1>1, <1>2, <1>3, <1>4 DEF World

(* Around an update. *)
LEMMA AroundSteady ==
  ASSUME Current, Load \/ Iterate \/ Finish \/ Hold \/ After
  PROVE  Staged' /\ Steady'
<1>1. task \in Task /\ own \in Own /\ Typed /\ Staged /\ Steady
      BY DEF Current, Typed, TypeOK
<1>2. CASE Load
  <2>1. task.for = "start"
        BY <1>1, <1>2 DEF Load, Staged
  <2>2. CASE task' = [task EXCEPT !.pc = "update", !.requested = None]
        BY <1>1, <2>1, <2>2 DEF Staged, Steady, Task, Inside
  <2>3. CASE task' = [task EXCEPT !.pc = "loop", !.for = "cycle"] /\ dirty'
        BY <1>1, <2>3 DEF Staged, Steady, Task, Inside
  <2> QED BY <1>2, <2>2, <2>3 DEF Load
<1>3. CASE Iterate
  <2>1. CASE /\ mapped # own.configured
             /\ own' = [own EXCEPT !.recovering = FALSE]
             /\ task' = [task EXCEPT !.pc = "update", !.for = "remap", !.requested = None]
    <3>1. own'.configured = own.configured /\ mapped' = mapped
          BY <1>1, <1>3, <2>1 DEF Own, Iterate, world
    <3> QED BY <1>1, <2>1, <3>1 DEF Staged, Steady, Task, Inside
  <2>2. CASE Goes("sense")
    <3>1. task.for = "cycle"
          BY <1>1, <1>3 DEF Iterate, Staged
    <3> QED BY <1>1, <2>2, <3>1 DEF Goes, Staged, Steady, Task, Inside
  <2> QED BY <1>3, <2>1, <2>2 DEF Iterate
<1>4. CASE Finish
  <2>1. Fits /\ task' = Idle /\ own' = own /\ SameWorld /\ ~dirty'
        BY <1>1, <1>4 DEF Finish, Steady, OnlyTask, SameWorld
  <2> QED BY <2>1, FitsKept DEF Idle, Staged, Steady, Inside
<1>5. CASE Hold
  <2>1. Goes("loop") /\ own' = own /\ own'.recovering /\ task.for = "cycle"
        BY <1>1, <1>5 DEF Hold, Staged
  <2>2. Fits'
        BY <2>1, FitsAfter
  <2> QED BY <1>1, <2>1, <2>2 DEF Goes, Staged, Steady, Task, Inside
<1>6. CASE After
  <2>1. task.pc = "after" /\ UNCHANGED <<entity, world>>
        BY <1>6 DEF After
  <2>2. CASE task.for = "start"
    <3>1. dirty' /\ task' = [task EXCEPT !.pc = "loop", !.for = "cycle"]
          BY <1>6, <2>2 DEF After
    <3> QED BY <1>1, <3>1 DEF Staged, Steady, Task
  <2>3. CASE task.for = "remap" /\ R # None
    <3>1. /\ task' = [task EXCEPT !.pc = "loop", !.for = "cycle"]
          /\ own' = own /\ dirty' = dirty
          BY <1>6, <2>3 DEF After, R
    <3>2. ~dirty => own'.configured # mapped'
          BY <1>1, <2>1, <2>3, <3>1 DEF Steady, Inside, world
    <3>3. ~dirty' => Fits'
          BY <3>1, <3>2, FitsAfter
    <3> QED BY <1>1, <3>1, <3>3 DEF Staged, Steady, Task, Inside
  <2>4. CASE task.for = "remap" /\ R = None
    <3>1. task' = [task EXCEPT !.pc = "sense", !.for = "cycle"]
          BY <1>6, <2>4 DEF After, R
    <3> QED BY <1>1, <3>1 DEF Staged, Steady, Task, Inside
  <2>5. CASE task.for = "cycle"
    <3>1. Goes("loop") /\ own' = own /\ dirty' = dirty
          BY <1>6, <2>5 DEF After
    <3>2. ~dirty => Fits
          BY <1>1, <2>1, <2>5 DEF Steady, Inside, Stands
    <3>3. ~dirty' => Fits'
          BY <2>1, <3>1, <3>2, FitsKept DEF SameWorld
    <3> QED BY <1>1, <2>5, <3>1, <3>3 DEF Goes, Staged, Steady, Task, Inside
  <2> QED BY <1>1, <2>2, <2>3, <2>4, <2>5 DEF Task
<1> QED BY <1>2, <1>3, <1>4, <1>5, <1>6

LEMMA EvaluateSteady ==
  ASSUME Current, Evaluate
  PROVE  Staged' /\ Steady'
<1>1. task \in Task /\ own \in Own /\ wish # None
      BY InputsAssumption, NoneAssumption DEF Current, Typed, TypeOK
<1>2. /\ own' \in {Resumed, own} /\ (own.recovering => own' = Resumed) /\ OnlyTask
      /\ task' = [task EXCEPT !.pc = "update", !.for = "cycle",
                              !.requested = IF Charging THEN wish ELSE None]
      BY DEF Evaluate
<1>3. ~own'.recovering /\ R' = R
      BY <1>1, <1>2 DEF Resumed, Own, R
<1>4. Charging' = Charging /\ wish' = wish
      BY <1>2, <1>3 DEF Charging, R, OnlyTask, world
<1>5. /\ task'.pc = "update" /\ task'.for = "cycle"
      /\ task'.requested = IF Charging THEN wish ELSE None
      BY <1>1, <1>2 DEF Task
<1>6. Asks'
      BY <1>1, <1>3, <1>4, <1>5 DEF Asks
<1>7. Stands'
      BY <1>5 DEF Stands, Reading, Raising
<1> QED BY <1>5, <1>6, <1>7 DEF Staged, Steady

(* BatteryReserve.update up to what it knows of the reserve. *)
LEMMA AskedSame ==
  ASSUME Asks
  PROVE  Asked = task.requested
BY DEF Asks, Asked

LEMMA ReadSteady ==
  ASSUME Current, NoJournal \/ Unreadable \/ Refuse \/ WaitsForEntity \/ NothingPending
  PROVE  Staged' /\ Steady'
<1>1. /\ Typed /\ task \in Task /\ SameWorld /\ task.pc \in Inside
      /\ UNCHANGED <<entity, world, dirty>>
      BY DEF Current, Typed, TypeOK, NoJournal, Unreadable, Refuse, WaitsForEntity,
         NothingPending, Journaled, Updating, Inside, OnlyTask, SameWorld
<1>2. CASE NoJournal
  <2>1. own' = own /\ R' = R
        BY <1>2 DEF NoJournal, R
  <2>2. task'.pc = "rest" /\ task'.for = task.for /\ task'.requested = Asked
        BY <1>1, <1>2 DEF NoJournal, Task
  <2>3. Stands' /\ task'.pc \in Inside
        BY <2>2 DEF Stands, Reading, Raising, Inside
  <2> QED BY <1>1, <2>1, <2>2, <2>3, AskedSame, MovesSteady DEF Timely
<1>3. CASE Unreadable \/ Refuse
  <2>1. Fails
        BY <1>3 DEF Unreadable, Refuse
  <2>2. /\ own'.configured = own.configured /\ own'.recovering = own.recovering
        /\ R' = R /\ own'.status = "error" /\ task'.pc = "after"
        BY <1>1, <2>1, SameConfiguration
  <2>3. task'.for = task.for /\ task'.requested = task.requested
        BY <1>1, <2>1, SameUpdate DEF Fails
  <2>4. Fits'
        BY <2>2, FitsAfter DEF Certain
  <2> QED BY <1>1, <2>2, <2>3, <2>4, EndsSteady
<1>4. CASE WaitsForEntity
  <2>1. own' = own /\ R' = R /\ R # None /\ Asked = None /\ Reads("after")
        BY <1>4 DEF WaitsForEntity, StillFailed, R
  <2>2. task'.pc = "after" /\ task'.for = task.for /\ task'.requested = Asked
        BY <1>1, <2>1 DEF Reads, Task
  <2>3. Charging' = Charging
        BY <1>1, <2>1 DEF Charging, R, world
  <2>4. Timely => ~Charging'
        BY <2>1, <2>3, AskedSame DEF Timely, Asks
  <2> QED BY <1>1, <2>1, <2>2, <2>4, AskedSame, FitsAfter, EndsSteady DEF Timely
<1>5. CASE NothingPending
  <2>1. own' = own /\ R' = R /\ Reads("known")
        BY <1>5 DEF NothingPending, R
  <2>2. /\ task'.pc = "known" /\ task'.for = task.for /\ task'.requested = Asked
        /\ task'.current = entity.value
        BY <1>1, <2>1 DEF Reads, Task
  <2>3. Stands' /\ task'.pc \in Inside
        BY <1>1, <2>2 DEF Stands, Reading, Raising, Inside, Cur
  <2> QED BY <1>1, <2>1, <2>2, <2>3, AskedSame, MovesSteady DEF Timely
<1> QED BY <1>2, <1>3, <1>4, <1>5

LEMMA PendingSteady ==
  ASSUME Current, LateConfirmed \/ ChangedWhilePending \/ KeepsPending \/ Supersedes
  PROVE  Staged' /\ Steady'
<1>1. /\ Typed /\ task \in Task /\ own \in Own /\ R # None /\ SameWorld /\ task.pc \in Inside
      /\ UNCHANGED <<entity, world, dirty>>
      BY DEF Current, Typed, TypeOK, LateConfirmed, ChangedWhilePending, KeepsPending,
         Supersedes, Journaled, Updating, Inside, OnlyTask, SameWorld
<1>2. ASSUME NEW then \in {"known", "active"}, ReadsAndSaves(then),
             own'.configured = own.configured, own'.recovering = own.recovering
      PROVE  Staged' /\ Steady'
  <2>1. /\ task'.pc = "save" /\ task'.then = then /\ task'.for = task.for
        /\ task'.requested = Asked /\ task'.current = entity.value
        BY <1>1, <1>2 DEF ReadsAndSaves, Task
  <2>2. Stands' /\ task'.pc \in Inside
        BY <1>1, <2>1 DEF Stands, Reading, Raising, Inside, Cur
  <2> QED BY <1>1, <1>2, <2>1, <2>2, AskedSame, MovesSteady DEF Timely
<1>3. CASE LateConfirmed
  <2>1. own'.configured = own.configured /\ own'.recovering = own.recovering
        BY <1>1, <1>3 DEF LateConfirmed, Settled, Own
  <2> QED BY <1>2, <1>3, <2>1 DEF LateConfirmed
<1>4. CASE Supersedes
  <2>1. own'.configured = own.configured /\ own'.recovering = own.recovering
        BY <1>1, <1>4 DEF Supersedes, Own
  <2> QED BY <1>2, <1>4, <2>1 DEF Supersedes
<1>5. CASE ChangedWhilePending
  <2>1. own'.configured = own.configured /\ own'.recovering = FALSE /\ R' = None
        BY <1>1, <1>5 DEF ChangedWhilePending, Forgotten, Own, R
  <2>2. /\ task'.pc = "save" /\ task'.then = "external" /\ task'.for = task.for
        /\ task'.requested = Asked
        BY <1>1, <1>5 DEF ChangedWhilePending, ReadsAndSaves, Task
  <2>3. Stands' /\ task'.pc \in Inside
        BY <2>1, <2>2 DEF Stands, Reading, Raising, Inside
  <2> QED BY <1>1, <2>1, <2>2, <2>3, AskedSame, MovesSteady DEF Timely
<1>6. CASE KeepsPending
  <2>1. own' = own /\ R' = R /\ R.pending # None /\ Reads("after")
        BY <1>6 DEF KeepsPending, R
  <2>2. task'.pc = "after" /\ task'.for = task.for /\ task'.requested = Asked
        BY <1>1, <2>1 DEF Reads, Task
  <2>3. Fits'
        BY <2>1, FitsAfter
  <2> QED BY <1>1, <2>1, <2>2, <2>3, AskedSame, EndsSteady DEF Timely
<1> QED BY <1>3, <1>4, <1>5, <1>6

(* What the update makes of the value it read. *)
LEMMA KnownSteady ==
  ASSUME Current, Reverted \/ Drops \/ Follows \/ GivesUp \/ Restores
  PROVE  Staged' /\ Steady'
<1>1. /\ Typed /\ task \in Task /\ own \in Own /\ R # None /\ SameWorld
      /\ task.pc = "known" /\ UNCHANGED <<entity, world, dirty>>
      BY DEF Current, Typed, TypeOK, Aware, Reverted, Drops, Follows, GivesUp, Restores,
         Known, OnlyTask, SameWorld
<1>2. task.pc \in Inside
      BY <1>1 DEF Inside
<1>3. Timely => Cur = entity.value
      BY <1>1 DEF Timely, Stands, Reading
<1>4. CASE Reverted
  <2>1. /\ own'.configured = own.configured /\ own'.recovering = own.recovering
        /\ R' = R /\ Cur = R.original /\ Goes("after")
        BY <1>1, <1>4, SameConfiguration DEF Reverted, R
  <2>2. task'.pc = "after" /\ task'.for = task.for /\ task'.requested = task.requested
        BY <1>1, <2>1, SameUpdate DEF Goes, Task
  <2>3. Timely => Fits'
        BY <1>1, <1>3, <2>1, FitsAfter
  <2> QED BY <1>1, <1>2, <2>1, <2>2, <2>3, EndsSteady
<1>5. CASE Drops
  <2>1. own'.configured = own.configured /\ own'.recovering = FALSE /\ R' = None
        BY <1>1, <1>5 DEF Drops, Forgotten, Own, R
  <2>2. /\ task'.pc = "save" /\ task'.then = "dropped" /\ task'.for = task.for
        /\ task'.requested = task.requested
        BY <1>1, <1>5 DEF Drops, Task
  <2>3. Stands' /\ task'.pc \in Inside
        BY <2>2 DEF Stands, Reading, Raising, Inside
  <2> QED BY <1>1, <1>2, <2>1, <2>2, <2>3, MovesSteady
<1>6. CASE Follows
  <2>1. /\ own'.configured = own.configured /\ own'.recovering = own.recovering
        /\ R' = R /\ Goes("rest")
        BY <1>1, <1>6, SameConfiguration DEF Follows, R
  <2>2. task'.pc = "rest" /\ task'.for = task.for /\ task'.requested = task.requested
        BY <1>1, <2>1, SameUpdate DEF Goes, Task
  <2>3. Stands' /\ task'.pc \in Inside
        BY <2>2 DEF Stands, Reading, Raising, Inside
  <2> QED BY <1>1, <1>2, <2>1, <2>2, <2>3, MovesSteady
<1>7. CASE GivesUp
  <2>1. own' = own /\ R' = R /\ task.requested = None /\ Goes("after")
        BY <1>7 DEF GivesUp, R
  <2>2. task'.pc = "after" /\ task'.for = task.for /\ task'.requested = task.requested
        BY <1>1, <2>1, SameUpdate DEF Goes, Task
  <2>3. Charging' = Charging
        BY <1>1, <2>1 DEF Charging, R, world
  <2>4. Timely => ~Charging'
        BY <1>1, <2>1, <2>3 DEF Timely, Asks
  <2>5. Timely => Fits'
        BY <2>4, FitsAfter
  <2> QED BY <1>1, <1>2, <2>1, <2>2, <2>5, EndsSteady
<1>8. CASE Restores
  <2>1. CASE own' = [own EXCEPT !.failed = TRUE] /\ Writes(R.original, "restored")
    <3>1. /\ own'.configured = own.configured /\ own'.recovering = own.recovering
          /\ R' = R
          BY <1>1, <2>1 DEF Own, R
    <3>2. /\ task'.pc = "dispatch" /\ task'.then = "restored" /\ task'.for = task.for
          /\ task'.requested = task.requested
          BY <1>1, <2>1 DEF Writes, Task
    <3>3. Stands' /\ task'.pc \in Inside
          BY <3>2 DEF Stands, Reading, Raising, Inside
    <3> QED BY <1>1, <1>2, <3>1, <3>2, <3>3, MovesSteady
  <2>2. CASE own' = Forgotten(own) /\ Saves("restored")
    <3>1. own'.configured = own.configured /\ own'.recovering = FALSE /\ R' = None
          BY <1>1, <2>2 DEF Forgotten, Own, R
    <3>2. /\ task'.pc = "save" /\ task'.then = "restored" /\ task'.for = task.for
          /\ task'.requested = task.requested
          BY <1>1, <2>2 DEF Saves, Task
    <3>3. Stands' /\ task'.pc \in Inside
          BY <3>2 DEF Stands, Reading, Raising, Inside
    <3> QED BY <1>1, <1>2, <3>1, <3>2, <3>3, MovesSteady
  <2> QED BY <1>8, <2>1, <2>2 DEF Restores
<1> QED BY <1>4, <1>5, <1>6, <1>7, <1>8

(* What is planned from a value kept through the step stays planned. *)
LEMMA WantedKept ==
  ASSUME SameWorld, task'.requested = task.requested, R'.original = R.original
  PROVE  \A v : Wanted(v) => v = Planned(task.requested, R.original)'
BY DEF SameWorld, world, Wanted, Planned

LEMMA WantedFits ==
  ASSUME Timely, SameWorld, R' # None => R # None, R'.original = R.original,
         R' = None \/ Wanted(R'.temporary)
  PROVE  Fits'
<1>1. CASE R' = None
      BY <1>1, FitsAfter
<1>2. CASE R' # None /\ ~Charging'
      BY <1>2, FitsAfter
<1>3. CASE R' # None /\ Charging'
  <2>1. Charging
        BY <1>3 DEF Charging, R, SameWorld, world
  <2>2. task.requested = wish
        BY <1>3, <2>1 DEF Timely, Asks
  <2>3. R'.temporary = Planned(wish, R.original)'
        BY <1>3, <2>2 DEF Wanted, SameWorld, world, Planned
  <2> QED BY <2>3, FitsAfter
<1> QED BY <1>1, <1>2, <1>3

LEMMA RestSteady ==
  ASSUME Current, Refrains \/ Adjusts \/ TakesOver
  PROVE  Staged' /\ Steady'
<1>1. /\ Typed /\ task \in Task /\ own \in Own /\ SameWorld /\ task.pc = "rest"
      /\ UNCHANGED <<entity, world, dirty>>
      BY DEF Current, Typed, TypeOK, Refrains, Adjusts, TakesOver, Rest, OnlyTask, SameWorld
<1>2. task.pc \in Inside
      BY <1>1 DEF Inside
<1>3. CASE Refrains
  <2>1. /\ own'.configured = own.configured /\ own'.recovering = own.recovering
        /\ R' = R /\ own'.status = own.status /\ Goes("after")
        BY <1>1, <1>3 DEF Refrains, Own, R
  <2>2. task'.pc = "after" /\ task'.for = task.for /\ task'.requested = task.requested
        BY <1>1, <2>1, SameUpdate DEF Goes, Task
  <2>3. CASE task.requested = None
    <3>1. Charging' = Charging
          BY <1>1, <2>1 DEF Charging, R, world
    <3>2. Timely => R' = None \/ ~Charging'
          BY <2>1, <2>3, <3>1 DEF Timely, Asks
    <3> QED BY <1>1, <1>2, <2>1, <2>2, <3>2, FitsAfter, EndsSteady
  <2>4. CASE R = None \/ own.status \notin {"active", "preserved"}
    <3>1. Fits'
          BY <2>1, <2>4, FitsAfter DEF Certain
    <3> QED BY <1>1, <1>2, <2>1, <2>2, <3>1, EndsSteady
  <2> QED BY <1>3, <2>3, <2>4 DEF Refrains
<1>4. CASE Adjusts
  <2> DEFINE planned == Planned(task.requested, R.original)
  <2>1. R # None /\ task.requested # None
        BY <1>4 DEF Adjusts
  <2>2. CASE Fails
    <3>1. /\ own'.configured = own.configured /\ own'.recovering = own.recovering
          /\ R' = R /\ own'.status = "error" /\ task'.pc = "after"
          BY <1>1, <2>2, SameConfiguration
    <3>2. task'.for = task.for /\ task'.requested = task.requested
          BY <1>1, <2>2, SameUpdate DEF Fails
    <3>3. Fits'
          BY <3>1, FitsAfter DEF Certain
    <3> QED BY <1>1, <1>2, <3>1, <3>2, <3>3, EndsSteady
  <2>3. CASE planned = R.temporary /\ Goes("after") /\ own' = own
    <3>1. R' = R /\ Wanted(R'.temporary)
          BY <2>3 DEF R, Wanted
    <3>2. task'.pc = "after" /\ task'.for = task.for /\ task'.requested = task.requested
          BY <1>1, <2>3, SameUpdate DEF Goes, Task
    <3>3. Timely => Fits'
          BY <1>1, <3>1, WantedFits
    <3> QED BY <1>1, <1>2, <2>3, <3>1, <3>2, <3>3, EndsSteady
  <2>4. CASE /\ CanPlan /\ planned # R.temporary
             /\ own' = [own EXCEPT !.record.pending = planned,
                                   !.record.asked = task.requested]
             /\ Saves("dispatch")
    <3>1. R \in Record /\ soc \in Nat /\ task.requested \in Nat
          BY <1>1, <2>1, <2>4, InputsAssumption
          DEF CanPlan, Typed, TypeOK, Own, Journal, R, Task
    <3>2. planned \in Levels
          BY <3>1, PlannedType DEF Record
    <3>3. Wanted(planned)
          BY DEF Wanted
    <3> HIDE DEF planned
    <3>4. /\ own'.configured = own.configured /\ own'.recovering = own.recovering
          /\ R' = [R EXCEPT !.pending = planned, !.asked = task.requested]
          BY <1>1, <2>4 DEF Own, R
    <3>5. R'.pending = planned /\ R'.original = R.original /\ R' \in Record
          BY <3>1, <3>2, <3>4 DEF Record
    <3>6. R' # None /\ R'.pending # None
          BY <3>2, <3>5, NoneAssumption, RangeAssumption DEF Levels
    <3>7. /\ task'.pc = "save" /\ task'.then = "dispatch" /\ task'.for = task.for
          /\ task'.requested = task.requested
          BY <1>1, <2>4 DEF Saves, Task
    <3>8. planned = Planned(task.requested, R.original)'
          BY <1>1, <3>3, <3>5, <3>7, WantedKept
    <3>9. Stands' /\ task'.pc \in Inside
          BY <2>1, <3>5, <3>6, <3>7, <3>8 DEF Stands, Reading, Raising, Wanted, Inside
    <3> QED BY <1>1, <1>2, <2>1, <3>4, <3>7, <3>9, MovesSteady
  <2> QED BY <1>4, <2>2, <2>3, <2>4 DEF Adjusts
<1>5. CASE TakesOver
  <2>1. R = None /\ task.requested \in Nat /\ entity.value \in Levels
        BY <1>1, <1>5 DEF TakesOver, Task, Typed, TypeOK
  <2>2. CASE /\ Goes("after")
             /\ \/ own' = [[own EXCEPT !.session = TRUE] EXCEPT
                             !.status = "error", !.reason = "failure"]
                \/ own' = [[own EXCEPT !.session = TRUE] EXCEPT !.status = "unchanged"]
    <3>1. /\ own'.configured = own.configured /\ own'.recovering = own.recovering
          /\ R' = None
          BY <1>1, <2>1, <2>2 DEF Own, R
    <3>2. task'.pc = "after" /\ task'.for = task.for /\ task'.requested = task.requested
          BY <1>1, <2>2, SameUpdate DEF Goes, Task
    <3> QED BY <1>1, <1>2, <3>1, <3>2, FitsAfter, EndsSteady
  <2>3. CASE /\ Raised # entity.value /\ Saves("dispatch")
             /\ own' = [[own EXCEPT !.session = TRUE] EXCEPT !.record =
                         [original |-> entity.value, temporary |-> Raised, pending |-> None,
                          asked |-> None, superseded |-> {}]]
    <3>1. /\ own'.configured = own.configured /\ own'.recovering = own.recovering
          /\ R' = [original |-> entity.value, temporary |-> Raised, pending |-> None,
                   asked |-> None, superseded |-> {}]
          BY <1>1, <2>3 DEF Own, R
    <3>2. Raised = Planned(task.requested, entity.value)
          BY <2>3 DEF Raised
    <3>3. /\ task'.pc = "save" /\ task'.then = "dispatch" /\ task'.for = task.for
          /\ task'.requested = task.requested
          BY <1>1, <2>3 DEF Saves, Task
    <3>4. R'.pending = None /\ R'.temporary = Raised /\ R'.original = entity.value
          BY <3>1
    <3>5. R'.temporary = Planned(task.requested, R.original)'
          BY <1>1, <3>2, <3>3, <3>4 DEF Planned, world
    <3>6. task.requested # None
          BY <1>5 DEF TakesOver
    <3>7. R' # None
    <4>1. Typed'
          BY <1>1, <1>5, TakesOverType
    <4> QED BY <3>3, <4>1 DEF Typed, Aware
    <3>8. Stands' /\ task'.pc \in Inside
          BY <3>3, <3>4, <3>5, <3>6, <3>7 DEF Stands, Reading, Raising, Wanted, Inside
    <3> QED BY <1>1, <1>2, <3>1, <3>3, <3>6, <3>8, MovesSteady
  <2> QED BY <1>5, <2>2, <2>3 DEF TakesOver
<1> QED BY <1>3, <1>4, <1>5

LEMMA SavedSteady ==
  ASSUME Current, Saved
  PROVE  Staged' /\ Steady'
<1>1. /\ Typed /\ task \in Task /\ own \in Own /\ SameWorld /\ task.pc = "save"
      /\ UNCHANGED <<entity, world, dirty>> /\ task.then \in Thens
      BY DEF Current, Typed, TypeOK, Saved, SameWorld, Task, Thens
<1>2. task.pc \in Inside /\ R' = R
      BY <1>1, SavedType DEF Inside
<1>3. CASE task.then \in {"known", "active"}
  <2>1. own' \in {own, Settled(own, "active")} /\ Goes("known")
        BY <1>3 DEF Saved
  <2>2. own'.configured = own.configured /\ own'.recovering = own.recovering
        BY <1>1, <2>1, SameConfiguration DEF Status
  <2>3. /\ task'.pc = "known" /\ task'.for = task.for /\ task'.requested = task.requested
        /\ task'.current = task.current
        BY <1>1, <2>1 DEF Goes, Task
  <2>4. Timely => Stands' /\ task'.pc \in Inside
        BY <1>1, <1>3, <2>3 DEF Timely, Stands, Reading, Raising, Cur, Inside
  <2> QED BY <1>1, <1>2, <2>2, <2>3, <2>4, MovesSteady DEF Inside
<1>4. CASE task.then = "external"
  <2>1. Goes("after") /\ own' = [own EXCEPT !.session = @ /\ task.requested # None]
        BY <1>4 DEF Saved
  <2>2. own'.configured = own.configured /\ own'.recovering = own.recovering
        BY <1>1, <2>1 DEF Own
  <2>3. task'.pc = "after" /\ task'.for = task.for /\ task'.requested = task.requested
        BY <1>1, <2>1 DEF Goes, Task
  <2>4. Timely => Fits'
        BY <1>1, <1>2, <1>4, FitsAfter DEF Timely, Stands
  <2> QED BY <1>1, <1>2, <2>2, <2>3, <2>4, EndsSteady
<1>5. CASE task.then \in {"dropped", "restored"}
  <2>1. own' \in {own, Settled(own, "restored")} /\ Goes("rest")
        BY <1>5 DEF Saved
  <2>2. own'.configured = own.configured /\ own'.recovering = own.recovering
        BY <1>1, <2>1, SameConfiguration DEF Status
  <2>3. task'.pc = "rest" /\ task'.for = task.for /\ task'.requested = task.requested
        BY <1>1, <2>1 DEF Goes, Task
  <2>4. Stands' /\ task'.pc \in Inside
        BY <2>3 DEF Stands, Reading, Raising, Inside
  <2> QED BY <1>1, <1>2, <2>2, <2>3, <2>4, MovesSteady
<1>6. CASE task.then = "dispatch"
  <2>1. own' = own /\ Writes(IF R.pending = None THEN R.temporary ELSE R.pending, "after")
        BY <1>6 DEF Saved
  <2>2. /\ task'.pc = "dispatch" /\ task'.then = "after" /\ task'.for = task.for
        /\ task'.requested = task.requested
        BY <1>1, <2>1 DEF Writes, Task
  <2> DEFINE v == IF R.pending = None THEN R.temporary ELSE R.pending
  <2>3. Timely => R # None /\ task.requested # None /\ Wanted(v)
        BY <1>1, <1>6 DEF Timely, Stands, Raising
  <2>4. v' = v
        BY <1>2
  <2> HIDE DEF v
  <2>5. Wanted(v) => v' = Planned(task.requested, R.original)'
        BY <1>1, <1>2, <2>2, <2>4, WantedKept
  <2>6. Timely => Stands'
        BY <1>2, <2>2, <2>3, <2>5 DEF Stands, Reading, Raising, Wanted, v
  <2>7. task'.pc \in Inside
        BY <2>2 DEF Inside
  <2> QED BY <1>1, <1>2, <2>1, <2>2, <2>6, <2>7, MovesSteady
<1>7. CASE task.then = "after"
  <2>1. Goes("after") /\ own' = own
        BY <1>7 DEF Saved
  <2>2. task'.pc = "after" /\ task'.for = task.for /\ task'.requested = task.requested
        BY <1>1, <2>1 DEF Goes, Task
  <2>3. Timely => R = None \/ Wanted(R.temporary)
        BY <1>1, <1>7 DEF Timely, Stands
  <2>4. Timely => Fits'
        BY <1>1, <1>2, <2>3, WantedFits
  <2> QED BY <1>1, <1>2, <2>1, <2>2, <2>4, EndsSteady
<1> QED BY <1>1, <1>3, <1>4, <1>5, <1>6, <1>7 DEF Thens

(* write_confirmed and what follows the confirmation. *)
LEMMA WriteSteady ==
  ASSUME Current, Dispatch \/ Confirmed \/ TimedOut
  PROVE  Staged' /\ Steady'
<1>1. /\ Typed /\ task \in Task /\ own \in Own /\ SameWorld /\ task.pc \in {"dispatch", "write"}
      /\ UNCHANGED <<entity, world, dirty>> /\ R # None /\ R \in Record
      BY DEF Current, Typed, TypeOK, Aware, Dispatch, Confirmed, TimedOut, OnlyTask, SameWorld,
         Own, Journal, R
<1>2. task.pc \in Inside
      BY <1>1 DEF Inside
<1> DEFINE v == IF R.pending = None THEN R.temporary ELSE R.pending
<1>3. Timely /\ task.then # "restored" => task.requested # None /\ Wanted(v)
      BY <1>1 DEF Timely, Stands, Raising
<1>4. CASE Dispatch
  <2>1. /\ own' = [own EXCEPT !.status = "confirmation_pending"] /\ Goes("write")
        BY <1>4 DEF Dispatch
  <2>2. own'.configured = own.configured /\ own'.recovering = own.recovering /\ R' = R
        BY <1>1, <2>1 DEF Own, R
  <2>3. /\ task'.pc = "write" /\ task'.for = task.for /\ task'.then = task.then
        /\ task'.requested = task.requested
        BY <1>1, <2>1 DEF Goes, Task
  <2>4. v' = v
        BY <2>2
  <2> HIDE DEF v
  <2>5. Wanted(v) => v' = Planned(task.requested, R.original)'
        BY <1>1, <2>2, <2>3, <2>4, WantedKept
  <2>6. Timely => Stands'
        BY <1>1, <1>3, <2>2, <2>3, <2>5 DEF Stands, Reading, Raising, Wanted, v
  <2>7. task'.pc \in Inside
        BY <2>3 DEF Inside
  <2> QED BY <1>1, <1>2, <2>2, <2>3, <2>6, <2>7, MovesSteady
<1>5. CASE TimedOut
  <2>1. /\ own' = [own EXCEPT !.status = "write_unconfirmed", !.reason = "timeout"]
        /\ Goes("after")
        BY <1>5 DEF TimedOut
  <2>2. /\ own'.configured = own.configured /\ own'.recovering = own.recovering /\ R' = R
        /\ own'.status = "write_unconfirmed"
        BY <1>1, <2>1 DEF Own, R
  <2>3. task'.pc = "after" /\ task'.for = task.for /\ task'.requested = task.requested
        BY <1>1, <2>1 DEF Goes, Task
  <2>4. Fits'
        BY <2>2, FitsAfter DEF Certain
  <2> QED BY <1>1, <1>2, <2>2, <2>3, <2>4, EndsSteady
<1>6. CASE Confirmed
  <2>1. CASE task.then = "restored"
    <3>1. own' = Forgotten(own) /\ Saves("restored")
          BY <1>6, <2>1 DEF Confirmed, Accepted
    <3>2. own'.configured = own.configured /\ own'.recovering = FALSE /\ R' = None
          BY <1>1, <3>1 DEF Forgotten, Own, R
    <3>3. /\ task'.pc = "save" /\ task'.then = "restored" /\ task'.for = task.for
          /\ task'.requested = task.requested
          BY <1>1, <3>1 DEF Saves, Task
    <3>4. Stands' /\ task'.pc \in Inside
          BY <3>3 DEF Stands, Reading, Raising, Inside
    <3> QED BY <1>1, <1>2, <3>2, <3>3, <3>4, MovesSteady
  <2>2. CASE task.then # "restored" /\ R.pending = None
    <3>1. own' = Settled(own, "active") /\ Goes("after")
          BY <1>6, <2>2 DEF Confirmed, Accepted
    <3>2. own'.configured = own.configured /\ own'.recovering = own.recovering /\ R' = R
          BY <1>1, <3>1 DEF Settled, Own, R
    <3>3. task'.pc = "after" /\ task'.for = task.for /\ task'.requested = task.requested
          BY <1>1, <3>1 DEF Goes, Task
    <3>4. Timely => Fits'
          BY <1>1, <1>3, <2>2, <3>2, WantedFits
    <3> QED BY <1>1, <1>2, <3>2, <3>3, <3>4, EndsSteady
  <2>3. CASE task.then # "restored" /\ R.pending # None
    <3>1. /\ Saves("after")
          /\ \/ own' = [Settled(own, "unchanged") EXCEPT !.record = None]
             \/ own' = Settled([own EXCEPT !.record.temporary = R.pending,
                                           !.record.asked = None,
                                           !.record.pending = None], "active")
          BY <1>6, <2>3 DEF Confirmed, Accepted
    <3>2. /\ own'.configured = own.configured /\ own'.recovering = own.recovering
          /\ \/ R' = None
             \/ R' = [R EXCEPT !.temporary = R.pending, !.asked = None, !.pending = None]
          BY <1>1, <3>1 DEF Settled, Own, R
    <3>3. /\ task'.pc = "save" /\ task'.then = "after" /\ task'.for = task.for
          /\ task'.requested = task.requested
          BY <1>1, <3>1 DEF Saves, Task
    <3>4. R' = None \/ (R'.temporary = R.pending /\ R'.original = R.original)
          BY <1>1, <3>2 DEF Record
    <3>5. Wanted(R.pending) => R' = None \/ R'.temporary = Planned(task.requested, R.original)'
          BY <1>1, <3>3, <3>4, WantedKept
    <3>6. Timely => Stands'
          BY <1>3, <2>3, <3>3, <3>5 DEF Stands, Reading, Raising, Wanted
    <3>7. task'.pc \in Inside
          BY <3>3 DEF Inside
    <3> QED BY <1>1, <1>2, <3>2, <3>3, <3>6, <3>7, MovesSteady
  <2> QED BY <2>1, <2>2, <2>3
<1> QED BY <1>4, <1>5, <1>6

LEMMA CurrentStep ==
  ASSUME Current, [Next]_vars
  PROVE  Current'
<1>1. Typed'
      BY TypedStep DEF Current
<1>2. CASE TaskStep
      BY <1>1, <1>2, AroundSteady, EvaluateSteady, ReadSteady, PendingSteady, KnownSteady,
         RestSteady, SavedSteady, WriteSteady, CrashSteady DEF TaskStep, Current
<1>3. CASE World
      BY <1>1, <1>3, WorldSteady DEF Current
<1>4. CASE UNCHANGED vars
      BY <1>1, <1>4, StuttersSteady DEF vars, Current
<1> QED BY <1>2, <1>3, <1>4 DEF Next

LEMMA CurrentInit ==
  ASSUME Init
  PROVE  Current
BY TypedInit DEF Init, Fresh, Idle, Current, Staged, Steady, Fits, Inside, R

(* Whatever changed while an update awaited the store or a confirmation, the *)
(* task comes to rest with the override that profile and state of charge     *)
(* call for and that the preview shows: what changes is looked at once more  *)
(* (changed and dirty in grid_battery.py), and an update that nothing        *)
(* overtook leaves what plan asks for (update, rest and write_confirmed in   *)
(* battery.py).                                                              *)
THEOREM FollowedHolds == Spec => []Followed
<1>1. Spec => []Current
      BY CurrentInit, CurrentStep, PTL DEF Spec
<1>2. Current => Followed
      BY DEF Current, Staged, Steady, Fits, Followed, R
<1> QED BY <1>1, <1>2, PTL

=============================================================================
