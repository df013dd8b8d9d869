--------------------------- MODULE PVEconomyProofs ---------------------------
(***************************************************************************)
(* Theorems about PVEconomy, for any profiles, offers, limits, number of   *)
(* transactions, faults and users' events.  The state stays well typed; a  *)
(* restart is prepared only while the station offers zero; and a STOP that *)
(* the journal has confirmed is kept, if no write reaches the disk that    *)
(* was reported as failed.                                                 *)
(***************************************************************************)
EXTENDS PVEconomy, TLAPS

-----------------------------------------------------------------------------
(* The budget *)

LEMMA NewBudgetForm == NewBudget \in Budget /\ ~NewBudget.stopped /\ NewBudget.scope = NoTx
BY BoundsAssumption DEF NewBudget, Budget

LEMMA InterruptForm ==
  ASSUME NEW b \in Budget
  PROVE  /\ Interrupt(b) \in Budget /\ Interrupt(b).scope = b.scope
         /\ Interrupt(b).stopped = b.stopped
<1>1. PICK low \in 0..Dwell+1 : low = 0
      BY BoundsAssumption
<1>2. Interrupt(b) = [b EXCEPT !.costly = FALSE, !.low = low]
      BY <1>1 DEF Interrupt
<1>3. [b EXCEPT !.costly = FALSE, !.low = low] \in Budget
      BY DEF Budget
<1> QED BY <1>2, <1>3 DEF Budget

LEMMA RestoreForm ==
  ASSUME NEW r \in Record
  PROVE  /\ Restore(r) \in Budget /\ Restore(r).scope = r.scope
         /\ Restore(r).stopped = r.stopped
<1>1. NewBudget \in Budget
      BY NewBudgetForm
<1>2. PICK n \in Budget : n = NewBudget
      BY <1>1
<1>3. Restore(r) = [n EXCEPT !.scope = r.scope, !.wh = r.wh, !.stopped = r.stopped]
      BY <1>2 DEF Restore
<1>4. r.scope \in Tx \cup {NoTx} /\ r.wh \in 0..Limit /\ r.stopped \in BOOLEAN
      BY DEF Record
<1>5. [n EXCEPT !.scope = r.scope, !.wh = r.wh, !.stopped = r.stopped] \in Budget
      BY <1>4 DEF Budget
<1> QED BY <1>3, <1>5 DEF Budget

LEMMA SavedForm ==
  ASSUME NEW b \in Budget, NEW e \in Tx \cup {NoTx}
  PROVE  /\ Saved(b, e) \in Record /\ Saved(b, e).scope = b.scope
         /\ Saved(b, e).stopped = b.stopped /\ Saved(b, e).ended = e
BY DEF Saved, Budget, Record

(* A new scope starts afresh, another keeps what it has. *)
LEMMA BindForm ==
  ASSUME NEW b \in Budget, NEW tx \in Tx
  PROVE  /\ Bind(b, tx) \in Budget /\ (~Rebinds(b) => Bind(b, tx) = b)
         /\ Rebinds(b) => Bind(b, tx).scope = tx
<1>1. NewBudget \in Budget
      BY NewBudgetForm
<1>2. [NewBudget EXCEPT !.scope = tx] \in Budget /\ [NewBudget EXCEPT !.scope = tx].scope = tx
      BY <1>1 DEF Budget
<1> QED BY <1>2 DEF Bind

(* Accounting never takes a STOP back. *)
LEMMA AccountForm ==
  ASSUME NEW b \in Budget, NEW high \in BOOLEAN, NEW active \in BOOLEAN
  PROVE  /\ Account(b, high, active) \in Budget /\ Account(b, high, active).scope = b.scope
         /\ b.stopped => Account(b, high, active).stopped
<1> DEFINE wh == IF b.costly /\ active /\ b.wh < Limit THEN b.wh + 1 ELSE b.wh
           low == IF high THEN 0 ELSE IF b.low > Dwell THEN b.low ELSE b.low + 1
           rests == low > Dwell
           used == IF rests THEN 0 ELSE wh
           full == used >= Limit
           costly == high /\ active
           stopped == b.stopped \/ full
           reset == (rests \/ (b.reset /\ ~high)) /\ ~full
<1>1. low \in 0..Dwell+1 /\ used \in 0..Limit
      BY BoundsAssumption DEF Budget
<1>2. rests \in BOOLEAN /\ full \in BOOLEAN /\ costly \in BOOLEAN /\ stopped \in BOOLEAN
      OBVIOUS
<1>3. reset \in BOOLEAN
      OBVIOUS
<1>4. Account(b, high, active) =
        [b EXCEPT !.wh = used, !.low = low, !.costly = costly, !.stopped = stopped, !.reset = reset]
      BY DEF Account
<1> HIDE DEF wh, low, rests, used, full, costly, reset
<1>5. [b EXCEPT !.wh = used, !.low = low, !.costly = costly, !.stopped = stopped, !.reset = reset]
        \in Budget
      BY <1>1, <1>2, <1>3 DEF Budget
<1> QED BY <1>4, <1>5 DEF Budget

-----------------------------------------------------------------------------
(* The journal *)

(* Only who holds the lock has captured a record. *)
Orderly(q) == q \in Seq(Waiter) /\ \A k \in DOMAIN q : k > 1 => q[k].record = None
Recorded(q, r) == 1 \in DOMAIN q /\ q[1].record = r /\ r # None
(* The holder has captured nothing new. *)
Moves(p, q) == Orderly(q) /\ \A r \in Record : Recorded(q, r) => Recorded(p, r)
Fresh(w) == w \in Waiter /\ w.record = None

LEMMA Indices ==
  ASSUME NEW S, NEW s \in Seq(S)
  PROVE  /\ DOMAIN s \subseteq Nat \ {0} /\ \A k \in DOMAIN s : s[k] \in S
         /\ s # <<>> => 1 \in DOMAIN s /\ Head(s) = s[1] /\ Head(s) \in S
         /\ 1 \in DOMAIN s => s # <<>>
OBVIOUS

LEMMA TailElements ==
  ASSUME NEW S, NEW s \in Seq(S), s # <<>>
  PROVE  /\ Tail(s) \in Seq(S)
         /\ \A k \in DOMAIN Tail(s) : k + 1 \in DOMAIN s /\ Tail(s)[k] = s[k + 1]
OBVIOUS

LEMMA AppendElements ==
  ASSUME NEW S, NEW s \in Seq(S), NEW e \in S
  PROVE  /\ Append(s, e) \in Seq(S)
         /\ \A k \in DOMAIN Append(s, e) :
              (k \in DOMAIN s /\ Append(s, e)[k] = s[k]) \/ Append(s, e)[k] = e
OBVIOUS

LEMMA WaitsForm ==
  ASSUME NEW who \in {"tick", "checkpoint", "stop"}, NEW token \in Token \cup {None}
  PROVE  Fresh(Waits(who, token))
BY DEF Fresh, Waits, Waiter

LEMMA AppendMoves ==
  ASSUME NEW q, Orderly(q), NEW w, Fresh(w)
  PROVE  Moves(q, Append(q, w))
<1> DEFINE a == Append(q, w)
<1>1. /\ a \in Seq(Waiter) /\ DOMAIN a \subseteq Nat \ {0}
      /\ \A k \in DOMAIN a : (k \in DOMAIN q /\ a[k] = q[k]) \/ a[k] = w
      BY AppendElements, Indices DEF Orderly, Fresh
<1> HIDE DEF a
<1> QED BY <1>1 DEF Moves, Orderly, Recorded, Fresh

(* Who leaves takes the record along. *)
LEMMA TailMoves ==
  ASSUME NEW q, Orderly(q), q # <<>>
  PROVE  /\ Orderly(Tail(q)) /\ \A r : ~Recorded(Tail(q), r)
<1> DEFINE t == Tail(q)
<1>1. /\ t \in Seq(Waiter) /\ DOMAIN t \subseteq Nat \ {0}
      /\ \A k \in DOMAIN t : k + 1 \in DOMAIN q /\ t[k] = q[k + 1]
      BY TailElements, Indices DEF Orderly
<1> HIDE DEF t
<1>2. \A k \in DOMAIN t : t[k].record = None
  <2> TAKE k \in DOMAIN t
  <2>1. k + 1 \in DOMAIN q /\ k + 1 > 1 /\ t[k] = q[k + 1]
        BY <1>1
  <2> QED BY <2>1 DEF Orderly
<1> QED BY <1>1, <1>2 DEF Orderly, Recorded, t

LEMMA RenewedMoves ==
  ASSUME NEW q, Orderly(q)
  PROVE  Moves(q, Renewed(q))
<1> DEFINE new(k) == IF q[k].token = None THEN q[k] ELSE [q[k] EXCEPT !.token.same = FALSE]
           n == Renewed(q)
<1>1. q \in Seq(Waiter)
      BY DEF Orderly
<1>2. n = [k \in DOMAIN q |-> new(k)]
      BY DEF Renewed
<1>3. ASSUME NEW k \in DOMAIN q
      PROVE  new(k) \in Waiter /\ new(k).record = q[k].record
  <2>1. q[k] \in Waiter
        BY <1>1
  <2>2. CASE q[k].token = None
        BY <2>1, <2>2
  <2>3. CASE q[k].token # None
    <3>1. q[k].token \in Token
          BY <2>1, <2>3 DEF Waiter
    <3>2. [q[k].token EXCEPT !.same = FALSE] \in Token
          BY <3>1 DEF Token
    <3>3. new(k) = [q[k] EXCEPT !.token = [q[k].token EXCEPT !.same = FALSE]]
          BY <2>1, <2>3 DEF Waiter
    <3> QED BY <2>1, <3>2, <3>3 DEF Waiter
  <2> QED BY <2>2, <2>3
<1> HIDE DEF new
<1>4. n \in Seq(Waiter) /\ DOMAIN n = DOMAIN q /\ \A k \in DOMAIN q : n[k] = new(k)
  <2>1. DOMAIN q = 1..Len(q) /\ Len(q) \in Nat
        BY <1>1
  <2>2. n \in [1..Len(q) -> Waiter]
        BY <1>2, <1>3, <2>1
  <2> QED BY <1>2, <2>1, <2>2
<1> HIDE DEF n
<1> QED BY <1>3, <1>4 DEF Moves, Orderly, Recorded, n

LEMMA CaptureForm ==
  ASSUME NEW q, Orderly(q), q # <<>>, NEW s \in Record
  PROVE  LET c == [q EXCEPT ![1].record = s]
         IN  Orderly(c) /\ \A r : Recorded(c, r) => r = s
<1> DEFINE c == [q EXCEPT ![1].record = s]
<1>1. /\ q \in Seq(Waiter) /\ 1 \in DOMAIN q /\ q[1] \in Waiter
      BY Indices DEF Orderly
<1>2. [q[1] EXCEPT !.record = s] \in Waiter /\ [q[1] EXCEPT !.record = s].record = s
      BY <1>1 DEF Waiter
<1>3. /\ c \in Seq(Waiter) /\ DOMAIN c = DOMAIN q /\ c[1] = [q[1] EXCEPT !.record = s]
      /\ \A k \in DOMAIN q : k # 1 => c[k] = q[k]
      BY <1>1, <1>2
<1> HIDE DEF c
<1>4. DOMAIN q \subseteq Nat \ {0}
      BY <1>1, Indices
<1>5. Orderly(c)
      BY <1>3, <1>4 DEF Orderly
<1>6. \A r : Recorded(c, r) => r = s
      BY <1>2, <1>3 DEF Recorded
<1> QED BY <1>5, <1>6 DEF c

-----------------------------------------------------------------------------
(* Proposals *)

Grid == [task: Task \cup {None}, stray: Task \cup {None}, held: Point \cup {None},
         uncertain: BOOLEAN, requested: Point \cup {None}, rejected: BOOLEAN,
         retry: {"none", "later", "due"}]

(* A task past its first read has a point. *)
Aimed(t) == t # None => t \in Task /\ (t.pc # "read" => t.point # None)
(* A request is on its way: its outcome is uncertain, and if the offer was *)
(* not so before, it is what is held.                                      *)
Asked(g, t, offer) ==
  t # None /\ t.pc = "set" =>
    /\ g.uncertain
    /\ ~t.before /\ g.held # None => g.held = offer
(* While the request of an older task is on its way the newer one waits;   *)
(* what is held and not uncertain is the offer; and only a known           *)
(* transaction has an offer that is held, or a task that counts.           *)
Consistent(g, offer, tx) ==
  /\ g \in Grid /\ Aimed(g.task) /\ Aimed(g.stray)
  /\ g.stray # None /\ g.task # None => g.task.pc = "read"
  /\ Asked(g, g.task, offer) /\ Asked(g, g.stray, offer)
  /\ g.held # None /\ ~g.uncertain => g.held = offer
  /\ tx = NoTx => g.held = None /\ (g.task # None => ~g.task.live)

LEMMA NewTaskForm ==
  ASSUME NEW point \in Point \cup {None}, NEW allow \in BOOLEAN, NEW tx \in Tx
  PROVE  LET t == NewTask(point, allow, tx)
         IN  t \in Task /\ t.pc = "read" /\ t.live /\ t.point = point /\ ~t.before
BY DEF NewTask, Task

LEMMA InvalidateForm ==
  ASSUME NEW offer, NEW tx, NEW g, Consistent(g, offer, tx)
  PROVE  /\ Consistent(Invalidate(g), offer, tx)
         /\ Invalidate(g).task # None => ~Invalidate(g).task.live
         /\ Invalidate(g).held = g.held
<1> DEFINE t == IF g.task = None THEN None ELSE [g.task EXCEPT !.live = FALSE]
           i == Invalidate(g)
<1>1. g \in Grid
      BY DEF Consistent
<1>2. i = [g EXCEPT !.task = t, !.retry = "none"]
      BY <1>1 DEF Invalidate, Grid
<1>3. t # None => /\ g.task # None /\ t \in Task /\ t.pc = g.task.pc /\ t.point = g.task.point
                  /\ t.before = g.task.before /\ ~t.live
      BY DEF Consistent, Aimed, Task
<1> HIDE DEF t
<1>4. t \in Task \cup {None}
      BY <1>3
<1>5. /\ i \in Grid /\ i.task = t /\ i.stray = g.stray /\ i.held = g.held
      /\ i.uncertain = g.uncertain
      BY <1>1, <1>2, <1>4 DEF Grid
<1> HIDE DEF i
<1>6. Consistent(i, offer, tx)
      BY <1>3, <1>5 DEF Consistent, Aimed, Asked
<1> QED BY <1>3, <1>5, <1>6 DEF i

LEMMA LaunchForm ==
  ASSUME NEW offer, NEW tx \in Tx \cup {NoTx}, NEW g, Consistent(g, offer, tx),
         NEW point \in Point \cup {None}, NEW allow \in BOOLEAN
  PROVE  /\ Consistent(Launch(g, point, allow, tx), offer, tx)
         /\ Launch(g, point, allow, tx).held = g.held
<1> DEFINE s == IF g.task # None /\ g.stray = None /\ g.task.pc # "send" THEN g.task ELSE g.stray
           n == NewTask(point, allow, tx)
           l == [g EXCEPT !.task = n, !.retry = "none", !.stray = s]
<1>1. CASE tx = NoTx \/ (g.task # None /\ g.task.live)
      BY <1>1 DEF Launch
<1>2. CASE ~(tx = NoTx \/ (g.task # None /\ g.task.live))
  <2>1. Launch(g, point, allow, tx) = l /\ tx \in Tx
        BY <1>2 DEF Launch
  <2>2. n \in Task /\ n.pc = "read"
        BY <2>1, NewTaskForm
  <2>3. g \in Grid /\ s \in Task \cup {None} /\ s \in {g.task, g.stray}
        BY DEF Consistent, Grid
  <2> HIDE DEF n, s
  <2>4. /\ l \in Grid /\ l.task = n /\ l.stray = s /\ l.held = g.held
        /\ l.uncertain = g.uncertain
        BY <2>2, <2>3 DEF Grid
  <2> HIDE DEF l
  <2>5. Aimed(n) /\ Asked(l, n, offer) /\ tx # NoTx
        BY <1>2, <2>2 DEF Aimed, Asked
  <2>6. Aimed(s) /\ Asked(l, s, offer)
        BY <2>3, <2>4 DEF Consistent, Aimed, Asked
  <2>7. Consistent(l, offer, tx)
        BY <2>2, <2>4, <2>5, <2>6 DEF Consistent
  <2> QED BY <2>1, <2>4, <2>7
<1> QED BY <1>1, <1>2

LEMMA FencedForm ==
  ASSUME NEW offer, NEW tx, NEW g, Consistent(g, offer, tx), NEW b \in BOOLEAN
  PROVE  LET f == [Invalidate(g) EXCEPT !.rejected = b]
         IN  /\ Consistent(f, offer, tx) /\ f.held = g.held
             /\ f.task # None => ~f.task.live
<1> DEFINE i == Invalidate(g)
           f == [i EXCEPT !.rejected = b]
<1>1. /\ Consistent(i, offer, tx) /\ (i.task # None => ~i.task.live) /\ i.held = g.held
      BY InvalidateForm
<1> HIDE DEF i
<1>2. /\ f \in Grid /\ f.task = i.task /\ f.stray = i.stray /\ f.held = i.held
      /\ f.uncertain = i.uncertain
      BY <1>1 DEF Consistent, Grid
<1> HIDE DEF f
<1>3. Consistent(f, offer, tx)
      BY <1>1, <1>2 DEF Consistent, Asked
<1> QED BY <1>1, <1>2, <1>3 DEF f, i

LEMMA MovedForm ==
  ASSUME NEW offer, NEW tx \in Tx \cup {NoTx}, NEW g, Consistent(g, offer, tx), NEW s,
         NEW allow \in BOOLEAN
  PROVE  Consistent(Moved(g, s, tx, allow), offer, tx)
<1> DEFINE b == g.rejected /\ tx # NoTx
           f == [Invalidate(g) EXCEPT !.rejected = b]
<1>1. b \in BOOLEAN /\ g \in Grid
      BY DEF Consistent, Grid
<1>2. Moved(g, s, tx, allow) = IF Active(s) THEN f ELSE Launch(f, 0, allow, tx)
  <2>1. Invalidate(g).rejected = g.rejected
        BY <1>1 DEF Invalidate, Grid
  <2> QED BY <2>1 DEF Moved
<1> HIDE DEF b
<1>3. Consistent(f, offer, tx)
      BY <1>1, FencedForm
<1> HIDE DEF f
<1>4. Consistent(Launch(f, 0, allow, tx), offer, tx)
      BY <1>3, LaunchForm, BoundsAssumption DEF Point
<1> QED BY <1>2, <1>3, <1>4

(* Another transaction: nothing is held, and nothing of the old one counts. *)
LEMMA AnewForm ==
  ASSUME NEW offer, NEW tx, NEW g, Consistent(g, offer, tx),
         NEW new, NEW next \in Tx \cup {NoTx}, NEW s, NEW allow \in BOOLEAN
  PROVE  Consistent([Moved(g, s, next, allow) EXCEPT !.held = None], new, next)
<1> DEFINE b == g.rejected /\ next # NoTx
           f == [Invalidate(g) EXCEPT !.rejected = b]
           e(h) == [h EXCEPT !.held = None]
<1>1. b \in BOOLEAN /\ g \in Grid
      BY DEF Consistent, Grid
<1>2. Moved(g, s, next, allow) = IF Active(s) THEN f ELSE Launch(f, 0, allow, next)
  <2>1. Invalidate(g).rejected = g.rejected
        BY <1>1 DEF Invalidate, Grid
  <2> QED BY <2>1 DEF Moved
<1> HIDE DEF b
<1>3. Consistent(f, offer, tx) /\ (f.task # None => ~f.task.live)
      BY <1>1, FencedForm
<1> HIDE DEF f
<1>4. Consistent(e(f), new, next)
  <2> DEFINE h == e(f)
  <2>1. /\ h \in Grid /\ h.task = f.task /\ h.stray = f.stray /\ h.held = None
        /\ h.uncertain = f.uncertain
        BY <1>3 DEF Consistent, Grid
  <2> HIDE DEF h
  <2>2. Consistent(h, new, next)
        BY <1>3, <2>1 DEF Consistent, Asked
  <2> QED BY <2>2 DEF h
<1>5. e(Launch(f, 0, allow, next)) = Launch(e(f), 0, allow, next)
  <2>1. f \in Grid
        BY <1>3 DEF Consistent
  <2> QED BY <2>1 DEF Launch, Grid
<1>6. Consistent(Launch(e(f), 0, allow, next), new, next)
      BY <1>4, LaunchForm, BoundsAssumption DEF Point
<1> QED BY <1>2, <1>4, <1>5, <1>6

LEMMA SubmitForm ==
  ASSUME NEW offer, NEW g, known \in Tx \cup {NoTx}, Consistent(g, offer, known),
         NEW point \in Point, NEW current, NEW urgent
  PROVE  Consistent(Submit(g, point, current, urgent), offer, known)
<1> DEFINE i == IF Supersedes(g, urgent) THEN Invalidate(g) ELSE g
<1>1. Consistent(i, offer, known)
      BY InvalidateForm
<1>2. \/ Submit(g, point, current, urgent) = i
      \/ Submit(g, point, current, urgent) = Launch(i, None, FALSE, known)
      \/ Submit(g, point, current, urgent) = Launch(i, point, TRUE, known)
      BY DEF Submit
<1> HIDE DEF i
<1>3. Consistent(Launch(i, None, FALSE, known), offer, known)
      BY <1>1, LaunchForm
<1>4. Consistent(Launch(i, point, TRUE, known), offer, known)
      BY <1>1, LaunchForm
<1> QED BY <1>1, <1>2, <1>3, <1>4

-----------------------------------------------------------------------------
(* The parts of the state *)

Pilot ==
  /\ setting \in [profile: Profile, released: BOOLEAN, stopping: BOOLEAN]
  /\ problem \in Problem
  /\ tick \in [pc: {"idle", "plan", "soc", "wire"}, live: BOOLEAN,
               point: Point, current: Point \cup {None}, urgent: BOOLEAN]
  /\ ops \in 0..MaxOps
(* A restart is prepared for a transaction, and not while a Stop is saved. *)
Ledger ==
  /\ budget \in Budget /\ ended \in Tx \cup {NoTx} /\ restart \in BOOLEAN
  /\ disk \in Record /\ saved \in Record /\ Orderly(journal) /\ owed \in Tx \cup {NoTx}
  /\ restart => budget.scope # NoTx
  /\ setting.stopping => ~setting.released /\ ~restart
(* A transaction that is known is that of the station. *)
Offers ==
  /\ car \in [tx: Tx \cup {NoTx}, next: 1..MaxTx + 1, offer: Point]
  /\ known \in {NoTx, car.tx} /\ Consistent(grid, car.offer, known)
Typed == Pilot /\ Ledger /\ Offers

LEMMA TypedIsTypeOK == Typed => TypeOK
BY DEF Typed, Pilot, Ledger, Offers, TypeOK, Consistent, Grid, Orderly

LEMMA InitTyped == Init => Typed
<1> SUFFICES ASSUME Init PROVE Typed
    OBVIOUS
<1>1. 0 \in Point /\ 1 \in 1..MaxTx+1 /\ 0 \in 0..MaxOps
      BY BoundsAssumption DEF Point
<1>2. Pilot
      BY <1>1 DEF Init, Pilot, Idle, Problem
<1>3. NewBudget \in Budget /\ Saved(NewBudget, NoTx) \in Record
      BY NewBudgetForm, SavedForm
<1>4. Orderly(<<>>)
      BY DEF Orderly
<1>5. Ledger
      BY <1>3, <1>4 DEF Init, Ledger
<1>6. NewGrid \in Grid /\ NewGrid.task = None /\ NewGrid.stray = None /\ NewGrid.held = None
      BY DEF NewGrid, Grid
<1>7. Consistent(NewGrid, 0, NoTx)
      BY <1>6 DEF Consistent, Aimed, Asked
<1>8. Offers
      BY <1>1, <1>7 DEF Init, Offers
<1> QED BY <1>2, <1>5, <1>8 DEF Typed

LEMMA Spends == ASSUME Pilot, Spend PROVE ops' \in 0..MaxOps
BY BoundsAssumption DEF Pilot, Spend

LEMMA FencedTick ==
  ASSUME Pilot PROVE Fenced(tick) \in [pc: {"idle", "plan", "soc", "wire"}, live: BOOLEAN,
               point: Point, current: Point \cup {None}, urgent: BOOLEAN]
BY DEF Pilot, Fenced

LEMMA IdleTick ==
  Idle \in [pc: {"idle", "plan", "soc", "wire"}, live: BOOLEAN,
            point: Point, current: Point \cup {None}, urgent: BOOLEAN]
BY BoundsAssumption DEF Idle, Point

LEMMA CurrentForm == Offers => Current(grid) \in Point \cup {None}
BY DEF Offers, Consistent, Grid, Current

LEMMA ProposesTick ==
  ASSUME Pilot, Offers, NEW pc \in {"soc", "wire"}, NEW point \in Point, NEW urgent \in BOOLEAN,
         Proposes(pc, point, urgent)
  PROVE  tick' \in [pc: {"idle", "plan", "soc", "wire"}, live: BOOLEAN,
                    point: Point, current: Point \cup {None}, urgent: BOOLEAN]
BY CurrentForm DEF Proposes, Pilot

(* What is decided is an offer. *)
LEMMA DecisionsForm ==
  ASSUME Offers, NEW stopped, NEW d \in Decisions(stopped)
  PROVE  d.point \in Point /\ d.urgent \in BOOLEAN
<1>1. Current(grid) \in Point \cup {None} /\ 0 \in Point
      BY CurrentForm, BoundsAssumption DEF Point
<1> DEFINE held == IF Current(grid) = None THEN 0 ELSE Current(grid)
           pending == grid.task # None \/ grid.uncertain
<1>2. \/ d = [point |-> 0, urgent |-> TRUE]
      \/ \E p \in (IF pending THEN {held} ELSE Point) : d = [point |-> p, urgent |-> FALSE]
      BY DEF Decisions
<1>3. CASE d = [point |-> 0, urgent |-> TRUE]
      BY <1>1, <1>3
<1>4. CASE \E p \in (IF pending THEN {held} ELSE Point) : d = [point |-> p, urgent |-> FALSE]
  <2>1. PICK p \in (IF pending THEN {held} ELSE Point) : d = [point |-> p, urgent |-> FALSE]
        BY <1>4
  <2>2. p \in Point
        BY <1>1
  <2> QED BY <2>1, <2>2
<1> QED BY <1>2, <1>3, <1>4

LEMMA TicksPilot ==
  ASSUME Pilot, Offers, NEW ok \in BOOLEAN, Ticks(ok)
  PROVE  Pilot'
<1>0. 0 \in Point /\ \A p \in Problem : Shown(ok, p) \in Problem
      BY BoundsAssumption DEF Point, Shown, Problem
<1>1. ops' \in 0..MaxOps
      BY Spends DEF Ticks, PlanOnly, InputsMissing, Unreconciled, SocStop, Decide, SocStopped, Wired,
         Planned, Regulates, Proposed, Persisted, Pilot
<1>2. UNCHANGED setting
  <2>1. CASE PlanOnly(ok) \/ InputsMissing(ok) \/ Unreconciled(ok) \/ SocStopped(ok) \/ Wired(ok)
        BY <2>1 DEF PlanOnly, InputsMissing, Unreconciled, TickEnds, SocStopped, Wired, Proposed
  <2>2. CASE SocStop(ok)
        BY <2>2 DEF SocStop, Proposes
  <2>3. CASE Decide(ok)
    <3>1. PICK stopped : \E d \in Decisions(stopped) : Proposes("wire", d.point, d.urgent)
          BY <2>3 DEF Decide
    <3> QED BY <3>1 DEF Proposes
  <2> QED BY <2>1, <2>2, <2>3 DEF Ticks
<1>3. problem' \in Problem
      BY <1>0 DEF Ticks, PlanOnly, InputsMissing, Unreconciled, SocStop, Decide, SocStopped, Wired,
         Proposed, Pilot, Problem
<1>4. tick' \in [pc: {"idle", "plan", "soc", "wire"}, live: BOOLEAN,
                 point: Point, current: Point \cup {None}, urgent: BOOLEAN]
  <2>1. CASE PlanOnly(ok) \/ InputsMissing(ok) \/ Unreconciled(ok) \/ SocStopped(ok) \/ Wired(ok)
    <3>1. tick' = Idle
          BY <2>1 DEF PlanOnly, InputsMissing, Unreconciled, TickEnds, SocStopped, Wired, Proposed
    <3> QED BY <3>1, IdleTick
  <2>2. CASE SocStop(ok)
        BY <1>0, <2>2, ProposesTick DEF SocStop
  <2>3. CASE Decide(ok)
    <3>1. PICK stopped : \E d \in Decisions(stopped) : Proposes("wire", d.point, d.urgent)
          BY <2>3 DEF Decide
    <3>2. PICK d \in Decisions(stopped) : Proposes("wire", d.point, d.urgent)
          BY <3>1
    <3> QED BY <3>2, DecisionsForm, ProposesTick
  <2> QED BY <2>1, <2>2, <2>3 DEF Ticks
<1> QED BY <1>1, <1>2, <1>3, <1>4 DEF Pilot

LEMMA OthersPilot ==
  ASSUME Pilot, Offers, Next, ~\E ok \in BOOLEAN : Ticks(ok)
  PROVE  Pilot'
<1>1. CASE Users
  <2>1. CASE Start
        BY <2>1, FencedTick DEF Pilot, Start, NewContext
  <2>2. CASE Stop
        BY <2>2, FencedTick, Spends DEF Pilot, Stop, NewContext
  <2>3. CASE \E p \in Profile : SetProfile(p)
    <3>1. PICK p \in Profile : SetProfile(p)
          BY <2>3
    <3>2. tick' = Fenced(tick)
          BY <3>1 DEF SetProfile, NewContext
    <3> QED BY <3>1, <3>2, FencedTick, Spends DEF Pilot, SetProfile
  <2> QED BY <1>1, <2>1, <2>2, <2>3 DEF Users
<1>2. CASE Environment
  <2>1. CASE Begins \/ Ends \/ LinkLost \/ Reported
    <3>1. tick' = Fenced(tick) /\ UNCHANGED <<setting, problem>>
          BY <2>1 DEF Begins, Ends, LinkLost, Reported, Sees, NewContext
    <3>2. ops' \in 0..MaxOps
          BY <2>1, Spends DEF Begins, Ends, LinkLost, Reported, Pilot
    <3> QED BY <3>1, <3>2, FencedTick DEF Pilot
  <2>2. CASE EndsUnseen \/ StopNotStored
        BY <2>2, Spends DEF Pilot, EndsUnseen, StopNotStored, economy
  <2>3. CASE Restart
        BY <2>3, Spends, IdleTick DEF Pilot, Restart, Problem
  <2> QED BY <1>2, <2>1, <2>2, <2>3 DEF Environment
<1>3. CASE Fire
      BY <1>3, IdleTick DEF Pilot, Fire, economy
<1>4. CASE Capture
      BY <1>4 DEF Pilot, Capture, economy
<1>5. CASE StopStored
      BY <1>5 DEF Pilot, StopStored
<1>6. CASE \E ok \in BOOLEAN : Checkpointed(ok) \/ Stopped(ok)
  <2>1. PICK ok \in BOOLEAN : Checkpointed(ok) \/ Stopped(ok)
        BY <1>6
  <2>2. ops' \in 0..MaxOps
        BY <2>1, Spends DEF Checkpointed, Stopped, Persisted, Pilot
  <2>3. UNCHANGED <<setting, tick>> /\ problem' \in Problem
        BY <2>1 DEF Checkpointed, Stopped, economy, Pilot, Problem
  <2> QED BY <2>2, <2>3 DEF Pilot
<1>7. CASE Send \/ Answers \/ StrayAnswered \/ RetryDue
  <2>1. UNCHANGED <<setting, problem, tick>>
        BY <1>7 DEF Send, Answers, ReadAnswered, Accepted, Rejected, TimedOut, CheckAnswered,
           StrayAnswered, RetryDue, Aside, Elsewhere
  <2>2. ops' \in 0..MaxOps
        BY <1>7, Spends DEF Send, Answers, ReadAnswered, Accepted, Rejected, TimedOut, CheckAnswered,
           StrayAnswered, RetryDue, Pilot
  <2> QED BY <2>1, <2>2 DEF Pilot
<1> QED BY <1>1, <1>2, <1>3, <1>4, <1>5, <1>6, <1>7 DEF Next, Stored

-----------------------------------------------------------------------------
(* What a step does to the budget and its journal *)

(* The scope and its STOP stay. *)
Keeps(b, c) == c.scope = b.scope /\ (b.stopped => c.stopped)
Lifts(c) == owed' = NoTx \/ (owed' = owed /\ Keeps(budget, c))
(* A record was stored, or not. *)
Stores(r, ok) ==
  /\ ok => saved' = r /\ disk' = (IF r = saved THEN disk ELSE r)
  /\ ~ok => saved' = saved /\ (disk' = disk \/ (Unverified /\ disk' = r))
Confirmed(r, ok) ==
  IF ok /\ r.stopped /\ budget.stopped /\ r.scope = budget.scope THEN r.scope ELSE owed

Quiet == UNCHANGED store /\ Moves(journal, journal') /\ Lifts(budget')
Captures ==
  /\ UNCHANGED <<store, owed, budget, ended>> /\ Orderly(journal')
  /\ \A r : Recorded(journal', r) => r = Saved(budget, ended)
Persists ==
  \E r \in Record, ok \in BOOLEAN :
    /\ Recorded(journal, r) /\ Stores(r, ok)
    /\ Orderly(journal') /\ \A s \in Record : ~Recorded(journal', s)
    /\ owed' = NoTx \/ (owed' = Confirmed(r, ok) /\ Keeps(budget, budget'))
Restores ==
  /\ disk' = disk \/ Recorded(journal, disk')
  /\ saved' = disk' /\ journal' = <<>> /\ budget' = Restore(disk') /\ UNCHANGED owed
StoreEffect == Quiet \/ Captures \/ Persists \/ Restores

LEMMA OrderlyMoves == ASSUME Orderly(journal), UNCHANGED journal PROVE Moves(journal, journal')
BY DEF Moves, Orderly, Recorded

LEMMA HeadRecord ==
  ASSUME Typed, journal # <<>>, Head(journal).record # None
  PROVE  Head(journal).record \in Record /\ Recorded(journal, Head(journal).record)
<1>1. Head(journal) \in Waiter /\ Head(journal) = journal[1] /\ 1 \in DOMAIN journal
      BY Indices DEF Typed, Ledger, Orderly
<1> QED BY <1>1 DEF Waiter, Recorded

(* The holder of the lock is answered. *)
LEMMA Answered ==
  ASSUME Typed, NEW who, Holds(who), NEW ok \in BOOLEAN, Persisted(ok)
  PROVE  LET r == Head(journal).record
         IN  /\ r \in Record /\ Recorded(journal, r) /\ Stores(r, ok) /\ Confirms(ok) = Confirmed(r, ok)
             /\ disk' \in Record /\ saved' \in Record
             /\ Confirms(ok) \in Tx \cup {NoTx}
             /\ journal # <<>>
<1> DEFINE r == Head(journal).record
<1>1. r \in Record /\ Recorded(journal, r) /\ journal # <<>>
      BY HeadRecord DEF Holds
<1>2. Stores(r, ok)
      BY DEF Persisted, Stores
<1>3. Confirms(ok) = Confirmed(r, ok)
      BY DEF Confirms, Confirmed
<1> HIDE DEF r
<1>4. disk' \in Record /\ saved' \in Record
  <2>1. disk \in Record /\ saved \in Record
        BY DEF Typed, Ledger
  <2>2. CASE ok
        BY <1>1, <1>2, <2>1, <2>2 DEF Stores
  <2>3. CASE ~ok
        BY <1>1, <1>2, <2>1, <2>3 DEF Stores
  <2> QED BY <2>2, <2>3
<1>5. Confirmed(r, ok) \in Tx \cup {NoTx}
      BY <1>1 DEF Confirmed, Record, Typed, Ledger
<1> QED BY <1>1, <1>2, <1>3, <1>4, <1>5 DEF r

(* What goes on from here: the holder is gone, and another may wait. *)
LEMMA GoesOn ==
  ASSUME Typed, journal # <<>>,
         \/ journal' = Tail(journal)
         \/ journal' = Append(Tail(journal), Waits("tick", None))
  PROVE  Orderly(journal') /\ \A s \in Record : ~Recorded(journal', s)
<1>1. Orderly(Tail(journal)) /\ \A s : ~Recorded(Tail(journal), s)
      BY TailMoves DEF Typed, Ledger
<1>2. CASE journal' = Tail(journal)
      BY <1>1, <1>2
<1>3. CASE journal' = Append(Tail(journal), Waits("tick", None))
  <2>1. Moves(Tail(journal), journal')
        BY <1>1, <1>3, WaitsForm, AppendMoves
  <2> QED BY <1>1, <2>1 DEF Moves
<1> QED BY <1>2, <1>3

(* A record that is stored, and what may follow for the budget. *)
LEMMA PersistStep ==
  ASSUME Typed, NEW who, Holds(who), NEW ok \in BOOLEAN, Persisted(ok),
         \/ journal' = Tail(journal)
         \/ journal' = Append(Tail(journal), Waits("tick", None)),
         UNCHANGED setting, ended' \in Tx \cup {NoTx}, restart' \in BOOLEAN,
         budget' \in Budget, restart' => budget'.scope # NoTx,
         setting.stopping => ~restart',
         owed' = NoTx \/ (owed' = Confirms(ok) /\ Keeps(budget, budget'))
  PROVE  Ledger' /\ StoreEffect
<1>1. PICK r \in Record : /\ Recorded(journal, r) /\ Stores(r, ok) /\ Confirms(ok) = Confirmed(r, ok)
                          /\ disk' \in Record /\ saved' \in Record
                          /\ Confirms(ok) \in Tx \cup {NoTx} /\ journal # <<>>
      BY Answered
<1>2. Orderly(journal') /\ \A s \in Record : ~Recorded(journal', s)
      BY <1>1, GoesOn
<1>3. owed' \in Tx \cup {NoTx}
      BY <1>1
<1>4. Persists
      BY <1>1, <1>2 DEF Persists
<1> QED BY <1>1, <1>2, <1>3, <1>4 DEF Ledger, StoreEffect, Typed

LEMMA KeepsOn == ASSUME NEW b \in Budget PROVE Keeps(b, b) /\ Keeps(b, Interrupt(b))
BY InterruptForm DEF Keeps

LEMMA AfterPlanForm ==
  ASSUME Typed, NEW ok \in BOOLEAN
  PROVE  AfterPlan(ok) \in Budget /\ Keeps(budget, AfterPlan(ok))
<1>1. budget \in Budget
      BY DEF Typed, Ledger
<1> QED BY <1>1, InterruptForm, KeepsOn DEF AfterPlan

(* The ways a tick ends without a decision. *)
LEMMA TickEndsStep ==
  ASSUME Typed, NEW ok \in BOOLEAN, PlanOnly(ok) \/ InputsMissing(ok) \/ Unreconciled(ok)
  PROVE  Ledger' /\ StoreEffect
<1>1. /\ Holds("tick") /\ Persisted(ok) /\ journal' = Tail(journal)
      /\ UNCHANGED <<setting, ended, restart>>
      BY DEF PlanOnly, InputsMissing, Unreconciled, Regulates, Planned, TickEnds
<1>2. /\ budget \in Budget /\ ended' \in Tx \cup {NoTx} /\ restart' \in BOOLEAN
      /\ setting.stopping => ~restart'
      /\ restart' => budget.scope # NoTx
      BY <1>1 DEF Typed, Ledger
<1>3. Interrupt(budget) \in Budget /\ Keeps(budget, Interrupt(budget)) /\ Keeps(budget, budget)
      BY <1>2, InterruptForm, KeepsOn
<1>4. CASE budget' \in {budget, Interrupt(budget)} /\ owed' = Confirms(ok)
  <2>1. budget' \in Budget /\ Keeps(budget, budget') /\ budget'.scope = budget.scope
        BY <1>2, <1>3, <1>4 DEF Keeps
  <2> QED BY <1>1, <1>2, <1>4, <2>1, PersistStep
<1>5. CASE budget' = Bind(budget, known) /\ Rebinds(budget) /\ owed' = NoTx /\ known \in Tx
  <2>1. budget' \in Budget /\ budget'.scope = known
        BY <1>2, <1>5, BindForm
  <2>2. known # NoTx
        BY <1>5 DEF Tx, NoTx
  <2> QED BY <1>1, <1>2, <1>5, <2>1, <2>2, PersistStep
<1>6. InputsMissing(ok) => known \in Tx
      BY DEF InputsMissing, Regulates, Valid, Typed, Offers
<1> QED BY <1>4, <1>5, <1>6 DEF PlanOnly, InputsMissing, Unreconciled

LEMMA SocStopStep ==
  ASSUME Typed, NEW ok \in BOOLEAN, SocStop(ok)
  PROVE  Ledger' /\ StoreEffect
<1>1. /\ Holds("tick") /\ Persisted(ok) /\ journal' = Append(Tail(journal), Waits("tick", None))
      /\ UNCHANGED <<setting, ended, restart>> /\ budget' = Interrupt(budget) /\ owed' = Confirms(ok)
      BY DEF SocStop, Regulates, Planned, Proposes
<1>2. /\ budget \in Budget /\ ended' \in Tx \cup {NoTx} /\ restart' \in BOOLEAN
      /\ setting.stopping => ~restart'
      /\ restart' => budget.scope # NoTx
      BY <1>1 DEF Typed, Ledger
<1>3. budget' \in Budget /\ Keeps(budget, budget') /\ budget'.scope = budget.scope
      BY <1>1, <1>2, InterruptForm, KeepsOn
<1> QED BY <1>1, <1>2, <1>3, PersistStep

(* Before it decides, a tick binds and accounts; only what it binds anew is *)
(* not kept.                                                                *)
LEMMA DecideStep ==
  ASSUME Typed, NEW ok \in BOOLEAN, Decide(ok)
  PROVE  /\ Ledger' /\ StoreEffect
         /\ restart' /\ ~restart =>
              budget'.stopped /\ budget'.scope = car.tx /\ car.offer = 0
<1>1. PICK gap \in BOOLEAN, high \in BOOLEAN, ev \in BOOLEAN, evidence \in BOOLEAN, soc \in BOOLEAN :
        LET before == IF gap THEN Interrupt(budget) ELSE AfterPlan(ok)
            b == Account(Bind(before, known), high, ev)
            restarts == Restarts(b, ev, evidence /\ ~soc)
        IN  /\ b.scope = known /\ budget' = b
            /\ evidence => restarts
            /\ gap => before # AfterPlan(ok)
            /\ restart' = (restart \/ restarts)
            /\ \E d \in Decisions(soc \/ (b.stopped /\ ~restarts)) :
                 Proposes("wire", d.point, d.urgent)
      BY Zenon DEF Decide
<1> DEFINE before == IF gap THEN Interrupt(budget) ELSE AfterPlan(ok)
           b == Account(Bind(before, known), high, ev)
           restarts == Restarts(b, ev, evidence /\ ~soc)
<1>2. /\ Holds("tick") /\ Persisted(ok) /\ journal' = Append(Tail(journal), Waits("tick", None))
      /\ UNCHANGED <<setting, ended>>
      /\ owed' = IF Rebinds(budget) THEN NoTx ELSE Confirms(ok)
      /\ Active(setting) /\ known \in Tx /\ known = car.tx
  <2>1. PICK stopped : \E d \in Decisions(stopped) : Proposes("wire", d.point, d.urgent)
        BY <1>1
  <2>2. journal' = Append(Tail(journal), Waits("tick", None)) /\ UNCHANGED <<setting, ended>>
        BY <2>1 DEF Proposes
  <2>3. known \in Tx /\ known = car.tx
        BY DEF Decide, Regulates, Valid, Typed, Offers
  <2> QED BY <2>2, <2>3 DEF Decide, Regulates, Planned
<1>3. /\ budget \in Budget /\ ended' \in Tx \cup {NoTx} /\ restart \in BOOLEAN
      /\ setting.stopping => ~setting.released
      BY <1>2 DEF Typed, Ledger
<1>4. before \in Budget /\ Keeps(budget, before)
      BY <1>3, AfterPlanForm, InterruptForm, KeepsOn
<1>5. budget' = b /\ b.scope = known /\ restart' = (restart \/ restarts)
      BY <1>1
<1> HIDE DEF before
<1>6. /\ Bind(before, known) \in Budget
      /\ ~Rebinds(before) => Bind(before, known) = before
      BY <1>2, <1>4, BindForm
<1>7. b \in Budget /\ (Bind(before, known).stopped => b.stopped)
      BY <1>6, AccountForm
<1>8. Rebinds(before) <=> Rebinds(budget)
      BY <1>4 DEF Rebinds, Keeps
<1>9. ~Rebinds(budget) => Keeps(budget, b)
  <2>1. Account(Bind(before, known), high, ev).scope = Bind(before, known).scope
        BY <1>6, AccountForm
  <2> QED BY <1>4, <1>6, <1>7, <1>8, <2>1 DEF Keeps
<1>10. restarts => b.stopped /\ car.offer = 0
  <2>1. restarts => b.stopped /\ Current(grid) = 0
        BY DEF Restarts
  <2>2. Current(grid) = 0 => car.offer = 0
        BY NoneAssumption, BoundsAssumption DEF Current, Typed, Offers, Consistent, Point
  <2> QED BY <2>1, <2>2
<1>11. restarts \in BOOLEAN
      BY DEF Restarts
<1> HIDE DEF b, restarts
<1>12. known # NoTx
       BY <1>2 DEF Tx, NoTx
<1>13. Ledger' /\ StoreEffect
  <2>1. restart' \in BOOLEAN
        BY <1>5, <1>3, <1>11
  <2>2. owed' = NoTx \/ (owed' = Confirms(ok) /\ Keeps(budget, budget'))
        BY <1>2, <1>5, <1>9
  <2>3. ~setting.stopping
        BY <1>2, <1>3 DEF Active
  <2> QED BY <1>2, <1>3, <1>5, <1>7, <1>12, <2>1, <2>2, <2>3, PersistStep
<1> QED BY <1>2, <1>5, <1>10, <1>13

LEMMA ProposedStep ==
  ASSUME Typed, NEW ok \in BOOLEAN, SocStopped(ok) \/ Wired(ok)
  PROVE  Ledger' /\ StoreEffect
<1>1. PICK proceed \in BOOLEAN :
        /\ Holds("tick") /\ Persisted(ok) /\ journal' = Tail(journal)
        /\ UNCHANGED <<setting, ended>> /\ owed' = Confirms(ok)
        /\ budget' = AfterPlan(ok) /\ restart' = (restart /\ ~(proceed /\ tick.urgent))
  <2>1. CASE SocStopped(ok)
    <3>1. Valid(tick) \in BOOLEAN
          BY DEF Valid, Typed, Pilot
    <3> QED BY <2>1, <3>1 DEF SocStopped, Proposed
  <2>2. CASE Wired(ok)
    <3> DEFINE p == (ok \/ tick.point = 0) /\ Valid(tick) /\ Active(setting)
    <3>1. p \in BOOLEAN
          OBVIOUS
    <3>2. Proposed(ok, "wire", p, "none")
          BY <2>2 DEF Wired
    <3> HIDE DEF p
    <3> QED BY <3>1, <3>2 DEF Proposed
  <2> QED BY <2>1, <2>2
<1>2. budget' \in Budget /\ Keeps(budget, budget') /\ budget'.scope = budget.scope
      BY <1>1, AfterPlanForm DEF Keeps
<1>3. /\ ended' \in Tx \cup {NoTx} /\ restart' \in BOOLEAN /\ (restart' => restart)
      /\ setting.stopping => ~restart'
      /\ restart' => budget.scope # NoTx
      BY <1>1 DEF Typed, Ledger
<1> QED BY <1>1, <1>2, <1>3, PersistStep

(* Nothing but a restart that is recorded lifts a STOP. *)
LEMMA CheckpointedStep ==
  ASSUME Typed, NEW ok \in BOOLEAN, Checkpointed(ok) \/ Stopped(ok)
  PROVE  Ledger' /\ StoreEffect
<1>1. budget \in Budget
      BY DEF Typed, Ledger
<1>2. PICK who : Holds(who) /\ Persisted(ok)
      BY DEF Checkpointed, Stopped
<1>3. /\ journal' = Tail(journal) /\ UNCHANGED <<setting, ended, restart>> /\ owed' = Confirms(ok)
      BY DEF Checkpointed, Stopped, economy
<1>4. budget' \in Budget /\ Keeps(budget, budget') /\ budget'.scope = budget.scope
  <2>1. CASE Stopped(ok)
        BY <1>1, <2>1, KeepsOn DEF Stopped, economy
  <2>2. CASE Checkpointed(ok)
    <3> DEFINE undone == [budget EXCEPT !.stopped = TRUE, !.reset = FALSE]
    <3>1. undone \in Budget /\ Keeps(budget, undone)
          BY <1>1 DEF Budget, Keeps
    <3>2. budget' \in {budget, Interrupt(budget), Interrupt(undone)}
          BY <2>2 DEF Checkpointed
    <3> HIDE DEF undone
    <3>3. /\ Interrupt(undone) \in Budget /\ Keeps(undone, Interrupt(undone))
          /\ Interrupt(budget) \in Budget /\ Keeps(budget, Interrupt(budget))
          /\ Keeps(budget, budget)
          BY <1>1, <3>1, InterruptForm, KeepsOn
    <3> QED BY <1>1, <3>1, <3>2, <3>3 DEF Keeps
  <2> QED BY <2>1, <2>2
<1>5. /\ ended' \in Tx \cup {NoTx} /\ restart' \in BOOLEAN
      /\ setting.stopping => ~restart'
      /\ restart' => budget.scope # NoTx
      BY <1>3 DEF Typed, Ledger
<1> QED BY <1>2, <1>3, <1>4, <1>5, PersistStep

LEMMA QuietStep ==
  ASSUME Typed, UNCHANGED store, Moves(journal, journal'), budget' \in Budget, Lifts(budget'),
         ended' \in Tx \cup {NoTx}, restart' \in BOOLEAN, restart' => budget'.scope # NoTx,
         setting'.stopping => ~setting'.released /\ ~restart'
  PROVE  Ledger' /\ StoreEffect
<1>1. owed' \in Tx \cup {NoTx}
      BY DEF Lifts, Typed, Ledger
<1>2. disk' \in Record /\ saved' \in Record /\ Orderly(journal')
      BY DEF store, Typed, Ledger, Moves
<1> QED BY <1>1, <1>2 DEF Ledger, StoreEffect, Quiet

LEMMA UsersStep ==
  ASSUME Typed, Users \/ StopStored \/ StopNotStored \/ Fire
  PROVE  Ledger' /\ StoreEffect
<1>1. /\ budget \in Budget /\ Orderly(journal) /\ ended \in Tx \cup {NoTx} /\ restart \in BOOLEAN
      /\ restart => budget.scope # NoTx
      /\ setting \in [profile: Profile, released: BOOLEAN, stopping: BOOLEAN]
      /\ setting.stopping => ~setting.released /\ ~restart
      BY DEF Typed, Ledger, Pilot
<1>2. /\ Interrupt(budget) \in Budget /\ Keeps(budget, Interrupt(budget)) /\ Keeps(budget, budget)
      /\ NewBudget \in Budget /\ Interrupt(NewBudget) \in Budget
      BY <1>1, InterruptForm, KeepsOn, NewBudgetForm
<1>3. Moves(journal, journal) /\ Moves(journal, Renewed(journal))
      BY <1>1, RenewedMoves DEF Moves
<1>4. \A who \in {"tick", "checkpoint", "stop"} :
        /\ Moves(journal, Append(journal, Waits(who, None)))
        /\ Moves(journal, Append(Renewed(journal), Waits(who, None)))
  <2> TAKE who \in {"tick", "checkpoint", "stop"}
  <2>1. Fresh(Waits(who, None))
        BY WaitsForm
  <2>2. Orderly(Renewed(journal))
        BY <1>3 DEF Moves
  <2>3. Moves(Renewed(journal), Append(Renewed(journal), Waits(who, None)))
        BY <2>1, <2>2, AppendMoves
  <2>4. Moves(journal, Append(journal, Waits(who, None)))
        BY <1>1, <2>1, AppendMoves
  <2> QED BY <1>3, <2>3, <2>4 DEF Moves
<1>5. CASE Start
  <2>1. /\ setting' = [setting EXCEPT !.released = TRUE] /\ ~setting.stopping
        /\ budget' = Interrupt(budget) /\ restart' = FALSE
        /\ UNCHANGED <<ended, journal, owed>> /\ UNCHANGED store
        BY <1>5 DEF Start, NewContext
  <2>2. ~setting'.stopping
        BY <1>1, <2>1
  <2> QED BY <1>1, <1>2, <1>3, <2>1, <2>2, QuietStep DEF Lifts
<1>6. CASE Stop
  <2>1. /\ setting' = [setting EXCEPT !.released = FALSE, !.stopping = TRUE]
        /\ budget' = Interrupt(budget) /\ restart' = FALSE
        /\ UNCHANGED <<ended, journal, owed>> /\ UNCHANGED store
        BY <1>6 DEF Stop, NewContext
  <2>2. ~setting'.released
        BY <1>1, <2>1
  <2> QED BY <1>1, <1>2, <1>3, <2>1, <2>2, QuietStep DEF Lifts
<1>7. CASE \E p \in Profile : SetProfile(p)
  <2>1. PICK p \in Profile : SetProfile(p)
        BY <1>7
  <2>2. /\ setting' = [setting EXCEPT !.profile = p, !.released = FALSE] /\ ~setting.stopping
        /\ restart' = FALSE /\ UNCHANGED ended /\ UNCHANGED store
        /\ \/ /\ budget' = Interrupt(NewBudget) /\ owed' = NoTx
              /\ journal' = Append(Renewed(journal), Waits("checkpoint", None))
           \/ budget' = Interrupt(budget) /\ UNCHANGED <<journal, owed>>
        BY <2>1 DEF SetProfile, NewContext
  <2>3. ~setting'.stopping
        BY <1>1, <2>2
  <2> QED BY <1>1, <1>2, <1>3, <1>4, <2>2, <2>3, QuietStep DEF Lifts
<1>8. CASE StopStored
  <2>1. /\ setting' = [setting EXCEPT !.stopping = FALSE] /\ setting.stopping
        /\ budget' = NewBudget /\ owed' = NoTx
        /\ journal' = Append(Renewed(journal), Waits("stop", None))
        /\ UNCHANGED <<ended, restart>> /\ UNCHANGED store
        BY <1>8 DEF StopStored
  <2>2. ~setting'.stopping
        BY <1>1, <2>1
  <2> QED BY <1>1, <1>2, <1>4, <2>1, <2>2, QuietStep DEF Lifts
<1>9. CASE StopNotStored
  <2>1. /\ setting' = [setting EXCEPT !.stopping = FALSE]
        /\ UNCHANGED <<budget, ended, restart, journal, owed>> /\ UNCHANGED store
        BY <1>9 DEF StopNotStored, economy
  <2>2. ~setting'.stopping
        BY <1>1, <2>1
  <2> QED BY <1>1, <1>2, <1>3, <2>1, <2>2, QuietStep DEF Lifts
<1>10. CASE Fire
  <2>1. /\ journal' = Append(journal, Waits("tick", None))
        /\ UNCHANGED <<setting, budget, ended, restart, owed>> /\ UNCHANGED store
        BY <1>10 DEF Fire, economy
  <2> QED BY <1>1, <1>2, <1>4, <2>1, QuietStep DEF Lifts
<1> QED BY <1>5, <1>6, <1>7, <1>8, <1>9, <1>10 DEF Users

(* The station and the network change neither a STOP nor a record. *)
LEMMA StationStep ==
  ASSUME Typed, Begins \/ Ends \/ LinkLost \/ Reported \/ EndsUnseen
  PROVE  Ledger' /\ StoreEffect
<1>1. /\ budget \in Budget /\ Orderly(journal) /\ ended \in Tx \cup {NoTx} /\ restart \in BOOLEAN
      /\ restart => budget.scope # NoTx
      /\ setting.stopping => ~setting.released /\ ~restart
      BY DEF Typed, Ledger
<1>2. /\ Interrupt(budget) \in Budget /\ Keeps(budget, Interrupt(budget)) /\ Keeps(budget, budget)
      BY <1>1, InterruptForm, KeepsOn
<1>3. Moves(journal, journal) /\ Moves(journal, Renewed(journal))
      BY <1>1, RenewedMoves DEF Moves
<1>4. Moves(journal, Append(Renewed(journal), Waits("checkpoint", None)))
  <2>1. Fresh(Waits("checkpoint", None)) /\ Orderly(Renewed(journal))
        BY <1>3, WaitsForm DEF Moves
  <2>2. Moves(Renewed(journal), Append(Renewed(journal), Waits("checkpoint", None)))
        BY <2>1, AppendMoves
  <2> QED BY <1>3, <2>2 DEF Moves
<1>5. CASE Begins \/ LinkLost \/ Reported
  <2>1. /\ budget' = Interrupt(budget) /\ restart' = FALSE /\ journal' = Renewed(journal)
        /\ UNCHANGED <<setting, ended, owed>> /\ UNCHANGED store
        BY <1>5 DEF Begins, LinkLost, Reported, Sees, NewContext
  <2> QED BY <1>1, <1>2, <1>3, <2>1, QuietStep DEF Lifts
<1>6. CASE Ends
  <2>1. /\ budget' = Interrupt(budget) /\ restart' = FALSE
        /\ journal' = Append(Renewed(journal), Waits("checkpoint", None))
        /\ ended' = car.tx /\ UNCHANGED <<setting, owed>> /\ UNCHANGED store
        BY <1>6 DEF Ends, Sees, NewContext
  <2>2. ended' \in Tx \cup {NoTx}
        BY <2>1 DEF Typed, Offers
  <2> QED BY <1>1, <1>2, <1>4, <2>1, <2>2, QuietStep DEF Lifts
<1>7. CASE EndsUnseen
  <2>1. UNCHANGED <<setting, budget, ended, restart, journal, owed>> /\ UNCHANGED store
        BY <1>7 DEF EndsUnseen, economy
  <2> QED BY <1>1, <1>2, <1>3, <2>1, QuietStep DEF Lifts
<1> QED BY <1>5, <1>6, <1>7

LEMMA AnswersStep ==
  ASSUME Typed, Send \/ Answers \/ StrayAnswered \/ RetryDue
  PROVE  Ledger' /\ StoreEffect
<1>1. /\ budget \in Budget /\ Orderly(journal) /\ ended \in Tx \cup {NoTx} /\ restart \in BOOLEAN
      /\ restart => budget.scope # NoTx
      /\ setting.stopping => ~setting.released /\ ~restart
      /\ setting.profile \in Profile
      BY DEF Typed, Ledger, Pilot
<1>2. Moves(journal, journal) /\ Keeps(budget, budget)
      BY <1>1 DEF Moves, Keeps
<1>3. UNCHANGED <<setting, ended>> /\ UNCHANGED store
      BY DEF Send, Answers, ReadAnswered, Accepted, Rejected, TimedOut, CheckAnswered, StrayAnswered,
         RetryDue, Aside, Elsewhere
<1>4. CASE UNCHANGED <<budget, restart, journal, owed>>
      BY <1>1, <1>2, <1>3, <1>4, QuietStep DEF Lifts
<1>5. CASE /\ restart /\ budget' = [budget EXCEPT !.stopped = FALSE, !.reset = FALSE]
           /\ restart' = FALSE /\ owed' = NoTx
           /\ journal' = Append(journal, Waits("checkpoint",
                [profile |-> setting.profile, scope |-> budget.scope, same |-> TRUE]))
  <2>1. [profile |-> setting.profile, scope |-> budget.scope, same |-> TRUE] \in Token
    <3>1. budget.scope \in Tx
          BY <1>1, <1>5 DEF Budget
    <3> QED BY <1>1, <3>1 DEF Token
  <2>2. Moves(journal, journal')
        BY <1>1, <1>5, <2>1, WaitsForm, AppendMoves
  <2>3. budget' \in Budget
        BY <1>1, <1>5 DEF Budget
  <2> QED BY <1>1, <1>3, <1>5, <2>2, <2>3, QuietStep DEF Lifts
<1> QED BY <1>4, <1>5 DEF Send, Answers, ReadAnswered, Accepted, Rejected, TimedOut, CheckAnswered,
           StrayAnswered, RetryDue, Aside

LEMMA CaptureStep ==
  ASSUME Typed, Capture
  PROVE  Ledger' /\ StoreEffect
<1>1. /\ UNCHANGED <<setting, budget, ended, restart, owed>> /\ UNCHANGED store /\ journal # <<>>
      /\ journal' = [journal EXCEPT ![1].record = Saved(budget, ended)]
      BY DEF Capture, economy
<1>2. Saved(budget, ended) \in Record
      BY SavedForm DEF Typed, Ledger
<1>3. Orderly(journal') /\ \A r : Recorded(journal', r) => r = Saved(budget, ended)
      BY <1>1, <1>2, CaptureForm DEF Typed, Ledger
<1>4. Ledger'
      BY <1>1, <1>3 DEF Typed, Ledger, store
<1> QED BY <1>1, <1>3, <1>4 DEF StoreEffect, Captures

(* A restart finds what was on disk, or what was being written. *)
LEMMA RestartStep ==
  ASSUME Typed, Restart
  PROVE  Ledger' /\ StoreEffect
<1>1. disk' \in Record /\ (disk' = disk \/ Recorded(journal, disk'))
  <2>1. CASE disk' = disk
        BY <2>1 DEF Typed, Ledger
  <2>2. CASE journal # <<>> /\ disk' = Head(journal).record /\ disk' # None
        BY <2>2, HeadRecord
  <2> QED BY <2>1, <2>2 DEF Restart
<1>2. /\ saved' = disk' /\ budget' = Restore(disk') /\ ended' = disk'.ended /\ journal' = <<>>
      /\ restart' = FALSE /\ UNCHANGED owed /\ ~setting'.stopping
  <2>1. ~setting'.stopping
        BY DEF Restart, Typed, Pilot
  <2> QED BY <2>1 DEF Restart
<1>3. budget' \in Budget /\ ended' \in Tx \cup {NoTx} /\ Orderly(journal')
      BY <1>1, <1>2, RestoreForm DEF Record, Orderly
<1> QED BY <1>1, <1>2, <1>3 DEF Ledger, Typed, StoreEffect, Restores

LEMMA LedgerStep ==
  ASSUME Typed, Next
  PROVE  Ledger' /\ StoreEffect
<1>1. CASE \E ok \in BOOLEAN : Stored(ok)
  <2>1. PICK ok \in BOOLEAN : Stored(ok)
        BY <1>1
  <2> QED BY <2>1, TickEndsStep, SocStopStep, DecideStep, ProposedStep, CheckpointedStep
          DEF Stored, Ticks
<1> QED BY <1>1, UsersStep, StationStep, AnswersStep, CaptureStep, RestartStep DEF Next, Environment

-----------------------------------------------------------------------------
(* What a step does to the offer *)

(* Offer, transaction and knowledge of the car stay. *)
LEMMA OffersStay ==
  ASSUME Typed, UNCHANGED <<car, known>>, Consistent(grid', car.offer, known)
  PROVE  Offers'
BY DEF Typed, Offers

LEMMA KnownTypes ==
  ASSUME Typed
  PROVE  /\ car \in [tx: Tx \cup {NoTx}, next: 1..MaxTx + 1, offer: Point]
         /\ known \in Tx \cup {NoTx} /\ known \in {NoTx, car.tx} /\ Consistent(grid, car.offer, known)
         /\ grid \in Grid /\ tick.point \in Point /\ NoTx \notin Tx /\ 0 \in Point
BY BoundsAssumption DEF Typed, Offers, Pilot, Consistent, Tx, NoTx, Point

(* Without its tasks, or one of them, an offer is what it was. *)
LEMMA Without ==
  ASSUME NEW offer, NEW tx, NEW g, Consistent(g, offer, tx), NEW h \in Grid,
         h.task \in {g.task, None}, h.stray \in {g.stray, None},
         h.held = g.held, h.uncertain = g.uncertain
  PROVE  Consistent(h, offer, tx)
<1>1. Aimed(None) /\ Asked(h, None, offer)
      BY DEF Aimed, Asked
<1>2. /\ h.task = g.task => Aimed(h.task) /\ Asked(h, h.task, offer)
      /\ h.stray = g.stray => Aimed(h.stray) /\ Asked(h, h.stray, offer)
      BY DEF Consistent, Asked
<1> QED BY <1>1, <1>2 DEF Consistent

LEMMA UsersOffers ==
  ASSUME Typed, Users \/ StopStored \/ StopNotStored \/ Fire \/ Capture
                \/ \E ok \in BOOLEAN : Stored(ok)
  PROVE  Offers'
<1>1. UNCHANGED <<car, known>>
  <2>1. CASE Users \/ StopStored \/ StopNotStored \/ Fire \/ Capture
        BY <2>1 DEF Users, Start, Stop, SetProfile, StopStored, StopNotStored, Fire, Capture
  <2>2. CASE \E ok \in BOOLEAN : Ticks(ok)
    <3>1. PICK ok \in BOOLEAN : Ticks(ok)
          BY <2>2
    <3>2. CASE Decide(ok)
      <4>1. PICK stopped : \E d \in Decisions(stopped) : Proposes("wire", d.point, d.urgent)
            BY <3>2 DEF Decide
      <4> QED BY <4>1 DEF Proposes
    <3>3. CASE ~Decide(ok)
          BY <3>1, <3>3 DEF Ticks, PlanOnly, InputsMissing, Unreconciled, SocStop, SocStopped, Wired,
             TickEnds, Proposes, Proposed
    <3> QED BY <3>2, <3>3
  <2>3. CASE \E ok \in BOOLEAN : Checkpointed(ok) \/ Stopped(ok)
        BY <2>3 DEF Checkpointed, Stopped
  <2> QED BY <2>1, <2>2, <2>3 DEF Stored
<1>2. \/ grid' = grid
      \/ \E s : grid' = Moved(grid, s, known, TRUE)
      \/ \E s : grid' = Moved([grid EXCEPT !.requested = None], s, known, TRUE)
      \/ \E urgent, current : grid' = Submit(grid, tick.point, current, urgent)
  <2>1. CASE Users
        BY <2>1 DEF Users, Start, Stop, SetProfile
  <2>2. CASE StopStored \/ StopNotStored \/ Fire \/ Capture
        BY <2>2 DEF StopStored, StopNotStored, Fire, Capture
  <2>3. CASE \E ok \in BOOLEAN : Ticks(ok)
    <3>1. PICK ok \in BOOLEAN : Ticks(ok)
          BY <2>3
    <3>2. CASE Decide(ok)
      <4>1. PICK stopped : \E d \in Decisions(stopped) : Proposes("wire", d.point, d.urgent)
            BY <3>2 DEF Decide
      <4> QED BY <4>1 DEF Proposes
    <3>3. CASE PlanOnly(ok) \/ InputsMissing(ok) \/ Unreconciled(ok) \/ SocStop(ok)
          BY <3>3 DEF PlanOnly, InputsMissing, Unreconciled, SocStop, TickEnds, Proposes
    <3>4. CASE SocStopped(ok) \/ Wired(ok)
      <4>1. PICK proceed : grid' = IF proceed THEN Submit(grid, tick.point, tick.current, tick.urgent)
                                   ELSE grid
            BY <3>4 DEF SocStopped, Wired, Proposed
      <4> QED BY <4>1
    <3> QED BY <3>1, <3>2, <3>3, <3>4 DEF Ticks
  <2>4. CASE \E ok \in BOOLEAN : Checkpointed(ok) \/ Stopped(ok)
        BY <2>4 DEF Checkpointed, Stopped
  <2> QED BY <2>1, <2>2, <2>3, <2>4 DEF Stored
<1>3. CASE grid' = grid
      BY <1>1, <1>3, KnownTypes, OffersStay
<1>4. CASE \E s : grid' = Moved(grid, s, known, TRUE)
  <2>1. PICK s : grid' = Moved(grid, s, known, TRUE)
        BY <1>4
  <2>2. Consistent(Moved(grid, s, known, TRUE), car.offer, known)
        BY KnownTypes, MovedForm
  <2> QED BY <1>1, <2>1, <2>2, OffersStay
<1>5. CASE \E s : grid' = Moved([grid EXCEPT !.requested = None], s, known, TRUE)
  <2>1. PICK s : grid' = Moved([grid EXCEPT !.requested = None], s, known, TRUE)
        BY <1>5
  <2> DEFINE h == [grid EXCEPT !.requested = None]
  <2>2. /\ h \in Grid /\ h.task = grid.task /\ h.stray = grid.stray /\ h.held = grid.held
        /\ h.uncertain = grid.uncertain
        BY KnownTypes DEF Grid
  <2> HIDE DEF h
  <2>3. Consistent(h, car.offer, known)
        BY <2>2, KnownTypes, Without
  <2>4. Consistent(Moved(h, s, known, TRUE), car.offer, known)
        BY <2>3, KnownTypes, MovedForm
  <2> QED BY <1>1, <2>1, <2>4, OffersStay DEF h
<1>6. CASE \E urgent, current : grid' = Submit(grid, tick.point, current, urgent)
  <2>1. PICK urgent, current : grid' = Submit(grid, tick.point, current, urgent)
        BY <1>6
  <2>2. Consistent(Submit(grid, tick.point, current, urgent), car.offer, known)
        BY KnownTypes, SubmitForm
  <2> QED BY <1>1, <2>1, <2>2, OffersStay
<1> QED BY <1>2, <1>3, <1>4, <1>5, <1>6

(* After the loss of the link no request counts any more. *)
LEMMA LostForm ==
  ASSUME NEW offer, NEW tx, NEW g, Consistent(g, offer, tx), NEW new, NEW s
  PROVE  Consistent([Moved(g, s, NoTx, FALSE) EXCEPT !.held = None, !.task = None, !.stray = None],
                    new, NoTx)
<1> DEFINE b == FALSE
           f == [Invalidate(g) EXCEPT !.rejected = b]
           l == [f EXCEPT !.held = None, !.task = None, !.stray = None]
<1>1. Moved(g, s, NoTx, FALSE) = f
  <2>1. g \in Grid
        BY DEF Consistent
  <2>2. f = [Invalidate(g) EXCEPT !.rejected = @ /\ NoTx # NoTx]
        OBVIOUS
  <2> QED BY <2>2 DEF Moved, Launch
<1>2. Consistent(f, offer, tx)
      BY FencedForm
<1> HIDE DEF f
<1>3. /\ l \in Grid /\ l.task = None /\ l.stray = None /\ l.held = None
      BY <1>2 DEF Consistent, Grid
<1> HIDE DEF l
<1>4. Consistent(l, new, NoTx)
      BY <1>3 DEF Consistent, Aimed, Asked
<1> QED BY <1>1, <1>4 DEF l

LEMMA AppliedForm ==
  ASSUME Typed, NEW t, Aimed(t), t # None, t.pc # "read"
  PROVE  /\ Applied(t) \in [tx: Tx \cup {NoTx}, next: 1..MaxTx + 1, offer: Point]
         /\ Applied(t).tx = car.tx /\ Applied(t).next = car.next
         /\ t.tx = car.tx => Applied(t).offer = t.point
         /\ t.tx # car.tx => Applied(t) = car
<1>1. t.point \in Point
      BY DEF Aimed, Task
<1> QED BY <1>1, KnownTypes DEF Applied

LEMMA StationOffers ==
  ASSUME Typed, Environment
  PROVE  Offers'
<1>1. CASE Begins \/ Reported \/ Ends
  <2>1. PICK next \in Tx \cup {NoTx} :
          /\ next = car'.tx /\ known' = next
          /\ grid' = [Moved(grid, setting, next, FALSE) EXCEPT !.held = None]
          /\ car' \in [tx: Tx \cup {NoTx}, next: 1..MaxTx + 1, offer: Point]
    <3>1. CASE Begins
      <4>1. PICK offer \in Point :
              car' = [car EXCEPT !.tx = car.next, !.next = car.next + 1, !.offer = offer]
            BY <3>1, KnownTypes DEF Begins
      <4>2. car.next \in Tx /\ car.next + 1 \in 1..MaxTx + 1
            BY <3>1, KnownTypes, BoundsAssumption DEF Begins, Tx
      <4>3. car'.tx = car.next /\ car' \in [tx: Tx \cup {NoTx}, next: 1..MaxTx + 1, offer: Point]
            BY <4>1, <4>2, KnownTypes
      <4> QED BY <3>1, <4>2, <4>3 DEF Begins, Sees
    <3>2. CASE Reported
          BY <3>2, KnownTypes DEF Reported, Sees
    <3>3. CASE Ends
      <4>1. car' \in [tx: Tx \cup {NoTx}, next: 1..MaxTx + 1, offer: Point] /\ car'.tx = NoTx
            BY <3>3, KnownTypes DEF Ends
      <4> QED BY <3>3, <4>1 DEF Ends, Sees
    <3> QED BY <1>1, <3>1, <3>2, <3>3
  <2>2. Consistent([Moved(grid, setting, next, FALSE) EXCEPT !.held = None], car'.offer, next)
        BY KnownTypes, AnewForm
  <2> QED BY <2>1, <2>2 DEF Offers
<1>2. CASE LinkLost
  <2>1. Consistent(grid', car'.offer, NoTx)
        BY <1>2, KnownTypes, LostForm DEF LinkLost
  <2>2. car' \in [tx: Tx \cup {NoTx}, next: 1..MaxTx + 1, offer: Point] /\ car'.tx = car.tx
    <3>1. CASE car' = car
          BY <3>1, KnownTypes
    <3>2. CASE \E t \in Outstanding : car' = Applied(t)
      <4>1. PICK t \in Outstanding : car' = Applied(t)
            BY <3>2
      <4>2. t \in {grid.task, grid.stray} /\ t # None /\ t.pc = "set"
            BY <4>1 DEF Outstanding, Requests
      <4>3. Aimed(t)
            BY <4>2, KnownTypes DEF Consistent
      <4> QED BY <4>1, <4>2, <4>3, AppliedForm
    <3> QED BY <1>2, <3>1, <3>2 DEF LinkLost
  <2> QED BY <1>2, <2>1, <2>2 DEF LinkLost, Offers
<1>3. CASE EndsUnseen
  <2>1. /\ known = NoTx /\ car' = [car EXCEPT !.tx = NoTx, !.offer = 0] /\ UNCHANGED <<known, grid>>
        BY <1>3 DEF EndsUnseen
  <2>2. car' \in [tx: Tx \cup {NoTx}, next: 1..MaxTx + 1, offer: Point] /\ car'.tx = NoTx
        BY <2>1, KnownTypes
  <2>3. Consistent(grid, car'.offer, NoTx)
        BY <2>1, KnownTypes DEF Consistent, Asked
  <2> QED BY <2>1, <2>2, <2>3 DEF Offers
<1>4. CASE Restart
  <2>1. NewGrid \in Grid /\ NewGrid.task = None /\ NewGrid.stray = None /\ NewGrid.held = None
        BY DEF NewGrid, Grid
  <2>2. Consistent(NewGrid, car'.offer, NoTx)
        BY <2>1 DEF Consistent, Aimed, Asked
  <2>3. car' \in [tx: Tx \cup {NoTx}, next: 1..MaxTx + 1, offer: Point] /\ car'.tx = car.tx
    <3>1. CASE car' = car
          BY <3>1, KnownTypes
    <3>2. CASE \E t \in Outstanding : car' = Applied(t)
      <4>1. PICK t \in Outstanding : car' = Applied(t)
            BY <3>2
      <4>2. t \in {grid.task, grid.stray} /\ t # None /\ t.pc = "set"
            BY <4>1 DEF Outstanding, Requests
      <4>3. Aimed(t)
            BY <4>2, KnownTypes DEF Consistent
      <4> QED BY <4>1, <4>2, <4>3, AppliedForm
    <3> QED BY <1>4, <3>1, <3>2 DEF Restart
  <2> QED BY <1>4, <2>2, <2>3 DEF Restart, Offers
<1>5. CASE StopNotStored
      BY <1>5, UsersOffers
<1> QED BY <1>1, <1>2, <1>3, <1>4, <1>5 DEF Environment

LEMMA SeenForm ==
  ASSUME Typed, grid.task # None, grid.task.live, grid.task.pc # "set", grid.stray = None
  PROVE  /\ Seen(grid) \in Grid /\ Consistent(Seen(grid), car.offer, known)
         /\ Seen(grid).task = grid.task /\ Seen(grid).stray = None
<1> DEFINE g == [grid EXCEPT !.held = car.offer, !.uncertain = FALSE]
<1>1. Seen(grid) = g
      BY DEF Seen, task
<1>2. /\ g \in Grid /\ g.task = grid.task /\ g.stray = grid.stray /\ g.held = car.offer
      /\ ~g.uncertain
      BY KnownTypes DEF Grid
<1> HIDE DEF g
<1>3. known # NoTx
      BY KnownTypes DEF Consistent
<1>4. Consistent(g, car.offer, known)
      BY <1>2, <1>3, KnownTypes DEF Consistent, Asked, Aimed
<1> QED BY <1>1, <1>2, <1>4

(* After its first read a task ends, or it goes on with a point. *)
LEMMA AfterReadForm ==
  ASSUME NEW offer, NEW tx, NEW g, Consistent(g, offer, tx), g.task = task, task # None,
         g.task.pc = "read", g.stray = None
  PROVE  Consistent(AfterRead(g), offer, tx)
<1> DEFINE wanted == IF task.point = None THEN g.requested ELSE task.point
           found == [g EXCEPT !.requested = wanted]
<1>1. g \in Grid /\ task \in Task
      BY DEF Consistent, Grid
<1>2. wanted \in Point \cup {None}
      BY <1>1 DEF Grid, Task
<1> HIDE DEF wanted
<1>3. found \in Grid /\ found.task = g.task /\ found.stray = g.stray /\ found.held = g.held
      /\ found.uncertain = g.uncertain
      BY <1>1, <1>2 DEF Grid
<1>4. Consistent(found, offer, tx)
      BY <1>3, Without
<1> HIDE DEF found
<1>5. \/ AfterRead(g) = [g EXCEPT !.task = None, !.rejected = FALSE]
      \/ AfterRead(g) = [g EXCEPT !.task = None]
      \/ AfterRead(g) = [found EXCEPT !.task = None, !.rejected = FALSE, !.retry = "none"]
      \/ AfterRead(g) = [found EXCEPT !.task = None]
      \/ task.point # None /\ AfterRead(g) = [found EXCEPT !.task.pc = "send", !.rejected = FALSE]
      BY DEF AfterRead, found, wanted
<1>6. CASE AfterRead(g) \in {[g EXCEPT !.task = None, !.rejected = FALSE], [g EXCEPT !.task = None]}
  <2> DEFINE a == AfterRead(g)
  <2>1. a \in Grid /\ a.task = None /\ a.stray = g.stray /\ a.held = g.held /\ a.uncertain = g.uncertain
        BY <1>1, <1>6 DEF Grid
  <2> HIDE DEF a
  <2>2. Consistent(a, offer, tx)
        BY <2>1, Without
  <2> QED BY <2>2 DEF a
<1>7. CASE AfterRead(g) \in {[found EXCEPT !.task = None, !.rejected = FALSE, !.retry = "none"],
                             [found EXCEPT !.task = None]}
  <2> DEFINE a == AfterRead(g)
  <2>1. /\ a \in Grid /\ a.task = None /\ a.stray = found.stray /\ a.held = found.held
        /\ a.uncertain = found.uncertain
        BY <1>3, <1>7 DEF Grid
  <2> HIDE DEF a
  <2>2. Consistent(a, offer, tx)
        BY <1>4, <2>1, Without
  <2> QED BY <2>2 DEF a
<1>8. CASE task.point # None /\ AfterRead(g) = [found EXCEPT !.task.pc = "send", !.rejected = FALSE]
  <2> DEFINE t == [task EXCEPT !.pc = "send"]
             a == [found EXCEPT !.task = t, !.rejected = FALSE]
  <2>1. AfterRead(g) = a
        BY <1>3, <1>8
  <2>2. /\ t \in Task /\ t.pc = "send" /\ t.point = task.point /\ t.live = task.live
        BY <1>1 DEF Task
  <2> HIDE DEF t
  <2>3. /\ a \in Grid /\ a.task = t /\ a.stray = found.stray /\ a.held = found.held
        /\ a.uncertain = found.uncertain
        BY <1>3, <2>2 DEF Grid
  <2> HIDE DEF a
  <2>4. Consistent(a, offer, tx)
        BY <1>3, <1>4, <1>8, <2>2, <2>3 DEF Consistent, Asked, Aimed
  <2> QED BY <2>1, <2>4
<1> QED BY <1>5, <1>6, <1>7, <1>8

LEMMA ReadOffers ==
  ASSUME Typed, ReadAnswered
  PROVE  Offers'
<1>1. grid.task # None /\ grid.task.pc = "read" /\ grid.stray = None /\ UNCHANGED <<car, known>>
      BY DEF ReadAnswered, Reading, Aside, Elsewhere, task
<1>2. CASE task.live /\ grid' = AfterRead(Seen(grid))
  <2>1. Consistent(AfterRead(Seen(grid)), car.offer, known)
        BY <1>1, <1>2, SeenForm, AfterReadForm DEF task
  <2> QED BY <1>1, <1>2, <2>1, OffersStay
<1>3. CASE grid' = AfterRead(grid)
  <2>1. Consistent(AfterRead(grid), car.offer, known)
        BY <1>1, KnownTypes, AfterReadForm DEF task
  <2> QED BY <1>1, <1>3, <2>1, OffersStay
<1>4. CASE \/ grid' = [grid EXCEPT !.task = None]
           \/ grid' = [grid EXCEPT !.task = None, !.rejected = grid.rejected /\ ~task.live]
  <2>1. /\ grid' \in Grid /\ grid'.task = None /\ grid'.stray = grid.stray /\ grid'.held = grid.held
        /\ grid'.uncertain = grid.uncertain
        BY <1>4, KnownTypes DEF Grid
  <2>2. PICK h \in Grid : h = grid'
        BY <2>1
  <2>3. Consistent(h, car.offer, known)
        BY <2>1, <2>2, KnownTypes, Without
  <2> QED BY <1>1, <2>2, <2>3, OffersStay
<1> QED BY <1>2, <1>3, <1>4 DEF ReadAnswered

(* A request on the wire makes the offer uncertain. *)
LEMMA SendOffers ==
  ASSUME Typed, Send
  PROVE  Offers'
<1>1. /\ grid.task # None /\ grid.task.pc = "send" /\ grid.stray = None /\ UNCHANGED <<car, known>>
      /\ grid.task \in Task /\ grid.task.point # None
      BY KnownTypes DEF Send, Reading, Aside, Elsewhere, task, Consistent, Aimed
<1> DEFINE t == [grid.task EXCEPT !.pc = "set", !.before = grid.uncertain]
<1>2. grid.uncertain \in BOOLEAN
      BY KnownTypes DEF Grid
<1>3. /\ t \in Task /\ t.pc = "set" /\ t.point = grid.task.point /\ t.live = grid.task.live
      /\ t.before = grid.uncertain
      BY <1>1, <1>2 DEF Task
<1>4. \/ grid' = [grid EXCEPT !.task = None]
      \/ grid' = [grid EXCEPT !.task = t, !.uncertain = TRUE]
  <2>1. CASE grid' = [grid EXCEPT !.task = None]
        BY <2>1
  <2>2. CASE grid' = [grid EXCEPT !.task.pc = "set", !.task.before = grid.uncertain, !.uncertain = TRUE]
        BY <2>2, <1>1, KnownTypes DEF Grid, Task
  <2> QED BY <2>1, <2>2 DEF Send, task
<1> HIDE DEF t
<1>5. CASE grid' = [grid EXCEPT !.task = None]
  <2>1. PICK h \in Grid : /\ h = grid' /\ h.task = None /\ h.stray = grid.stray /\ h.held = grid.held
                          /\ h.uncertain = grid.uncertain
        BY <1>5, KnownTypes DEF Grid
  <2>2. Consistent(h, car.offer, known)
        BY <2>1, KnownTypes, Without
  <2> QED BY <1>1, <2>1, <2>2, OffersStay
<1>6. CASE grid' = [grid EXCEPT !.task = t, !.uncertain = TRUE]
  <2>0. grid' \in Grid
        BY <1>3, <1>6, KnownTypes DEF Grid
  <2>1. PICK h \in Grid : /\ h = grid' /\ h.task = t /\ h.stray = None /\ h.held = grid.held
                          /\ h.uncertain
        BY <1>1, <1>6, <2>0, KnownTypes DEF Grid
  <2>2. Consistent(h, car.offer, known)
        BY <1>1, <1>3, <2>1, KnownTypes DEF Consistent, Aimed, Asked
  <2> QED BY <1>1, <2>1, <2>2, OffersStay
<1> QED BY <1>4, <1>5, <1>6

(* While it is uncertain, the offer may change by the request on its way. *)
LEMMA AcceptedOffers ==
  ASSUME Typed, Accepted \/ TimedOut
  PROVE  Offers'
<1>1. /\ grid.task # None /\ grid.task.pc = "set" /\ grid.stray = None /\ UNCHANGED known
      /\ grid.task \in Task /\ grid.task.point # None /\ grid.uncertain
      BY KnownTypes DEF Accepted, TimedOut, Reading, Elsewhere, task, Consistent, Aimed, Asked
<1>2. car' \in [tx: Tx \cup {NoTx}, next: 1..MaxTx + 1, offer: Point] /\ car'.tx = car.tx
  <2>1. Aimed(grid.task)
        BY KnownTypes DEF Consistent
  <2>2. car' \in {car, Applied(grid.task)}
        BY DEF Accepted, TimedOut, task
  <2> QED BY <1>1, <2>1, <2>2, AppliedForm, KnownTypes
<1> DEFINE t == [grid.task EXCEPT !.pc = "check"]
<1>3. t \in Task /\ t.pc = "check" /\ t.point = grid.task.point /\ t.live = grid.task.live
      BY <1>1 DEF Task
<1>4. \/ grid' = [grid EXCEPT !.task = None]
      \/ grid' = [grid EXCEPT !.task = t]
      BY DEF Accepted, TimedOut, TaskEnds, task
<1> HIDE DEF t
<1>5. PICK h \in Grid : /\ h = grid' /\ h.task \in {t, None} /\ h.stray = None /\ h.held = grid.held
                        /\ h.uncertain
      BY <1>1, <1>3, <1>4, KnownTypes DEF Grid
<1>6. Consistent(h, car'.offer, known)
      BY <1>1, <1>3, <1>5, KnownTypes DEF Consistent, Aimed, Asked
<1> QED BY <1>1, <1>2, <1>5, <1>6, KnownTypes DEF Offers

(* A rejection, or an answer to an older task: what was certain before is so *)
(* again.                                                                     *)
LEMMA RejectedOffers ==
  ASSUME Typed, Rejected
  PROVE  Offers'
<1>1. /\ grid.task # None /\ grid.task.pc = "set" /\ grid.stray = None /\ UNCHANGED <<car, known>>
      /\ grid.task \in Task
      BY KnownTypes DEF Rejected, Reading, Aside, Elsewhere, task, Consistent, Aimed
<1>2. PICK b \in BOOLEAN, retry \in {"none", "later", "due"} :
        grid' = [grid EXCEPT !.task = None, !.uncertain = grid.task.before, !.rejected = b, !.retry = retry]
  <2>1. grid.rejected \in BOOLEAN /\ grid.retry \in {"none", "later", "due"} /\ grid.task.live \in BOOLEAN
        BY <1>1, KnownTypes DEF Grid, Task
  <2>2. PICK retry \in {"none", "later"} :
          grid' = [grid EXCEPT !.task = None, !.uncertain = grid.task.before,
                               !.rejected = grid.rejected \/ grid.task.live,
                               !.retry = IF grid.task.live THEN retry ELSE grid.retry]
        BY DEF Rejected, task
  <2> QED BY <2>1, <2>2
<1>3. PICK h \in Grid : /\ h = grid' /\ h.task = None /\ h.stray = None /\ h.held = grid.held
                        /\ (h.uncertain <=> grid.task.before)
  <2>1. grid.task.before \in BOOLEAN
        BY <1>1 DEF Task
  <2>2. grid' \in Grid
        BY <1>2, <2>1, KnownTypes DEF Grid
  <2>3. grid'.task = None /\ grid'.stray = None /\ grid'.held = grid.held
        BY <1>1, <1>2, KnownTypes DEF Grid
  <2>4. grid'.uncertain <=> grid.task.before
        BY <1>2, <2>1, KnownTypes DEF Grid
  <2> QED BY <2>2, <2>3, <2>4
<1>4. Consistent(h, car.offer, known)
      BY <1>1, <1>3, KnownTypes DEF Consistent, Aimed, Asked
<1> QED BY <1>1, <1>3, <1>4, OffersStay

LEMMA CheckOffers ==
  ASSUME Typed, CheckAnswered
  PROVE  Offers'
<1>1. /\ grid.task # None /\ grid.task.pc = "check" /\ grid.stray = None /\ UNCHANGED <<car, known>>
      BY DEF CheckAnswered, Reading, Aside, Elsewhere, task
<1>2. PICK g \in Grid : /\ g \in {grid, Seen(grid)} /\ grid' = [g EXCEPT !.task = None]
      BY KnownTypes, <1>1, SeenForm DEF CheckAnswered, TaskEnds, Seen, task
<1>3. Consistent(g, car.offer, known)
      BY <1>1, <1>2, KnownTypes, SeenForm DEF Seen, task
<1>4. PICK h \in Grid : /\ h = grid' /\ h.task = None /\ h.stray = g.stray /\ h.held = g.held
                        /\ h.uncertain = g.uncertain
      BY <1>2 DEF Grid
<1>5. Consistent(h, car.offer, known)
      BY <1>3, <1>4, Without
<1> QED BY <1>1, <1>4, <1>5, OffersStay

LEMMA StrayOffers ==
  ASSUME Typed, StrayAnswered
  PROVE  Offers'
<1>1. /\ grid.stray # None /\ grid.stray \in Task /\ (grid.task # None => grid.task.pc = "read")
      /\ UNCHANGED known
      BY KnownTypes DEF StrayAnswered, Elsewhere, Consistent, Aimed
<1>2. car' \in [tx: Tx \cup {NoTx}, next: 1..MaxTx + 1, offer: Point] /\ car'.tx = car.tx
      /\ (car' # car => grid.stray.pc = "set")
  <2>1. Aimed(grid.stray)
        BY KnownTypes DEF Consistent
  <2> QED BY <1>1, <2>1, AppliedForm, KnownTypes DEF StrayAnswered
<1>3. PICK uncertain : /\ \/ uncertain = grid.uncertain
                          \/ grid.stray.pc = "set" /\ car' = car /\ uncertain = grid.stray.before
                       /\ grid' = [grid EXCEPT !.stray = None, !.uncertain = uncertain]
      BY DEF StrayAnswered
<1>4. uncertain \in BOOLEAN
      BY <1>1, <1>3, KnownTypes DEF Grid, Task
<1>5. PICK h \in Grid : /\ h = grid' /\ h.task = grid.task /\ h.stray = None /\ h.held = grid.held
                        /\ (h.uncertain <=> uncertain)
  <2>1. grid' \in Grid
        BY <1>3, <1>4, KnownTypes DEF Grid
  <2> QED BY <1>3, <2>1, KnownTypes DEF Grid
<1>6. Consistent(h, car'.offer, known)
      BY <1>1, <1>2, <1>3, <1>5, KnownTypes DEF Consistent, Aimed, Asked
<1> QED BY <1>1, <1>2, <1>5, <1>6, KnownTypes DEF Offers

LEMMA RetryOffers ==
  ASSUME Typed, RetryDue
  PROVE  Offers'
<1>1. UNCHANGED <<car, known>>
      BY DEF RetryDue, Aside, Elsewhere
<1> DEFINE r == [grid EXCEPT !.retry = "due"]
<1>2. /\ r \in Grid /\ r.task = grid.task /\ r.stray = grid.stray /\ r.held = grid.held
      /\ r.uncertain = grid.uncertain
      BY KnownTypes DEF Grid
<1>3. grid' = r \/ grid' = Launch(r, 0, TRUE, known)
      BY DEF RetryDue
<1> HIDE DEF r
<1>4. Consistent(r, car.offer, known)
      BY <1>2, KnownTypes, Without
<1>5. Consistent(Launch(r, 0, TRUE, known), car.offer, known)
      BY <1>4, KnownTypes, LaunchForm
<1> QED BY <1>1, <1>3, <1>4, <1>5, OffersStay

LEMMA OffersStep ==
  ASSUME Typed, Next
  PROVE  Offers'
BY UsersOffers, StationOffers, ReadOffers, SendOffers, AcceptedOffers, RejectedOffers, CheckOffers,
   StrayOffers, RetryOffers DEF Next, Answers

-----------------------------------------------------------------------------
(* Types *)

LEMMA TypedStep ==
  ASSUME Typed, [Next]_vars
  PROVE  Typed'
<1>1. CASE Next
  <2>1. Ledger' /\ Offers'
        BY <1>1, LedgerStep, OffersStep
  <2>2. Pilot'
        BY <1>1, TicksPilot, OthersPilot DEF Typed
  <2> QED BY <2>1, <2>2 DEF Typed
<1>2. CASE UNCHANGED vars
      BY <1>2 DEF vars, economy, store, Typed, Pilot, Ledger, Offers, Orderly, Consistent, Aimed, Asked
<1> QED BY <1>1, <1>2

LEMMA TypedHolds == Spec => []Typed
<1> QED BY InitTyped, TypedStep, PTL DEF Spec

(* Every reachable state is well typed: whatever is missing, late, failed or *)
(* restarted, budgets, records, tokens and tasks are complete.               *)
THEOREM TypeCorrect == Spec => []TypeOK
BY TypedHolds, TypedIsTypeOK, PTL

-----------------------------------------------------------------------------
(* Restarts *)

LEMMA OnlyDecided ==
  ASSUME Typed, Next, restart', ~restart
  PROVE  \E ok \in BOOLEAN : Decide(ok)
<1>1. CASE \E ok \in BOOLEAN : Stored(ok) /\ ~Decide(ok)
      BY <1>1 DEF Stored, Ticks, PlanOnly, InputsMissing, Unreconciled, SocStop, SocStopped, Wired,
         TickEnds, Proposed, Checkpointed, Stopped, economy
<1>2. CASE Users \/ Environment \/ Fire \/ Capture \/ StopStored
      BY <1>2 DEF Users, Start, Stop, SetProfile, Environment, Begins, Ends, LinkLost, Reported, EndsUnseen,
         Restart, StopNotStored, Fire, Capture, StopStored, Sees, NewContext, economy
<1>3. CASE Send \/ Answers \/ StrayAnswered \/ RetryDue
      BY <1>3 DEF Send, Answers, ReadAnswered, Accepted, Rejected, TimedOut, CheckAnswered, StrayAnswered,
         RetryDue, Aside
<1> QED BY <1>1, <1>2, <1>3 DEF Next, Stored, Ticks

(* A restart is prepared only while the station really offers zero to the    *)
(* stopped transaction, whatever proposals were superseded, lost, rejected   *)
(* or answered late before (Budget.restart_reason, Grid.point_uncertain).    *)
THEOREM RestartIsEarned == Spec => RestartEarned
<1>1. ASSUME Typed, [Next]_vars
      PROVE  [restart' /\ ~restart =>
                budget'.stopped /\ budget'.scope = car.tx /\ car.offer = 0]_vars
  <2>1. CASE Next
    <3> SUFFICES ASSUME restart', ~restart
                 PROVE  budget'.stopped /\ budget'.scope = car.tx /\ car.offer = 0
        OBVIOUS
    <3>1. PICK ok \in BOOLEAN : Decide(ok)
          BY <1>1, <2>1, OnlyDecided
    <3> QED BY <1>1, <3>1, DecideStep
  <2> QED BY <1>1, <2>1
<1> QED BY <1>1, TypedHolds, PTL DEF Spec, RestartEarned

-----------------------------------------------------------------------------
(* The STOP that is kept *)

(* What was saved is on disk; and of a STOP that the journal has confirmed, *)
(* memory, disk and what is being written agree.                            *)
Kept(r) == r.scope = owed /\ r.stopped
Secured ==
  /\ disk = saved
  /\ owed # NoTx => Kept(budget) /\ Kept(disk) /\ \A r \in Record : Recorded(journal, r) => Kept(r)

LEMMA SecuredStep ==
  ASSUME Unverified = FALSE, Typed, Typed', Secured, StoreEffect
  PROVE  Secured'
<1>0. disk \in Record /\ budget \in Budget /\ ended \in Tx \cup {NoTx} /\ disk' \in Record
      BY DEF Typed, Ledger
<1>1. CASE Quiet
  <2>1. disk' = disk /\ saved' = saved /\ \A r \in Record : Recorded(journal', r) => Recorded(journal, r)
        BY <1>1 DEF Quiet, store, Moves
  <2>2. owed' = NoTx \/ (owed' = owed /\ Keeps(budget, budget'))
        BY <1>1 DEF Quiet, Lifts
  <2> QED BY <2>1, <2>2 DEF Secured, Kept, Keeps
<1>2. CASE Captures
  <2>1. UNCHANGED <<disk, saved, owed, budget>>
        BY <1>2 DEF Captures, store
  <2>2. /\ Saved(budget, ended).scope = budget.scope
        /\ Saved(budget, ended).stopped = budget.stopped
        BY <1>0, SavedForm
  <2>3. \A r : Recorded(journal', r) => r = Saved(budget, ended)
        BY <1>2 DEF Captures
  <2>4. owed # NoTx => Kept(Saved(budget, ended))
        BY <2>2 DEF Secured, Kept
  <2> QED BY <2>1, <2>3, <2>4 DEF Secured, Kept
<1>3. CASE Persists
  <2>1. PICK r \in Record, ok \in BOOLEAN :
          /\ Recorded(journal, r) /\ Stores(r, ok)
          /\ \A s \in Record : ~Recorded(journal', s)
          /\ owed' = NoTx \/ (owed' = Confirmed(r, ok) /\ Keeps(budget, budget'))
        BY <1>3 DEF Persists
  <2>2. IF ok THEN disk' = r /\ saved' = r ELSE disk' = disk /\ saved' = saved
        BY <2>1 DEF Stores, Secured
  <2>3. ASSUME owed' # NoTx
        PROVE  Kept(budget)' /\ Kept(disk)'
    <3>1. owed' = Confirmed(r, ok) /\ Keeps(budget, budget')
          BY <2>1, <2>3
    <3>2. CASE ok /\ r.stopped /\ budget.stopped /\ r.scope = budget.scope
          BY <2>2, <3>1, <3>2 DEF Confirmed, Kept, Keeps
    <3>3. CASE ~(ok /\ r.stopped /\ budget.stopped /\ r.scope = budget.scope)
      <4>1. owed' = owed /\ owed # NoTx
            BY <2>3, <3>1, <3>3 DEF Confirmed
      <4>2. Kept(budget) /\ Kept(disk) /\ Kept(r)
            BY <2>1, <4>1 DEF Secured
      <4> QED BY <2>2, <3>1, <4>1, <4>2 DEF Kept, Keeps
    <3> QED BY <3>2, <3>3
  <2> QED BY <2>1, <2>2, <2>3 DEF Secured
<1>4. CASE Restores
  <2>1. /\ disk' = disk \/ Recorded(journal, disk')
        /\ saved' = disk' /\ journal' = <<>> /\ budget' = Restore(disk') /\ owed' = owed
        BY <1>4 DEF Restores
  <2>2. /\ Restore(disk').scope = disk'.scope /\ Restore(disk').stopped = disk'.stopped
        BY <1>0, RestoreForm
  <2>3. owed # NoTx => Kept(disk')
        BY <1>0, <2>1 DEF Secured
  <2>4. \A r : ~Recorded(journal', r)
        BY <2>1 DEF Recorded
  <2> QED BY <2>1, <2>2, <2>3, <2>4 DEF Secured, Kept
<1> QED BY <1>1, <1>2, <1>3, <1>4 DEF StoreEffect

(* An economic STOP that the journal has confirmed stays, in memory and on    *)
(* disk, through crashes, late checkpoints, failed writes and changes of      *)
(* profile, until a restart is accepted, an operator stops, PV is left or the *)
(* transaction is proven ended (pv.py _persist, checkpoint_failed, start).    *)
(* That a write which fails does not reach the disk is a hypothesis.          *)
THEOREM StopIsKept ==
  ASSUME Unverified = FALSE
  PROVE  Spec => []StopKept
<1>1. Init => Secured
      BY DEF Init, Secured
<1>2. ASSUME Typed, Typed', Secured, [Next]_vars
      PROVE  Secured'
  <2>1. CASE Next
        BY <1>2, <2>1, LedgerStep, SecuredStep
  <2>2. CASE UNCHANGED vars
        BY <1>2, <2>2 DEF vars, economy, store, Secured, Kept, Recorded
  <2> QED BY <1>2, <2>1, <2>2
<1>3. Secured => StopKept
      BY DEF Secured, StopKept, Kept
<1> QED BY <1>1, <1>2, <1>3, TypedHolds, PTL DEF Spec
=============================================================================
