------------------------- MODULE PVRegulationProofs -------------------------
(* Theorems about PVRegulation and the points of Envelope, for every        *)
(* station, every limit and every world: what the maps of powers to points  *)
(* return is a point of the station, and the controller keeps its cadence.  *)
EXTENDS PVRegulation, WellFoundedInduction, TLAPS

-----------------------------------------------------------------------------
(* The least under a pair of numbers. *)

(* A set of natural numbers has a least member. *)
LEMMA LeastMember ==
  ASSUME NEW S \in SUBSET Nat, S # {}
  PROVE  \E n \in S : \A m \in S : n <= m
<1> DEFINE R == {ss \in Nat \X Nat : ss[1] < ss[2]}
<1>1. R = OpToRel(<, Nat)
      BY DEF OpToRel
<1>2. IsWellFoundedOn(R, Nat)
      BY <1>1, NatLessThanWellFounded, Zenon
<1>3. \A m, n \in Nat : m < n => <<m, n>> \in R
      OBVIOUS
<1> HIDE DEF R
<1>4. PICK n \in S : \A m \in S : <<m, n>> \notin R
      BY <1>2, WFMin
<1>5. \A m \in S : ~(m < n)
      BY <1>3, <1>4
<1> QED BY <1>5

(* So has a set of integers that is bounded below. *)
LEMMA LeastBounded ==
  ASSUME NEW S \in SUBSET Int, S # {}, NEW low \in Int, \A m \in S : low <= m
  PROVE  \E n \in S : \A m \in S : n <= m
<1> DEFINE D == {m - low : m \in S}
<1>0. \A m \in S : m \in Int /\ m - low \in Nat
      OBVIOUS
<1>1. D \in SUBSET Nat /\ D # {}
      BY <1>0
<1>2. PICK d \in D : \A e \in D : d <= e
      BY <1>1, LeastMember
<1>3. PICK n \in S : d = n - low
      BY <1>2
<1>4. \A m \in S : n - low <= m - low
      BY <1>2, <1>3
<1> QED BY <1>0, <1>3, <1>4

(* A number for each member of a set, none below some bound. *)
BoundedOn(S, f) == f \in [S -> Int] /\ \E a \in Int : \A p \in S : a <= f[p]

(* A member that is least under a pair of such numbers. *)
LeastUnder(S, f, g) ==
  \E p \in S : \A q \in S : f[p] < f[q] \/ (f[p] = f[q] /\ g[p] <= g[q])

(* The keys that Envelope compares points by have a least one. *)
LEMMA LeastPair ==
  ASSUME NEW S, S # {}, NEW f, NEW g, BoundedOn(S, f), BoundedOn(S, g)
  PROVE  LeastUnder(S, f, g)
<1>0. /\ f \in [S -> Int] /\ g \in [S -> Int]
      BY DEF BoundedOn
<1> PICK a \in Int, b \in Int : \A p \in S : a <= f[p] /\ b <= g[p]
    BY DEF BoundedOn
<1>1. PICK m \in {f[p] : p \in S} : \A n \in {f[p] : p \in S} : m <= n
  <2> DEFINE F == {f[p] : p \in S}
  <2>1. F \in SUBSET Int /\ F # {} /\ \A n \in F : a <= n
        BY <1>0
  <2> HIDE DEF F
  <2>2. \E m \in F : \A n \in F : m <= n
        BY <2>1, LeastBounded
  <2> QED BY <2>2 DEF F
<1> DEFINE T == {p \in S : f[p] = m}
<1>2. PICK k \in {g[p] : p \in T} : \A n \in {g[p] : p \in T} : k <= n
  <2> DEFINE G == {g[p] : p \in T}
  <2>1. G \in SUBSET Int /\ G # {} /\ \A n \in G : b <= n
        BY <1>0, <1>1
  <2> HIDE DEF G
  <2>2. \E k \in G : \A n \in G : k <= n
        BY <2>1, LeastBounded
  <2> QED BY <2>2 DEF G
<1>3. PICK p \in T : g[p] = k
      BY <1>2
<1>4. \A q \in S : f[p] < f[q] \/ (f[p] = f[q] /\ g[p] <= g[q])
  <2> TAKE q \in S
  <2>1. f[p] = m /\ m <= f[q] /\ f[p] \in Int /\ f[q] \in Int
        BY <1>0, <1>1, <1>3
  <2>2. f[q] = m => k <= g[q]
        BY <1>2
  <2> QED BY <1>3, <2>1, <2>2
<1> QED BY <1>3, <1>4 DEF LeastUnder

-----------------------------------------------------------------------------
(* The operating points of a station. *)

(* The limit of a mode that is enabled leaves at least the least current.   *)
LEMMA LimitedBounds ==
  \A n \in Enabled : /\ n \in 1..3 /\ Limited(n) \in Nat
                     /\ Diagnostics.minimum \in Nat \ {0}
                     /\ Diagnostics.step \in Nat \ {0}
                     /\ Diagnostics.maximum \in Nat
                     /\ Diagnostics.minimum <= Limited(n)
                     /\ Limited(n) <= Diagnostics.maximum
<1> TAKE n \in Enabled
<1>1. /\ n \in 1..3 /\ Limited(n) > 0 /\ n \in Modes
      BY ModesAssumption DEF Enabled
<1>2. /\ Diagnostics.minimum \in Nat \ {0} /\ Diagnostics.step \in Nat \ {0}
      /\ Diagnostics.maximum \in Nat /\ Diagnostics.asymmetry \in Nat
      BY DiagnosticsAssumption
<1>3. Caps[n] # None => Caps[n] \in Int
      BY <1>1, CapsAssumption
<1>4. PICK ceiling \in Nat :
        /\ ceiling <= Diagnostics.maximum
        /\ ceiling = IF n = 3 THEN Diagnostics.maximum
                     ELSE Least(Diagnostics.maximum, Diagnostics.asymmetry)
      BY <1>2 DEF Least
<1>5. PICK limit \in Int :
        /\ limit <= Diagnostics.maximum
        /\ limit = IF Caps[n] = None THEN ceiling ELSE Least(Caps[n], ceiling)
      BY <1>2, <1>3, <1>4 DEF Least
<1>6. Limited(n) = IF limit < Diagnostics.minimum THEN 0 ELSE limit
      BY <1>4, <1>5 DEF Limited
<1> QED BY <1>1, <1>2, <1>5, <1>6

(* The power above which no point lies. *)
Ceiling == Diagnostics.maximum * 690

(* What is displayed is an integer near the power. *)
LEMMA RoundedBounds ==
  \A w \in Int : Rounded(w) \in Int /\ Rounded(w) <= w + 50 /\ w - 50 < Rounded(w)
BY DEF Rounded

(* A point has a current and phases of an enabled mode, and their power.   *)
LEMMA PointForm ==
  \A n \in Enabled : \A p \in PointsOf(n) :
    /\ p.phases = n /\ n \in 1..3 /\ p.watts \in Nat /\ p.watts > 0
    /\ p.watts <= Ceiling /\ Ceiling \in Nat
    /\ p # Zero
<1> TAKE n \in Enabled
<1> TAKE p \in PointsOf(n)
<1>1. PICK c \in Diagnostics.minimum..Limited(n) :
        p = [amps |-> c, phases |-> n, watts |-> c * n * NominalVoltage]
      BY DEF PointsOf
<1>2. c \in Nat /\ c > 0 /\ c <= Diagnostics.maximum /\ Diagnostics.maximum \in Nat
      BY LimitedBounds
<1>3. n = 1 \/ n = 2 \/ n = 3
      BY LimitedBounds
<1>4. p.watts = c * n * 230 /\ p.phases = n /\ p.amps = c
      BY <1>1 DEF NominalVoltage
<1>5. p.watts \in Nat /\ p.watts > 0 /\ p.watts <= Diagnostics.maximum * 690
      BY <1>2, <1>3, <1>4
<1> QED BY <1>2, <1>3, <1>4, <1>5 DEF Ceiling, Zero

(* Every enabled mode has a point, its least current. *)
LEMMA ModeHasPoints ==
  \A n \in Enabled : PointsOf(n) # {} /\ PointsOf(n) \subseteq Positive
<1> TAKE n \in Enabled
<1>1. /\ Diagnostics.minimum \in Diagnostics.minimum..Limited(n)
      /\ (Diagnostics.minimum - Diagnostics.minimum) % Diagnostics.step = 0
      BY LimitedBounds
<1>2. [amps |-> Diagnostics.minimum, phases |-> n,
       watts |-> Diagnostics.minimum * n * NominalVoltage] \in PointsOf(n)
      BY <1>1 DEF PointsOf
<1> QED BY <1>2 DEF Positive

(* The same of any positive point. *)
LEMMA PositiveForm ==
  \A p \in Positive :
    /\ p.phases \in Enabled /\ p.phases \in 1..3 /\ p \in PointsOf(p.phases)
    /\ p.watts \in Nat /\ p.watts > 0 /\ p.watts <= Ceiling /\ Ceiling \in Nat
    /\ Display(p) \in Int /\ Display(p) <= Ceiling + 50
    /\ p # Zero
<1> TAKE p \in Positive
<1>1. PICK n \in Enabled : p \in PointsOf(n)
      BY DEF Positive
<1>2. /\ p.phases = n /\ n \in 1..3 /\ p.watts \in Nat /\ p.watts > 0
      /\ p.watts <= Ceiling /\ Ceiling \in Nat /\ p # Zero
      BY <1>1, PointForm
<1>3. Display(p) \in Int /\ Display(p) <= p.watts + 50
      BY <1>2, RoundedBounds DEF Display
<1> QED BY <1>1, <1>2, <1>3

(* The power of a point, zero included. *)
LEMMA WattsType ==
  \A p \in AllPoints : p.watts \in Nat /\ Display(p) \in Int /\ (p # Zero <=> p \in Positive)
<1> TAKE p \in AllPoints
<1>1. Zero.watts = 0 /\ Rounded(0) \in Int
      BY RoundedBounds DEF Zero
<1>2. CASE p \in Positive
      BY <1>2, PositiveForm
<1>3. CASE p = Zero
      BY <1>1, <1>3, PositiveForm DEF Display
<1> QED BY <1>2, <1>3 DEF AllPoints

-----------------------------------------------------------------------------
(* What the maps of Envelope return is one of the points they choose from. *)

(* The lowest of some points. *)
LEMMA LowestIsMember ==
  ASSUME NEW S \in SUBSET Positive, S # {}
  PROVE  Lowest(S) \in S /\ \A q \in S : Lowest(S).watts <= q.watts
<1> DEFINE f == [p \in S |-> p.watts]
           g == [p \in S |-> p.phases]
<1>1. \A p \in S : p.watts \in Nat /\ p.phases \in 1..3
      BY PositiveForm
<1>2. LeastUnder(S, f, g)
  <2>1. f \in [S -> Int] /\ g \in [S -> Int]
        BY <1>1
  <2>3. (\A p \in S : 0 <= f[p]) /\ (\A p \in S : 0 <= g[p])
        BY <1>1
  <2> HIDE DEF f, g
  <2>4. BoundedOn(S, f) /\ BoundedOn(S, g)
        BY <2>1, <2>3 DEF BoundedOn
  <2> QED BY <2>4, LeastPair
<1>3. \E p \in S : \A q \in S :
        p.watts < q.watts \/ (p.watts = q.watts /\ p.phases <= q.phases)
      BY <1>2 DEF LeastUnder
<1>4. Lowest(S) = CHOOSE p \in S : \A q \in S :
        p.watts < q.watts \/ (p.watts = q.watts /\ p.phases <= q.phases)
      BY DEF Lowest, First
<1>5. /\ Lowest(S) \in S
      /\ \A q \in S : \/ Lowest(S).watts < q.watts
                      \/ /\ Lowest(S).watts = q.watts
                         /\ Lowest(S).phases <= q.phases
      BY <1>3, <1>4
<1> QED BY <1>1, <1>5

(* The highest of some points. *)
LEMMA HighestIsMember ==
  ASSUME NEW S \in SUBSET Positive, S # {}
  PROVE  Highest(S) \in S /\ \A q \in S : q.watts <= Highest(S).watts
<1> DEFINE f == [p \in S |-> -p.watts]
           g == [p \in S |-> p.phases]
<1>1. \A p \in S : /\ p.watts \in Nat /\ p.phases \in 1..3
                   /\ p.watts <= Ceiling /\ Ceiling \in Nat
      BY PositiveForm
<1>2. LeastUnder(S, f, g)
  <2>1. f \in [S -> Int] /\ g \in [S -> Int]
        BY <1>1
  <2>2. Ceiling \in Nat /\ -Ceiling \in Int
        BY <1>1
  <2>3. (\A p \in S : -Ceiling <= f[p]) /\ (\A p \in S : 0 <= g[p])
        BY <1>1, <2>2
  <2> HIDE DEF f, g
  <2>4. BoundedOn(S, f) /\ BoundedOn(S, g)
        BY <2>1, <2>2, <2>3 DEF BoundedOn
  <2> QED BY <2>4, LeastPair
<1>3. \E p \in S : \A q \in S :
        -p.watts < -q.watts \/ (-p.watts = -q.watts /\ p.phases <= q.phases)
      BY <1>2 DEF LeastUnder
<1>4. Highest(S) = CHOOSE p \in S : \A q \in S :
        -p.watts < -q.watts \/ (-p.watts = -q.watts /\ p.phases <= q.phases)
      BY DEF Highest, First
<1>5. /\ Highest(S) \in S
      /\ \A q \in S : \/ -Highest(S).watts < -q.watts
                      \/ /\ -Highest(S).watts = -q.watts
                         /\ Highest(S).phases <= q.phases
      BY <1>3, <1>4
<1> QED BY <1>1, <1>5

(* The one displayed nearest to a power. *)
NearestOf(S, watts) == First(S, LAMBDA p : <<Abs(Display(p) - watts), p.phases>>)

LEMMA NearestIsMember ==
  ASSUME NEW S \in SUBSET Positive, S # {}, NEW watts \in Int
  PROVE  /\ NearestOf(S, watts) \in S
         /\ \A q \in S :
              Abs(Display(NearestOf(S, watts)) - watts) <= Abs(Display(q) - watts)
<1> DEFINE f == [p \in S |-> Abs(Display(p) - watts)]
           g == [p \in S |-> p.phases]
<1>1. \A p \in S : /\ Abs(Display(p) - watts) \in Nat /\ p.phases \in 1..3
  <2> TAKE p \in S
  <2>1. Display(p) \in Int /\ p.phases \in 1..3
        BY PositiveForm
  <2> QED BY <2>1 DEF Abs
<1>2. LeastUnder(S, f, g)
  <2>1. f \in [S -> Int] /\ g \in [S -> Int]
        BY <1>1
  <2>3. (\A p \in S : 0 <= f[p]) /\ (\A p \in S : 0 <= g[p])
        BY <1>1
  <2> HIDE DEF f, g
  <2>4. BoundedOn(S, f) /\ BoundedOn(S, g)
        BY <2>1, <2>3 DEF BoundedOn
  <2> QED BY <2>4, LeastPair
<1>3. \E p \in S : \A q \in S :
        \/ Abs(Display(p) - watts) < Abs(Display(q) - watts)
        \/ /\ Abs(Display(p) - watts) = Abs(Display(q) - watts)
           /\ p.phases <= q.phases
      BY <1>2 DEF LeastUnder
<1>4. NearestOf(S, watts) = CHOOSE p \in S : \A q \in S :
        \/ Abs(Display(p) - watts) < Abs(Display(q) - watts)
        \/ /\ Abs(Display(p) - watts) = Abs(Display(q) - watts)
           /\ p.phases <= q.phases
      BY DEF NearestOf, First
<1>5. /\ NearestOf(S, watts) \in S
      /\ \A q \in S :
           \/ Abs(Display(NearestOf(S, watts)) - watts) < Abs(Display(q) - watts)
           \/ /\ Abs(Display(NearestOf(S, watts)) - watts) = Abs(Display(q) - watts)
              /\ NearestOf(S, watts).phases <= q.phases
      BY <1>3, <1>4
<1> QED BY <1>1, <1>5

(* The one whose power is nearest, the higher of two. *)
ClosestOf(S, watts) == First(S, LAMBDA p : <<Abs(p.watts - watts), -p.watts>>)

LEMMA ClosestIsMember ==
  ASSUME NEW S \in SUBSET Positive, S # {}, NEW watts \in Int
  PROVE  ClosestOf(S, watts) \in S
<1> DEFINE f == [p \in S |-> Abs(p.watts - watts)]
           g == [p \in S |-> -p.watts]
<1>1. \A p \in S : /\ Abs(p.watts - watts) \in Nat /\ p.watts \in Nat
                   /\ p.watts <= Ceiling /\ Ceiling \in Nat
  <2> TAKE p \in S
  <2>1. p.watts \in Nat /\ p.watts <= Ceiling /\ Ceiling \in Nat
        BY PositiveForm
  <2> QED BY <2>1 DEF Abs
<1>2. LeastUnder(S, f, g)
  <2>1. f \in [S -> Int] /\ g \in [S -> Int]
        BY <1>1
  <2>2. Ceiling \in Nat /\ -Ceiling \in Int
        BY <1>1
  <2>3. (\A p \in S : 0 <= f[p]) /\ (\A p \in S : -Ceiling <= g[p])
        BY <1>1, <2>2
  <2> HIDE DEF f, g
  <2>4. BoundedOn(S, f) /\ BoundedOn(S, g)
        BY <2>1, <2>2, <2>3 DEF BoundedOn
  <2> QED BY <2>4, LeastPair
<1>3. \E p \in S : \A q \in S :
        \/ Abs(p.watts - watts) < Abs(q.watts - watts)
        \/ /\ Abs(p.watts - watts) = Abs(q.watts - watts)
           /\ -p.watts <= -q.watts
      BY <1>2 DEF LeastUnder
<1>4. ClosestOf(S, watts) = CHOOSE p \in S : \A q \in S :
        \/ Abs(p.watts - watts) < Abs(q.watts - watts)
        \/ /\ Abs(p.watts - watts) = Abs(q.watts - watts)
           /\ -p.watts <= -q.watts
      BY DEF ClosestOf, First
<1> QED BY <1>3, <1>4

(* The one displayed nearest, the higher of two, zero included. *)
OfferedOf(S, watts) == First(S, LAMBDA p : <<Abs(Display(p) - watts), -Display(p)>>)

LEMMA OfferedIsMember ==
  ASSUME NEW S \in SUBSET AllPoints, S # {}, NEW watts \in Int
  PROVE  /\ OfferedOf(S, watts) \in S
         /\ \A q \in S :
              Abs(Display(OfferedOf(S, watts)) - watts) <= Abs(Display(q) - watts)
<1> DEFINE f == [p \in S |-> Abs(Display(p) - watts)]
           g == [p \in S |-> -Display(p)]
<1>0. /\ Ceiling \in Nat
  <2>1. Diagnostics.maximum \in Nat
        BY DiagnosticsAssumption
  <2> QED BY <2>1 DEF Ceiling
<1>1. \A p \in S : /\ Abs(Display(p) - watts) \in Nat
                   /\ Display(p) \in Int /\ Display(p) <= Ceiling + 50
  <2> TAKE p \in S
  <2>1. Display(p) \in Int /\ Display(p) <= Ceiling + 50
    <3>1. CASE p \in Positive
          BY <3>1, PositiveForm
    <3>2. CASE p = Zero
      <4>1. Display(p) = Rounded(0)
            BY <3>2 DEF Display, Zero
      <4> QED BY <1>0, <4>1, RoundedBounds
    <3> QED BY <3>1, <3>2 DEF AllPoints
  <2> QED BY <2>1 DEF Abs
<1>2. LeastUnder(S, f, g)
  <2>1. f \in [S -> Int] /\ g \in [S -> Int]
        BY <1>1
  <2>2. Ceiling \in Nat /\ -(Ceiling + 50) \in Int
        BY <1>0, <1>1
  <2>3. (\A p \in S : 0 <= f[p]) /\ (\A p \in S : -(Ceiling + 50) <= g[p])
        BY <1>0, <1>1, <2>2
  <2> HIDE DEF f, g
  <2>4. BoundedOn(S, f) /\ BoundedOn(S, g)
        BY <2>1, <2>2, <2>3 DEF BoundedOn
  <2> QED BY <2>4, LeastPair
<1>3. \E p \in S : \A q \in S :
        \/ Abs(Display(p) - watts) < Abs(Display(q) - watts)
        \/ /\ Abs(Display(p) - watts) = Abs(Display(q) - watts)
           /\ -Display(p) <= -Display(q)
      BY <1>2 DEF LeastUnder
<1>4. OfferedOf(S, watts) = CHOOSE p \in S : \A q \in S :
        \/ Abs(Display(p) - watts) < Abs(Display(q) - watts)
        \/ /\ Abs(Display(p) - watts) = Abs(Display(q) - watts)
           /\ -Display(p) <= -Display(q)
      BY DEF OfferedOf, First
<1>5. /\ OfferedOf(S, watts) \in S
      /\ \A q \in S :
           \/ Abs(Display(OfferedOf(S, watts)) - watts) < Abs(Display(q) - watts)
           \/ /\ Abs(Display(OfferedOf(S, watts)) - watts) = Abs(Display(q) - watts)
              /\ -Display(OfferedOf(S, watts)) <= -Display(q)
      BY <1>3, <1>4
<1> QED BY <1>1, <1>5

(* The highest one displayed, zero included. *)
DownOf(S) == First(S, LAMBDA p : <<-Display(p), 0>>)

LEMMA DownIsMember ==
  ASSUME NEW S \in SUBSET AllPoints, S # {}
  PROVE  DownOf(S) \in S /\ \A q \in S : Display(q) <= Display(DownOf(S))
<1> DEFINE f == [p \in S |-> -Display(p)]
           g == [p \in S |-> 0]
<1>0. /\ Ceiling \in Nat /\ -(Ceiling + 50) \in Int
  <2>1. Diagnostics.maximum \in Nat
        BY DiagnosticsAssumption
  <2> QED BY <2>1 DEF Ceiling
<1>1. \A p \in S : Display(p) \in Int /\ Display(p) <= Ceiling + 50
  <2> TAKE p \in S
  <2>1. CASE p \in Positive
        BY <2>1, PositiveForm
  <2>2. CASE p = Zero
    <3>1. Display(p) = Rounded(0)
          BY <2>2 DEF Display, Zero
    <3> QED BY <1>0, <3>1, RoundedBounds
  <2> QED BY <2>1, <2>2 DEF AllPoints
<1>2. LeastUnder(S, f, g)
  <2>1. f \in [S -> Int] /\ g \in [S -> Int]
        BY <1>1
  <2>2. (\A p \in S : -(Ceiling + 50) <= f[p]) /\ (\A p \in S : 0 <= g[p])
        BY <1>0, <1>1
  <2> HIDE DEF f, g
  <2>3. BoundedOn(S, f) /\ BoundedOn(S, g)
        BY <1>0, <2>1, <2>2 DEF BoundedOn
  <2> QED BY <2>3, LeastPair
<1>3. \E p \in S : \A q \in S :
        -Display(p) < -Display(q) \/ (-Display(p) = -Display(q) /\ 0 <= 0)
      BY <1>2 DEF LeastUnder
<1>4. DownOf(S) = CHOOSE p \in S : \A q \in S :
        -Display(p) < -Display(q) \/ (-Display(p) = -Display(q) /\ 0 <= 0)
      BY DEF DownOf, First
<1>5. /\ DownOf(S) \in S
      /\ \A q \in S : \/ -Display(DownOf(S)) < -Display(q)
                      \/ -Display(DownOf(S)) = -Display(q)
      BY <1>3, <1>4
<1> QED BY <1>1, <1>5

(* A step of navigation ends at a positive point, or there is none. *)
LEMMA NavigateType ==
  ASSUME NEW watts \in Int, NEW n, NEW direction
  PROVE  Navigate(watts, n, direction) \in Positive \cup {None}
<1> DEFINE Beyond(S) == {p \in S : (Display(p) - watts) * direction > 0}
           same == IF n \in Enabled THEN Beyond(PointsOf(n)) ELSE {}
           found == IF same # {} THEN same
                    ELSE Beyond(UNION {PointsOf(m) : m \in Enabled \ {n}})
<1>1. found \in SUBSET Positive
  <2>1. \A S \in SUBSET Positive : Beyond(S) \in SUBSET Positive
        OBVIOUS
  <2>2. UNION {PointsOf(m) : m \in Enabled \ {n}} \in SUBSET Positive
        BY DEF Positive
  <2>3. n \in Enabled => PointsOf(n) \in SUBSET Positive
        BY ModeHasPoints
  <2> HIDE DEF Beyond
  <2> QED BY <2>1, <2>2, <2>3
<1>2. Navigate(watts, n, direction) = IF found = {} THEN None ELSE NearestOf(found, watts)
      BY DEF Navigate, NearestOf
<1> HIDE DEF found
<1> QED BY <1>1, <1>2, NearestIsMember

(* What a mode offers for a wanted power. *)
LEMMA OnPhaseType ==
  ASSUME NEW watts \in Int, NEW n \in Enabled, NEW direction \in {"up", "nearest"}
  PROVE  OnPhase(watts, n, direction) \in AllPoints
<1> DEFINE above == {p \in PointsOf(n) : Display(p) >= watts}
           offers == PointsOf(n) \cup {Zero}
<1>1. PointsOf(n) # {} /\ PointsOf(n) \in SUBSET Positive
      BY ModeHasPoints
<1>2. CASE watts = 0
      BY <1>2 DEF OnPhase, AllPoints
<1>3. CASE watts # 0 /\ direction = "up"
  <2>1. OnPhase(watts, n, direction) =
          IF above # {} THEN Lowest(above) ELSE Highest(PointsOf(n))
        BY <1>3 DEF OnPhase
  <2>2. above \in SUBSET Positive
        BY <1>1
  <2> HIDE DEF above
  <2>3. (above # {} => Lowest(above) \in above) /\ Highest(PointsOf(n)) \in PointsOf(n)
        BY <1>1, <2>2, LowestIsMember, HighestIsMember
  <2> QED BY <1>1, <2>1, <2>2, <2>3 DEF AllPoints
<1>4. CASE watts # 0 /\ direction = "nearest"
  <2>1. OnPhase(watts, n, direction) = OfferedOf(offers, watts)
        BY <1>4 DEF OnPhase, OfferedOf
  <2>2. offers \in SUBSET AllPoints /\ offers # {}
        BY <1>1 DEF AllPoints
  <2> HIDE DEF offers
  <2>3. OfferedOf(offers, watts) \in offers
        BY <2>2, OfferedIsMember
  <2> QED BY <2>1, <2>2, <2>3
<1> QED BY <1>2, <1>3, <1>4

(* The highest enabled mode suffices for every power, so that one is found. *)
LEMMA LeastSufficient ==
  ASSUME NEW watts \in Int, Enabled # {}
  PROVE  Min({n \in Enabled : Suffices(n, watts)}) \in Enabled
<1> DEFINE S == {n \in Enabled : Suffices(n, watts)}
<1>1. Enabled \subseteq 1..3
      BY LimitedBounds
<1>2. PICK n \in Enabled : \A k \in Enabled : k <= n
  <2>1. CASE 3 \in Enabled
        BY <1>1, <2>1
  <2>2. CASE 3 \notin Enabled /\ 2 \in Enabled
        BY <1>1, <2>2
  <2>3. CASE 3 \notin Enabled /\ 2 \notin Enabled
    <3>1. \A k \in Enabled : k = 1
          BY <1>1, <2>3
    <3> QED BY <3>1
  <2> QED BY <2>1, <2>2, <2>3
<1>3. {k \in Enabled : k > n} = {}
  <2>1. \A k \in Enabled : k \in Int /\ n \in Int /\ ~(k > n)
        BY <1>1, <1>2
  <2> QED BY <2>1
<1>4. Suffices(n, watts)
      BY <1>3 DEF Suffices
<1>5. S \in SUBSET Nat /\ S # {}
  <2>1. 1..3 \subseteq Nat
        OBVIOUS
  <2> QED BY <1>1, <1>4, <2>1
<1> HIDE DEF S
<1>6. \E x \in S : \A y \in S : x <= y
      BY <1>5, LeastMember
<1>7. Min(S) \in S
      BY <1>6 DEF Min
<1> QED BY <1>7 DEF S

(* An entered power becomes a point. *)
LEMMA ResolveType ==
  ASSUME NEW watts \in Int, NEW direction \in {"up", "nearest"}, Enabled # {}
  PROVE  Resolve(watts, direction, None, None) \in AllPoints
<1> DEFINE mode == Min({n \in Enabled : Suffices(n, watts)})
<1>1. None \notin Enabled
      BY LimitedBounds, CapsAssumption
<1>2. Resolve(watts, direction, None, None) =
        IF watts = 0 THEN Zero ELSE OnPhase(watts, mode, direction)
      BY <1>1 DEF Resolve
<1>3. mode \in Enabled
      BY LeastSufficient
<1> HIDE DEF mode
<1>4. OnPhase(watts, mode, direction) \in AllPoints
      BY <1>3, OnPhaseType
<1> QED BY <1>2, <1>4 DEF AllPoints

(* The least positive point of the station. *)
LEMMA LeastPoint == Enabled # {} /\ Lowest(Positive) \in Positive
<1>1. Positive \in SUBSET Positive /\ Positive # {}
      BY PositiveAssumption
<1> QED BY <1>1, LowestIsMember DEF Positive

(* PV selects a positive point for any surplus. *)
LEMMA SelectedType ==
  ASSUME NEW watts \in Int
  PROVE  Selected(watts) \in Positive
<1> DEFINE direction == IF watts < Lowest(Positive).watts THEN "up" ELSE "nearest"
           p == Resolve(watts, direction, None, None)
<1>1. direction \in {"up", "nearest"}
      OBVIOUS
<1> HIDE DEF direction
<1>2. p \in AllPoints
      BY <1>1, LeastPoint, ResolveType
<1>3. Selected(watts) = IF p = Zero THEN Lowest(Positive) ELSE p
      BY DEF Selected, direction
<1> HIDE DEF p
<1> QED BY <1>2, <1>3, LeastPoint DEF AllPoints

(* Below its series PV stays at the least point, or takes a lower one. *)
LEMMA BelowSeriesType ==
  ASSUME NEW watts \in Int, NEW n \in Enabled
  PROVE  BelowSeries(watts, n) \in Positive
<1> DEFINE least == Lowest(PointsOf(n))
           fitting == {p \in Positive : p.watts <= watts /\ p.watts < least.watts}
<1>1. PointsOf(n) # {} /\ PointsOf(n) \in SUBSET Positive
      BY ModeHasPoints
<1>2. least \in Positive
      BY <1>1, LowestIsMember
<1>3. fitting \in SUBSET Positive
      OBVIOUS
<1>4. BelowSeries(watts, n) \in
        {least} \cup (IF fitting # {} THEN {Highest(fitting)} ELSE {Lowest(Positive)})
      BY DEF BelowSeries
<1> HIDE DEF fitting, least
<1>5. fitting # {} => Highest(fitting) \in Positive
      BY <1>3, HighestIsMember
<1> QED BY <1>2, <1>4, <1>5, LeastPoint

(* The target of regulation: a point of the station, whatever is wanted;   *)
(* from a positive one it is never zero, so that PV ends charging only by  *)
(* its economic STOP (Envelope.regulation_target).                         *)
LEMMA TargetType ==
  ASSUME NEW watts \in Int, NEW current \in AllPoints \cup {None}
  PROVE  /\ RegulationTarget(watts, current) \in AllPoints
         /\ current \notin {None, Zero} => RegulationTarget(watts, current) \in Positive
<1> DEFINE ongoing == current \notin {None, Zero}
           same == IF ongoing /\ current.phases \in Enabled
                   THEN PointsOf(current.phases) ELSE {}
           higher == Navigate(Display(Highest(same)), current.phases, 1)
<1>1. ongoing => current.phases \in Enabled
      BY PositiveForm DEF AllPoints
<1>2. same # {} => /\ current.phases \in Enabled /\ same = PointsOf(current.phases)
                   /\ same \in SUBSET Positive
      BY <1>1, ModeHasPoints
<1> DEFINE Target == IF watts < Lowest(same).watts THEN BelowSeries(watts, current.phases)
                     ELSE IF watts <= Highest(same).watts THEN ClosestOf(same, watts)
                     ELSE IF higher = None \/ watts < higher.watts THEN Highest(same)
                     ELSE Selected(watts)
<1>0. RegulationTarget(watts, current) =
        CASE watts <= 0 -> IF ongoing THEN Lowest(Positive) ELSE Zero
          [] watts > 0 /\ same = {} -> Selected(watts)
          [] watts > 0 /\ same # {} -> Target
      BY DEF RegulationTarget, ClosestOf
<1> HIDE DEF Target
<1>3. CASE watts <= 0
  <2>1. RegulationTarget(watts, current) = IF ongoing THEN Lowest(Positive) ELSE Zero
        BY <1>0, <1>3
  <2> QED BY <2>1, LeastPoint DEF AllPoints
<1>4. CASE watts > 0 /\ same = {}
  <2>1. RegulationTarget(watts, current) = Selected(watts)
        BY <1>0, <1>4
  <2> QED BY <2>1, SelectedType DEF AllPoints
<1>5. CASE watts > 0 /\ same # {}
  <2>1. RegulationTarget(watts, current) = Target
        BY <1>0, <1>5
  <2>2. RegulationTarget(watts, current) \in
          {BelowSeries(watts, current.phases), ClosestOf(same, watts), Highest(same),
           Selected(watts)}
        BY <2>1 DEF Target
  <2> HIDE DEF same
  <2>3. /\ ClosestOf(same, watts) \in Positive /\ Highest(same) \in Positive
        /\ BelowSeries(watts, current.phases) \in Positive
    <3>1. same \in SUBSET Positive /\ same # {}
          BY <1>2, <1>5
    <3>2. ClosestOf(same, watts) \in same /\ Highest(same) \in same
          BY <3>1, ClosestIsMember, HighestIsMember
    <3>3. BelowSeries(watts, current.phases) \in Positive
          BY <1>2, <1>5, BelowSeriesType
    <3> QED BY <3>1, <3>2, <3>3
  <2> QED BY <2>2, <2>3, SelectedType DEF AllPoints
<1> QED BY <1>3, <1>4, <1>5

(* The lowest or the running mode: one whose offers are considered. *)
ModeFor(watts, ongoing) ==
  IF ongoing \in Enabled /\ Reaches(ongoing, watts) THEN ongoing
  ELSE Min({n \in Enabled : Suffices(n, watts)})

(* The three directions in which a power is resolved on a mode: not above  *)
(* it; not below it, if a point of the mode reaches; as near as possible.  *)
Below(p, watts, n) ==
  /\ p \in PointsOf(n) \cup {Zero} /\ Display(p) <= watts
  /\ \A q \in PointsOf(n) : Display(q) <= watts => Display(q) <= Display(p)
Above(p, watts, n) ==
  /\ p \in PointsOf(n)
  /\ \A q \in PointsOf(n) : Display(q) >= watts => Display(p) >= watts /\ p.watts <= q.watts
  /\ Display(p) < watts => \A q \in PointsOf(n) : q.watts <= p.watts
Beside(p, watts, n) ==
  /\ p \in PointsOf(n) \cup {Zero}
  /\ \A q \in PointsOf(n) \cup {Zero} : Abs(Display(p) - watts) <= Abs(Display(q) - watts)

LEMMA OnPhaseObeys ==
  ASSUME NEW watts \in Nat \ {0}, NEW n \in Enabled
  PROVE  /\ Below(OnPhase(watts, n, "down"), watts, n)
         /\ Above(OnPhase(watts, n, "up"), watts, n)
         /\ Beside(OnPhase(watts, n, "nearest"), watts, n)
<1> DEFINE above == {p \in PointsOf(n) : Display(p) >= watts}
           offers == PointsOf(n) \cup {Zero}
           below == {p \in offers : Display(p) <= watts}
<1>1. PointsOf(n) # {} /\ PointsOf(n) \in SUBSET Positive
      BY ModeHasPoints
<1>2. offers \in SUBSET AllPoints /\ offers # {} /\ watts \in Int
      BY <1>1 DEF AllPoints
<1>3. \A p \in offers : Display(p) \in Int
      BY <1>2, WattsType
<1>4. \A p \in PointsOf(n) : p.watts \in Nat
      BY <1>1, PositiveForm
<1>5. Below(OnPhase(watts, n, "down"), watts, n)
  <2>1. OnPhase(watts, n, "down") = DownOf(below)
        BY DEF OnPhase, DownOf
  <2>2. Zero \in below
    <3>1. Display(Zero) = 0
          BY DEF Display, Zero, Rounded
    <3> QED BY <3>1
  <2>3. below \in SUBSET AllPoints /\ below # {}
        BY <1>2, <2>2
  <2>4. \A q \in PointsOf(n) : Display(q) <= watts => q \in below
        OBVIOUS
  <2>5. \A q \in below : q \in PointsOf(n) \cup {Zero} /\ Display(q) <= watts
        OBVIOUS
  <2> HIDE DEF below
  <2>6. DownOf(below) \in below /\ \A q \in below : Display(q) <= Display(DownOf(below))
        BY <2>3, DownIsMember
  <2> QED BY <2>1, <2>4, <2>5, <2>6 DEF Below
<1>6. Above(OnPhase(watts, n, "up"), watts, n)
  <2>1. OnPhase(watts, n, "up") =
          IF above # {} THEN Lowest(above) ELSE Highest(PointsOf(n))
        BY DEF OnPhase
  <2>2. above \in SUBSET Positive /\ above \subseteq PointsOf(n)
        BY <1>1
  <2>3. \A q \in PointsOf(n) : Display(q) >= watts <=> q \in above
        OBVIOUS
  <2> HIDE DEF above
  <2>4. CASE above # {}
    <3>1. Lowest(above) \in above /\ \A q \in above : Lowest(above).watts <= q.watts
          BY <2>2, <2>4, LowestIsMember
    <3>2. Display(Lowest(above)) >= watts /\ Display(Lowest(above)) \in Int
          BY <1>3, <2>2, <2>3, <3>1
    <3> QED BY <2>1, <2>2, <2>3, <2>4, <3>1, <3>2 DEF Above
  <2>5. CASE above = {}
    <3>1. /\ Highest(PointsOf(n)) \in PointsOf(n)
          /\ \A q \in PointsOf(n) : q.watts <= Highest(PointsOf(n)).watts
          BY <1>1, HighestIsMember
    <3> QED BY <2>1, <2>3, <2>5, <3>1 DEF Above
  <2> QED BY <2>4, <2>5
<1>7. Beside(OnPhase(watts, n, "nearest"), watts, n)
  <2>1. OnPhase(watts, n, "nearest") = OfferedOf(offers, watts)
        BY DEF OnPhase, OfferedOf
  <2> HIDE DEF offers
  <2>2. /\ OfferedOf(offers, watts) \in offers
        /\ \A q \in offers :
             Abs(Display(OfferedOf(offers, watts)) - watts) <= Abs(Display(q) - watts)
        BY <1>2, OfferedIsMember
  <2> QED BY <2>1, <2>2 DEF Beside, offers
<1> QED BY <1>5, <1>6, <1>7

(* A power that is entered is resolved on one mode of the station, for     *)
(* every direction: rounded down it is never exceeded, rounded up it is    *)
(* missed only if no point of that mode reaches it, and no offer of the    *)
(* mode is nearer than the nearest one (Envelope.resolve).                 *)
THEOREM ResolveObeys ==
  \A watts \in Nat \ {0}, ongoing \in {None} \cup Modes :
    \E n \in Enabled :
      /\ ongoing \in Enabled /\ Reaches(ongoing, watts) => n = ongoing
      /\ Below(Resolve(watts, "down", ongoing, None), watts, n)
      /\ Above(Resolve(watts, "up", ongoing, None), watts, n)
      /\ Beside(Resolve(watts, "nearest", ongoing, None), watts, n)
<1> TAKE watts \in Nat \ {0}, ongoing \in {None} \cup Modes
<1>1. None \notin Enabled
      BY LimitedBounds, CapsAssumption
<1>2. \A direction :
        Resolve(watts, direction, ongoing, None) =
          OnPhase(watts, ModeFor(watts, ongoing), direction)
      BY <1>1 DEF Resolve, ModeFor
<1>3. ModeFor(watts, ongoing) \in Enabled
  <2>1. Min({n \in Enabled : Suffices(n, watts)}) \in Enabled
        BY LeastSufficient, LeastPoint
  <2> QED BY <2>1 DEF ModeFor
<1>4. ongoing \in Enabled /\ Reaches(ongoing, watts) => ModeFor(watts, ongoing) = ongoing
      BY DEF ModeFor
<1>5. /\ Below(OnPhase(watts, ModeFor(watts, ongoing), "down"), watts, ModeFor(watts, ongoing))
      /\ Above(OnPhase(watts, ModeFor(watts, ongoing), "up"), watts, ModeFor(watts, ongoing))
      /\ Beside(OnPhase(watts, ModeFor(watts, ongoing), "nearest"), watts,
                ModeFor(watts, ongoing))
      BY <1>3, OnPhaseObeys
<1> QED BY <1>2, <1>3, <1>4, <1>5

(* A step of navigation goes strictly in its direction, stays on the same  *)
(* phases if a point of theirs lies there, and shows no less and no more   *)
(* than the next of them (Envelope.navigate).                              *)
THEOREM NavigateSteps ==
  \A p \in Positive, direction \in {-1, 1} :
    LET q == Navigate(Display(p), p.phases, direction)
        On(r) == (Display(r) - Display(p)) * direction > 0
        further == {r \in PointsOf(p.phases) : On(r)}
    IN  \/ q = None /\ \A r \in Positive : ~On(r)
        \/ /\ q \in Positive /\ On(q)
           /\ further # {} => q.phases = p.phases
           /\ \A r \in further : (Display(r) - Display(q)) * direction >= 0
<1> TAKE p \in Positive, direction \in {-1, 1}
<1> DEFINE watts == Display(p)
           n == p.phases
           Beyond(S) == {r \in S : (Display(r) - watts) * direction > 0}
           same == IF n \in Enabled THEN Beyond(PointsOf(n)) ELSE {}
           others == UNION {PointsOf(m) : m \in Enabled \ {n}}
           found == IF same # {} THEN same ELSE Beyond(others)
           q == Navigate(Display(p), p.phases, direction)
           On(r) == (Display(r) - Display(p)) * direction > 0
<1>1. /\ n \in Enabled /\ watts \in Int
      /\ \A r \in Positive : Display(r) \in Int
      BY PositiveForm
<1>2. q = IF found = {} THEN None ELSE NearestOf(found, watts)
      BY DEF Navigate, NearestOf
<1>3. /\ PointsOf(n) \subseteq Positive /\ others \subseteq Positive
      /\ \A r \in Positive : r \in PointsOf(n) \/ r \in others
      BY <1>1 DEF Positive
<1>4. /\ found \in SUBSET Positive /\ \A r \in found : On(r)
      /\ same # {} => found = same
      /\ same = {r \in PointsOf(n) : On(r)}
      BY <1>1, <1>3
<1>5. found = {} => \A r \in Positive : ~On(r)
      BY <1>1, <1>3
<1>6. found # {} => /\ NearestOf(found, watts) \in found
                    /\ \A r \in found :
                         Abs(Display(NearestOf(found, watts)) - watts)
                           <= Abs(Display(r) - watts)
  <2> HIDE DEF found, watts
  <2> QED BY <1>1, <1>4, NearestIsMember
<1> HIDE DEF found, same, others, Beyond, q
<1>7. CASE found = {}
      BY <1>2, <1>5, <1>7 DEF q
<1>8. CASE found # {}
  <2>1. q \in found /\ q \in Positive /\ On(q)
        BY <1>2, <1>4, <1>6, <1>8
  <2>2. same # {} => q.phases = p.phases
        BY <1>1, <1>4, <2>1, PointForm
  <2>3. \A r \in same : (Display(r) - Display(q)) * direction >= 0
    <3> TAKE r \in same
    <3>1. r \in found /\ On(r) /\ r \in Positive
          BY <1>4
    <3>2. Abs(Display(q) - watts) <= Abs(Display(r) - watts)
          BY <1>2, <1>6, <1>8, <3>1
    <3>3. Display(q) \in Int /\ Display(r) \in Int /\ watts \in Int
          BY <1>1, <2>1, <3>1
    <3>4. CASE direction = 1
      <4>1. Display(q) - watts > 0 /\ Display(r) - watts > 0
            BY <2>1, <3>1, <3>3, <3>4
      <4> QED BY <3>2, <3>3, <3>4, <4>1 DEF Abs
    <3>5. CASE direction = -1
      <4>1. Display(q) - watts < 0 /\ Display(r) - watts < 0
            BY <2>1, <3>1, <3>3, <3>5
      <4> QED BY <3>2, <3>3, <3>5, <4>1 DEF Abs
    <3> QED BY <3>4, <3>5
  <2> QED BY <1>4, <2>1, <2>2, <2>3 DEF q
<1> QED BY <1>7, <1>8

-----------------------------------------------------------------------------
(* The type invariant *)

Controllers ==
  [mode: {"STOP", "FAST", "BALANCE", "SURPLUS"}, startup: Nat \cup {None}, up: Nat,
   down: Nat \cup {None}, reason: Reasons \cup {None}]

Grids ==
  [held: AllPoints \cup {None}, requested: AllPoints \cup {None},
   status: {"settled", "busy", "uncertain", "rejected"}, retry: BOOLEAN]

Ticks == [point: AllPoints, seen: AllPoints \cup {None}]

(* What is under way has a point, and an unresolved one leaves none held. *)
Resolved(g) ==
  /\ g.status = "busy" => g.requested \in AllPoints
  /\ g.status = "uncertain" => g.held = None

(* While a fall is counted its reason is known. *)
Counted(k) == k.reason # None => k.down \in Nat

Typed ==
  /\ battery \in BOOLEAN
  /\ world \in [surplus: Surpluses, soc: Soc, vehicle: Vehicles]
  /\ station \in [offer: AllPoints, locked: BOOLEAN]
  /\ core \in Controllers /\ Counted(core)
  /\ grid \in Grids /\ Resolved(grid)
  /\ tick \in Ticks \cup {None} /\ ops \in Nat
  /\ age \in [rise: Nat, start: Nat]

-----------------------------------------------------------------------------
(* What the tick measures and wants *)

(* The numbers of LoopAssumption. *)
LEMMA Numbers ==
  /\ Flow \in Nat /\ Deadband \in Nat /\ Uptake \in Nat /\ Hold \in Nat
  /\ Increase \in Nat /\ Decrease \in Nat /\ MaxOps \in Nat
BY LoopAssumption

(* The measured powers are integers. *)
LEMMA MeasuredType ==
  ASSUME Typed
  PROVE  Draw \in Int /\ Storage \in Int /\ Import \in Int
<1>1. /\ station.offer.watts \in Nat /\ world.vehicle \in Nat /\ world.surplus \in Int
      /\ battery \in BOOLEAN
      BY LoopAssumption, WattsType DEF Typed
<1>2. Draw \in Int
      BY <1>1 DEF Draw, Least
<1>3. Storage \in Int
  <2>1. /\ Clamp(world.surplus - Draw, -Flow, Flow) \in Int
        BY <1>1, <1>2, Numbers DEF Clamp
  <2> QED BY <2>1 DEF Storage
<1>4. Import \in Int
      BY <1>1, <1>2, <1>3 DEF Import
<1> QED BY <1>2, <1>3, <1>4

(* A wanted power has a number and a reason. *)
LEMMA IdealType ==
  ASSUME Typed, NEW mode \in {"FAST", "BALANCE", "SURPLUS"}, NEW c \in AllPoints \cup {None}
  PROVE  Ideal(mode, c).watts \in Int /\ Ideal(mode, c).reason \in Reasons
<1>1. /\ Draw \in Int /\ Storage \in Int /\ Import \in Int
      BY MeasuredType
<1>2. CASE mode = "FAST"
  <2> DEFINE held == IF c = None THEN Zero ELSE c
             step == Navigate(Display(held), Phases(held), 1)
  <2>1. held \in AllPoints
        BY DEF AllPoints
  <2>2. held.watts \in Int /\ Display(held) \in Int
        BY <2>1, WattsType
  <2>3. step = None \/ step.watts \in Int
        BY <2>2, NavigateType, PositiveForm
  <2>4. Ideal(mode, c) =
          CASE Import > Deadband -> [watts |-> Draw - Import, reason |-> "grid_import"]
            [] Import <= Deadband ->
                 [watts |-> IF step = None THEN held.watts ELSE step.watts,
                  reason |-> "grid_exploration"]
        BY <1>2 DEF Ideal, FastIdeal
  <2> HIDE DEF held, step
  <2>5. CASE Import > Deadband
    <3>1. ~(Import <= Deadband)
          BY <1>1, <2>5, Numbers
    <3> QED BY <1>1, <2>4, <2>5, <3>1 DEF Reasons
  <2>6. CASE Import <= Deadband
    <3>1. ~(Import > Deadband)
          BY <1>1, <2>6, Numbers
    <3> QED BY <2>2, <2>3, <2>4, <2>6, <3>1 DEF Reasons
  <2> QED BY <1>1, <2>5, <2>6, Numbers
<1>3. CASE mode = "BALANCE"
      BY <1>1, <1>3 DEF Ideal, BalanceIdeal, Reasons
<1>4. CASE mode = "SURPLUS"
      BY <1>1, <1>4 DEF Ideal, SurplusIdeal, Reasons
<1> QED BY <1>2, <1>3, <1>4

(* A goal is a point of the station, positive while charging, and a reason. *)
Legal(c, g) ==
  /\ g.point \in AllPoints /\ g.reason \in Reasons
  /\ c \notin {None, Zero} => g.point \in Positive

(* The bias of BALANCE keeps it one. *)
LEMMA BiasedType ==
  ASSUME Typed, NEW ideal, ideal.watts \in Int, ideal.reason \in Reasons,
         NEW c, NEW target \in AllPoints, c \notin {None, Zero} => target \in Positive
  PROVE  Legal(c, Biased(ideal, target))
<1> DEFINE bias == IF world.soc < Lower THEN -1 ELSE IF world.soc > Middle THEN 1 ELSE 0
           basis == IF ideal.watts = 0 /\ bias > 0 THEN Zero ELSE target
           step == Navigate(Display(basis), Phases(basis), bias)
<1>1. basis \in AllPoints
      BY DEF AllPoints
<1>2. step \in Positive \cup {None}
      BY <1>1, WattsType, NavigateType
<1>3. Biased(ideal, target) =
        IF bias # 0 /\ (basis # Zero \/ (bias > 0 /\ ideal.watts = 0))
        THEN Goal(IF step = None THEN target ELSE step,
                  IF bias < 0 THEN "soc_recharge" ELSE "soc_discharge")
        ELSE Goal(target, ideal.reason)
      BY DEF Biased
<1> HIDE DEF bias, basis, step
<1>4. /\ (IF step = None THEN target ELSE step) \in AllPoints
      /\ c \notin {None, Zero} => (IF step = None THEN target ELSE step) \in Positive
      BY <1>2 DEF AllPoints
<1>5. (IF bias < 0 THEN "soc_recharge" ELSE "soc_discharge") \in Reasons
      BY DEF Reasons
<1> QED BY <1>3, <1>4, <1>5 DEF Goal, Legal

(* What the controller aims at is one. *)
LEMMA GoalsType ==
  ASSUME Typed, NEW mode \in {"FAST", "BALANCE", "SURPLUS"}, NEW c \in AllPoints \cup {None},
         NEW goal \in Goals(mode, c)
  PROVE  Legal(c, goal)
<1> DEFINE i == Ideal(mode, c)
           t == RegulationTarget(i.watts, c)
           correction == RegulationTarget(Draw - Import, c)
<1>1. i.watts \in Int /\ i.reason \in Reasons
      BY IdealType
<1>2. Draw - Import \in Int
      BY MeasuredType
<1>3. goal \in {Goal(t, i.reason), Corrected(Biased(i, t), correction)}
      BY DEF Goals
<1> HIDE DEF i
<1>4. /\ t \in AllPoints /\ correction \in AllPoints
      /\ c \notin {None, Zero} => t \in Positive /\ correction \in Positive
      BY <1>1, <1>2, TargetType
<1> HIDE DEF t, correction
<1>5. Legal(c, Goal(t, i.reason)) /\ Legal(c, Goal(correction, "balance_grid_import"))
      BY <1>1, <1>4 DEF Goal, Legal, Reasons
<1>6. Legal(c, Biased(i, t))
      BY <1>1, <1>4, BiasedType
<1>7. Legal(c, Corrected(Biased(i, t), correction))
      BY <1>5, <1>6 DEF Corrected
<1> QED BY <1>3, <1>5, <1>7

-----------------------------------------------------------------------------
(* What the controller decides *)

(* Another positive point than the one seen, which charges already. *)
Another(c, p) == p # Zero /\ p # c
Changed(c, p) == c \notin {None, Zero} /\ Another(c, p)

(* A rise is one step, when the interval has passed. *)
Stepped(k, c, p) ==
  p.watts > c.watts => p = Navigate(Display(c), c.phases, 1) /\ k.up >= Increase

(* Ordinary timing: the counters of a tick whose response is resolved. *)
LEMMA TimedForm ==
  ASSUME NEW k \in Controllers, Counted(k)
  PROVE  /\ Timed(k) \in Controllers /\ Counted(Timed(k)) /\ Timed(k).mode = k.mode
         /\ Timed(k).up = Least(k.up + 1, Increase)
         /\ Timed(k).startup = IF k.startup = None THEN None ELSE Least(k.startup + 1, Hold + 1)
<1>1. /\ k.up \in Nat /\ k.startup \in Nat \cup {None}
      BY DEF Controllers
<1>2. Least(k.up + 1, Increase) \in Nat
      BY <1>1, Numbers DEF Least
<1>3. (IF k.startup = None THEN None ELSE Least(k.startup + 1, Hold + 1)) \in Nat \cup {None}
      BY <1>1, Numbers DEF Least
<1> QED BY <1>2, <1>3 DEF Timed, Controllers, Counted

(* The pace of a change: a step up, a wait, or the goal. *)
LEMMA PacedForm ==
  ASSUME NEW k \in Controllers, Counted(k), NEW c \in AllPoints \cup {None},
         NEW goal, Legal(c, goal)
  PROVE  LET d == Paced(k, c, goal)
         IN  /\ d.point \in AllPoints
             /\ d.core \in Controllers /\ Counted(d.core)
             /\ d.core.up = k.up /\ d.core.startup = k.startup
             /\ Changed(c, d.point) => Stepped(k, c, d.point)
             /\ c \notin {None, Zero} => d.point # Zero
<1> DEFINE d == Paced(k, c, goal)
           rest == [k EXCEPT !.down = None, !.reason = None]
           down == IF k.reason # goal.reason THEN 0 ELSE Least(k.down + 1, Decrease)
           waits == [k EXCEPT !.down = down, !.reason = goal.reason]
           step == Navigate(Display(c), c.phases, 1)
           short == \/ 100 * Draw < c.watts * Uptake \/ k.up < Increase \/ step = None
<1>0. /\ goal.point \in AllPoints /\ goal.reason \in Reasons /\ goal.point.watts \in Int
      /\ c # None => c \in AllPoints /\ c.watts \in Int /\ Display(c) \in Int
      /\ k.up \in Nat /\ (c \notin {None, Zero} => goal.point # Zero)
      BY WattsType DEF Legal, Controllers
<1>1. rest \in Controllers /\ Counted(rest) /\ rest.up = k.up /\ rest.startup = k.startup
      BY DEF Controllers, Counted
<1>2. waits \in Controllers /\ Counted(waits) /\ waits.up = k.up /\ waits.startup = k.startup
  <2>1. down \in Nat
        BY <1>0, NullAssumption, Numbers DEF Counted, Least
  <2> HIDE DEF down
  <2> QED BY <1>0, <2>1 DEF Controllers, Counted
<1> HIDE DEF rest, waits
<1>3. CASE c \notin {None, Zero} /\ goal.point.watts > c.watts
  <2>1. d = [core |-> rest, point |-> IF short THEN c ELSE step]
    <3>1. ~(goal.point.watts < c.watts)
          BY <1>0, <1>3
    <3> QED BY <1>3, <3>1 DEF Paced, rest
  <2>2. step \in Positive \cup {None}
        BY <1>0, <1>3, NavigateType
  <2>3. (IF short THEN c ELSE step) \in AllPoints \ {Zero}
        BY <1>0, <1>3, <2>2, PositiveForm DEF AllPoints
  <2>4. Changed(c, d.point) => d.point = step /\ k.up >= Increase
        BY <1>0, <2>1, Numbers DEF Changed, Another
  <2> QED BY <1>1, <2>1, <2>3, <2>4 DEF Stepped
<1>4. CASE c # None /\ goal.point.watts < c.watts
  <2>1. ~(goal.point.watts > c.watts)
        BY <1>0, <1>4
  <2>2. d = [core |-> waits, point |-> IF down < Decrease THEN c ELSE goal.point]
        BY <1>4, <2>1 DEF Paced, waits
  <2> HIDE DEF down
  <2>3. d.core = waits /\ d.point \in {c, goal.point}
        BY <2>2
  <2>4. /\ d.point \in AllPoints /\ ~(d.point.watts > c.watts)
        /\ c \notin {None, Zero} => d.point # Zero
        BY <1>0, <1>4, <2>1, <2>3
  <2> QED BY <1>2, <2>3, <2>4 DEF Stepped
<1>5. CASE ~(c \notin {None, Zero} /\ goal.point.watts > c.watts)
           /\ ~(c # None /\ goal.point.watts < c.watts)
  <2>1. d = [core |-> rest, point |-> goal.point]
        BY <1>5 DEF Paced, rest
  <2> QED BY <1>0, <1>1, <1>5, <2>1 DEF Changed, Another, Stepped
<1> QED BY <1>3, <1>4, <1>5

(* The counters after a decision, as they were or a tick further. *)
Advanced(k, new) ==
  /\ new.up \in {k.up, Least(k.up + 1, Increase)}
  /\ new.startup \in {k.startup,
                      IF k.startup = None THEN None ELSE Least(k.startup + 1, Hold + 1)}

(* A decision: a legal point, counters that go on, another positive point  *)
(* only by a resolved tick that is past the hold, zero only by a STOP.     *)
DecisionIs(d, c) ==
  /\ d.point \in AllPoints
  /\ d.core \in Controllers /\ Counted(d.core) /\ Advanced(core, d.core)
  /\ Pending => d.core.up = core.up /\ d.core.startup = core.startup
  /\ Another(c, d.point) => ~Pending
  /\ Changed(c, d.point) =>
       /\ d.core.startup = None \/ d.core.startup > Hold
       /\ Stepped(d.core, c, d.point)
  /\ c \notin {None, Zero} /\ d.point = Zero => d.core.mode = "STOP"

(* The mode by the state of charge is one of the modes. *)
LEMMA PolicyType ==
  ASSUME NEW soc \in Soc, NEW previous \in {"STOP", "FAST", "BALANCE", "SURPLUS"}, NEW surplus
  PROVE  Policy(soc, previous, surplus) \in {"STOP", "FAST", "BALANCE", "SURPLUS"}
<1>1. soc \in Int
      BY DEF Soc
<1>2. CASE soc < StopBelow
      BY <1>1, <1>2 DEF Policy, StopBelow, Upper
<1>3. CASE soc >= Upper
      BY <1>1, <1>3 DEF Policy, StopBelow, Upper
<1>4. CASE soc \in StopBelow..Upper - 1 /\ previous = "STOP"
      BY <1>1, <1>4 DEF Policy, StopBelow, Upper
<1>5. CASE soc \in StopBelow..Upper - 1 /\ previous # "STOP"
      BY <1>1, <1>5 DEF Policy, StopBelow, Upper
<1> QED BY <1>1, <1>2, <1>3, <1>4, <1>5 DEF StopBelow, Upper

LEMMA DecisionForm ==
  ASSUME Typed, NEW c \in AllPoints \cup {None}, NEW d \in Decisions(core, c, Pending)
  PROVE  DecisionIs(d, c)
<1> DEFINE mode == IF battery THEN Policy(world.soc, core.mode, world.surplus > 0)
                   ELSE "SURPLUS"
           chosen == [core EXCEPT !.mode = mode]
           timed == Timed(chosen)
           held == IF c = None THEN Zero ELSE c
<1>1. mode \in {"STOP", "FAST", "BALANCE", "SURPLUS"}
  <2>1. world.soc \in Soc /\ core.mode \in {"STOP", "FAST", "BALANCE", "SURPLUS"}
        BY DEF Typed, Controllers
  <2> QED BY <2>1, PolicyType
<1>2. core \in Controllers /\ Counted(core)
      BY DEF Typed
<1>3. /\ chosen \in Controllers /\ Counted(chosen)
      /\ chosen.up = core.up /\ chosen.startup = core.startup /\ chosen.mode = mode
  <2> HIDE DEF mode
  <2> QED BY <1>1, <1>2 DEF Controllers, Counted
<1>4. held \in AllPoints
      BY DEF AllPoints
<1>5. ~Another(c, held) /\ ~Another(c, Zero) /\ (c \notin {None, Zero} => held # Zero)
      BY DEF Another
<1>6. d \in CASE mode = "STOP" -> {[core |-> chosen, point |-> Zero]}
              [] mode # "STOP" /\ Pending -> {[core |-> chosen, point |-> held]}
              [] mode # "STOP" /\ ~Pending ->
                   IF Settling(timed) THEN {[core |-> timed, point |-> held]}
                   ELSE IF MinimumDischarge(timed, c)
                   THEN {[core |-> [timed EXCEPT !.mode = "STOP"], point |-> Zero]}
                   ELSE {Paced(timed, c, goal) : goal \in Goals(mode, c)}
      BY DEF Decisions
<1> HIDE DEF mode, chosen, held
<1>7. /\ timed \in Controllers /\ Counted(timed)
      /\ timed.up = Least(core.up + 1, Increase)
      /\ timed.startup = IF core.startup = None THEN None ELSE Least(core.startup + 1, Hold + 1)
      /\ timed.up = Timed(core).up /\ timed.startup = Timed(core).startup
      BY <1>2, <1>3, TimedForm
<1>8. Pending \in BOOLEAN
      BY DEF Pending
<1> HIDE DEF timed
<1>9. CASE mode = "STOP"
  <2>1. d.core = chosen /\ d.point = Zero
        BY <1>6, <1>9
  <2> QED BY <1>3, <1>5, <1>9, <2>1 DEF DecisionIs, Advanced, AllPoints, Changed
<1>10. CASE mode # "STOP" /\ Pending
  <2>1. d.core = chosen /\ d.point = held
        BY <1>6, <1>10
  <2> QED BY <1>3, <1>4, <1>5, <2>1 DEF DecisionIs, Advanced, Changed
<1>11. CASE mode # "STOP" /\ ~Pending /\ Settling(timed)
  <2>1. d.core = timed /\ d.point = held
        BY <1>6, <1>11
  <2> QED BY <1>4, <1>5, <1>7, <1>11, <2>1 DEF DecisionIs, Advanced, Changed
<1>12. CASE mode # "STOP" /\ ~Pending /\ ~Settling(timed) /\ MinimumDischarge(timed, c)
  <2>1. d.core = [timed EXCEPT !.mode = "STOP"] /\ d.point = Zero
        BY <1>6, <1>12
  <2>2. /\ d.core \in Controllers /\ Counted(d.core)
        /\ d.core.up = timed.up /\ d.core.startup = timed.startup
        /\ d.core.mode = "STOP"
        BY <1>7, <2>1 DEF Controllers, Counted
  <2> QED BY <1>5, <1>7, <1>12, <2>1, <2>2 DEF DecisionIs, Advanced, AllPoints, Changed
<1>13. CASE mode # "STOP" /\ ~Pending /\ ~Settling(timed) /\ ~MinimumDischarge(timed, c)
  <2>1. PICK goal \in Goals(mode, c) : d = Paced(timed, c, goal)
        BY <1>6, <1>13
  <2>2. mode \in {"FAST", "BALANCE", "SURPLUS"}
        BY <1>1, <1>13
  <2>3. Legal(c, goal)
        BY <1>2, <2>2, GoalsType
  <2>4. /\ d.point \in AllPoints
        /\ d.core \in Controllers /\ Counted(d.core)
        /\ d.core.up = timed.up /\ d.core.startup = timed.startup
        /\ Changed(c, d.point) => Stepped(timed, c, d.point)
        /\ c \notin {None, Zero} => d.point # Zero
        BY <1>2, <1>7, <2>1, <2>3, PacedForm
  <2>5. timed.startup = None \/ timed.startup > Hold
    <3>1. timed.startup \in Nat \cup {None}
          BY <1>7 DEF Controllers
    <3> QED BY <1>13, <3>1, Numbers DEF Settling
  <2>6. Advanced(core, d.core)
        BY <1>7, <2>4 DEF Advanced
  <2>7. Changed(c, d.point) => Stepped(d.core, c, d.point)
        BY <2>4 DEF Stepped
  <2> QED BY <1>7, <1>13, <2>4, <2>5, <2>6, <2>7 DEF DecisionIs
<1> QED BY <1>8, <1>9, <1>10, <1>11, <1>12, <1>13

-----------------------------------------------------------------------------
(* The inductive invariant: the controller's counters run no further ahead *)
(* than the time that has really passed, and a decision that awaits the    *)
(* journal is still the one that this moment would justify, unless an      *)
(* answer has overtaken a decision for zero.                               *)

Paceful ==
  /\ core.up <= Increase /\ core.up <= age.rise
  /\ core.startup = None => age.start > Hold
  /\ core.startup # None => core.startup <= Hold + 1 /\ core.startup <= age.start

Justified ==
  /\ Another(tick.seen, tick.point) => ~Pending /\ grid.held = tick.seen
  /\ Changed(tick.seen, tick.point) =>
       /\ core.startup = None \/ core.startup > Hold
       /\ Stepped(core, tick.seen, tick.point)
  /\ tick.seen \notin {None, Zero} /\ tick.point = Zero => Urgent

Awaited == tick # None => Justified

Regular == Typed /\ Paceful /\ Awaited

LEMMA NewGridForm ==
  /\ NewGrid \in Grids /\ Resolved(NewGrid) /\ NewGrid.status = "settled"
  /\ [NewGrid EXCEPT !.held = Zero] \in Grids
  /\ Resolved([NewGrid EXCEPT !.held = Zero])
BY DEF NewGrid, Grids, Resolved, AllPoints

LEMMA InitRegular == ASSUME Init PROVE Regular
<1>1. NewCore \in Controllers /\ Counted(NewCore) /\ NewCore.up = 0 /\ NewCore.startup = None
      BY DEF NewCore, Controllers, Counted
<1>2. Zero \in AllPoints
      BY DEF AllPoints
<1>3. battery \in BOOLEAN /\ world \in [surplus: Surpluses, soc: Soc, vehicle: Vehicles]
      BY LoopAssumption DEF Init, Soc, Middle
<1>4. /\ grid \in Grids /\ Resolved(grid)
      /\ station \in [offer: AllPoints, locked: BOOLEAN]
      BY <1>2, NewGridForm DEF Init
<1>5. /\ age = [rise |-> Increase, start |-> Hold + 1] /\ core = NewCore
      /\ tick = None /\ ops \in Nat
      BY DEF Init
<1>8. age \in [rise: Nat, start: Nat]
      BY <1>5, Numbers
<1>6. Typed
      BY <1>1, <1>3, <1>4, <1>5, <1>8 DEF Typed
<1>7. Paceful
      BY <1>1, <1>5, Numbers DEF Paceful
<1> QED BY <1>5, <1>6, <1>7 DEF Regular, Awaited

(* Time that passes, cut off where nothing depends on it any more. *)
LEMMA OlderForm ==
  ASSUME NEW n \in Nat
  PROVE  /\ Older(n) \in Nat
         /\ \A m \in Nat : m <= n /\ m <= Hold + Increase + 1 => m <= Older(n)
         /\ \A m \in Nat : m <= n + 1 /\ m <= Hold + Increase + 1 => m <= Older(n)
BY Numbers DEF Older, Least

(* The counters of Paceful and the ages, as numbers. *)
LEMMA Ages ==
  ASSUME Regular
  PROVE  /\ age.rise \in Nat /\ age.start \in Nat /\ core.up \in Nat
         /\ core.startup \in Nat \cup {None}
         /\ core \in Controllers /\ Counted(core)
BY DEF Regular, Typed, Controllers

(* A decision, and what it saw of the offer. *)
LEMMA DecideForm ==
  ASSUME Regular, Decide
  PROVE  \E c, d :
           /\ c \in {grid.held, None} /\ DecisionIs(d, c) /\ core' = d.core
           /\ tick' = [point |-> d.point, seen |-> c]
           /\ c = grid.held \/ Pending
<1>1. PICK c \in {grid.held} \cup (IF grid.status = "busy" THEN {None} ELSE {}) :
        \E d \in Decisions(core, c, Pending) :
          core' = d.core /\ tick' = [point |-> d.point, seen |-> c]
      BY DEF Decide
<1>2. PICK d \in Decisions(core, c, Pending) :
        core' = d.core /\ tick' = [point |-> d.point, seen |-> c]
      BY <1>1
<1>3. c \in AllPoints \cup {None} /\ c \in {grid.held, None} /\ (c = grid.held \/ Pending)
      BY <1>1 DEF Regular, Typed, Grids, Pending
<1>4. DecisionIs(d, c)
      BY <1>3, DecisionForm DEF Regular
<1> QED BY <1>2, <1>3, <1>4

LEMMA DecideRegular == ASSUME Regular, Decide PROVE Regular'
<1>0. PICK c, d :
        /\ c \in {grid.held, None} /\ DecisionIs(d, c) /\ core' = d.core
        /\ tick' = [point |-> d.point, seen |-> c]
        /\ c = grid.held \/ Pending
      BY DecideForm
<1>1. /\ age.rise \in Nat /\ age.start \in Nat /\ core.up \in Nat
      /\ core.startup \in Nat \cup {None}
      BY Ages
<1>2. core' \in Controllers /\ Counted(core)'
      BY <1>0 DEF DecisionIs, Counted
<1>3. age' = IF Pending THEN age
             ELSE [rise |-> Older(age.rise), start |-> Older(age.start)]
      BY DEF Decide
<1>4. age' \in [rise: Nat, start: Nat]
      BY <1>1, <1>3, OlderForm DEF Regular, Typed
<1>5. tick' \in Ticks /\ tick'.point = d.point /\ tick'.seen = c
  <2>1. c \in AllPoints \cup {None} /\ d.point \in AllPoints
        BY <1>0 DEF Regular, Typed, DecisionIs, Grids
  <2> QED BY <1>0, <2>1 DEF Ticks
<1>6. Typed'
      BY <1>2, <1>4, <1>5 DEF Regular, Typed, Decide, Resolved
<1>a. Awaited'
  <2>1. grid' = grid
        BY DEF Decide
  <2>2. Pending' <=> Pending
        BY <2>1 DEF Pending
  <2>3. Another(c, d.point) => ~Pending' /\ grid'.held = c
        BY <1>0, <2>1, <2>2 DEF DecisionIs
  <2>4. Changed(c, d.point) =>
          /\ core'.startup = None \/ core'.startup > Hold
          /\ Stepped(core', c, d.point)
        BY <1>0 DEF DecisionIs
  <2>5. c \notin {None, Zero} /\ d.point = Zero => Urgent'
        BY <1>0 DEF DecisionIs, Urgent
  <2> QED BY <1>5, <2>3, <2>4, <2>5 DEF Awaited, Justified, Another, Changed, Stepped
<1>7. CASE Pending
  <2>1. core'.up = core.up /\ core'.startup = core.startup /\ age' = age
        BY <1>0, <1>3, <1>7 DEF DecisionIs
  <2> QED BY <1>6, <1>a, <2>1 DEF Regular, Paceful
<1>8. CASE ~Pending
  <2>1. age'.rise = Older(age.rise) /\ age'.start = Older(age.start)
        BY <1>3, <1>8
  <2>2. /\ core'.up \in {core.up, Least(core.up + 1, Increase)}
        /\ core'.startup \in {core.startup, IF core.startup = None THEN None
                                            ELSE Least(core.startup + 1, Hold + 1)}
        BY <1>0 DEF DecisionIs, Advanced
  <2>3. core'.up <= Increase /\ core'.up <= age'.rise
    <3>1. /\ core'.up \in Nat /\ core'.up <= Increase /\ core'.up <= age.rise + 1
          BY <1>1, <2>2, Numbers DEF Least, Regular, Paceful
    <3>2. core'.up <= Hold + Increase + 1
          BY <3>1, Numbers
    <3> QED BY <1>1, <2>1, <3>1, <3>2, OlderForm
  <2>4. CASE core.startup = None
    <3>1. core'.startup = None
          BY <2>2, <2>4
    <3>2. Hold + 1 <= age.start /\ Hold + 1 <= Hold + Increase + 1 /\ Hold + 1 \in Nat
          BY <1>1, <2>4, Numbers DEF Regular, Paceful
    <3>3. Hold + 1 <= age'.start
          BY <1>1, <2>1, <3>2, OlderForm
    <3>4. age'.start > Hold
          BY <1>1, <2>1, <3>3, Numbers, OlderForm
    <3> QED BY <1>6, <1>a, <2>3, <3>1, <3>4 DEF Regular, Paceful
  <2>5. CASE core.startup # None
    <3>1. core.startup \in Nat /\ core.startup <= Hold + 1 /\ core.startup <= age.start
          BY <1>1, <2>5 DEF Regular, Paceful
    <3>2. /\ core'.startup \in Nat /\ core'.startup <= Hold + 1
          /\ core'.startup <= age.start + 1 /\ core'.startup <= Hold + Increase + 1
          BY <1>1, <2>2, <2>5, <3>1, Numbers DEF Least
    <3>3. core'.startup <= age'.start
          BY <1>1, <2>1, <3>2, OlderForm
    <3>4. core'.startup # None
          BY <3>2, CapsAssumption
    <3> QED BY <1>6, <1>a, <2>3, <3>2, <3>3, <3>4 DEF Regular, Paceful
  <2> QED BY <2>4, <2>5
<1> QED BY <1>7, <1>8

(* What the station offers once it has taken a point. *)
LEMMA OffersType ==
  ASSUME Typed, NEW p \in AllPoints
  PROVE  Offers(p) \in [offer: AllPoints, locked: BOOLEAN]
<1>1. (station.locked \/ Switches(p)) \in BOOLEAN
      BY DEF Switches
<1> QED BY <1>1 DEF Offers

(* A decision that awaits the journal stays justified while the answer of  *)
(* a request comes: with one under way, it is for zero or for the point    *)
(* seen.                                                                   *)
LEMMA AwaitedStays ==
  ASSUME Regular, tick' = tick, core'.mode = core.mode,
         Pending \/ (~Pending' /\ grid'.held = grid.held /\ core' = core)
  PROVE  Awaited'
<1>1. tick # None => Justified
      BY DEF Regular, Awaited
<1>2. ASSUME tick # None PROVE Justified'
  <2>1. tick.seen \notin {None, Zero} /\ tick.point = Zero => Urgent'
        BY <1>1, <1>2 DEF Justified, Urgent
  <2>2. CASE Pending
    <3>1. ~Another(tick.seen, tick.point)
          BY <1>1, <1>2, <2>2 DEF Justified
    <3> QED BY <2>1, <3>1 DEF Justified, Another, Changed
  <2>3. CASE ~Pending' /\ grid'.held = grid.held /\ core' = core
        BY <1>1, <1>2, <2>1, <2>3 DEF Justified, Another, Changed, Stepped
  <2> QED BY <2>2, <2>3
<1> QED BY <1>2 DEF Awaited

(* A request for a point of the station is well-formed. *)
LEMMA RequestsForm ==
  ASSUME Typed, NEW p \in AllPoints
  PROVE  /\ Requests(p) \in Grids /\ Resolved(Requests(p))
         /\ [Requests(p) EXCEPT !.held = None] \in Grids
         /\ Resolved([Requests(p) EXCEPT !.held = None])
         /\ Requests(p).status = "busy" /\ Requests(p).requested = p
BY DEF Typed, Requests, Grids, Resolved

(* What a station may do with a request whose answer is lost. *)
LEMMA AfterwardsType ==
  ASSUME Regular
  PROVE  Afterwards \subseteq [offer: AllPoints, locked: BOOLEAN]
<1>1. grid.status = "busy" => Offers(grid.requested) \in [offer: AllPoints, locked: BOOLEAN]
      BY OffersType DEF Regular, Typed, Resolved
<1>2. station \in [offer: AllPoints, locked: BOOLEAN]
      BY DEF Regular, Typed
<1> QED BY <1>1, <1>2 DEF Afterwards

(* What a tick submits: nothing, or its point, or zero for a stop. *)
LEMMA SubmitRegular == ASSUME Regular, Submit PROVE Regular'
<1>1. tick \in Ticks /\ tick.point \in AllPoints /\ Zero \in AllPoints /\ Typed
      BY DEF Submit, Regular, Typed, Ticks, AllPoints
<1>2. grid \in Grids /\ Resolved(grid) /\ station \in [offer: AllPoints, locked: BOOLEAN]
      BY <1>1 DEF Typed
<1>3. /\ Requests(Zero) \in Grids /\ Resolved(Requests(Zero))
      /\ Requests(tick.point) \in Grids /\ Resolved(Requests(tick.point))
      /\ [Requests(Zero) EXCEPT !.held = None] \in Grids
      /\ Resolved([Requests(Zero) EXCEPT !.held = None])
      BY <1>1, RequestsForm
<1>4. [grid EXCEPT !.status = "settled"] \in Grids /\ Resolved([grid EXCEPT !.status = "settled"])
      BY <1>2 DEF Grids, Resolved
<1>5. \/ grid' \in {grid, Requests(tick.point)} /\ station' = station
      \/ Supersedes
      BY DEF Submit
<1>6. grid' \in Grids /\ Resolved(grid)' /\ station' \in [offer: AllPoints, locked: BOOLEAN]
  <2>1. CASE grid' \in {grid, Requests(tick.point)} /\ station' = station
        BY <1>2, <1>3, <2>1
  <2>2. CASE Supersedes
    <3>1. /\ grid' \in {grid, [grid EXCEPT !.status = "settled"], Requests(Zero),
                        [Requests(Zero) EXCEPT !.held = None]}
          /\ station' \in {station} \cup Afterwards
          BY <2>2 DEF Supersedes
    <3> QED BY <1>2, <1>3, <1>4, <3>1, AfterwardsType
  <2> QED BY <1>5, <2>1, <2>2
<1>7. UNCHANGED <<battery, world, core, ops, age>> /\ tick' = None
      BY DEF Submit
<1>8. Typed'
      BY <1>1, <1>6, <1>7 DEF Typed, Counted
<1>9. Paceful'
      BY <1>7 DEF Regular, Paceful
<1> QED BY <1>7, <1>8, <1>9 DEF Regular, Awaited

LEMMA JournalRegular == ASSUME Regular, JournalFails PROVE Regular'
<1>1. Typed'
      BY DEF JournalFails, Spend, Regular, Typed, Counted, Resolved
<1>2. Paceful' /\ Awaited'
      BY DEF JournalFails, Regular, Paceful, Awaited
<1> QED BY <1>1, <1>2 DEF Regular

(* An accepted point keeps the pace: a rise and a start begin again. *)
LEMMA TakesRegular ==
  ASSUME Regular, Pending, NEW p \in AllPoints, NEW retry \in BOOLEAN, Takes(p, retry)
  PROVE  Regular'
<1>0. /\ age.rise \in Nat /\ age.start \in Nat /\ core.up \in Nat
      /\ core.startup \in Nat \cup {None} /\ core \in Controllers /\ Counted(core)
      BY Ages
<1>1. /\ p.watts \in Nat /\ station.offer \in AllPoints /\ station.offer.watts \in Nat
      /\ Zero.watts = 0
      BY WattsType DEF Regular, Typed, Zero
<1>2. station' \in [offer: AllPoints, locked: BOOLEAN]
      BY OffersType DEF Takes, Regular
<1>3. core' \in Controllers /\ Counted(core)'
  <2>1. core' = Sent(core, p, station.offer)
        BY DEF Takes
  <2> QED BY <1>0, <2>1 DEF Sent, Controllers, Counted
<1>4. /\ core'.up = IF p # Zero /\ (station.offer = None \/ p.watts > station.offer.watts)
                    THEN 0 ELSE core.up
      /\ core'.startup = CASE p = Zero -> None
                           [] p # Zero /\ station.offer = Zero -> 0
                           [] OTHER -> core.startup
      BY <1>0 DEF Takes, Sent, Controllers
<1>5. /\ age' \in [rise: Nat, start: Nat]
      /\ age'.rise = IF p.watts > station.offer.watts THEN 0 ELSE age.rise
      /\ age'.start = CASE p = Zero -> Hold + 1
                        [] p # Zero /\ station.offer = Zero -> 0
                        [] OTHER -> age.start
      BY <1>0, Numbers DEF Takes
<1>6. grid' \in Grids /\ Resolved(grid)'
      BY DEF Takes, Regular, Typed, Grids, Resolved
<1>a. Awaited'
  <2>1. core'.mode = core.mode /\ tick' = tick
        BY <1>0 DEF Takes, Sent, Controllers
  <2> QED BY <2>1, AwaitedStays
<1>7. Typed'
      BY <1>2, <1>3, <1>5, <1>6 DEF Takes, Regular, Typed
<1>8. core'.up <= Increase /\ core'.up <= age'.rise
  <2>1. CASE p.watts > station.offer.watts
    <3>1. p # Zero
          BY <1>1, <2>1
    <3> QED BY <1>4, <1>5, <2>1, <3>1, Numbers
  <2>2. CASE ~(p.watts > station.offer.watts)
        BY <1>0, <1>4, <1>5, <2>2, Numbers DEF Regular, Paceful
  <2> QED BY <2>1, <2>2
<1>9. CASE p = Zero
      BY <1>4, <1>5, <1>7, <1>8, <1>a, <1>9, Numbers DEF Regular, Paceful
<1>10. CASE p # Zero /\ station.offer = Zero
      BY <1>4, <1>5, <1>7, <1>8, <1>a, <1>10, Numbers, CapsAssumption DEF Regular, Paceful
<1>11. CASE p # Zero /\ station.offer # Zero
      BY <1>4, <1>5, <1>7, <1>8, <1>a, <1>11 DEF Regular, Paceful
<1> QED BY <1>9, <1>10, <1>11

(* The other actions leave the pace alone or begin it again. *)
LEMMA AnswersRegular == ASSUME Regular, Answers PROVE Regular'
<1>1. /\ Known \in Grids /\ Resolved(Known)
      /\ \A b \in BOOLEAN :
           [Known EXCEPT !.retry = b] \in Grids /\ Resolved([Known EXCEPT !.retry = b])
      BY DEF Known, Regular, Typed, Grids, Resolved
<1>2. ASSUME NEW g \in Grids, Resolved(g), Observes(g), UNCHANGED ops, Pending
      PROVE  Regular'
  <2>1. Awaited'
        BY <1>2, AwaitedStays DEF Observes
  <2> QED BY <1>2, <2>1 DEF Observes, Regular, Typed, Paceful, Counted
<1>3. /\ grid.status = "busy" => grid.requested \in AllPoints /\ Pending
      /\ grid.status = "uncertain" => Pending
      BY DEF Regular, Typed, Resolved, Pending
<1>4. CASE Accepted
  <2>1. CASE grid.requested = station.offer
        BY <1>1, <1>2, <1>3, <1>4, <2>1 DEF Accepted
  <2>2. CASE grid.requested # station.offer
    <3>1. Takes(grid.requested, FALSE) /\ grid.requested \in AllPoints /\ Pending
          BY <1>3, <1>4, <2>2 DEF Accepted
    <3> QED BY <3>1, TakesRegular
  <2> QED BY <2>1, <2>2
<1>5. CASE LockedOut
  <2> DEFINE n == station.offer.phases
             temporary == IF n \in Enabled THEN Lowest(PointsOf(n)) ELSE Zero
  <2>1. temporary \in AllPoints
    <3>1. n \in Enabled => Lowest(PointsOf(n)) \in Positive
      <4>1. n \in Enabled => PointsOf(n) # {} /\ PointsOf(n) \in SUBSET Positive
            BY ModeHasPoints
      <4> QED BY <4>1, LowestIsMember
    <3> QED BY <3>1 DEF AllPoints
  <2>2. \/ Observes([Known EXCEPT !.retry = TRUE]) /\ UNCHANGED ops
        \/ Takes(temporary, TRUE)
        BY <1>5 DEF LockedOut
  <2>p. Pending
        BY <1>3, <1>5 DEF LockedOut
  <2> HIDE DEF temporary
  <2>3. CASE Takes(temporary, TRUE)
        BY <2>1, <2>3, <2>p, TakesRegular
  <2> QED BY <1>1, <1>2, <2>2, <2>3, <2>p
<1>6. CASE Read
      BY <1>1, <1>2, <1>3, <1>6 DEF Read
<1> QED BY <1>4, <1>5, <1>6 DEF Answers

LEMMA FaultsRegular ==
  ASSUME Regular, Rejected \/ TimedOut \/ LockoutEnds \/ NewContext \/ Changes
  PROVE  Regular'
<1>1. ops \in Nat /\ (Spend => ops' \in Nat)
      BY DEF Regular, Typed, Spend
<1>p. grid.status = "busy" => Pending
      BY DEF Pending
<1>2. CASE Rejected
  <2> DEFINE g == [Known EXCEPT !.status = "rejected"]
  <2>1. g \in Grids /\ Resolved(g)
        BY DEF Known, Regular, Typed, Grids, Resolved
  <2>2. grid' = g /\ UNCHANGED <<battery, world, station, core, tick, age>> /\ Pending /\ Spend
        BY <1>2, <1>p DEF Rejected, Observes
  <2> HIDE DEF g
  <2>3. Awaited'
        BY <2>2, AwaitedStays
  <2> QED BY <1>1, <2>1, <2>2, <2>3 DEF Regular, Typed, Paceful, Counted
<1>3. CASE TimedOut
  <2>1. station' \in [offer: AllPoints, locked: BOOLEAN]
        BY <1>3, AfterwardsType DEF TimedOut
  <2>2. grid' \in Grids /\ Resolved(grid)'
        BY <1>3 DEF TimedOut, Regular, Typed, Grids, Resolved
  <2>3. Awaited'
        BY <1>3, <1>p, AwaitedStays DEF TimedOut
  <2> QED BY <1>1, <1>3, <2>1, <2>2, <2>3 DEF TimedOut, Regular, Typed, Paceful, Counted
<1>4. CASE LockoutEnds
  <2>1. /\ grid' \in Grids /\ Resolved(grid)' /\ grid'.status = grid.status
        /\ grid'.held = grid.held
        BY <1>4 DEF LockoutEnds, Regular, Typed, Grids, Resolved
  <2>2. Awaited'
    <3>1. Pending' <=> Pending
          BY <2>1 DEF Pending
    <3> QED BY <1>4, <2>1, <3>1, AwaitedStays DEF LockoutEnds
  <2> QED BY <1>4, <2>1, <2>2 DEF LockoutEnds, Regular, Typed, Paceful, Counted
<1>5. CASE NewContext
  <2>1. station' \in [offer: AllPoints, locked: BOOLEAN]
        BY <1>5, AfterwardsType DEF NewContext
  <2>2. /\ core' = NewCore /\ NewCore \in Controllers /\ Counted(NewCore)
        /\ NewCore.up = 0 /\ NewCore.startup = None
        BY <1>5 DEF NewContext, NewCore, Controllers, Counted
  <2>3. /\ age' \in [rise: Nat, start: Nat] /\ age'.start = Hold + 1
        BY <1>5, Numbers DEF NewContext, Regular, Typed
  <2>4. grid' = NewGrid /\ tick' = None /\ UNCHANGED <<battery, world>> /\ Spend
        BY <1>5 DEF NewContext
  <2>5. Typed'
        BY <1>1, <2>1, <2>2, <2>3, <2>4, NewGridForm DEF Regular, Typed, Counted
  <2>6. Paceful' /\ Awaited'
        BY <2>2, <2>3, <2>4, Numbers DEF Paceful, Awaited
  <2> QED BY <2>5, <2>6 DEF Regular
<1>6. CASE Changes
  <2>1. world' \in [surplus: Surpluses, soc: Soc, vehicle: Vehicles]
        BY <1>6 DEF Changes, Regular, Typed
  <2>2. UNCHANGED <<battery, station, core, grid, tick, age>> /\ Spend
        BY <1>6 DEF Changes
  <2>3. Awaited'
    <3>1. Pending' <=> Pending
          BY <2>2 DEF Pending
    <3> QED BY <2>2, <3>1, AwaitedStays
  <2> QED BY <1>1, <2>1, <2>2, <2>3 DEF Regular, Typed, Paceful, Counted
<1> QED BY <1>2, <1>3, <1>4, <1>5, <1>6

LEMMA StepRegular == ASSUME Regular, [Next]_vars PROVE Regular'
<1>1. CASE Next
      BY <1>1, DecideRegular, SubmitRegular, JournalRegular, AnswersRegular, FaultsRegular
      DEF Next
<1>2. CASE UNCHANGED vars
  <2>1. Pending' <=> Pending
        BY <1>2 DEF vars, Pending
  <2>2. Awaited'
        BY <1>2, <2>1, AwaitedStays DEF vars
  <2> QED BY <1>2, <2>2 DEF vars, Regular, Typed, Paceful, Counted
<1> QED BY <1>1, <1>2

(* Whatever is measured, rejected, lost or locked out, the controller,     *)
(* what is held and what is requested are of their types: every offer is a *)
(* point of the station that the user's limits allow, the controller's     *)
(* counters never run ahead of the time that has passed, and a decision    *)
(* for another positive point outlives the await of the journal only while *)
(* the offer it saw is held and nothing is under way.                      *)
THEOREM RegulationInvariant == Spec => []Regular
<1>1. Init => Regular
      BY InitRegular
<1>2. Regular /\ [Next]_vars => Regular'
      BY StepRegular
<1> QED BY <1>1, <1>2, PTL DEF Spec

-----------------------------------------------------------------------------
(* What is requested, and when *)

(* A known charging offer is given up for zero only by a STOP of the       *)
(* controller, or by a tick that decided while a request was on the wire   *)
(* and did not know the offer: its journal outlasts the answer, and submit *)
(* puts the zero to a station that charges.  Regulation that knows the     *)
(* offer never does so, however little power is left (tick, submit,        *)
(* regulation_target).                                                     *)
EndsByStop ==
  [][/\ Proposes /\ grid.held \notin {None, Zero} /\ grid'.requested = Zero
     => Urgent \/ Overtaken]_vars

(* Only submit makes a request, and it requests the point of the tick. *)
LEMMA ProposesForm ==
  ASSUME [Next]_vars, Proposes, Regular
  PROVE  /\ Submit /\ tick # None /\ grid'.requested = tick.point
         /\ UNCHANGED <<core, age>>
         /\ grid.status # "uncertain" => tick.point # tick.seen
<1>0. grid \in Grids /\ Typed /\ grid.status # "busy" /\ grid'.status = "busy"
      BY DEF Regular, Typed, Proposes
<1>1. CASE Decide \/ JournalFails
      BY <1>0, <1>1 DEF Decide, JournalFails
<1>2. CASE Answers
  <2>1. ~Accepted /\ ~LockedOut
        BY <1>0 DEF Accepted, LockedOut
  <2> QED BY <1>0, <1>2, <2>1 DEF Answers, Read, Observes, Known, Grids
<1>3. CASE Rejected \/ TimedOut \/ LockoutEnds \/ Changes
      BY <1>0, <1>3 DEF Rejected, TimedOut, LockoutEnds, Changes, Grids
<1>4. CASE NewContext
      BY <1>0, <1>4, NewGridForm DEF NewContext
<1>5. CASE UNCHANGED vars
      BY <1>0, <1>5 DEF vars
<1>6. CASE Submit
  <2>1. /\ tick # None /\ UNCHANGED <<core, age>>
        /\ grid' = IF Refrains THEN grid ELSE Requests(tick.point)
        BY <1>0, <1>6 DEF Submit
  <2>2. ~Refrains /\ grid' = Requests(tick.point)
        BY <1>0, <2>1
  <2>3. tick.point \in AllPoints
        BY <2>1 DEF Regular, Typed, Ticks
  <2>4. grid'.requested = tick.point
        BY <1>0, <2>2, <2>3, RequestsForm
  <2> QED BY <1>6, <2>1, <2>2, <2>4 DEF Refrains
<1> QED BY <1>1, <1>2, <1>3, <1>4, <1>5, <1>6 DEF Next

LEMMA StepCadence ==
  ASSUME Regular, [Next]_vars, Alters
  PROVE  /\ age'.start > Hold
         /\ grid'.requested.watts > grid.held.watts =>
              /\ grid'.requested = Navigate(Display(grid.held), grid.held.phases, 1)
              /\ age'.rise >= Increase
<1>1. Proposes /\ grid.held \notin {None, Zero} /\ grid'.requested # Zero
      BY DEF Alters
<1>2. /\ tick # None /\ grid'.requested = tick.point /\ age' = age
      /\ grid.status # "uncertain" => tick.point # tick.seen
      BY <1>1, ProposesForm
<1>3. grid.status # "uncertain"
      BY <1>1 DEF Regular, Typed, Resolved
<1>4. Justified /\ Another(tick.seen, tick.point)
      BY <1>1, <1>2, <1>3 DEF Regular, Awaited, Another
<1>5. grid.held = tick.seen /\ Changed(tick.seen, tick.point)
      BY <1>1, <1>4 DEF Justified, Changed
<1>6. /\ core.startup = None \/ core.startup > Hold
      /\ Stepped(core, grid.held, tick.point)
      BY <1>4, <1>5 DEF Justified
<1>7. /\ core.up <= Increase /\ core.up <= age.rise
      /\ core.startup = None => age.start > Hold
      /\ core.startup # None => core.startup <= age.start
      BY DEF Regular, Paceful
<1>8. /\ age.rise \in Nat /\ age.start \in Nat /\ core.up \in Nat
      /\ core.startup \in Nat \cup {None}
      BY Ages
<1>9. age.start > Hold
      BY <1>6, <1>7, <1>8, Numbers
<1>10. tick.point.watts > grid.held.watts =>
         /\ tick.point = Navigate(Display(grid.held), grid.held.phases, 1)
         /\ age.rise >= Increase
      BY <1>6, <1>7, <1>8, Numbers DEF Stepped
<1> QED BY <1>2, <1>9, <1>10

(* A known charging offer is changed only after the hold of the last       *)
(* accepted start, and raised only by one step, a full interval of         *)
(* resolved ticks after the last rise, whatever the station rejects, locks *)
(* or loses and however long the journal takes (Controller.decide,         *)
(* Controller.sent, tick, submit).                                         *)
THEOREM CadenceHolds == Spec => Cadence
<1>1. Regular /\ [Next]_vars =>
        [Alters =>
           /\ age'.start > Hold
           /\ grid'.requested.watts > grid.held.watts =>
                /\ grid'.requested = Navigate(Display(grid.held), grid.held.phases, 1)
                /\ age'.rise >= Increase]_vars
      BY StepCadence
<1> QED BY <1>1, RegulationInvariant, PTL DEF Spec, Cadence

(* Regulation that knows the offer never ends charging: regulation_target  *)
(* and the bias of BALANCE keep a positive point, so that a zero put to a  *)
(* known charging offer is a STOP, or was decided when the offer was not   *)
(* known and has been overtaken by the answer while the journal was        *)
(* written.                                                                *)
THEOREM EndsByStopHolds == Spec => EndsByStop
<1>1. Regular /\ [Next]_vars =>
        [/\ Proposes /\ grid.held \notin {None, Zero} /\ grid'.requested = Zero
         => Urgent \/ Overtaken]_vars
  <2> SUFFICES ASSUME Regular, [Next]_vars, Proposes, grid.held \notin {None, Zero},
                      grid'.requested = Zero
               PROVE  Urgent \/ Overtaken
      OBVIOUS
  <2>1. /\ tick # None /\ tick.point = Zero
        /\ grid.status # "uncertain" => tick.point # tick.seen
        BY ProposesForm
  <2>2. tick.point # tick.seen
        BY <2>1 DEF Regular, Typed, Resolved
  <2>3. CASE tick.seen = None
        BY <2>1, <2>3 DEF Overtaken
  <2>4. CASE tick.seen # None
    <3>1. Justified /\ tick.seen \notin {None, Zero}
          BY <2>1, <2>2, <2>4 DEF Regular, Awaited
    <3> QED BY <2>1, <3>1 DEF Justified
  <2> QED BY <2>3, <2>4
<1> QED BY <1>1, RegulationInvariant, PTL DEF Spec, EndsByStop

=============================================================================
