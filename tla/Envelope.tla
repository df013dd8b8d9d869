------------------------------- MODULE Envelope -------------------------------
(***************************************************************************)
(* The operating points of a station (grid_point.py): what currents its    *)
(* diagnostics and the user's limits allow on which phases, and the maps   *)
(* from a wanted power to one of these points.  Currents and watts are     *)
(* integers; power is shown, entered and compared in steps of 100 W.       *)
(***************************************************************************)
EXTENDS Integers, FiniteSets, FiniteSetsExt

CONSTANTS
  Diagnostics, \* minimum, maximum, asymmetry and step of the current, in A
  Modes,       \* the phase counts the station supports
  Caps,        \* the user's limit for each of them, in A, or None
  None         \* "null"

NominalVoltage == 230

ASSUME ModesAssumption == Modes \subseteq 1..3
ASSUME DiagnosticsAssumption ==
  /\ Diagnostics \in [minimum: Nat \ {0}, maximum: Nat, asymmetry: Nat \ {0},
                      step: Nat \ {0}]
  /\ Diagnostics.maximum >= Diagnostics.minimum
ASSUME CapsAssumption == None \notin Int /\ Caps \in [Modes -> Int \cup {None}]

Abs(x) == IF x < 0 THEN -x ELSE x
Least(a, b) == IF a < b THEN a ELSE b

(* rounded_watts: half up, in steps of 100 W. *)
Rounded(watts) == ((watts + 50) \div 100) * 100

Zero == [amps |-> 0, phases |-> None, watts |-> 0]
Display(p) == Rounded(p.watts)                       \* display_watts

(* The user's limit of a mode, within what the station allows it. *)
Limited(n) ==
  LET ceiling == IF n = 3 THEN Diagnostics.maximum
                 ELSE Least(Diagnostics.maximum, Diagnostics.asymmetry)
      limit == IF Caps[n] = None THEN ceiling ELSE Least(Caps[n], ceiling)
  IN  IF limit < Diagnostics.minimum THEN 0 ELSE limit

(* Envelope.ranges: the modes with a positive point. *)
Enabled == {n \in Modes : Limited(n) > 0}

(* Envelope.points *)
PointsOf(n) ==
  {[amps |-> a, phases |-> n, watts |-> a * n * NominalVoltage] :
     a \in {b \in Diagnostics.minimum..Limited(n) :
              (b - Diagnostics.minimum) % Diagnostics.step = 0}}

Positive == UNION {PointsOf(n) : n \in Enabled}
AllPoints == Positive \cup {Zero}

(* The point of a set that is least under a lexicographic pair of numbers. *)
First(S, Key(_)) ==
  CHOOSE p \in S : \A q \in S :
    Key(p)[1] < Key(q)[1] \/ (Key(p)[1] = Key(q)[1] /\ Key(p)[2] <= Key(q)[2])

Lowest(S) == First(S, LAMBDA p : <<p.watts, p.phases>>)
Highest(S) == First(S, LAMBDA p : <<-p.watts, p.phases>>)

(* on_phase: the offer of one mode for a wanted power, zero included. *)
OnPhase(watts, n, direction) ==
  LET offers == PointsOf(n) \cup {Zero}
      above == {p \in PointsOf(n) : Display(p) >= watts}
  IN  CASE watts = 0 -> Zero
        [] watts # 0 /\ direction = "down" ->
             First({p \in offers : Display(p) <= watts}, LAMBDA p : <<-Display(p), 0>>)
        [] watts # 0 /\ direction = "up" ->
             IF above # {} THEN Lowest(above) ELSE Highest(PointsOf(n))
        [] watts # 0 /\ direction = "nearest" ->
             First(offers, LAMBDA p : <<Abs(Display(p) - watts), -Display(p)>>)

(* resolve: a running mode is kept while it reaches; else the lowest mode  *)
(* up to the middle of the gap, or of the overlap, to the next one.        *)
Reaches(n, watts) ==
  Display(Lowest(PointsOf(n))) <= watts /\ watts <= Display(Highest(PointsOf(n)))

Suffices(n, watts) ==
  \A m \in {k \in Enabled : k > n} :
    (\A k \in Enabled : k <= n \/ m <= k) =>
      2 * watts <= Display(Highest(PointsOf(n))) + Display(Lowest(PointsOf(m)))

Resolve(watts, direction, ongoing, selected) ==
  LET named == IF selected \in Enabled
               THEN {p \in PointsOf(selected) : Display(p) = watts} ELSE {}
      mode == IF ongoing \in Enabled /\ Reaches(ongoing, watts) THEN ongoing
              ELSE Min({n \in Enabled : Suffices(n, watts)})
  IN  IF watts = 0 THEN Zero
      ELSE IF named # {} THEN CHOOSE p \in named : TRUE
      ELSE OnPhase(watts, mode, direction)

(* interim: on the phases that are locked; never against the direction. *)
Interim(watts, n, direction) ==
  LET p == OnPhase(watts, n, direction)
  IN  IF \/ n \notin Enabled
         \/ direction = "up" /\ Display(p) < watts
         \/ direction = "down" /\ Display(p) > watts
      THEN Zero ELSE p

(* navigate: one strict step, on the same phases if there is one. *)
Navigate(watts, n, direction) ==
  LET Beyond(S) == {p \in S : (Display(p) - watts) * direction > 0}
      same == IF n \in Enabled THEN Beyond(PointsOf(n)) ELSE {}
      found == IF same # {} THEN same
               ELSE Beyond(UNION {PointsOf(m) : m \in Enabled \ {n}})
  IN  IF found = {} THEN None
      ELSE First(found, LAMBDA p : <<Abs(Display(p) - watts), p.phases>>)

(* regulation_target: PV stays at a series minimum until the next lower    *)
(* point of another series fits, and never falls to zero by itself.        *)
BelowSeries(watts, n) ==
  LET least == Lowest(PointsOf(n))
      lower == Navigate(Display(least), n, -1)
      fitting == {p \in Positive : p.watts <= watts /\ p.watts < least.watts}
  IN  IF lower = None \/ watts > lower.watts THEN least
      ELSE IF fitting # {} THEN Highest(fitting) ELSE Lowest(Positive)

Selected(watts) ==
  LET p == Resolve(watts, IF watts < Lowest(Positive).watts THEN "up" ELSE "nearest",
                   None, None)
  IN  IF p = Zero THEN Lowest(Positive) ELSE p

RegulationTarget(watts, current) ==
  LET ongoing == current \notin {None, Zero}
      same == IF ongoing /\ current.phases \in Enabled THEN PointsOf(current.phases) ELSE {}
      higher == Navigate(Display(Highest(same)), current.phases, 1)
  IN  CASE watts <= 0 -> IF ongoing THEN Lowest(Positive) ELSE Zero
        [] watts > 0 /\ same = {} -> Selected(watts)
        [] watts > 0 /\ same # {} ->
             IF watts < Lowest(same).watts THEN BelowSeries(watts, current.phases)
             ELSE IF watts <= Highest(same).watts
                  THEN First(same, LAMBDA p : <<Abs(p.watts - watts), -p.watts>>)
             ELSE IF higher = None \/ watts < higher.watts THEN Highest(same)
             ELSE Selected(watts)

=============================================================================
