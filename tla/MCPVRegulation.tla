------------------------- MODULE MCPVRegulation -------------------------
EXTENDS PVRegulation, TLC

(* One phase at 6 to 18 A in steps of 2 and three phases at 6 and 8 A:     *)
(* the series overlap at 4140 W, and a limit of 9 A is between two steps.  *)
MCDiagnostics == [minimum |-> 6, maximum |-> 20, asymmetry |-> 18, step |-> 2]
MCModes == {1, 3}
MCCaps == 1 :> None @@ 3 :> 9

(* Below every point, between two, between the last one on one phase and   *)
(* the first on three, and beyond the overlap. *)
MCSurpluses == {-500, 1800, 3900, 5200}

(* What the functions of Envelope promise, for every power that can be     *)
(* entered: tenths of a kilowatt, up to beyond the highest point.          *)
Wanted == {100 * n : n \in 1..60}
Directions == {"down", "up", "nearest"}
Top == Display(Highest(Positive))

(* A power is never exceeded downwards, never missed upwards unless no     *)
(* point of the series reaches it, and no point of the series is nearer.   *)
ASSUME ResolvesInDirection ==
  \A watts \in Wanted, ongoing \in {None} \cup Modes :
    /\ Display(Resolve(watts, "down", ongoing, None)) <= watts
    /\ LET p == Resolve(watts, "up", ongoing, None)
       IN  Display(p) < watts => \A q \in PointsOf(p.phases) : q.watts <= p.watts
    /\ LET p == Resolve(watts, "nearest", ongoing, None)
       IN  \A q \in PointsOf(Resolve(watts, "up", ongoing, None).phases) :
             Abs(Display(p) - watts) <= Abs(Display(q) - watts)

(* A running series is kept as long as it reaches; every point shown can   *)
(* be selected, also the one of two that show the same power.              *)
ASSUME ResolvesSeries ==
  /\ \A watts \in Wanted, n \in Enabled, direction \in Directions :
       Reaches(n, watts) => Resolve(watts, direction, n, None).phases \in {n, None}
  /\ \A p \in Positive, ongoing \in {None} \cup Modes, direction \in Directions :
       Resolve(Display(p), direction, ongoing, p.phases) = p

(* During a lockout the point on the held phases obeys the direction.      *)
ASSUME InterimObeys ==
  \A watts \in Wanted, n \in Modes :
    /\ Display(Interim(watts, n, "down")) <= watts
    /\ LET p == Interim(watts, n, "up") IN p # Zero => Display(p) >= watts

(* One step of navigation skips no point of the same series, and from zero *)
(* steps lead to the top and back to the least point.                      *)
ASSUME NavigatesMonotonically ==
  \A p \in Positive, direction \in {-1, 1} :
    LET q == Navigate(Display(p), p.phases, direction)
    IN  IF q = None
        THEN Display(p) \in {Top, Display(Lowest(Positive))}
        ELSE /\ (Display(q) - Display(p)) * direction > 0
             /\ \A r \in PointsOf(p.phases) :
                  (r.watts - p.watts) * direction > 0 =>
                    (r.watts - q.watts) * direction >= 0 /\ q.phases = p.phases

=============================================================================
