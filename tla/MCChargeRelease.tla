-------------------------- MODULE MCChargeRelease --------------------------
(* Small instances of ChargeRelease: two profiles, two powers, delays and   *)
(* durations of at most one unit, a window of one unit.                     *)
EXTENDS ChargeRelease, TLC

CONSTANTS Surplus, low, high

MCProfiles == {NETZ, Surplus}
MCPowers == {low, high}
MCDelays == {0, 1}
MCDurations == {1}

Symmetry == Permutations(Cards) \cup Permutations(MCPowers)

=============================================================================
