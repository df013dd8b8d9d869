---------------------------- MODULE MCPVEconomy ----------------------------
EXTENDS PVEconomy, TLC

CONSTANTS surplus, optimum

(* Two PV profiles, so that one can be changed for another.  Nothing       *)
(* distinguishes them here.                                                *)
MCProfiles == {surplus, optimum}
Alike == Permutations(MCProfiles)

=============================================================================
