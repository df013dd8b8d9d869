-------------------------- MODULE MCBatteryReserve --------------------------
(* Constants for TLC: users set 1, 2 and 3; the step rounds 3 down, and a    *)
(* wish and a state of charge beyond the range of the entity.               *)
EXTENDS BatteryReserve

MCUserLevels == {1, 2, 3}
MCWishes == {2, 7}
MCSocs == {3, 6}
MCFeatures == AllFeatures \ {"stray"}
=============================================================================
