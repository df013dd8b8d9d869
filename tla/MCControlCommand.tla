-------------------------- MODULE MCControlCommand --------------------------
(* Constants for TLC. *)
EXTENDS ControlCommand

MCStations == {{n} : n \in ROLES}
MCFeatures == AllFeatures
=============================================================================
