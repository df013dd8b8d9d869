-------------------------- MODULE MCSessionEvidence --------------------------
(* Constants for TLC. *)
EXTENDS SessionEvidence
=============================================================================
