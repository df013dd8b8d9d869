--------------------------- MODULE MCGridDispatch ---------------------------
(* GridDispatch with two operating points, on different phases or not. *)
EXTENDS GridDispatch

MCPhases == {[amps |-> 10, phases |-> 1], [amps |-> 16, phases |-> 3]}
MCCurrents == {[amps |-> 10, phases |-> 3], [amps |-> 16, phases |-> 3]}
MCOwn == {[amps |-> 16, phases |-> 3]}
=============================================================================
