-------------------------- MODULE ReserveContract --------------------------
(***************************************************************************)
(* What the ownership of the home battery's reserve promises, whatever the *)
(* calls, confirmations, crashes and users in between: the program changes *)
(* the reserve only while the value it found is held durably, that value   *)
(* does not change while it is held, and it is not forgotten as long as    *)
(* the reserve shows an override of the program.                           *)
(***************************************************************************)
EXTENDS Integers

CONSTANTS Levels, NoLevel

VARIABLES value,  \* the reserve of the installation
          held,   \* the original value, in the durable journal
          ours    \* value is an override of the program

vars == <<value, held, ours>>

Init == value \in Levels /\ held = NoLevel /\ ~ours

UserSets(v) == value' = v /\ ours' \in BOOLEAN /\ (ours' => ours) /\ UNCHANGED held
Hold(v) == held = NoLevel /\ ~ours /\ held' = v /\ UNCHANGED <<value, ours>>
Override(v) == held # NoLevel /\ value' = v /\ ours' \in BOOLEAN /\ UNCHANGED held
Forget == held # NoLevel /\ ~ours /\ held' = NoLevel /\ UNCHANGED <<value, ours>>

Next == \/ Forget
        \/ \E v \in Levels : UserSets(v) \/ Hold(v) \/ Override(v)

Spec == Init /\ [][Next]_vars
=============================================================================
