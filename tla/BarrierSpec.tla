----------------------------- MODULE BarrierSpec -----------------------------
(***************************************************************************)
(* What a barrier promises (spec 4.F barrier, 4.G Barrier): processes      *)
(* arrive one at a time and nobody leaves until all have arrived; then the *)
(* whole group leaves together.                                            *)
(***************************************************************************)
CONSTANTS Procs

VARIABLES inside    \* inside[p]: p has arrived and not yet left

Init == inside = [p \in Procs |-> FALSE]

Arrive(p) ==
    /\ ~inside[p]
    /\ inside' = [inside EXCEPT ![p] = TRUE]

LeaveAll ==
    /\ \A p \in Procs : inside[p]
    /\ inside' = [p \in Procs |-> FALSE]

Next == (\E p \in Procs : Arrive(p)) \/ LeaveAll

Spec == Init /\ [][Next]_inside
=============================================================================
