----------------------------- MODULE MCTracking -----------------------------
(* The tracker with three boxes, and solve() for any small matrix. *)
EXTENDS BlobTracker

CONSTANTS BenchSize, BenchCosts    \* the matrices solve() is tried with

MCBoxes == {<<0, 2>>, <<1, 4>>, <<5, 6>>}

(* Before any frame, or solve() called with any small matrix instead of one. *)
VARIABLE bench

Vars == <<trackerVars, busy, munkresVars, bench>>
Init ==
    /\ TrackerInit
    /\ \/ bench = FALSE /\ Nothing
       \/ bench = TRUE /\ \E m \in [Square(BenchSize) -> BenchCosts] : Entered(BenchSize, m)
Moves ==
    /\ \/ ~bench /\ Next
       \/ bench /\ Solving /\ UNCHANGED <<trackerVars, busy>>
    /\ UNCHANGED bench
Solves == Solving /\ UNCHANGED <<trackerVars, busy, bench>>
Spec == Init /\ [][Moves]_Vars /\ WF_Vars(Solves)
=============================================================================
