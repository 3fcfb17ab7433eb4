----------------------------- MODULE MCScheduler -----------------------------
(* Model values for Scheduler. *)
EXTENDS Scheduler

CONSTANTS o1, o2, o3, null

TwoObjects   == {o1, o2}
ThreeObjects == {o1, o2, o3}
OneOrTwo     == {1, 2}
Always       == {1}
Interchangeable == Permutations({o1, o2, o3})
TwoAlike        == Permutations({o1, o2})
=============================================================================
