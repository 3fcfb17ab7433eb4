------------------------------- MODULE MCEvent -------------------------------
(* Model values for Event. *)
EXTENDS Event, TLC

CONSTANTS t1, t2, t3, nobody

TwoThreads   == {t1, t2}
ThreeThreads == {t1, t2, t3}
UpToASecond  == {1, 4}
OddLimits    == {2}
Interchangeable == Permutations({t1, t2, t3})
=============================================================================
