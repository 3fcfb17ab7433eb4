---------------------------- MODULE MCParallelFor ----------------------------
(* Model values for ParallelFor. *)
EXTENDS ParallelFor

CONSTANTS w1, w2, main, none

OneWorker  == {w1}
TwoWorkers == {w1, w2}
=============================================================================
