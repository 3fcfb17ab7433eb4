----------------------------- MODULE MCTaskTree -----------------------------
(* Model values for TaskTree. *)
EXTENDS TaskTree

CONSTANTS w1, w2, main, none

OneWorker  == {w1}
TwoWorkers == {w1, w2}

=============================================================================
