---------------------------- MODULE MCTaskManager ----------------------------
(* Model values for TaskManager. *)
EXTENDS TaskManager, TLC

CONSTANTS main, w1, w2, a, b, aChild, nil

OneWorker   == {w1}
TwoWorkers  == {w1, w2}
TwoLeaves   == {a, b}
OneRoot     == {a}
NoForks     == {}
ForkA       == {a}
ChildOfA    == a :> aChild
NoChildren  == <<>>
=============================================================================
