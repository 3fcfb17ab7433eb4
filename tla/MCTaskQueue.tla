----------------------------- MODULE MCTaskQueue -----------------------------
(* Model values for TaskQueue. *)
EXTENDS TaskQueue, TLC

CONSTANTS owner, thief1, thief2, none

OneOwner    == {owner}
TwoPushers  == {owner, thief1}
OneThief    == {owner, thief1}
TwoThieves  == {owner, thief1, thief2}
Interchangeable == Permutations({thief1, thief2})
=============================================================================
