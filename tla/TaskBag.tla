------------------------------- MODULE TaskBag -------------------------------
(***************************************************************************)
(* What a worker's queue promises to the task manager: a task that was put *)
(* in is taken out at most once, by one thread, and (with Fairness) is     *)
(* taken out eventually.  Taking may fail at any time, in particular while *)
(* another thread is taking, so a failure says nothing about emptiness.    *)
(***************************************************************************)
CONSTANT Items

VARIABLES
    queued,     \* items put and not taken yet
    taken       \* items some thread has received

vars == <<queued, taken>>

Init == queued = {} /\ taken = {}

Put(x) ==
    /\ x \notin queued \cup taken
    /\ queued' = queued \cup {x}
    /\ taken'  = taken

Take(x) ==
    /\ x \in queued
    /\ queued' = queued \ {x}
    /\ taken'  = taken \cup {x}

Next == \E x \in Items : Put(x) \/ Take(x)

Spec == Init /\ [][Next]_vars

FairSpec == Spec /\ \A x \in Items : WF_vars(Take(x))
=============================================================================
