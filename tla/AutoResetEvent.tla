---------------------------- MODULE AutoResetEvent ----------------------------
(***************************************************************************)
(* What Event.hpp promises, and what TaskManager relies on (its signaled,  *)
(* Announce and Sleep): an event that one of the waiting threads resets as *)
(* it goes on.                                                             *)
(***************************************************************************)
CONSTANT Threads

VARIABLES signaled, waiting

TypeOK == signaled \in BOOLEAN /\ waiting \in [Threads -> BOOLEAN]

Init == signaled = FALSE /\ waiting = [th \in Threads |-> FALSE]

Set   == signaled' = TRUE  /\ UNCHANGED waiting
Reset == signaled' = FALSE /\ UNCHANGED waiting

Begin(th) ==
    /\ ~waiting[th]
    /\ waiting' = [waiting EXCEPT ![th] = TRUE]
    /\ UNCHANGED signaled

\* The thread goes on, and the event is unsignalled for everyone else.
Take(th) ==
    /\ signaled
    /\ signaled' = FALSE
    /\ waiting' = [waiting EXCEPT ![th] = FALSE]

\* Only a thread that has found the event unsignalled goes on without it.
GiveUp(th) ==
    /\ waiting[th] /\ ~signaled
    /\ waiting' = [waiting EXCEPT ![th] = FALSE]
    /\ UNCHANGED signaled

Next == Set \/ Reset \/ \E th \in Threads : Begin(th) \/ Take(th) \/ GiveUp(th)

Spec == Init /\ [][Next]_<<signaled, waiting>>

\* A signal is not slept through while somebody waits for it.
Delivery ==
    signaled /\ (\E th \in Threads : waiting[th])
        ~> (~signaled \/ \A th \in Threads : ~waiting[th])
=============================================================================
