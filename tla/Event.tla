-------------------------------- MODULE Event --------------------------------
(***************************************************************************)
(* The POSIX implementation of Event (xrCore/Threading/Event.cpp): a flag  *)
(* under a mutex, a condition variable, and a timed wait whose deadline is *)
(* computed as seconds and nanoseconds.                                    *)
(*                                                                         *)
(* A critical section that ends in pthread_mutex_unlock or in a wait on    *)
(* the condition is one step.  The one that may not end is the timed wait  *)
(* with a deadline pthread_cond_timedwait refuses: it returns EINVAL with  *)
(* the mutex still held, and the loop calls it again (holder).             *)
(***************************************************************************)
EXTENDS Integers

CONSTANTS
    Threads,
    Nobody,
    Second,     \* nanoseconds in a second, 1000000000 in the code
    Timeouts,   \* time limits in nanoseconds, millisecondsTimeout * 1000000
    Start,      \* the time of the first call
    Step,       \* what the clock advances by
    LastTime    \* bound: time at which no more timed waits begin

ASSUME ClockIsNat ==
    /\ Second \in Nat \ {0} /\ Step \in Nat \ {0}
    /\ Start \in Nat /\ LastTime \in Nat
    /\ Timeouts \subseteq Nat
ASSUME NobodyIsNone == Nobody \notin Threads

VARIABLES
    signaled,
    pc,         \* where each thread is in Wait
    deadline,   \* what a timed wait hands to pthread_cond_timedwait
    due,        \* the time its caller asked for; no part of the code's state
    result,     \* what the thread's last Wait returned
    holder,     \* the thread that keeps the mutex
    now         \* CLOCK_REALTIME

vars == <<signaled, pc, deadline, due, result, holder, now>>

Never     == [sec |-> 0, nsec |-> -1]   \* the deadline of a wait without limit
Blocked   == {th \in Threads : pc[th] = "blocked"}

TypeOK ==
    /\ signaled \in BOOLEAN
    /\ pc \in [Threads -> {"out", "blocked", "awake", "expired", "spin"}]
    /\ deadline \in [Threads -> [sec : Nat, nsec : Nat] \cup {Never}]
    /\ due \in [Threads -> Nat]
    /\ result \in [Threads -> BOOLEAN]
    /\ holder \in Threads \cup {Nobody}
    /\ now \in Nat

Init ==
    /\ signaled = FALSE
    /\ pc = [th \in Threads |-> "out"]
    /\ deadline = [th \in Threads |-> Never]
    /\ due = [th \in Threads |-> 0]
    /\ result = [th \in Threads |-> TRUE]
    /\ holder = Nobody
    /\ now = Start

-----------------------------------------------------------------------------
\* pthread_cond_signal: one blocked thread, if there is one.
SignalsNobody == UNCHANGED pc
Signal ==
    IF Blocked = {} THEN UNCHANGED pc
    ELSE \E w \in Blocked : pc' = [pc EXCEPT ![w] = "awake"]

Set(th) ==
    /\ pc[th] = "out" /\ holder = Nobody
    /\ Signal
    /\ signaled' = TRUE
    /\ UNCHANGED <<deadline, due, result, holder, now>>

Reset(th) ==
    /\ pc[th] = "out" /\ holder = Nobody
    /\ Signal
    /\ signaled' = FALSE
    /\ UNCHANGED <<deadline, due, result, holder, now>>

\* What every Wait does at its end.
LeaveSignaled(th, r) ==
    /\ pc' = [pc EXCEPT ![th] = "out"]
    /\ result' = [result EXCEPT ![th] = r]
    /\ UNCHANGED signaled
Leave(th, r) ==
    /\ pc' = [pc EXCEPT ![th] = "out"]
    /\ result' = [result EXCEPT ![th] = r]
    /\ signaled' = FALSE

Block(th, at, until) ==
    /\ pc' = [pc EXCEPT ![th] = "blocked"]
    /\ deadline' = [deadline EXCEPT ![th] = at]
    /\ due' = [due EXCEPT ![th] = until]
    /\ UNCHANGED <<signaled, result, holder>>

Wait(th) ==
    /\ pc[th] = "out" /\ holder = Nobody
    /\ \/ signaled  /\ Leave(th, TRUE) /\ UNCHANGED <<deadline, due, holder>>
       \/ ~signaled /\ Block(th, Never, 0)
    /\ UNCHANGED now

\* The deadline of Wait(millisecondsTimeout): at most one second is carried,
\* and only when the nanoseconds are past it.
NeverCarries(t, ns) == [sec |-> t \div Second, nsec |-> (t % Second) + ns]
ForgetsSecond(t, ns) == [sec |-> t \div Second, nsec |-> ((t % Second) + ns) % Second]
DeadlineOf(t, ns) ==
    LET nsec == (t % Second) + ns
    IN  IF nsec > Second
        THEN [sec |-> t \div Second + 1, nsec |-> nsec - Second]
        ELSE [sec |-> t \div Second, nsec |-> nsec]

\* What pthread_cond_timedwait accepts
Valid(d) == d.nsec < Second

TimedWait(th, ns) ==
    /\ pc[th] = "out" /\ holder = Nobody
    /\ now <= LastTime
    /\ \/ signaled  /\ Leave(th, TRUE) /\ UNCHANGED <<deadline, due, holder>>
       \/ /\ ~signaled /\ Valid(DeadlineOf(now, ns))
          /\ Block(th, DeadlineOf(now, ns), now + ns)
       \/ /\ ~signaled /\ ~Valid(DeadlineOf(now, ns))
          /\ pc' = [pc EXCEPT ![th] = "spin"]
          /\ holder' = th
          /\ UNCHANGED <<signaled, deadline, due, result>>
    /\ UNCHANGED now

Past(d) == d # Never /\ now >= d.sec * Second + d.nsec

\* A wait on a condition may end without a signal.
Spurious(th) ==
    /\ pc[th] = "blocked" /\ ~Past(deadline[th])
    /\ pc' = [pc EXCEPT ![th] = "awake"]
    /\ UNCHANGED <<signaled, deadline, due, result, holder, now>>

\* pthread_cond_timedwait returns ETIMEDOUT.
Expire(th) ==
    /\ pc[th] = "blocked" /\ Past(deadline[th])
    /\ pc' = [pc EXCEPT ![th] = "expired"]
    /\ UNCHANGED <<signaled, deadline, due, result, holder, now>>

\* The thread has the mutex again and looks at the flag; a timed wait whose
\* deadline is past does not sleep again.
Look(th) ==
    /\ pc[th] = "awake" /\ holder = Nobody
    /\ \/ signaled  /\ Leave(th, TRUE)
       \/ /\ ~signaled
          /\ pc' = [pc EXCEPT ![th] = IF Past(deadline[th]) THEN "expired" ELSE "blocked"]
          /\ UNCHANGED <<signaled, result>>
    /\ UNCHANGED <<deadline, due, holder, now>>

\* After ETIMEDOUT the result is the flag, read under the mutex.
GiveUp(th) ==
    /\ pc[th] = "expired" /\ holder = Nobody
    /\ Leave(th, signaled)
    /\ UNCHANGED <<deadline, due, holder, now>>

\* Time passes while a timed wait can still see it, or another may begin.
Tick ==
    /\ \/ now <= LastTime
       \/ \E th \in Threads : pc[th] \notin {"out", "spin"} /\ due[th] > now
    /\ now' = now + Step
    /\ UNCHANGED <<signaled, pc, deadline, due, result, holder>>

-----------------------------------------------------------------------------
WaitStep(th) ==
    \/ Wait(th) \/ (\E ns \in Timeouts : TimedWait(th, ns))
    \/ Spurious(th) \/ Expire(th) \/ Look(th) \/ GiveUp(th)

Next == Tick \/ \E th \in Threads : Set(th) \/ Reset(th) \/ WaitStep(th)

Spec == Init /\ [][Next]_vars

\* Time passes, and threads whose wait is over get the mutex and go on.
Fairness ==
    /\ WF_vars(Tick)
    /\ \A th \in Threads : WF_vars(Expire(th)) /\ WF_vars(Look(th)) /\ WF_vars(GiveUp(th))

FairSpec == Spec /\ Fairness

-----------------------------------------------------------------------------
\* A wakeup is never lost: when the event is signalled and a thread sleeps on
\* the condition, some thread is on its way to look at the flag.
NoLostWakeup ==
    signaled /\ Blocked # {} => \E th \in Threads : pc[th] \in {"awake", "expired"}

\* A timed wait reports that it was in vain at its time limit or later, and
\* never although the event is signalled.
NeverEarly ==
    [][\A th \in Threads :
        pc[th] # "out" /\ pc'[th] = "out" /\ ~result'[th] =>
            /\ deadline[th] # Never /\ now >= due[th]
            /\ ~signaled]_vars

Abstract == INSTANCE AutoResetEvent
                WITH waiting <- [th \in Threads |-> pc[th] # "out"]

\* The implementation promises what Event.hpp does: one waiting thread goes on
\* per signal, and only a thread that found no signal gives up.
ImplementsEvent == Abstract!Spec

\* No thread that waits sleeps through a signal.
DeliversSignal == Abstract!Delivery

\* "Wait, with a time limit, for the object to become signalled": every timed
\* wait returns.
TimedWaitReturns ==
    \A th \in Threads :
        (pc[th] = "spin" \/ (pc[th] # "out" /\ deadline[th] # Never)) ~> (pc[th] = "out")
=============================================================================
