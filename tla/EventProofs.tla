----------------------------- MODULE EventProofs -----------------------------
(***************************************************************************)
(* Event for any number of threads, any clock and any time limits: no      *)
(* wakeup is lost, a timed wait never gives up early, and the event is the *)
(* auto-reset event that TaskManager takes it for.                         *)
(***************************************************************************)
EXTENDS Event, TLAPS

\* The deadline of a timed wait on the condition is the time its caller meant.
DeadlinesMeant ==
    \A th \in Threads :
        pc[th] \in {"blocked", "awake", "expired"} /\ deadline[th] # Never =>
            deadline[th].sec * Second + deadline[th].nsec = due[th]

\* A wait has expired when it is due.
ExpiredWhenDue ==
    \A th \in Threads : pc[th] = "expired" =>
        deadline[th] # Never /\ now >= due[th]

IInv == TypeOK /\ NoLostWakeup /\ DeadlinesMeant /\ ExpiredWhenDue

-----------------------------------------------------------------------------
LEMMA ClockDivides ==
    ASSUME NEW t \in Nat
    PROVE  /\ t \div Second \in Nat /\ t % Second \in Nat
           /\ t % Second < Second
           /\ (t \div Second) * Second + (t % Second) = t
<1>1. Second \in Nat \ {0}
  BY ClockIsNat
<1> QED
  BY <1>1

\* A deadline is a proper record of the time that was meant.
LEMMA DeadlineMeant ==
    ASSUME NEW t \in Nat, NEW ns \in Nat
    PROVE  /\ DeadlineOf(t, ns) \in [sec : Nat, nsec : Nat]
           /\ DeadlineOf(t, ns) # Never
           /\ DeadlineOf(t, ns).sec * Second + DeadlineOf(t, ns).nsec = t + ns
<1> DEFINE s == t \div Second
           r == t % Second
<1>1. /\ s \in Nat /\ r \in Nat /\ s * Second + r = t /\ Second \in Nat \ {0}
  BY ClockDivides, ClockIsNat DEF s, r
<1>2. DeadlineOf(t, ns) = IF r + ns > Second
                          THEN [sec |-> s + 1, nsec |-> (r + ns) - Second]
                          ELSE [sec |-> s, nsec |-> r + ns]
  BY DEF DeadlineOf, s, r
<1> HIDE DEF s, r
<1>3. (s + 1) * Second = s * Second + Second
  BY <1>1
<1>4. CASE r + ns > Second
  BY <1>1, <1>2, <1>3, <1>4 DEF Never
<1>5. CASE ~(r + ns > Second)
  BY <1>1, <1>2, <1>5 DEF Never
<1> QED
  BY <1>4, <1>5

-----------------------------------------------------------------------------
LEMMA InitIInv == Init => IInv
<1> SUFFICES ASSUME Init PROVE IInv
  OBVIOUS
<1>1. TypeOK
  BY ClockIsNat DEF Init, TypeOK
<1> QED
  BY <1>1 DEF Init, IInv, NoLostWakeup, DeadlinesMeant, ExpiredWhenDue

\* Set and Reset: the flag changes hands, and a blocked thread wakes up.
LEMMA SignalKeepsIInv ==
    ASSUME IInv, Signal, signaled' \in BOOLEAN,
           UNCHANGED <<deadline, due, result, holder, now>>
    PROVE  IInv'
<1>1. CASE Blocked = {}
  BY <1>1 DEF Signal, IInv, TypeOK, NoLostWakeup, DeadlinesMeant,
              ExpiredWhenDue, Blocked
<1>2. ASSUME NEW w \in Blocked, pc' = [pc EXCEPT ![w] = "awake"]
      PROVE  IInv'
  <2>1. w \in Threads /\ pc[w] = "blocked" /\ pc'[w] = "awake"
    BY <1>2 DEF Blocked, IInv, TypeOK
  <2>2. NoLostWakeup'
    BY <2>1 DEF NoLostWakeup
  <2> QED
    BY <1>2, <2>1, <2>2 DEF IInv, TypeOK, DeadlinesMeant, ExpiredWhenDue
<1> QED
  BY <1>1, <1>2 DEF Signal

\* A thread leaves Wait.
LEMMA LeaveKeepsIInv ==
    ASSUME IInv, NEW th \in Threads, NEW r \in BOOLEAN, Leave(th, r),
           UNCHANGED <<deadline, due, holder, now>>
    PROVE  IInv'
BY DEF Leave, IInv, TypeOK, NoLostWakeup, DeadlinesMeant, ExpiredWhenDue

\* A thread begins to sleep on the condition, the flag being down.
LEMMA BlockKeepsIInv ==
    ASSUME IInv, NEW th \in Threads, ~signaled, now' = now,
           NEW at \in [sec : Nat, nsec : Nat] \cup {Never}, NEW until \in Nat,
           at # Never => at.sec * Second + at.nsec = until,
           Block(th, at, until)
    PROVE  IInv'
<1>1. TypeOK' /\ NoLostWakeup' /\ ExpiredWhenDue'
  BY DEF Block, IInv, TypeOK, NoLostWakeup, ExpiredWhenDue
<1>2. DeadlinesMeant'
  <2> SUFFICES ASSUME NEW u \in Threads, deadline'[u] # Never,
                      pc'[u] \in {"blocked", "awake", "expired"}
               PROVE  deadline'[u].sec * Second + deadline'[u].nsec = due'[u]
    BY DEF DeadlinesMeant, Block
  <2>1. CASE u = th
    <3>1. deadline'[u] = at /\ due'[u] = until
      BY <2>1 DEF Block, IInv, TypeOK
    <3> QED
      BY <3>1
  <2>2. CASE u # th
    <3>1. deadline'[u] = deadline[u] /\ due'[u] = due[u] /\ pc'[u] = pc[u]
      BY <2>2 DEF Block, IInv, TypeOK
    <3> QED
      BY <3>1 DEF IInv, DeadlinesMeant
  <2> QED
    BY <2>1, <2>2
<1> QED
  BY <1>1, <1>2 DEF IInv

LEMMA WaitKeepsIInv ==
    ASSUME IInv, NEW th \in Threads,
           Wait(th) \/ \E ns \in Timeouts : TimedWait(th, ns)
    PROVE  IInv'
<1>1. CASE Wait(th)
  <2>1. CASE signaled
    BY <1>1, <2>1, LeaveKeepsIInv DEF Wait
  <2>2. CASE ~signaled
    BY <1>1, <2>2, BlockKeepsIInv DEF Wait
  <2> QED
    BY <2>1, <2>2
<1>2. ASSUME NEW ns \in Timeouts, TimedWait(th, ns) PROVE IInv'
  <2>1. ns \in Nat /\ now \in Nat
    BY ClockIsNat DEF IInv, TypeOK
  <2>2. CASE signaled
    BY <1>2, <2>2, LeaveKeepsIInv DEF TimedWait
  <2>3. CASE ~signaled /\ Valid(DeadlineOf(now, ns))
    <3>1. Block(th, DeadlineOf(now, ns), now + ns) /\ now' = now
      BY <1>2, <2>3 DEF TimedWait
    <3> QED
      BY <2>1, <2>3, <3>1, DeadlineMeant, BlockKeepsIInv
  <2>4. CASE ~signaled /\ ~Valid(DeadlineOf(now, ns))
    <3>1. /\ pc' = [pc EXCEPT ![th] = "spin"] /\ holder' = th
          /\ UNCHANGED <<signaled, deadline, due, result, now>>
      BY <1>2, <2>4 DEF TimedWait
    <3>2. TypeOK' /\ NoLostWakeup'
      BY <2>4, <3>1 DEF IInv, TypeOK, NoLostWakeup
    <3> QED
      BY <3>1, <3>2 DEF IInv, TypeOK, DeadlinesMeant, ExpiredWhenDue
  <2> QED
    BY <2>2, <2>3, <2>4
<1> QED
  BY <1>1, <1>2

LEMMA WakeKeepsIInv ==
    ASSUME IInv, NEW th \in Threads,
           Spurious(th) \/ Expire(th) \/ Look(th) \/ GiveUp(th)
    PROVE  IInv'
<1>1. CASE Spurious(th)
  BY <1>1 DEF Spurious, IInv, TypeOK, NoLostWakeup, DeadlinesMeant,
              ExpiredWhenDue, Blocked
<1>2. ASSUME pc[th] \in {"blocked", "awake"}, Past(deadline[th]),
             pc' = [pc EXCEPT ![th] = "expired"],
             UNCHANGED <<signaled, deadline, due, result, holder, now>>
      PROVE  IInv'
  <2>1. deadline[th] # Never /\ now >= due[th]
    BY <1>2 DEF Past, IInv, TypeOK, DeadlinesMeant
  <2>2. TypeOK' /\ NoLostWakeup' /\ DeadlinesMeant'
    BY <1>2 DEF IInv, TypeOK, NoLostWakeup, DeadlinesMeant, Blocked
  <2>3. ExpiredWhenDue'
    BY <1>2, <2>1 DEF IInv, TypeOK, ExpiredWhenDue
  <2> QED
    BY <2>2, <2>3 DEF IInv
<1>3. CASE Expire(th)
  BY <1>2, <1>3 DEF Expire
<1>4. CASE Look(th)
  <2>1. CASE signaled
    BY <1>4, <2>1, LeaveKeepsIInv DEF Look
  <2>2. CASE ~signaled /\ Past(deadline[th])
    BY <1>2, <1>4, <2>2 DEF Look
  <2>3. CASE ~signaled /\ ~Past(deadline[th])
    <3>1. /\ pc' = [pc EXCEPT ![th] = "blocked"] /\ pc[th] = "awake"
          /\ UNCHANGED <<signaled, deadline, due, result, holder, now>>
      BY <1>4, <2>3 DEF Look
    <3>2. TypeOK' /\ NoLostWakeup'
      BY <2>3, <3>1 DEF IInv, TypeOK, NoLostWakeup
    <3> QED
      BY <3>1, <3>2 DEF IInv, TypeOK, DeadlinesMeant, ExpiredWhenDue
  <2> QED
    BY <2>1, <2>2, <2>3
<1>5. CASE GiveUp(th)
  <2>1. signaled \in BOOLEAN
    BY DEF IInv, TypeOK
  <2> QED
    BY <1>5, <2>1, LeaveKeepsIInv DEF GiveUp
<1> QED
  BY <1>1, <1>3, <1>4, <1>5

LEMMA StepKeepsIInv == IInv /\ [Next]_vars => IInv'
<1> SUFFICES ASSUME IInv, [Next]_vars PROVE IInv'
  OBVIOUS
<1>1. ASSUME NEW th \in Threads, Set(th) \/ Reset(th) PROVE IInv'
  BY <1>1, SignalKeepsIInv DEF Set, Reset
<1>2. ASSUME NEW th \in Threads, WaitStep(th) PROVE IInv'
  BY <1>2, WaitKeepsIInv, WakeKeepsIInv DEF WaitStep
<1>3. CASE Tick
  <2>1. now \in Nat /\ now' = now + Step /\ now' \in Nat /\ now' >= now
    BY <1>3, ClockIsNat DEF Tick, IInv, TypeOK
  <2>2. ExpiredWhenDue'
    BY <1>3, <2>1 DEF Tick, IInv, TypeOK, ExpiredWhenDue
  <2> QED
    BY <1>3, <2>1, <2>2 DEF Tick, IInv, TypeOK, NoLostWakeup, DeadlinesMeant, Blocked
<1>4. CASE UNCHANGED vars
  BY <1>4 DEF vars, IInv, TypeOK, NoLostWakeup, DeadlinesMeant, ExpiredWhenDue, Blocked
<1> QED
  BY <1>1, <1>2, <1>3, <1>4 DEF Next

LEMMA Inductive == Spec => []IInv
BY InitIInv, StepKeepsIInv, PTL DEF Spec

-----------------------------------------------------------------------------
THEOREM TypeCorrect == Spec => []TypeOK
<1>1. IInv => TypeOK
  BY DEF IInv
<1> QED
  BY <1>1, Inductive, PTL

\* No thread sleeps on while the event is signalled and nobody looks.
THEOREM NoWakeupLost == Spec => []NoLostWakeup
<1>1. IInv => NoLostWakeup
  BY DEF IInv
<1> QED
  BY <1>1, Inductive, PTL

\* A timed wait returns false only at its limit, with the event unsignalled.
THEOREM TimedWaitNeverEarly == Spec => NeverEarly
<1> DEFINE A == \A th \in Threads :
                    pc[th] # "out" /\ pc'[th] = "out" /\ ~result'[th] =>
                        /\ deadline[th] # Never /\ now >= due[th]
                        /\ ~signaled
<1>1. IInv /\ [Next]_vars => [A]_vars
  <2> SUFFICES ASSUME IInv, Next, NEW th \in Threads,
                      pc[th] # "out", pc'[th] = "out", ~result'[th]
               PROVE  deadline[th] # Never /\ now >= due[th] /\ ~signaled
    OBVIOUS
  <2>1. ASSUME NEW u \in Threads, Set(u) \/ Reset(u) PROVE FALSE
    BY <2>1 DEF Set, Reset, Signal, IInv, TypeOK, Blocked
  <2>2. ASSUME NEW u \in Threads, Wait(u) PROVE FALSE
    BY <2>2 DEF Wait, Leave, Block, IInv, TypeOK
  <2>3. ASSUME NEW u \in Threads, \E ns \in Timeouts : TimedWait(u, ns) PROVE FALSE
    BY <2>3 DEF TimedWait, Leave, Block, IInv, TypeOK
  <2>4. ASSUME NEW u \in Threads, Spurious(u) \/ Expire(u) PROVE FALSE
    BY <2>4 DEF Spurious, Expire, IInv, TypeOK
  <2>5. ASSUME NEW u \in Threads, Look(u) PROVE FALSE
    BY <2>5 DEF Look, Leave, IInv, TypeOK
  <2>6. ASSUME NEW u \in Threads, GiveUp(u)
        PROVE  deadline[th] # Never /\ now >= due[th] /\ ~signaled
    BY <2>6 DEF GiveUp, Leave, IInv, TypeOK, ExpiredWhenDue
  <2>7. CASE Tick
    BY <2>7 DEF Tick
  <2> QED
    BY <2>1, <2>2, <2>3, <2>4, <2>5, <2>6, <2>7 DEF Next, WaitStep
<1> QED
  BY <1>1, Inductive, PTL DEF Spec, NeverEarly

-----------------------------------------------------------------------------
waiting == [th \in Threads |-> pc[th] # "out"]

\* A signal, a spurious wakeup and the passing of a deadline change nothing
\* about who waits.
LEMMA SameWaiters ==
    ASSUME IInv, NEW w \in Threads, NEW at \in {"blocked", "awake", "expired"},
           pc[w] # "out", pc' = [pc EXCEPT ![w] = at]
    PROVE  waiting' = waiting
BY DEF waiting, IInv, TypeOK

LEMMA LeavesWaiters ==
    ASSUME IInv, NEW th \in Threads, NEW r, Leave(th, r)
    PROVE  waiting' = [waiting EXCEPT ![th] = FALSE] /\ signaled' = FALSE
BY DEF Leave, waiting, IInv, TypeOK

\* Event is an auto-reset event.
THEOREM Implements == Spec => ImplementsEvent
<1>1. Init => Abstract!Init
  BY DEF Init, Abstract!Init
<1>2. IInv /\ [Next]_vars => [Abstract!Next]_<<signaled, waiting>>
  <2> SUFFICES ASSUME IInv, [Next]_vars
               PROVE  Abstract!Next \/ UNCHANGED <<signaled, waiting>>
    OBVIOUS
  <2> USE DEF Abstract!Next
  <2>1. ASSUME NEW th \in Threads, Set(th) \/ Reset(th) PROVE Abstract!Next
    <3>1. waiting' = waiting
      <4>1. CASE Blocked = {}
        BY <2>1, <4>1 DEF Set, Reset, Signal, waiting
      <4>2. ASSUME NEW w \in Blocked, pc' = [pc EXCEPT ![w] = "awake"]
            PROVE  waiting' = waiting
        BY <4>2, SameWaiters DEF Blocked
      <4> QED
        BY <2>1, <4>1, <4>2 DEF Set, Reset, Signal
    <3> QED
      BY <2>1, <3>1 DEF Set, Reset, Abstract!Set, Abstract!Reset, waiting
  <2>2. ASSUME NEW th \in Threads, NEW r, Leave(th, r), signaled PROVE Abstract!Next
    BY <2>2, LeavesWaiters DEF Abstract!Take, waiting
  <2>3. ASSUME NEW th \in Threads, pc[th] = "out", signaled' = signaled,
               pc' = [pc EXCEPT ![th] = "blocked"] \/ pc' = [pc EXCEPT ![th] = "spin"]
        PROVE  Abstract!Next
    <3>1. waiting' = [waiting EXCEPT ![th] = TRUE] /\ ~waiting[th]
      BY <2>3 DEF waiting, IInv, TypeOK
    <3> QED
      BY <2>3, <3>1 DEF Abstract!Begin, waiting
  <2>4. ASSUME NEW th \in Threads, Wait(th) PROVE Abstract!Next
    BY <2>2, <2>3, <2>4 DEF Wait, Block
  <2>5. ASSUME NEW th \in Threads, NEW ns \in Timeouts, TimedWait(th, ns)
        PROVE  Abstract!Next
    BY <2>2, <2>3, <2>5 DEF TimedWait, Block
  <2>6. ASSUME NEW th \in Threads, Spurious(th) \/ Expire(th)
        PROVE  UNCHANGED <<signaled, waiting>>
    BY <2>6, SameWaiters DEF Spurious, Expire
  <2>7. ASSUME NEW th \in Threads, Look(th)
        PROVE  Abstract!Next \/ UNCHANGED <<signaled, waiting>>
    <3>1. CASE signaled
      BY <2>2, <2>7, <3>1 DEF Look
    <3>2. CASE ~signaled
      BY <2>7, <3>2, SameWaiters DEF Look
    <3> QED
      BY <3>1, <3>2
  <2>8. ASSUME NEW th \in Threads, GiveUp(th) PROVE Abstract!Next
    <3>1. CASE signaled
      BY <2>2, <2>8, <3>1 DEF GiveUp
    <3>2. CASE ~signaled
      <4>1. waiting' = [waiting EXCEPT ![th] = FALSE] /\ signaled' = signaled
        BY <2>8, <3>2, LeavesWaiters DEF GiveUp, IInv, TypeOK
      <4> QED
        BY <2>8, <3>2, <4>1 DEF GiveUp, Abstract!GiveUp, waiting
    <3> QED
      BY <3>1, <3>2
  <2>9. CASE Tick \/ UNCHANGED vars
    BY <2>9 DEF Tick, vars, waiting
  <2> QED
    BY <2>1, <2>4, <2>5, <2>6, <2>7, <2>8, <2>9 DEF Next, WaitStep
<1> QED
  BY <1>1, <1>2, Inductive, PTL DEF Spec, ImplementsEvent, Abstract!Spec, waiting
=============================================================================
