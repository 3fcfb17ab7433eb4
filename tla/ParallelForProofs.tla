-------------------------- MODULE ParallelForProofs --------------------------
(***************************************************************************)
(* xr_parallel_for for any number of indices, threads and grain: the ranges*)
(* of the tasks that have still to be split or applied, and the indices    *)
(* already visited, make up the whole range at any time, without overlap.  *)
(* That the task tree is sound (TaskTreeProofs) then gives the rest.       *)
(***************************************************************************)
EXTENDS ParallelFor, TaskTreeProofs

\* A task whose range is still to be split or applied
Pending(t) ==
    /\ stage[t] \in {"created", "queued", "calling"}
    /\ step[t] \in {"entry", "left"}

Holds(t, i) == Pending(t) /\ range[t].begin <= i /\ i < range[t].end

\* A functor begins at its beginning and returns from its end.
StepsInOrder ==
    \A t \in Tasks :
        /\ stage[t] \in {"free", "created", "queued"} => step[t] = "entry"
        /\ stage[t] \in {"notifying", "left"} => step[t] \in {"right", "applied"}

\* The ranges of the pending tasks do not overlap ...
OneHolder ==
    \A t, u \in Tasks : \A i \in Int : Holds(t, i) /\ Holds(u, i) => t = u

\* ... contain no index that has been visited ...
HeldUnvisited ==
    \A i \in Indices :
        /\ visits[i] \in {0, 1}
        /\ visits[i] = 1 => \A t \in Tasks : ~Holds(t, i)

\* ... and every other one.
NoneForgotten ==
    stage[Root] # "free" =>
        \A i \in 0..(size - 1) : visits[i] = 1 \/ \E t \in Tasks : Holds(t, i)

\* Nothing has happened before the call.
Unstarted ==
    stage[Root] = "free" => size = 0 /\ \A i \in Indices : visits[i] = 0

\* All tasks stem from the first.
AllInFamily == \A t \in Tasks : stage[t] # "free" => t \in Family(Root)

ForInv ==
    ForTypeOK /\ StepsInOrder /\ OneHolder /\ HeldUnvisited /\ NoneForgotten
    /\ Unstarted /\ AllInFamily

-----------------------------------------------------------------------------
LEMMA RootIsTask == Root \in Tasks
BY RootExists, BoundsNat DEF Root, Tasks

\* Every step of a parallel for is a step of the task tree.
LEMMA StepIsTreeStep == [ForNext]_forVars => [Next]_vars
<1> USE RootIsTask, Names
<1> SUFFICES ASSUME ForNext PROVE [Next]_vars
  BY DEF forVars
<1>1. ASSUME NEW n, NEW count, Run(n, count) PROVE Next
  BY <1>1 DEF Run, Next, Frames, Threads
<1>2. ASSUME NEW t \in Tasks, NEW c \in Tasks, Split(t, c) PROVE Next
  BY <1>2 DEF Split, SplitLeft, SplitRight, Next
<1>3. ASSUME NEW t \in Tasks, Apply(t) \/ Leave(t) \/ Report(t)
      PROVE  [Next]_vars
  BY <1>3 DEF Apply, Leave, Report, Next
<1>4. ASSUME NEW f \in Frames, NEW t \in Tasks, Launch(f, t) \/ Execute(f, t)
      PROVE  Next
  BY <1>4 DEF Launch, Execute, Next
<1>5. ASSUME Await \/ Awaited PROVE Next
  BY <1>5 DEF Await, Awaited, Next, Frames, Threads
<1> QED
  BY <1>1, <1>2, <1>3, <1>4, <1>5 DEF ForNext

THEOREM ImplementsTaskTree == ForSpec => Spec
<1>1. ForInit => Init
  BY DEF ForInit
<1> QED
  BY <1>1, StepIsTreeStep, PTL DEF ForSpec, Spec

-----------------------------------------------------------------------------
\* A child of a member joins the family; nobody leaves it.
LEMMA FamilyGrows ==
    ASSUME IInv, AllInFamily,
           NEW f \in Frames, NEW c \in Tasks, NEW p \in Tasks,
           CreateTask(f, c, p), stage[p] # "free"
    PROVE  AllInFamily'
<1> USE RootIsTask, Names
<1>1. /\ parent' = [parent EXCEPT ![c] = p]
      /\ stage' = [stage EXCEPT ![c] = "created"]
      /\ parent[c] = NoTask /\ parent \in [Tasks -> Tasks \cup {NoTask}]
  <2>1. stage[c] = "free"
    BY BoundsNat DEF CreateTask, Tasks
  <2> QED
    BY <2>1 DEF CreateTask, IInv, FreeIsBlank, TypeOK
<1> SUFFICES ASSUME NEW t \in Tasks, stage'[t] # "free",
                    NEW S \in SUBSET Tasks, Root \in S,
                    \A x \in Tasks : parent'[x] \in S => x \in S
             PROVE  t \in S
  BY DEF AllInFamily, Family
<1>2. \A x \in Tasks : parent[x] \in S => x \in S
  BY <1>1
<1>3. \A x \in Tasks : stage[x] # "free" => x \in S
  BY <1>2 DEF AllInFamily, Family
<1>4. CASE t = c
  BY <1>1, <1>3, <1>4
<1>5. CASE t # c
  BY <1>1, <1>3, <1>5, <1>2 DEF IInv, TypeOK
<1> QED
  BY <1>4, <1>5

\* Steps that create no task keep the family.
LEMMA FamilyStays ==
    ASSUME AllInFamily, UNCHANGED parent,
           \A t \in Tasks : stage'[t] # "free" => stage[t] # "free"
    PROVE  AllInFamily'
BY DEF AllInFamily, Family

LEMMA InitForInv == ForInit => ForInv
<1> SUFFICES ASSUME ForInit PROVE ForInv
  OBVIOUS
<1> USE RootIsTask, SizeIsNat DEF ForInit, Init
<1>1. ForTypeOK
  BY DEF ForTypeOK, NoRange, Indices
<1>2. HeldUnvisited
  BY DEF HeldUnvisited, Indices
<1> QED
  BY <1>1, <1>2 DEF ForInv, StepsInOrder, OneHolder, Holds, Pending,
                    NoneForgotten, Unstarted, AllInFamily, Indices

-----------------------------------------------------------------------------
\* Steps that leave the functors alone and start or end no pending task.
LEMMA FunctorsUntouched ==
    ASSUME ForInv, UNCHANGED functor, UNCHANGED parent,
           \A t \in Tasks : /\ (stage[t] = "free") = (stage'[t] = "free")
                            /\ Pending(t)' = Pending(t)
                            /\ \/ stage'[t] = stage[t]
                               \/ stage'[t] \in {"queued", "calling"}
                                  /\ stage[t] \in {"created", "queued"}
                               \/ stage'[t] \in {"notifying", "left"}
                                  /\ step[t] \in {"right", "applied"}
    PROVE  ForInv'
<1> USE DEF functor
<1>1. \A t \in Tasks, i \in Int : Holds(t, i)' = Holds(t, i)
  BY DEF Holds
<1>2. ForTypeOK' /\ StepsInOrder'
  BY DEF ForInv, ForTypeOK, StepsInOrder
<1>3. OneHolder'
  BY <1>1 DEF ForInv, OneHolder
<1>4. HeldUnvisited'
  BY <1>1, SizeIsNat DEF ForInv, HeldUnvisited, Indices
<1>5. NoneForgotten'
  BY <1>1, RootIsTask DEF ForInv, NoneForgotten, ForTypeOK
<1>6. Unstarted'
  BY RootIsTask DEF ForInv, Unstarted
<1>7. AllInFamily'
  BY FamilyStays DEF ForInv
<1> QED
  BY <1>2, <1>3, <1>4, <1>5, <1>6, <1>7 DEF ForInv

\* A grain is at least one.
LEMMA GrainPositive ==
    ASSUME NEW n \in 0..MaxSize, NEW count \in 1..Cardinality(Threads)
    PROVE  DefaultGrain(n, count) \in Nat \ {0}
<1>1. count \in Nat \ {0} /\ n \in Nat
  BY ThreadsFinite, FS_CardinalityType, SizeIsNat
<1>2. n \div count \in Nat
  BY <1>1
<1> QED
  BY <1>2 DEF DefaultGrain

LEMMA RunKeepsForInv ==
    ASSUME IInv, ForInv, NEW n \in 0..MaxSize,
           NEW count \in 1..Cardinality(Threads), Run(n, count)
    PROVE  ForInv'
<1> USE RootIsTask, Names
<1>1. \A t \in Tasks : stage[t] = "free"
  BY BoundsNat DEF Run, CreateTask, Root, Tasks
<1>2. \A t \in Tasks : step[t] = "entry" /\ ~Pending(t)
  BY <1>1 DEF ForInv, StepsInOrder, Pending
<1>3. /\ stage' = [stage EXCEPT ![Root] = "created"]
      /\ size' = n /\ grain' \in Nat \ {0}
      /\ range' = [range EXCEPT ![Root] = [begin |-> 0, end |-> n]]
      /\ UNCHANGED <<step, visits>>
  BY GrainPositive DEF Run, CreateTask
<1>4. \A t \in Tasks : Pending(t)' <=> t = Root
  BY <1>1, <1>2, <1>3 DEF Pending, IInv, TypeOK
<1>5. size = 0 /\ \A i \in Indices : visits[i] = 0
  BY <1>1 DEF ForInv, Unstarted
<1>6. n \in Nat /\ n <= MaxSize
  BY SizeIsNat
<1>7. ForTypeOK'
  <2>1. \A t \in Tasks : range'[t] = IF t = Root THEN [begin |-> 0, end |-> n] ELSE range[t]
    BY <1>3 DEF ForInv, ForTypeOK
  <2>2. \A t \in Tasks : range[t] = [begin |-> 0, end |-> 0]
    <3> SUFFICES ASSUME NEW t \in Tasks PROVE range[t] = [begin |-> 0, end |-> 0]
      OBVIOUS
    <3>1. range[t] \in [begin : 0..0, end : 0..0]
      BY <1>5 DEF ForInv, ForTypeOK
    <3> QED
      BY <3>1
  <2>3. /\ range' \in [Tasks -> [begin : 0..n, end : 0..n]]
        /\ \A t \in Tasks : range'[t].begin <= range'[t].end
    BY <1>3, <1>6, <2>1, <2>2 DEF ForInv, ForTypeOK
  <2> QED
    BY <1>3, <1>6, <2>3 DEF ForInv, ForTypeOK
<1>8. StepsInOrder'
  BY <1>2, <1>3 DEF ForInv, StepsInOrder, IInv, TypeOK
<1>9. \A t \in Tasks, i \in Int : Holds(t, i)' <=> t = Root /\ 0 <= i /\ i < n
  BY <1>3, <1>4 DEF Holds, ForInv, ForTypeOK
<1>10. OneHolder'
  BY <1>9 DEF OneHolder
<1>11. HeldUnvisited'
  BY <1>3, <1>5 DEF HeldUnvisited
<1>12. NoneForgotten'
  BY <1>3, <1>6, <1>9 DEF NoneForgotten
<1>13. Unstarted'
  BY <1>3 DEF Unstarted, IInv, TypeOK
<1>14. AllInFamily'
  BY <1>1, <1>3 DEF AllInFamily, Family, IInv, TypeOK
<1> QED
  BY <1>7, <1>8, <1>10, <1>11, <1>12, <1>13, <1>14 DEF ForInv

\* Splitting hands every index of the task to exactly one of two.
LEMMA MiddleIsBetween ==
    ASSUME NEW r, r.begin \in Nat, r.end \in Nat, r.begin <= r.end
    PROVE  /\ Middle(r) \in Nat
           /\ r.begin <= Middle(r) /\ Middle(r) <= r.end
BY DEF Middle, Length

\* What both halves of a split have in common: t was pending, its child c is
\* new, and the two share what t held, or c holds it all.
LEMMA SplitKeepsForInv ==
    ASSUME IInv, ForInv, NEW t \in Tasks, NEW c \in Tasks, Split(t, c)
    PROVE  ForInv'
<1> USE RootIsTask, Names
<1>1. CreateTask(t, c, t) /\ UNCHANGED <<size, grain, visits>>
  BY DEF Split, SplitLeft, SplitRight
<1>2. /\ stage[c] = "free" /\ stage[t] = "calling" /\ t # c
      /\ stage' = [stage EXCEPT ![c] = "created"]
      /\ step[c] = "entry" /\ Pending(t) /\ ~Pending(c)
  <2>1. stage[c] = "free"
    BY <1>1, BoundsNat DEF CreateTask, Tasks
  <2>2. stage[t] = "calling"
    BY <1>1 DEF CreateTask, InUserCode
  <2> QED
    BY <1>1, <2>1, <2>2 DEF CreateTask, Split, SplitLeft, SplitRight, Pending,
                            ForInv, StepsInOrder
<1>3. /\ size \in 0..MaxSize /\ size \in Nat
      /\ \A x \in Tasks : /\ range[x] \in [begin : 0..size, end : 0..size]
                           /\ range[x].begin \in Nat /\ range[x].end \in Nat
                           /\ range[x].begin <= range[x].end
                           /\ range[x].end <= size
  BY SizeIsNat DEF ForInv, ForTypeOK
\* The two ranges after the step
<1>4. \E m \in Nat :
        /\ range[t].begin <= m /\ m <= range[t].end
        /\ range'[c] \in [begin : 0..size, end : 0..size]
        /\ range'[t] \in [begin : 0..size, end : 0..size]
        /\ range'[c].begin = range[t].begin /\ range'[c].end = m
        /\ range'[t].end = range[t].end
        /\ \/ range'[t].begin = m /\ Pending(t)'
           \/ range'[t].begin <= range'[t].end /\ ~Pending(t)' /\ m = range[t].end
  <2>1. CASE SplitLeft(t, c)
    <3> DEFINE m == Middle(range[t])
    <3>1. m \in Nat /\ range[t].begin <= m /\ m <= range[t].end
      BY <1>3, MiddleIsBetween
    <3> HIDE DEF m
    <3>2. range' = [range EXCEPT ![c] = [begin |-> range[t].begin, end |-> m],
                                 ![t].begin = m]
      BY <2>1 DEF SplitLeft, m
    <3>3. range'[c] = [begin |-> range[t].begin, end |-> m]
      BY <1>2, <3>2 DEF ForInv, ForTypeOK
    <3>4. range'[t] = [range[t] EXCEPT !.begin = m]
      BY <1>2, <3>2 DEF ForInv, ForTypeOK
    <3>5. range'[t] = [begin |-> m, end |-> range[t].end]
      BY <1>3, <3>4
    <3>6. Pending(t)'
      BY <1>2, <2>1 DEF SplitLeft, Pending, ForInv, ForTypeOK, IInv, TypeOK
    <3> QED
      BY <1>3, <3>1, <3>3, <3>5, <3>6
  <2>2. CASE SplitRight(t, c)
    <3>1. range'[c] = range[t] /\ range'[t] = range[t]
      BY <1>2, <2>2 DEF SplitRight, ForInv, ForTypeOK
    <3>2. ~Pending(t)'
      BY <2>2 DEF SplitRight, Pending, ForInv, ForTypeOK
    <3> QED
      BY <1>3, <3>1, <3>2
  <2> QED
    BY <2>1, <2>2 DEF Split
<1> PICK m \in Nat :
        /\ range[t].begin <= m /\ m <= range[t].end
        /\ range'[c] \in [begin : 0..size, end : 0..size]
        /\ range'[t] \in [begin : 0..size, end : 0..size]
        /\ range'[c].begin = range[t].begin /\ range'[c].end = m
        /\ range'[t].end = range[t].end
        /\ \/ range'[t].begin = m /\ Pending(t)'
           \/ range'[t].begin <= range'[t].end /\ ~Pending(t)' /\ m = range[t].end
  BY <1>4
<1>5. /\ range' \in [Tasks -> [begin : 0..size, end : 0..size]]
      /\ \A x \in Tasks \ {t, c} : range'[x] = range[x] /\ step'[x] = step[x]
      /\ step'[c] = "entry" /\ step'[t] \in {"left", "right"}
      /\ step' \in [Tasks -> {"entry", "left", "right", "applied"}]
  BY <1>2 DEF Split, SplitLeft, SplitRight, ForInv, ForTypeOK
<1>6. ForTypeOK'
  BY <1>1, <1>3, <1>5 DEF ForInv, ForTypeOK
<1>7. StepsInOrder'
  BY <1>2, <1>5 DEF ForInv, StepsInOrder, IInv, TypeOK
<1>8. /\ Pending(c)'
      /\ \A x \in Tasks \ {t, c} : Pending(x)' <=> Pending(x)
  BY <1>2, <1>5 DEF Pending, IInv, TypeOK
<1>9. \A i \in Int :
        /\ Holds(c, i)' <=> range[t].begin <= i /\ i < m
        /\ Holds(t, i)' <=> m <= i /\ i < range[t].end
        /\ \A x \in Tasks \ {t, c} : Holds(x, i)' <=> Holds(x, i)
  BY <1>3, <1>5, <1>8 DEF Holds
<1>10. \A i \in Int : Holds(t, i) <=> Holds(t, i)' \/ Holds(c, i)'
  BY <1>2, <1>3, <1>9 DEF Holds
<1>11. \A i \in Int : ~(Holds(t, i)' /\ Holds(c, i)')
  BY <1>3, <1>9
<1>12. OneHolder'
  BY <1>2, <1>9, <1>10, <1>11 DEF ForInv, OneHolder
<1>13. HeldUnvisited'
  BY <1>1, <1>9, <1>10, SizeIsNat DEF ForInv, HeldUnvisited, Indices
<1>14. stage[Root] # "free"
  BY <1>1, <1>2, BoundsNat DEF CreateTask, Tasks, Root
<1>15. NoneForgotten'
  <2> SUFFICES ASSUME NEW i \in 0..(size - 1), visits[i] # 1
               PROVE  \E x \in Tasks : Holds(x, i)'
    BY <1>1 DEF NoneForgotten
  <2>1. i \in Int
    BY <1>3
  <2>2. PICK x \in Tasks : Holds(x, i)
    BY <1>14 DEF ForInv, NoneForgotten
  <2>3. ~Holds(c, i)
    BY <1>2 DEF Holds
  <2> QED
    BY <1>9, <1>10, <2>1, <2>2, <2>3
<1>16. Unstarted'
  BY <1>2, <1>14 DEF Unstarted, IInv, TypeOK
<1>17. AllInFamily'
  BY <1>1, <1>2, FamilyGrows DEF ForInv
<1> QED
  BY <1>6, <1>7, <1>12, <1>13, <1>15, <1>16, <1>17 DEF ForInv

LEMMA ApplyKeepsForInv ==
    ASSUME IInv, ForInv, NEW t \in Tasks, Apply(t)
    PROVE  ForInv'
<1> USE RootIsTask, Names
<1>1. /\ UNCHANGED <<vars, size, grain, range>>
      /\ stage[t] = "calling" /\ step[t] = "entry"
      /\ step' = [step EXCEPT ![t] = "applied"]
      /\ visits' = [i \in Indices |->
                      IF range[t].begin <= i /\ i < range[t].end
                      THEN visits[i] + 1 ELSE visits[i]]
  BY DEF Apply, InUserCode
<1>2. UNCHANGED <<stage, parent>>
  BY <1>1 DEF vars
<1>3. Pending(t) /\ ~Pending(t)'
  BY <1>1, <1>2 DEF Pending, ForInv, ForTypeOK
<1>4. \A x \in Tasks \ {t} : Pending(x)' <=> Pending(x)
  BY <1>1, <1>2 DEF Pending, ForInv, ForTypeOK
<1>5. \A i \in Int : /\ ~Holds(t, i)'
                     /\ \A x \in Tasks \ {t} : Holds(x, i)' <=> Holds(x, i)
  BY <1>1, <1>3, <1>4 DEF Holds
<1>6. \A i \in Indices : visits'[i] = IF Holds(t, i) THEN 1 ELSE visits[i]
  BY <1>1, <1>3, SizeIsNat DEF Holds, ForInv, HeldUnvisited, Indices
<1>7. Indices \subseteq Int /\ 0..(size - 1) \subseteq Indices
  BY SizeIsNat DEF Indices, ForInv, ForTypeOK
<1>8. ForTypeOK'
  <2>1. visits' \in [Indices -> Nat]
    BY <1>1 DEF ForInv, ForTypeOK
  <2> QED
    BY <1>1, <2>1 DEF ForInv, ForTypeOK
<1>9. StepsInOrder'
  BY <1>1, <1>2 DEF ForInv, ForTypeOK, StepsInOrder
<1>10. OneHolder'
  BY <1>5 DEF ForInv, OneHolder
<1>11. HeldUnvisited'
  <2> SUFFICES ASSUME NEW i \in Indices
               PROVE  /\ visits'[i] \in {0, 1}
                      /\ visits'[i] = 1 => \A x \in Tasks : ~Holds(x, i)'
    BY DEF HeldUnvisited
  <2>1. CASE Holds(t, i)
    BY <1>5, <1>6, <1>7, <2>1 DEF ForInv, OneHolder
  <2>2. CASE ~Holds(t, i)
    BY <1>5, <1>6, <1>7, <2>2 DEF ForInv, HeldUnvisited
  <2> QED
    BY <2>1, <2>2
<1>12. NoneForgotten'
  BY <1>1, <1>2, <1>5, <1>6, <1>7 DEF ForInv, NoneForgotten
<1>13. Unstarted'
  <2> SUFFICES ASSUME stage[Root] = "free"
               PROVE  size = 0 /\ \A i \in Indices : visits'[i] = 0
    BY <1>1, <1>2 DEF Unstarted
  <2>1. size = 0 /\ \A i \in Indices : visits[i] = 0
    BY DEF ForInv, Unstarted
  <2>2. range[t].begin \in 0..0 /\ range[t].end \in 0..0
    BY <2>1 DEF ForInv, ForTypeOK
  <2>3. \A i \in Int : ~Holds(t, i)
    BY <2>2 DEF Holds
  <2> QED
    BY <1>6, <1>7, <2>1, <2>3
<1>14. AllInFamily'
  BY <1>2, FamilyStays DEF ForInv
<1> QED
  BY <1>8, <1>9, <1>10, <1>11, <1>12, <1>13, <1>14 DEF ForInv

-----------------------------------------------------------------------------
LEMMA StepKeepsForInv == IInv /\ IInv' /\ ForInv /\ [ForNext]_forVars => ForInv'
<1> USE RootIsTask, Names
<1> SUFFICES ASSUME IInv, IInv', ForInv, [ForNext]_forVars PROVE ForInv'
  OBVIOUS
<1>1. ASSUME NEW n \in 0..MaxSize, NEW count \in 1..Cardinality(Threads),
             Run(n, count)
      PROVE  ForInv'
  BY <1>1, RunKeepsForInv
<1>2. ASSUME NEW t \in Tasks, NEW c \in Tasks, Split(t, c) PROVE ForInv'
  BY <1>2, SplitKeepsForInv
<1>3. ASSUME NEW t \in Tasks, Apply(t) PROVE ForInv'
  BY <1>3, ApplyKeepsForInv
<1>4. ASSUME NEW t \in Tasks, Leave(t) PROVE ForInv'
  <2> USE DEF Leave, Return, InUserCode
  <2>1. UNCHANGED functor /\ UNCHANGED parent
    BY <1>4
  <2>2. stage[t] = "calling" /\ stage' = [stage EXCEPT ![t] = "notifying"]
    BY <1>4
  <2>3. stage'[t] = "notifying" /\ step[t] \in {"right", "applied"}
    BY <1>4, <2>2 DEF IInv, TypeOK
  <2>4. \A x \in Tasks : Pending(x)' = Pending(x)
    BY <2>1, <2>2, <2>3 DEF Pending, functor, IInv, TypeOK
  <2>5. \A x \in Tasks \ {t} : stage'[x] = stage[x]
    BY <2>2 DEF IInv, TypeOK
  <2> QED
    BY <2>1, <2>2, <2>3, <2>4, <2>5, FunctorsUntouched
<1>5. ASSUME NEW t \in Tasks, Report(t) PROVE ForInv'
  <2> USE DEF Report, Notify
  <2>1. UNCHANGED functor /\ UNCHANGED parent /\ stage[t] = "notifying"
    BY <1>5
  <2>2. stage'[t] \in {"notifying", "left"}
        /\ \A x \in Tasks \ {t} : stage'[x] = stage[x]
    BY <1>5 DEF IInv, TypeOK
  <2>3. step[t] \in {"right", "applied"}
    BY <2>1 DEF ForInv, StepsInOrder
  <2>4. \A x \in Tasks : Pending(x)' = Pending(x)
    BY <2>1, <2>2, <2>3 DEF Pending, functor
  <2> QED
    BY <2>1, <2>2, <2>3, <2>4, FunctorsUntouched
<1>6. ASSUME NEW f \in Frames, NEW t \in Tasks, Launch(f, t) \/ Execute(f, t)
      PROVE  ForInv'
  <2> USE DEF Launch, PushTask, Execute, ExecuteOneTask, Call
  <2>1. UNCHANGED functor /\ UNCHANGED parent /\ stage[t] \in {"created", "queued"}
    BY <1>6
  <2>2. stage'[t] \in {"queued", "calling"}
        /\ \A x \in Tasks \ {t} : stage'[x] = stage[x]
    BY <1>6 DEF IInv, TypeOK
  <2>3. \A x \in Tasks : Pending(x)' = Pending(x)
    BY <2>1, <2>2 DEF Pending, functor
  <2> QED
    BY <2>1, <2>2, <2>3, FunctorsUntouched
<1>7. ASSUME Await \/ Awaited PROVE ForInv'
  <2>1. UNCHANGED functor /\ UNCHANGED <<parent, stage>>
    BY <1>7 DEF Await, BeginWait, Awaited, EndWait
  <2>2. \A x \in Tasks : Pending(x)' = Pending(x)
    BY <2>1 DEF Pending, functor
  <2> QED
    BY <2>1, <2>2, FunctorsUntouched
<1>8. ASSUME UNCHANGED forVars PROVE ForInv'
  <2>1. UNCHANGED functor /\ UNCHANGED <<parent, stage>>
    BY <1>8 DEF forVars, vars, functor
  <2>2. \A x \in Tasks : Pending(x)' = Pending(x)
    BY <2>1 DEF Pending, functor
  <2> QED
    BY <2>1, <2>2, FunctorsUntouched
<1> QED
  BY <1>1, <1>2, <1>3, <1>4, <1>5, <1>6, <1>7, <1>8 DEF ForNext

LEMMA ForInductive == ForSpec => []ForInv
<1>1. IInv /\ [ForNext]_forVars => IInv'
  BY StepIsTreeStep, StepKeepsIInv
<1>2. ForInit => IInv /\ ForInv
  BY InitForInv, InitIInv DEF ForInit
<1> QED
  BY <1>1, <1>2, StepKeepsForInv, PTL DEF ForSpec

-----------------------------------------------------------------------------
\* Ranges are proper ones, inside that of the call.
THEOREM RangesCorrect == ForSpec => []ForTypeOK
<1>1. ForInv => ForTypeOK
  BY DEF ForInv
<1> QED
  BY <1>1, ForInductive, PTL

\* The function is applied to no index twice, however the range is split and
\* whoever runs the parts.
THEOREM AppliedOnce == ForSpec => []VisitedOnce
<1>1. ForInv => VisitedOnce
  BY DEF ForInv, HeldUnvisited, VisitedOnce
<1> QED
  BY <1>1, ForInductive, PTL

\* When the wait in Run returns, the function has been applied everywhere.
THEOREM AppliedEverywhere == ForSpec => []FinishedMeansVisited
<1>1. ForInv /\ FinishedMeansFamilyDone => FinishedMeansVisited
  <2> SUFFICES ASSUME ForInv, FinishedMeansFamilyDone, Finished(Root),
                      NEW i \in 0..(size - 1), visits[i] # 1
               PROVE  FALSE
    BY DEF FinishedMeansVisited
  <2>1. PICK t \in Tasks : Holds(t, i)
    BY DEF ForInv, NoneForgotten, Finished
  <2>2. stage[t] \in {"created", "queued", "calling"}
    BY <2>1 DEF Holds, Pending
  <2>3. t \in Family(Root)
    BY <2>2 DEF ForInv, AllInFamily
  <2> QED
    BY <2>2, <2>3, RootIsTask DEF FinishedMeansFamilyDone
<1>2. Spec => []FinishedMeansFamilyDone
  BY FamilyDone
<1> QED
  BY <1>1, <1>2, ForInductive, ImplementsTaskTree, PTL
=============================================================================
