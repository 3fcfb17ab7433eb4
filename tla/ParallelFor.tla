----------------------------- MODULE ParallelFor -----------------------------
(***************************************************************************)
(* xr_parallel_for (xrCore/Threading/ParallelFor.hpp) on top of the task   *)
(* tree: the primary thread pushes a task for the whole range and waits for*)
(* it; a task whose range is still larger than the grain splits off its    *)
(* left half into one child and hands what is left of it to another, any   *)
(* other task applies the user's function to its range.                    *)
(*                                                                         *)
(* Every action is one of TaskTree's together with what the functor does.  *)
(***************************************************************************)
EXTENDS TaskTree

CONSTANT MaxSize    \* bound on the number of indices

ASSUME SizeIsNat     == MaxSize \in Nat
ASSUME RootExists    == MaxTasks >= 1
ASSUME ThreadsFinite == IsFiniteSet(Threads)

VARIABLES
    size,       \* the indices are 0..size-1
    grain,      \* TaskRange::m_grain, copied from range to range
    range,      \* Functor::range of each task
    step,       \* how far each task's functor has come
    visits      \* how often the function has been applied to each index

forVars == <<vars, size, grain, range, step, visits>>
functor == <<size, grain, range, step, visits>>

Root     == 1       \* the task that AddTask(Functor{range, function}) creates
Indices  == 0..(MaxSize - 1)
NoRange  == [begin |-> 0, end |-> 0]
Length(r) == r.end - r.begin

\* A range is always a proper one, and lies inside that of the call
\* ("range has been split incorrectly").
ForTypeOK ==
    /\ size \in 0..MaxSize /\ grain \in Nat \ {0}
    /\ range \in [Tasks -> [begin : 0..size, end : 0..size]]
    /\ \A t \in Tasks : range[t].begin <= range[t].end
    /\ step \in [Tasks -> {"entry", "left", "right", "applied"}]
    /\ visits \in [Indices -> Nat]

ForInit ==
    /\ Init
    /\ size = 0 /\ grain = 1
    /\ range  = [t \in Tasks |-> NoRange]
    /\ step   = [t \in Tasks |-> "entry"]
    /\ visits = [i \in Indices |-> 0]

-----------------------------------------------------------------------------
\* m_grain(size / GetWorkersCount()), at least one; the count is that of the
\* threads registered by then, the primary thread among them.
DefaultGrain(n, count) == IF n \div count = 0 THEN 1 ELSE n \div count

Run(n, count) ==
    /\ CreateTask(Main, Root, NoTask)
    /\ size' = n
    /\ grain' = DefaultGrain(n, count)
    /\ range' = [range EXCEPT ![Root] = [begin |-> 0, end |-> n]]
    /\ UNCHANGED <<step, visits>>

IsSplittable(t) == grain < Length(range[t])

\* TaskRange(other, SplitTaskRange): the left half, and what it leaves behind.
HalfLength(r) == Length(r) \div 2
Third(r) == r.begin + Length(r) \div 3
Middle(r) == r.begin + Length(r) \div 2

\* AddTask(task, left) creates a child, and then pushes it.
SplitLeft(t, c) ==
    LET middle == Middle(range[t])
    IN  /\ step[t] = "entry" /\ IsSplittable(t)
        /\ CreateTask(t, c, t)
        /\ step'  = [step EXCEPT ![t] = "left"]
        /\ range' = [range EXCEPT ![c] = [begin |-> range[t].begin, end |-> middle],
                                  ![t].begin = middle]
        /\ UNCHANGED <<size, grain, visits>>

\* AddTask(task, *this) hands on the rest.
SplitRight(t, c) ==
    /\ step[t] = "left" /\ NothingUnlaunched(t)
    /\ CreateTask(t, c, t)
    /\ step'  = [step EXCEPT ![t] = "right"]
    /\ range' = [range EXCEPT ![c] = range[t]]
    /\ UNCHANGED <<size, grain, visits>>

Launch(f, t) == PushTask(f, t) /\ UNCHANGED functor

\* function(range)
ApplyAnyway(t) ==
    /\ InUserCode(t)
    /\ step[t] = "right" \/ (step[t] = "entry" /\ ~IsSplittable(t))
    /\ step' = [step EXCEPT ![t] = "applied"]
    /\ visits' = [i \in Indices |->
                    IF range[t].begin <= i /\ i < range[t].end
                    THEN visits[i] + 1 ELSE visits[i]]
    /\ UNCHANGED <<vars, size, grain, range>>
Apply(t) ==
    /\ InUserCode(t) /\ step[t] = "entry" /\ ~IsSplittable(t)
    /\ step' = [step EXCEPT ![t] = "applied"]
    /\ visits' = [i \in Indices |->
                    IF range[t].begin <= i /\ i < range[t].end
                    THEN visits[i] + 1 ELSE visits[i]]
    /\ UNCHANGED <<vars, size, grain, range>>

Leave(t) ==
    /\ step[t] \in {"right", "applied"}
    /\ Return(t)
    /\ UNCHANGED functor

Execute(f, t) == ExecuteOneTask(f, t) /\ UNCHANGED functor
Report(t)     == Notify(t) /\ UNCHANGED functor
Await         == BeginWait(Main, Root) /\ UNCHANGED functor
Awaited       == EndWait(Main) /\ UNCHANGED functor

-----------------------------------------------------------------------------
Split(t, c) == SplitLeft(t, c) \/ SplitRight(t, c)

ForNext ==
    \/ \E n \in 0..MaxSize, count \in 1..Cardinality(Threads) : Run(n, count)
    \/ \E t, c \in Tasks : Split(t, c)
    \/ \E t \in Tasks : Apply(t) \/ Leave(t) \/ Report(t)
    \/ \E f \in Frames, t \in Tasks : Launch(f, t) \/ Execute(f, t)
    \/ Await \/ Awaited

ForSpec == ForInit /\ [][ForNext]_forVars

\* Threads are scheduled, and one that keeps polling finds a queued task.
ForFairness ==
    /\ \A t \in Tasks :
          /\ WF_forVars(\E c \in Tasks : Split(t, c))
          /\ WF_forVars(Apply(t) \/ Leave(t) \/ Report(t))
          /\ WF_forVars(\E f \in Frames : Launch(f, t))
    /\ WF_forVars(\E f \in Frames, t \in Tasks : Execute(f, t))
    /\ WF_forVars(Await \/ Awaited)

ForFairSpec == ForSpec /\ ForFairness

-----------------------------------------------------------------------------
\* No index is handed to the function twice.
VisitedOnce == \A i \in Indices : visits[i] <= 1

\* What the callers rely on: once Wait may return, the function has been
\* applied to every index of the range, exactly once.
FinishedMeansVisited ==
    Finished(Root) => \A i \in 0..(size - 1) : visits[i] = 1

\* A call ends, whatever thread takes which part.
EveryIndexIsVisited ==
    (stage[Root] = "queued") ~> (Finished(Root) /\ \A i \in 0..(size - 1) : visits[i] = 1)
=============================================================================
