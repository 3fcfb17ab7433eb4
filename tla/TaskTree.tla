------------------------------ MODULE TaskTree ------------------------------
(***************************************************************************)
(* Task lifetimes in the job system (xrCore/Threading/Task.hpp and the     *)
(* task half of TaskManager.cpp): creation, pushing, running, the jobs     *)
(* counter that a finished task carries up to its parents, and the nested  *)
(* execution that TaskManager::Wait does while it waits.                   *)
(*                                                                         *)
(* A task is run at most once, so its activation record is identified with *)
(* the task itself and the stack of a thread is the chain of frames that   *)
(* hangs from top[thread] along below.  The bottom frame of a thread is    *)
(* the thread.  The queues are abstracted to the set of queued tasks, and  *)
(* a task is an identity rather than a slot of TaskAllocator.              *)
(***************************************************************************)
EXTENDS Integers, FiniteSets

CONSTANTS
    MaxTasks,   \* bound on the number of tasks the program ever creates
    Workers,    \* threads that run TaskWorkerStart
    Main,       \* the primary thread
    NoTask,     \* nullptr
    MaxJobs     \* bound on Task::jobs (an int16 in the code)

Tasks   == 1..MaxTasks      \* numbered in the order of their creation
Threads == Workers \cup {Main}
Frames  == Tasks \cup Threads

ASSUME BoundsNat == MaxTasks \in Nat /\ MaxJobs \in Nat \ {0}
ASSUME NamesDistinct ==
    /\ Tasks \cap Threads = {}
    /\ Main \notin Workers
    /\ NoTask \notin Frames

VARIABLES
    stage,      \* how far each task has come
    parent,     \* Task::Data::parent
    creator,    \* the frame that created the task, and may wait for it
    jobs,       \* Task::Data::jobs
    zeroed,     \* last task whose counter the frame brought to zero: the
                \* "it" of operator() is that task's parent, or the task itself
    below,      \* the frame a running task was called from
    top,        \* the frame a thread is executing
    awaits      \* the argument of the TaskManager::Wait a frame is inside of

vars == <<stage, parent, creator, jobs, zeroed, below, top, awaits>>

Stages == {"free", "created", "queued", "calling", "notifying", "left"}

TypeOK ==
    /\ stage   \in [Tasks -> Stages]
    /\ parent  \in [Tasks -> Tasks \cup {NoTask}]
    /\ creator \in [Tasks -> Frames \cup {NoTask}]
    /\ jobs    \in [Tasks -> 0..MaxJobs]
    /\ zeroed  \in [Tasks -> Tasks \cup {NoTask}]
    /\ below   \in [Tasks -> Frames \cup {NoTask}]
    /\ top     \in [Threads -> Frames]
    /\ awaits  \in [Frames -> Tasks \cup {NoTask}]

Init ==
    /\ stage   = [t \in Tasks |-> "free"]
    /\ parent  = [t \in Tasks |-> NoTask]
    /\ creator = [t \in Tasks |-> NoTask]
    /\ jobs    = [t \in Tasks |-> 0]
    /\ zeroed  = [t \in Tasks |-> NoTask]
    /\ below   = [t \in Tasks |-> NoTask]
    /\ top     = [th \in Threads |-> th]
    /\ awaits  = [f \in Frames |-> NoTask]

-----------------------------------------------------------------------------
IsTop(f) == \E th \in Threads : top[th] = f

\* User code runs in a frame: the primary thread's own, or a functor's.
InUserCode(f) ==
    /\ IsTop(f)
    /\ awaits[f] = NoTask
    /\ f = Main \/ (f \in Tasks /\ stage[f] = "calling")

\* The frame calls ExecuteOneTask: the worker loop, or the loop of Wait.
Polling(f) == IsTop(f) /\ (f \in Workers \/ awaits[f] # NoTask)

\* Task::IsFinished of a task that exists
Finished(t) == stage[t] # "free" /\ jobs[t] = 0

\* Tasks a frame may hand to CreateTask(parent, ...): the task it runs (the
\* Task& a functor receives), and those it created and has not launched yet.
ParentsFor(f) ==
    {p \in Tasks : p = f \/ (creator[p] = f /\ stage[p] = "created")}

\* The callers push or run what they created before they return or wait.
NothingUnlaunched(f) == \A t \in Tasks : creator[t] = f => stage[t] # "created"

\* Tasks a frame may hand to Wait: the launched ones it created itself.
MayAwaitAny(f, t) == stage[t] \notin {"free", "created"}
MayAwait(f, t) == creator[t] = f /\ stage[t] \notin {"free", "created"}

\* Call t's functor on top of frame f.
Call(f, t) ==
    /\ stage' = [stage EXCEPT ![t] = "calling"]
    /\ below' = [below EXCEPT ![t] = f]
    /\ top'   = [th \in Threads |-> IF top[th] = f THEN t ELSE top[th]]
    /\ UNCHANGED <<parent, creator, jobs, zeroed, awaits>>

-----------------------------------------------------------------------------
\* jobs(1) for the new task and fetch_add(1) on its parent.
ParentNotCounted(t, p) == [jobs EXCEPT ![t] = 1]
SelfNotCounted(t, p) ==
    [x \in Tasks |-> IF x = p THEN jobs[x] + 1 ELSE jobs[x]]
JobsWith(t, p) ==
    [x \in Tasks |-> CASE x = t -> 1
                       [] x = p -> jobs[x] + 1
                       [] OTHER -> jobs[x]]

CreateTask(f, t, p) ==
    /\ InUserCode(f)
    /\ \A s \in Tasks : stage[s] = "free" <=> s >= t
    /\ p = NoTask \/ (p \in ParentsFor(f) /\ jobs[p] < MaxJobs)
    /\ stage'   = [stage EXCEPT ![t] = "created"]
    /\ parent'  = [parent EXCEPT ![t] = p]
    /\ creator' = [creator EXCEPT ![t] = f]
    /\ jobs'    = JobsWith(t, p)
    /\ UNCHANGED <<zeroed, below, top, awaits>>

PushTask(f, t) ==
    /\ InUserCode(f)
    /\ stage[t] = "created" /\ creator[t] = f
    /\ stage' = [stage EXCEPT ![t] = "queued"]
    /\ UNCHANGED <<parent, creator, jobs, zeroed, below, top, awaits>>

RunTask(f, t) ==
    /\ InUserCode(f)
    /\ stage[t] = "created" /\ creator[t] = f
    /\ Call(f, t)

\* Wait has seen its task unfinished before it calls ExecuteOneTask; by the
\* time a task has been popped the awaited one may be finished.
ExecuteOneTask(f, t) ==
    /\ Polling(f)
    /\ stage[t] = "queued"
    /\ Call(f, t)

\* The functor returns.
Return(t) ==
    /\ t \in Tasks /\ InUserCode(t)
    /\ NothingUnlaunched(t)
    /\ stage' = [stage EXCEPT ![t] = "notifying"]
    /\ UNCHANGED <<parent, creator, jobs, zeroed, below, top, awaits>>

\* The task whose counter frame t decrements next
NotifiedAgain(t) == IF zeroed[t] = NoTask THEN t ELSE zeroed[t]
Notified(t) == IF zeroed[t] = NoTask THEN t ELSE parent[zeroed[t]]

\* Whether the loop breaks once "it" has that many jobs left
BreaksAtOnce(it, left) == TRUE
Breaks(it, left) == left # 0 \/ parent[it] = NoTask

\* One turn of the loop in Task::operator().
Notify(t) ==
    LET it   == Notified(t)
        left == jobs[it] - 1
    IN  /\ IsTop(t) /\ t \in Tasks /\ stage[t] = "notifying"
        /\ jobs' = [jobs EXCEPT ![it] = left]
        /\ IF Breaks(it, left)
           THEN /\ stage'  = [stage EXCEPT ![t] = "left"]
                /\ zeroed' = [zeroed EXCEPT ![t] = NoTask]
                /\ top'    = [th \in Threads |->
                                IF top[th] = t THEN below[t] ELSE top[th]]
           ELSE /\ zeroed' = [zeroed EXCEPT ![t] = it]
                /\ UNCHANGED <<stage, top>>
        /\ UNCHANGED <<parent, creator, below, awaits>>

\* Wait on a finished task returns at once and changes nothing.
BeginWait(f, t) ==
    /\ InUserCode(f)
    /\ NothingUnlaunched(f)
    /\ MayAwait(f, t)
    /\ ~Finished(t)
    /\ awaits' = [awaits EXCEPT ![f] = t]
    /\ UNCHANGED <<stage, parent, creator, jobs, zeroed, below, top>>

EndWait(f) ==
    /\ IsTop(f)
    /\ awaits[f] # NoTask
    /\ Finished(awaits[f])
    /\ awaits' = [awaits EXCEPT ![f] = NoTask]
    /\ UNCHANGED <<stage, parent, creator, jobs, zeroed, below, top>>

-----------------------------------------------------------------------------
Next ==
    \/ \E f \in Frames, t \in Tasks :
          \/ \E p \in Tasks \cup {NoTask} : CreateTask(f, t, p)
          \/ PushTask(f, t)
          \/ RunTask(f, t)
          \/ ExecuteOneTask(f, t)
          \/ BeginWait(f, t)
    \/ \E t \in Tasks : Return(t) \/ Notify(t)
    \/ \E f \in Frames : EndWait(f)

Spec == Init /\ [][Next]_vars

\* Functors return once they have launched what they created, threads are
\* scheduled, and a thread that keeps polling finds a queued task.
Fairness ==
    /\ \A t \in Tasks :
          /\ WF_vars(Return(t))
          /\ WF_vars(Notify(t))
          /\ WF_vars(\E f \in Frames : PushTask(f, t) \/ RunTask(f, t))
    /\ \A f \in Frames : WF_vars(EndWait(f))
    /\ WF_vars(\E f \in Frames, t \in Tasks : ExecuteOneTask(f, t))

FairSpec == Spec /\ Fairness

-----------------------------------------------------------------------------
\* t's own share of its counter is still outstanding.
OwnPending(t) ==
    \/ stage[t] \in {"created", "queued", "calling"}
    \/ stage[t] = "notifying" /\ zeroed[t] = NoTask

\* c has not yet been subtracted from its parent's counter: it is unfinished,
\* or a frame has brought it to zero and is about to climb to the parent.
Owing(c) == jobs[c] > 0 \/ \E f \in Tasks : zeroed[f] = c

Owed(t) == {c \in Tasks : parent[c] = t /\ Owing(c)}

\* "at least 1 (task itself), zero means task is done" (Task.hpp:50): the
\* counter of every task that exists is its own outstanding share plus one
\* for each child that has not reported to it yet.
JobsExact ==
    \A t \in Tasks : stage[t] # "free" =>
        jobs[t] = (IF OwnPending(t) THEN 1 ELSE 0) + Cardinality(Owed(t))

\* The tasks that stem from t: the least set that holds t and the children of
\* its members.
Family(t) ==
    {d \in Tasks : \A S \in SUBSET Tasks :
        (t \in S /\ \A c \in Tasks : parent[c] \in S => c \in S) => d \in S}

\* A finished task has run its functor to the end, and so has every task that
\* stems from it: what "draw task should be finished as sub task of main"
\* (r2.h:80) relies on.
FinishedMeansFamilyDone ==
    \A t \in Tasks : Finished(t) =>
        \A d \in Family(t) : stage[d] \in {"notifying", "left"} /\ jobs[d] = 0

\* Wait returns only when the whole family of the awaited task is done.
WaitIsSound ==
    [][\A f \in Frames : awaits[f] # NoTask /\ awaits'[f] = NoTask =>
          \A d \in Family(awaits[f]) : stage[d] \in {"notifying", "left"}]_vars

\* VERIFY2(unfinishedJobs >= 0, "The same task was executed two times."): a
\* frame in operator()'s loop never meets a counter that is already zero.
NeverExecutedTwice ==
    \A t \in Tasks : stage[t] = "notifying" => jobs[Notified(t)] > 0

\* VERIFY2(parent->jobs > 0, "Adding child task to a parent that has already
\* finished."): no frame in user code holds a finished task as a parent.
NoLateChild ==
    \A f \in Frames : InUserCode(f) => \A p \in ParentsFor(f) : jobs[p] > 0

\* Every wait returns.  A waiting thread runs other tasks on top of the
\* waiting frame, so the awaited task could end up suspended beneath a wait
\* that depends on it; waiting only for tasks of one's own rules this out.
WaitsReturn ==
    \A f \in Frames : (awaits[f] # NoTask) ~> (awaits[f] = NoTask)

\* Every task that is pushed is finished sooner or later.
PushedIsFinished == \A t \in Tasks : (stage[t] = "queued") ~> Finished(t)
=============================================================================
