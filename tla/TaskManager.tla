----------------------------- MODULE TaskManager -----------------------------
(***************************************************************************)
(* The worker threads of the job system (xrCore/Threading/TaskManager.cpp):*)
(* registration, the worker loop, stealing, sleeping on newWorkArrived,    *)
(* Pause, and the shutdown in the destructor.                              *)
(*                                                                         *)
(* A queue is the sequence of its tasks; popping reads the front and then  *)
(* exchanges the head, which fails when another thread was faster (see     *)
(* TaskQueue for the ring itself).  A task is a leaf, or a fork that pushes*)
(* one child and waits for it, as xr_parallel_for does in a functor.       *)
(***************************************************************************)
EXTENDS Integers, SequencesExt

CONSTANTS
    Workers,    \* threads that run TaskWorkerStart
    Main,       \* the thread that creates and destroys the TaskManager
    Roots,      \* tasks that the primary thread may push
    Forks,      \* the roots that push a child and wait for it
    Child,      \* the child of each fork
    Nil,        \* nullptr
    Attempts,   \* steal_attempts, 5 in the code
    MaxPauses,  \* bound on the calls of Pause
    CleanStop   \* whether the destructor only runs when no fork is pending

Threads == Workers \cup {Main}
Tasks   == Roots \cup {Child[t] : t \in Forks}

ASSUME ForksAreRoots  == Forks \subseteq Roots
ASSUME ChildrenDiffer ==
    /\ \A t \in Forks : Child[t] \notin Roots
    /\ \A t, u \in Forks : Child[t] = Child[u] => t = u
ASSUME NilIsNone      == Main \notin Workers /\ Nil \notin Threads \cup Tasks
ASSUME FinitelyMany   == IsFiniteSet(Workers) /\ IsFiniteSet(Roots)
ASSUME BoundsAreNat   == Attempts \in Nat \ {0} /\ MaxPauses \in Nat

VARIABLES
    workers,    \* the registered threads, in order
    lock,       \* holder of workersLock
    active,     \* activeWorkersCount
    shouldPause,
    shouldStop,
    signaled,   \* newWorkArrived, an auto-reset event
    queue,      \* each thread's TaskQueue
    status,     \* how far each task has come
    pc,         \* where each thread is
    home,       \* what the thread's outermost loop is: TaskWorkerStart,
                \* a final drain, or the primary thread's Wait
    stack,      \* the tasks the thread is inside of, innermost first
    victim,     \* queue the thread is popping from
    front,      \* the task it has read there
    tries,      \* steal attempts left
    dist,       \* the threads the random index of TryToSteal ranges over
    goal,       \* the task the primary thread waits for
    wakes,      \* Set() calls the destructor has left to make
    pauses      \* bound: calls of Pause so far

vars == <<workers, lock, active, shouldPause, shouldStop, signaled, queue,
          status, pc, home, stack, victim, front, tries, dist, goal, wakes, pauses>>

control  == <<workers, lock, active, shouldPause, shouldStop>>
popping  == <<victim, front, tries, dist>>
mainOnly == <<goal, wakes, pauses>>

Searching == {"own", "ownTake", "first", "firstTake", "steal", "stealTake",
              "chain", "call"}
Labels == Searching \cup
    {"start", "enter", "loop", "rest", "sleep", "woken", "leave", "drain",
     "drainTake", "unreg", "spin", "erase", "gone", "body", "forked", "await",
     "user", "pushed", "wait", "wake", "reap", "join"}

TypeOK ==
    /\ workers \in Seq(Threads) /\ Len(workers) <= Cardinality(Threads)
    /\ lock \in Threads \cup {Nil}
    /\ active \in 0..Cardinality(Workers)
    /\ {shouldPause, shouldStop, signaled} \subseteq BOOLEAN
    /\ queue \in [Threads -> Seq(Tasks)]
    /\ status \in [Tasks -> {"none", "queued", "taken", "done"}]
    /\ pc \in [Threads -> Labels]
    /\ home \in [Threads -> {"loop", "drain", "wait"}]
    /\ stack \in [Threads -> Seq(Tasks)]
    /\ victim \in [Threads -> Threads \cup {Nil}]
    /\ front \in [Threads -> Tasks \cup {Nil}]
    /\ tries \in [Threads -> 0..Attempts]
    /\ dist \in [Threads -> SUBSET Threads]
    /\ goal \in Roots \cup {Nil}
    /\ wakes \in 0..Cardinality(Workers)
    /\ pauses \in 0..MaxPauses

\* The constructor has registered the primary thread, SpawnThreads has
\* started the workers.
Init ==
    /\ workers = <<Main>>
    /\ lock = Nil
    /\ active = 0
    /\ shouldPause = FALSE /\ shouldStop = FALSE /\ signaled = FALSE
    /\ queue  = [th \in Threads |-> <<>>]
    /\ status = [t \in Tasks |-> "none"]
    /\ pc     = [th \in Threads |-> IF th = Main THEN "user" ELSE "start"]
    /\ home   = [th \in Threads |-> IF th = Main THEN "wait" ELSE "loop"]
    /\ stack  = [th \in Threads |-> <<>>]
    /\ victim = [th \in Threads |-> Nil]
    /\ front  = [th \in Threads |-> Nil]
    /\ tries  = [th \in Threads |-> 0]
    /\ dist   = [th \in Threads |-> {}]
    /\ goal = Nil /\ wakes = 0 /\ pauses = 0

Go(th, from, to) == pc[th] = from /\ pc' = [pc EXCEPT ![th] = to]

-----------------------------------------------------------------------------
(* Registration *)

Register(th) ==
    /\ Go(th, "start", "enter")
    /\ lock = Nil
    /\ workers' = Append(workers, th)
    /\ UNCHANGED <<lock, active, shouldPause, shouldStop, signaled, queue,
                   status, home, stack, popping, mainOnly>>

\* SetThreadStatus(true)
EntersUncounted(th) ==
    /\ Go(th, "enter", "loop")
    /\ UNCHANGED <<control, signaled, queue, status, home, stack, popping, mainOnly>>

Enter(th) ==
    /\ Go(th, "enter", "loop")
    /\ active' = active + 1
    /\ UNCHANGED <<workers, lock, shouldPause, shouldStop, signaled, queue,
                   status, home, stack, popping, mainOnly>>

\* Unregistering first pauses everyone ...
BeginUnregister(th) ==
    /\ Go(th, "unreg", "spin")
    /\ lock = Nil
    /\ lock' = th
    /\ shouldPause' = TRUE
    /\ UNCHANGED <<workers, active, shouldStop, signaled, queue, status, home,
                   stack, popping, mainOnly>>

\* ... then spins until no worker is active ...
NobodyChecked == TRUE
AllResting == active = 0

Quiesce(th) ==
    /\ Go(th, "spin", "erase")
    /\ AllResting
    /\ UNCHANGED <<control, signaled, queue, status, home, stack, popping, mainOnly>>

\* ... then erases the thread and lets the others go on.
LeavesPaused(th) ==
    /\ Go(th, "erase", IF th = Main THEN "reap" ELSE "gone")
    /\ workers' = RemoveFirst(workers, th)
    /\ lock' = Nil
    /\ UNCHANGED <<active, shouldPause, shouldStop, signaled, queue, status,
                   home, stack, popping, mainOnly>>

EndUnregister(th) ==
    /\ Go(th, "erase", IF th = Main THEN "reap" ELSE "gone")
    /\ workers' = RemoveFirst(workers, th)
    /\ shouldPause' = FALSE
    /\ lock' = Nil
    /\ UNCHANGED <<active, shouldStop, signaled, queue, status, home, stack,
                   popping, mainOnly>>

-----------------------------------------------------------------------------
(* TaskWorkerStart *)

Loop(th) ==
    /\ Go(th, "loop", CASE shouldStop -> "leave"
                        [] ~shouldStop /\ shouldPause -> "rest"
                        [] OTHER -> "own")
    /\ UNCHANGED <<control, signaled, queue, status, home, stack, popping, mainOnly>>

\* SetThreadStatus(false), before sleeping or before the final drain
RestsActive(th) ==
    /\ \/ Go(th, "rest", "sleep") /\ UNCHANGED <<active, home>>
       \/ /\ Go(th, "leave", "drain")
          /\ home' = [home EXCEPT ![th] = "drain"]
          /\ active' = active - 1
    /\ UNCHANGED <<workers, lock, shouldPause, shouldStop, signaled, queue,
                   status, stack, popping, mainOnly>>

Rest(th) ==
    /\ \/ Go(th, "rest", "sleep") /\ UNCHANGED home
       \/ Go(th, "leave", "drain") /\ home' = [home EXCEPT ![th] = "drain"]
    /\ active' = active - 1
    /\ UNCHANGED <<workers, lock, shouldPause, shouldStop, signaled, queue,
                   status, stack, popping, mainOnly>>

\* newWorkArrived.Wait(), repeated while shouldPause
Sleep(th) ==
    /\ Go(th, "sleep", "woken")
    /\ signaled
    /\ signaled' = FALSE
    /\ UNCHANGED <<control, queue, status, home, stack, popping, mainOnly>>

Woken(th) ==
    /\ Go(th, "woken", IF shouldPause THEN "sleep" ELSE "enter")
    /\ UNCHANGED <<control, signaled, queue, status, home, stack, popping, mainOnly>>

-----------------------------------------------------------------------------
(* ExecuteOneTask, and the pop loop of a drain *)

\* pop: read the front of v's queue.
Read(th, v, from, found, empty) ==
    /\ Go(th, from, IF queue[v] = <<>> THEN empty ELSE found)
    /\ IF queue[v] = <<>>
       THEN UNCHANGED <<victim, front>>
       ELSE /\ victim' = [victim EXCEPT ![th] = v]
            /\ front'  = [front EXCEPT ![th] = Head(queue[v])]
    /\ UNCHANGED <<control, signaled, queue, status, home, stack, mainOnly>>

\* pop: exchange the head, unless another thread has moved it.  (A weak
\* exchange may also fail for no reason: TaskQueue.)
StillFilled(q, t) == q # <<>>
Unmoved(q, t) == q # <<>> /\ Head(q) = t

Exchange(th, from, won, lost) ==
    LET ok  == Unmoved(queue[victim[th]], front[th])
    IN  /\ Go(th, from, IF ok THEN won ELSE lost)
        /\ IF ok
           THEN /\ queue'  = [queue EXCEPT ![victim[th]] = Tail(@)]
                /\ status' = [status EXCEPT ![front[th]] = "taken"]
                /\ UNCHANGED <<victim, front>>
           ELSE /\ victim' = [victim EXCEPT ![th] = Nil]
                /\ front'  = [front EXCEPT ![th] = Nil]
                /\ UNCHANGED <<queue, status>>
        /\ UNCHANGED <<control, signaled, home, stack, mainOnly>>

\* Where a thread goes on after ExecuteOneTask has found nothing, and after
\* the task it has run returns.
Missed(th) == IF stack[th] # <<>> THEN "await"
              ELSE IF home[th] = "loop" THEN "rest" ELSE home[th]
Resumed(th) == IF Len(stack[th]) > 1 THEN "await" ELSE home[th]

\* s_tl_worker.pop()
PopOwn(th) ==
    /\ \/ Read(th, th, "own", "ownTake", "first")
       \/ Exchange(th, "ownTake", "call", "first")
    /\ UNCHANGED <<tries, dist>>

\* workers[0]->steal(), and if that finds nothing TryToSteal begins.
StealFirst(th) ==
    /\ \/ Read(th, Head(workers), "first", "firstTake", "steal")
       \/ Exchange(th, "firstTake", "call", "steal")
    /\ IF pc'[th] = "steal"
       THEN /\ tries' = [tries EXCEPT ![th] = Attempts]
            /\ dist'  = [dist EXCEPT ![th] = {workers[i] : i \in DOMAIN workers}]
       ELSE UNCHANGED <<tries, dist>>

StillStealing(th) == pc'[th] \in {"steal", "stealTake"}

\* One turn of the loop in TryToSteal that has picked another thread; picking
\* oneself is no attempt, so a thread that was registered alone when the loop
\* began never gets out.  (A thread that has left meanwhile leaves its pointer
\* behind the end of the vector; its queue is then read as it was left.)
StealFrom(th, v) ==
    LET last == IF tries[th] = 1 THEN Missed(th) ELSE "steal"
    IN  /\ v \in dist[th] \ {th}
        /\ Read(th, v, "steal", "stealTake", last)
        /\ tries' = [tries EXCEPT ![th] =
                        IF queue[v] = <<>> THEN @ - 1 ELSE @]
        /\ dist' = [dist EXCEPT ![th] = IF StillStealing(th) THEN @ ELSE {}]

StealTake(th) ==
    LET last == IF tries[th] = 1 THEN Missed(th) ELSE "steal"
    IN  /\ Exchange(th, "stealTake", "chain", last)
        /\ tries' = [tries EXCEPT ![th] = @ - 1]
        /\ dist' = [dist EXCEPT ![th] = IF StillStealing(th) THEN @ ELSE {}]

\* if (!other->empty()) newWorkArrived.Set()
Chain(th) ==
    /\ Go(th, "chain", "call")
    /\ signaled' = (signaled \/ queue[victim[th]] # <<>>)
    /\ UNCHANGED <<control, queue, status, home, stack, popping, mainOnly>>

\* The pop loops that finish what is left in a thread's own queue
Drain(th) ==
    /\ \/ Read(th, th, "drain", "drainTake", "unreg")
       \/ Exchange(th, "drainTake", "call", "unreg")
    /\ UNCHANGED <<tries, dist>>

-----------------------------------------------------------------------------
(* ExecuteTask: run what was popped *)

Call(th) ==
    /\ Go(th, "call", "body")
    /\ stack'  = [stack EXCEPT ![th] = <<front[th]>> \o @]
    /\ front'  = [front EXCEPT ![th] = Nil]
    /\ victim' = [victim EXCEPT ![th] = Nil]
    /\ tries'  = [tries EXCEPT ![th] = 0]
    /\ UNCHANGED <<control, signaled, queue, status, home, dist, mainOnly>>

\* PushTask: into one's own queue, then newWorkArrived.Set()
Push(th, t, from, to) ==
    /\ Go(th, from, to)
    /\ queue'  = [queue EXCEPT ![th] = Append(@, t)]
    /\ status' = [status EXCEPT ![t] = "queued"]
    /\ UNCHANGED <<control, signaled, home, stack, popping, mainOnly>>

Announce(th, from, to) ==
    /\ Go(th, from, to)
    /\ signaled' = TRUE
    /\ UNCHANGED <<control, queue, status, home, stack, popping, mainOnly>>

Fork(th) ==
    /\ pc[th] \in {"body", "forked"}
    /\ Head(stack[th]) \in Forks
    /\ \/ Push(th, Child[Head(stack[th])], "body", "forked")
       \/ Announce(th, "forked", "await")

\* Wait inside a functor: look again while the child is unfinished.
Await(th) ==
    /\ Go(th, "await", "own")
    /\ status[Child[Head(stack[th])]] # "done"
    /\ UNCHANGED <<control, signaled, queue, status, home, stack, popping, mainOnly>>

Finish(th) ==
    LET t == Head(stack[th])
    IN  /\ \/ pc[th] = "body"  /\ t \notin Forks
           \/ pc[th] = "await" /\ status[Child[t]] = "done"
        /\ pc' = [pc EXCEPT ![th] = Resumed(th)]
        /\ status' = [status EXCEPT ![t] = "done"]
        /\ stack'  = [stack EXCEPT ![th] = Tail(@)]
        /\ UNCHANGED <<control, signaled, queue, home, popping, mainOnly>>

-----------------------------------------------------------------------------
(* The primary thread *)

MainPush ==
    \/ \E t \in Roots : status[t] = "none" /\ Push(Main, t, "user", "pushed")
    \/ Announce(Main, "pushed", "user")

Pause(b) ==
    /\ pc[Main] = "user"
    /\ pauses < MaxPauses
    /\ shouldPause # b
    /\ shouldPause' = b
    /\ pauses' = pauses + 1
    /\ UNCHANGED <<workers, lock, active, shouldStop, signaled, queue, status,
                   pc, home, stack, popping, goal, wakes>>

\* Mutant of MainWait: it waits for the workers and runs nothing itself.
WaitsIdle ==
    \/ /\ Go(Main, "user", "wait")
       /\ goal' \in {t \in Roots : status[t] \in {"queued", "taken"}}
       /\ UNCHANGED <<control, signaled, queue, status, home, stack, popping,
                      wakes, pauses>>
    \/ /\ Go(Main, "wait", "user")
       /\ status[goal] = "done"
       /\ goal' = Nil
       /\ UNCHANGED <<control, signaled, queue, status, home, stack, popping,
                      wakes, pauses>>

MainWait ==
    \/ /\ Go(Main, "user", "wait")
       /\ goal' \in {t \in Roots : status[t] \in {"queued", "taken"}}
       /\ UNCHANGED <<control, signaled, queue, status, home, stack, popping,
                      wakes, pauses>>
    \/ /\ pc[Main] = "wait"
       /\ IF status[goal] = "done"
          THEN Go(Main, "wait", "user") /\ goal' = Nil
          ELSE Go(Main, "wait", "own") /\ UNCHANGED goal
       /\ UNCHANGED <<control, signaled, queue, status, home, stack, popping,
                      wakes, pauses>>

\* ~TaskManager: stop everyone and wake as many as were spawned.
Destroy ==
    /\ CleanStop => \A t \in Forks : status[t] \in {"none", "done"}
    /\ Go(Main, "user", IF Workers = {} THEN "drain" ELSE "wake")
    /\ shouldStop' = TRUE
    /\ wakes' = Cardinality(Workers)
    /\ home'  = [home EXCEPT ![Main] = "drain"]
    /\ UNCHANGED <<workers, lock, active, shouldPause, signaled, queue, status,
                   stack, popping, goal, pauses>>

WakeAll ==
    /\ Go(Main, "wake", IF wakes > 1 THEN "wake" ELSE "drain")
    /\ signaled' = TRUE
    /\ wakes' = wakes - 1
    /\ UNCHANGED <<control, queue, status, home, stack, popping, goal, pauses>>

\* while (!workers.empty()) newWorkArrived.Set(); then join every thread.
WakesNobody == FALSE
StillRegistered == workers # <<>>

Reap ==
    \/ /\ StillRegistered
       /\ Announce(Main, "reap", "reap")
    \/ /\ workers = <<>>
       /\ Go(Main, "reap", "join")
       /\ UNCHANGED <<control, signaled, queue, status, home, stack, popping, mainOnly>>
    \/ /\ \A w \in Workers : pc[w] = "gone"
       /\ Go(Main, "join", "gone")
       /\ UNCHANGED <<control, signaled, queue, status, home, stack, popping, mainOnly>>

-----------------------------------------------------------------------------
WorkerStep(th) ==
    \/ Register(th) \/ Enter(th) \/ Loop(th) \/ Rest(th) \/ Sleep(th) \/ Woken(th)

Search(th) ==
    \/ PopOwn(th) \/ StealFirst(th) \/ (\E v \in Threads : StealFrom(th, v))
    \/ StealTake(th) \/ Chain(th) \/ Drain(th)

Execute(th) == Call(th) \/ Fork(th) \/ Await(th) \/ Finish(th)

Unregister(th) == BeginUnregister(th) \/ Quiesce(th) \/ EndUnregister(th)

MainStep == MainPush \/ (\E b \in BOOLEAN : Pause(b)) \/ MainWait
            \/ Destroy \/ WakeAll \/ Reap

Next ==
    \/ \E th \in Workers : WorkerStep(th)
    \/ \E th \in Threads : Search(th) \/ Execute(th) \/ Unregister(th)
    \/ MainStep

Spec == Init /\ [][Next]_vars

\* What the primary thread does once it has begun to push, wait or destroy
MainGoesOn ==
    \/ Announce(Main, "pushed", "user") \/ (MainWait /\ pc[Main] = "wait")
    \/ WakeAll \/ Reap

\* Threads are scheduled and keep stepping, and the random victim is every
\* other registered thread some time if one keeps trying.  The primary thread
\* need not push, pause, wait or destroy the manager.
Fairness ==
    /\ \A w \in Workers :
          WF_vars(WorkerStep(w) \/ Search(w) \/ Execute(w) \/ Unregister(w))
    /\ WF_vars(MainGoesOn \/ Search(Main) \/ Execute(Main) \/ Unregister(Main))
    /\ \A th \in Threads : \A v \in Threads \ {th} : SF_vars(StealFrom(th, v))

FairSpec == Spec /\ Fairness

-----------------------------------------------------------------------------
\* A thread that may be reading the workers vector or another thread's queue
Stealing(th) == pc[th] \in {"first", "firstTake", "steal", "stealTake", "chain"}

\* activeWorkersCount counts exactly the threads between SetThreadStatus(true)
\* and SetThreadStatus(false); as a size_t it must never go below zero.
ActiveExact ==
    active = Cardinality({th \in Workers :
                 pc[th] \notin {"start", "enter", "sleep", "woken", "unreg",
                                "spin", "erase", "gone", "drain", "drainTake"}
                 /\ home[th] = "loop"})

\* While a thread erases itself from workers nobody reads the vector, and a
\* queue someone steals from belongs to a thread that still exists (it is a
\* thread_local of its worker).
EraseIsExclusive ==
    /\ \A th \in Threads : pc[th] = "erase" => \A u \in Threads : ~Stealing(u)
    /\ \A th \in Threads : Stealing(th) /\ victim[th] # Nil => pc[victim[th]] # "gone"

PlacesOf(t) ==
    {p \in Threads \X (1..Cardinality(Tasks)) :
        p[2] \in DOMAIN queue[p[1]] /\ queue[p[1]][p[2]] = t}

\* A task is inside exactly one queue while it is queued, and no thread has it.
QueuedOnce ==
    \A t \in Tasks : status[t] = "queued" => Cardinality(PlacesOf(t)) = 1

\* Both drains say "Finish all pending tasks": once every thread is gone no
\* task is left in a queue.
NothingLeftBehind ==
    (\A th \in Threads : pc[th] = "gone") => \A t \in Tasks : status[t] # "queued"

\* The same comment as a promise to whoever pushed: what is pending when the
\* destructor begins has been run when the program goes on.
PendingAreFinished == shouldStop ~> \A t \in Tasks : status[t] \in {"none", "done"}

\* The destructor returns, whatever the workers were doing when it was called.
ShutdownCompletes == shouldStop ~> (\A th \in Threads : pc[th] = "gone")

\* Wait on the primary thread returns, even while the workers are paused.
WaitReturns == (pc[Main] = "wait") ~> (pc[Main] = "user")
=============================================================================
