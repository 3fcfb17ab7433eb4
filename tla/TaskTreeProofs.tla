--------------------------- MODULE TaskTreeProofs ---------------------------
(***************************************************************************)
(* TaskTree for any number of tasks and workers: the counter in a task is  *)
(* exact in every reachable state, and what the assertions of Task.hpp     *)
(* say, and what Wait promises to its caller, follows from that.           *)
(***************************************************************************)
EXTENDS TaskTree, FiniteSetTheorems, TLAPS

\* Nothing refers to a task that has not been created.
FreeIsBlank ==
    \A t \in Tasks : stage[t] = "free" =>
        jobs[t] = 0 /\ parent[t] = NoTask /\ zeroed[t] = NoTask

\* Parents exist, and no task is its own parent.
ParentsExist ==
    \A t \in Tasks : parent[t] # NoTask =>
        stage[parent[t]] # "free" /\ parent[t] # t

\* A running task has a caller to return to.
HasCaller ==
    \A t \in Tasks : stage[t] \in {"calling", "notifying"} => below[t] \in Frames

\* A counter that a frame has brought to zero, and is climbing from, belongs
\* to a child whose parent still counts it.
ClimbsFromZero ==
    \A t \in Tasks : zeroed[t] # NoTask =>
        /\ stage[t] = "notifying"
        /\ jobs[zeroed[t]] = 0
        /\ parent[zeroed[t]] # NoTask

\* Only one frame climbs from a task.
OneClimber ==
    \A t, u \in Tasks : zeroed[t] = zeroed[u] /\ zeroed[t] # NoTask => t = u

IInv ==
    /\ TypeOK
    /\ FreeIsBlank
    /\ ParentsExist
    /\ HasCaller
    /\ ClimbsFromZero
    /\ OneClimber
    /\ JobsExact

-----------------------------------------------------------------------------
\* The names the provers need about the constants.
LEMMA Names ==
    /\ NoTask \notin Tasks
    /\ NoTask \notin Frames
    /\ Main \notin Tasks
    /\ Tasks \subseteq Frames
    /\ Threads \subseteq Frames
BY NamesDistinct DEF Frames, Threads

\* The children that a task still counts are finitely many.
LEMMA OwedFinite ==
    ASSUME NEW t
    PROVE  IsFiniteSet(Owed(t)) /\ Cardinality(Owed(t)) \in Nat
<1>1. IsFiniteSet(Tasks)
  BY BoundsNat, FS_Interval DEF Tasks
<1>2. Owed(t) \in SUBSET Tasks
  BY DEF Owed
<1> QED
  BY <1>1, <1>2, FS_Subset, FS_CardinalityType

\* An outstanding share of its own, or a child that still counts, keeps a
\* task's counter above zero.
LEMMA Positive ==
    ASSUME IInv, NEW t \in Tasks, stage[t] # "free",
           OwnPending(t) \/ \E c \in Tasks : parent[c] = t /\ Owing(c)
    PROVE  jobs[t] > 0
<1>1. jobs[t] = (IF OwnPending(t) THEN 1 ELSE 0) + Cardinality(Owed(t))
  BY DEF IInv, JobsExact
<1>2. CASE OwnPending(t)
  BY <1>1, <1>2, OwedFinite
<1>3. CASE \E c \in Tasks : parent[c] = t /\ Owing(c)
  <2>1. Owed(t) # {}
    BY <1>3 DEF Owed
  <2>2. Cardinality(Owed(t)) # 0
    BY <2>1, OwedFinite, FS_EmptySet
  <2> QED
    BY <1>1, <2>2, OwedFinite
<1> QED
  BY <1>2, <1>3

\* VERIFY2 "The same task was executed two times." never fires.
LEMMA PositiveWhenNotified ==
    ASSUME IInv, NEW t \in Tasks, stage[t] = "notifying"
    PROVE  /\ Notified(t) \in Tasks
           /\ stage[Notified(t)] # "free"
           /\ jobs[Notified(t)] > 0
<1> USE Names
<1>1. CASE zeroed[t] = NoTask
  <2>1. Notified(t) = t /\ OwnPending(t)
    BY <1>1 DEF Notified, OwnPending
  <2> QED
    BY <2>1, Positive
<1>2. CASE zeroed[t] # NoTask
  <2>1. /\ zeroed[t] \in Tasks
        /\ Notified(t) = parent[zeroed[t]]
        /\ parent[zeroed[t]] # NoTask
    BY <1>2 DEF IInv, TypeOK, ClimbsFromZero, Notified
  <2>2. parent[zeroed[t]] \in Tasks /\ stage[parent[zeroed[t]]] # "free"
    BY <2>1 DEF IInv, TypeOK, ParentsExist
  <2>3. Owing(zeroed[t])
    BY DEF Owing
  <2> QED
    BY <2>1, <2>2, <2>3, Positive
<1> QED
  BY <1>1, <1>2

-----------------------------------------------------------------------------
LEMMA InitIInv == Init => IInv
<1> SUFFICES ASSUME Init PROVE IInv
  OBVIOUS
<1> USE Names
<1>1. TypeOK
  BY BoundsNat DEF Init, TypeOK, Stages, Threads, Frames
<1>2. JobsExact
  BY DEF Init, JobsExact
<1> QED
  BY <1>1, <1>2 DEF Init, IInv, FreeIsBlank, ParentsExist, HasCaller,
                    ClimbsFromZero, OneClimber

\* A step that leaves the counters, the parents and the climbing frames alone
\* keeps every count, provided it leaves each task's own share outstanding.
LEMMA CountsUntouched ==
    ASSUME IInv, UNCHANGED <<jobs, parent, zeroed>>,
           \A t \in Tasks : /\ (stage[t] = "free") = (stage'[t] = "free")
                            /\ stage[t] # "notifying" \/ stage'[t] = stage[t]
                            /\ OwnPending(t) <=> OwnPending(t)'
    PROVE  /\ FreeIsBlank' /\ ParentsExist' /\ ClimbsFromZero' /\ OneClimber'
           /\ JobsExact'
<1>1. \A t : Owed(t)' = Owed(t)
  BY DEF Owed, Owing
<1>2. JobsExact'
  BY <1>1 DEF IInv, JobsExact
<1>3. FreeIsBlank' /\ ParentsExist' /\ OneClimber'
  BY DEF IInv, TypeOK, FreeIsBlank, ParentsExist, OneClimber
<1>4. ClimbsFromZero'
  BY DEF IInv, TypeOK, ClimbsFromZero
<1> QED
  BY <1>2, <1>3, <1>4

LEMMA PushKeepsIInv ==
    ASSUME IInv, NEW f \in Frames, NEW t \in Tasks, PushTask(f, t)
    PROVE  IInv'
<1> USE Names DEF PushTask
<1>1. TypeOK' /\ HasCaller'
  BY DEF IInv, TypeOK, HasCaller, Stages
<1>2. \A x \in Tasks : /\ (stage[x] = "free") = (stage'[x] = "free")
                       /\ stage[x] # "notifying" \/ stage'[x] = stage[x]
                       /\ OwnPending(x) <=> OwnPending(x)'
  BY DEF IInv, TypeOK, OwnPending
<1> QED
  BY <1>1, <1>2, CountsUntouched DEF IInv

\* RunTask and ExecuteOneTask put a waiting task on top of a frame.
LEMMA CallKeepsIInv ==
    ASSUME IInv, NEW f \in Frames, NEW t \in Tasks,
           stage[t] \in {"created", "queued"}, Call(f, t)
    PROVE  IInv'
<1> USE Names DEF Call
<1>1. TypeOK' /\ HasCaller'
  BY DEF IInv, TypeOK, HasCaller, Stages
<1>2. \A x \in Tasks : /\ (stage[x] = "free") = (stage'[x] = "free")
                       /\ stage[x] # "notifying" \/ stage'[x] = stage[x]
                       /\ OwnPending(x) <=> OwnPending(x)'
  BY DEF IInv, TypeOK, OwnPending
<1> QED
  BY <1>1, <1>2, CountsUntouched DEF IInv

LEMMA ReturnKeepsIInv ==
    ASSUME IInv, NEW t \in Tasks, Return(t)
    PROVE  IInv'
<1> USE Names DEF Return, InUserCode
<1>1. stage[t] = "calling" /\ zeroed[t] = NoTask
  BY DEF IInv, ClimbsFromZero
<1>2. TypeOK' /\ HasCaller'
  BY <1>1 DEF IInv, TypeOK, HasCaller, Stages
<1>3. \A x \in Tasks : /\ (stage[x] = "free") = (stage'[x] = "free")
                       /\ stage[x] # "notifying" \/ stage'[x] = stage[x]
                       /\ OwnPending(x) <=> OwnPending(x)'
  BY <1>1 DEF IInv, TypeOK, OwnPending
<1> QED
  BY <1>2, <1>3, CountsUntouched DEF IInv

LEMMA WaitKeepsIInv ==
    ASSUME IInv, NEW f \in Frames,
           (\E t \in Tasks : BeginWait(f, t)) \/ EndWait(f)
    PROVE  IInv'
<1> USE Names
<1>1. /\ UNCHANGED <<stage, parent, creator, jobs, zeroed, below, top>>
      /\ awaits' \in [Frames -> Tasks \cup {NoTask}]
  BY DEF IInv, TypeOK, BeginWait, EndWait
<1>2. TypeOK' /\ HasCaller'
  BY <1>1 DEF IInv, TypeOK, HasCaller
<1>3. \A x \in Tasks : OwnPending(x) <=> OwnPending(x)'
  BY <1>1 DEF OwnPending
<1> QED
  BY <1>1, <1>2, <1>3, CountsUntouched DEF IInv

LEMMA CreateKeepsIInv ==
    ASSUME IInv, NEW f \in Frames, NEW t \in Tasks,
           NEW p \in Tasks \cup {NoTask}, CreateTask(f, t, p)
    PROVE  IInv'
<1> USE Names
<1>1. /\ stage[t] = "free" /\ jobs[t] = 0
      /\ parent[t] = NoTask /\ zeroed[t] = NoTask
  <2>1. stage[t] = "free" <=> t >= t
    BY DEF CreateTask
  <2>2. t \in Int
    BY DEF Tasks
  <2> QED
    BY <2>1, <2>2 DEF IInv, FreeIsBlank
<1>2. /\ stage'  = [stage EXCEPT ![t] = "created"]
      /\ parent' = [parent EXCEPT ![t] = p]
      /\ jobs'   = JobsWith(t, p)
      /\ UNCHANGED <<zeroed, below, top, awaits>>
  BY DEF CreateTask
<1>3. p # NoTask => p \in Tasks /\ p # t /\ stage[p] # "free" /\ jobs[p] < MaxJobs
  BY <1>1 DEF CreateTask, ParentsFor, InUserCode
<1>4. /\ jobs' \in [Tasks -> Nat]
      /\ jobs'[t] = 1
      /\ p # NoTask => jobs'[p] = jobs[p] + 1
      /\ \A x \in Tasks : x # t /\ x # p => jobs'[x] = jobs[x]
  BY <1>2, <1>3 DEF IInv, TypeOK, JobsWith
\* the parent is unfinished: it is in user code, or it is not launched yet
<1>5. p # NoTask => jobs[p] > 0
  BY <1>3, Positive DEF CreateTask, ParentsFor, InUserCode, OwnPending
<1>6. TypeOK'
  <2>1. creator' \in [Tasks -> Frames \cup {NoTask}]
    BY DEF IInv, TypeOK, CreateTask
  <2>2. jobs' \in [Tasks -> 0..MaxJobs]
    BY <1>2, <1>3, BoundsNat DEF IInv, TypeOK, JobsWith
  <2> QED
    BY <1>2, <2>1, <2>2 DEF IInv, TypeOK, Stages
<1>7. HasCaller'
  BY <1>2 DEF IInv, TypeOK, HasCaller
<1>8. \A z \in Tasks : zeroed[z] # t
  BY <1>1 DEF IInv, ClimbsFromZero
<1>9. /\ FreeIsBlank' /\ OneClimber'
  BY <1>1, <1>2, <1>3, <1>4 DEF IInv, TypeOK, FreeIsBlank, OneClimber
<1>10. ParentsExist'
  BY <1>1, <1>2, <1>3 DEF IInv, TypeOK, ParentsExist
<1>11. ClimbsFromZero'
  <2>1. \A z \in Tasks : zeroed[z] = p => p = NoTask
    BY <1>5 DEF IInv, ClimbsFromZero
  <2> QED
    BY <1>1, <1>2, <1>4, <1>8, <2>1 DEF IInv, TypeOK, ClimbsFromZero
<1>12. \A c \in Tasks : Owing(c)' <=> Owing(c) \/ c = t
  BY <1>1, <1>2, <1>3, <1>4, <1>5 DEF IInv, TypeOK, Owing
<1>13. JobsExact'
  <2> SUFFICES ASSUME NEW x \in Tasks, stage'[x] # "free"
               PROVE  jobs'[x] = (IF OwnPending(x)' THEN 1 ELSE 0)
                                 + Cardinality(Owed(x)')
    BY DEF JobsExact
  <2>1. CASE x = t
    <3>1. Owed(t)' = {}
      BY <1>1, <1>2, <1>3 DEF IInv, TypeOK, ParentsExist, Owed
    <3>2. OwnPending(t)'
      BY <1>2 DEF IInv, TypeOK, OwnPending
    <3> QED
      BY <1>4, <2>1, <3>1, <3>2, FS_EmptySet
  <2>2. CASE x = p
    <3>1. Owed(p)' = Owed(p) \cup {t} /\ t \notin Owed(p)
      BY <1>1, <1>2, <1>3, <1>12, <2>2 DEF IInv, TypeOK, Owed
    <3>2. Cardinality(Owed(p)') = Cardinality(Owed(p)) + 1
      BY <3>1, OwedFinite, FS_AddElement
    <3>3. OwnPending(p)' <=> OwnPending(p)
      BY <1>2, <1>3, <2>2 DEF IInv, TypeOK, OwnPending
    <3> QED
      BY <1>3, <1>4, <2>2, <3>2, <3>3, OwedFinite DEF IInv, JobsExact
  <2>3. CASE x # t /\ x # p
    <3>1. Owed(x)' = Owed(x)
      BY <1>1, <1>2, <1>12, <2>3 DEF IInv, TypeOK, Owed
    <3>2. OwnPending(x)' <=> OwnPending(x)
      BY <1>2, <2>3 DEF IInv, TypeOK, OwnPending
    <3>3. stage[x] # "free"
      BY <1>2, <2>3 DEF IInv, TypeOK
    <3> QED
      BY <1>4, <2>3, <3>1, <3>2, <3>3 DEF IInv, JobsExact
  <2> QED
    BY <2>1, <2>2, <2>3
<1> QED
  BY <1>6, <1>7, <1>9, <1>10, <1>11, <1>13 DEF IInv

\* One decrement: either the frame's own share, or that of the child it has
\* climbed from, is no longer counted.
LEMMA NotifyKeepsIInv ==
    ASSUME IInv, NEW t \in Tasks, Notify(t)
    PROVE  IInv'
<1> USE Names
<1> DEFINE it   == Notified(t)
           left == jobs[it] - 1
<1>1. stage[t] = "notifying"
  BY DEF Notify
<1>2. it \in Tasks /\ stage[it] # "free" /\ jobs[it] > 0
  BY <1>1, PositiveWhenNotified
<1>3. left \in 0..MaxJobs
  BY <1>2, BoundsNat DEF IInv, TypeOK
<1>4. jobs' = [jobs EXCEPT ![it] = left] /\ UNCHANGED <<parent, creator, below, awaits>>
  BY DEF Notify
<1>5. \/ /\ left # 0 \/ parent[it] = NoTask
         /\ stage'  = [stage EXCEPT ![t] = "left"]
         /\ zeroed' = [zeroed EXCEPT ![t] = NoTask]
         /\ top'    = [th \in Threads |-> IF top[th] = t THEN below[t] ELSE top[th]]
      \/ /\ left = 0 /\ parent[it] # NoTask
         /\ zeroed' = [zeroed EXCEPT ![t] = it]
         /\ UNCHANGED <<stage, top>>
  BY DEF Notify, Breaks
<1> HIDE DEF it, left
<1>6. TypeOK' /\ HasCaller'
  <2>1. below[t] \in Frames
    BY <1>1 DEF IInv, HasCaller
  <2> QED
    BY <1>2, <1>3, <1>4, <1>5, <2>1 DEF IInv, TypeOK, HasCaller, Stages
<1>7. FreeIsBlank' /\ ParentsExist'
  BY <1>1, <1>2, <1>4, <1>5 DEF IInv, TypeOK, FreeIsBlank, ParentsExist
<1>8. \A u \in Tasks : zeroed[u] # it
  BY <1>2 DEF IInv, ClimbsFromZero
<1>9. ClimbsFromZero'
  BY <1>1, <1>2, <1>4, <1>5, <1>8 DEF IInv, TypeOK, ClimbsFromZero
<1>10. OneClimber'
  BY <1>4, <1>5, <1>8 DEF IInv, TypeOK, OneClimber
<1>11. JobsExact'
  \* it stays owed to its own parent until some frame climbs from it
  <2>1. \A c \in Tasks : c # zeroed[t] /\ parent[c] # NoTask =>
                            (Owing(c)' <=> Owing(c))
    BY <1>2, <1>3, <1>4, <1>5 DEF IInv, TypeOK, Owing
  <2> SUFFICES ASSUME NEW x \in Tasks, stage'[x] # "free"
               PROVE  jobs'[x] = (IF OwnPending(x)' THEN 1 ELSE 0)
                                 + Cardinality(Owed(x)')
    BY DEF JobsExact
  <2>2. stage[x] # "free"
    BY <1>1, <1>5 DEF IInv, TypeOK
  <2>3. x # t => (OwnPending(x)' <=> OwnPending(x))
    BY <1>5 DEF IInv, TypeOK, OwnPending
  <2>4. ~OwnPending(t)'
    BY <1>1, <1>2, <1>5 DEF IInv, TypeOK, OwnPending
  <2>5. CASE zeroed[t] = NoTask
    <3>1. it = t /\ OwnPending(t)
      BY <1>1, <2>5 DEF it, Notified, OwnPending
    <3>2. Owed(x)' = Owed(x)
      BY <1>4, <2>1, <2>5 DEF IInv, TypeOK, Owed
    <3> QED
      BY <1>3, <1>4, <2>2, <2>3, <2>4, <3>1, <3>2, OwedFinite
         DEF IInv, TypeOK, JobsExact, left
  <2>6. CASE zeroed[t] # NoTask
    <3> PICK z \in Tasks : z = zeroed[t]
      BY <2>6 DEF IInv, TypeOK
    <3>1. z \in Tasks /\ jobs[z] = 0 /\ it = parent[z] /\ it # z
      BY <2>6 DEF IInv, TypeOK, ClimbsFromZero, ParentsExist, it, Notified
    <3>2. Owing(z) /\ ~Owing(z)'
      <4>1. jobs'[z] = 0
        BY <1>4, <3>1 DEF IInv, TypeOK
      <4>2. \A u \in Tasks : zeroed'[u] # z
        <5>1. \A u \in Tasks : u # t => zeroed[u] # z
          BY <2>6 DEF IInv, OneClimber
        <5>2. zeroed'[t] # z
          BY <1>5, <2>6, <3>1 DEF IInv, TypeOK
        <5> QED
          BY <1>5, <5>1, <5>2 DEF IInv, TypeOK
      <4> QED
        BY <4>1, <4>2 DEF Owing
    <3>3. ~OwnPending(t)
      BY <1>1, <2>6 DEF OwnPending
    <3>4. CASE x = it
      <4>1. Owed(x)' = Owed(x) \ {z} /\ z \in Owed(x)
        BY <1>4, <2>1, <3>1, <3>2, <3>4 DEF IInv, TypeOK, Owed
      <4>2. Cardinality(Owed(x)') = Cardinality(Owed(x)) - 1
        BY <4>1, OwedFinite, FS_RemoveElement
      <4>3. jobs'[x] = jobs[x] - 1
        BY <1>4, <3>4 DEF IInv, TypeOK, left
      <4> QED
        BY <2>2, <2>3, <2>4, <3>3, <4>2, <4>3, OwedFinite
           DEF IInv, TypeOK, JobsExact
    <3>5. CASE x # it
      <4>1. Owed(x)' = Owed(x)
        BY <1>4, <2>1, <3>1, <3>5 DEF IInv, TypeOK, Owed
      <4> QED
        BY <1>4, <2>2, <2>3, <2>4, <3>3, <3>5, <4>1 DEF IInv, TypeOK, JobsExact
    <3> QED
      BY <3>4, <3>5
  <2> QED
    BY <2>5, <2>6
<1> QED
  BY <1>6, <1>7, <1>9, <1>10, <1>11 DEF IInv

-----------------------------------------------------------------------------
LEMMA StepKeepsIInv == IInv /\ [Next]_vars => IInv'
<1> SUFFICES ASSUME IInv, [Next]_vars PROVE IInv'
  OBVIOUS
<1>1. CASE \E f \in Frames, t \in Tasks, p \in Tasks \cup {NoTask} : CreateTask(f, t, p)
  BY <1>1, CreateKeepsIInv
<1>2. CASE \E f \in Frames, t \in Tasks : PushTask(f, t)
  BY <1>2, PushKeepsIInv
<1>3. CASE \E f \in Frames, t \in Tasks : RunTask(f, t) \/ ExecuteOneTask(f, t)
  BY <1>3, CallKeepsIInv DEF RunTask, ExecuteOneTask
<1>4. CASE \E f \in Frames, t \in Tasks : BeginWait(f, t)
  BY <1>4, WaitKeepsIInv
<1>5. CASE \E f \in Frames : EndWait(f)
  BY <1>5, WaitKeepsIInv
<1>6. CASE \E t \in Tasks : Return(t)
  BY <1>6, ReturnKeepsIInv
<1>7. CASE \E t \in Tasks : Notify(t)
  BY <1>7, NotifyKeepsIInv
<1>8. CASE UNCHANGED vars
  <2>1. \A x \in Tasks : OwnPending(x) <=> OwnPending(x)'
    BY <1>8 DEF vars, OwnPending
  <2>2. TypeOK' /\ HasCaller'
    BY <1>8 DEF vars, IInv, TypeOK, HasCaller
  <2> QED
    BY <1>8, <2>1, <2>2, CountsUntouched DEF vars, IInv
<1> QED
  BY <1>1, <1>2, <1>3, <1>4, <1>5, <1>6, <1>7, <1>8 DEF Next

LEMMA Inductive == Spec => []IInv
<1> QED
  BY InitIInv, StepKeepsIInv, PTL DEF Spec

-----------------------------------------------------------------------------
\* The children of finished tasks are finished.
LEMMA ChildrenOfFinished ==
    ASSUME IInv, NEW t \in Tasks, NEW c \in Tasks,
           Finished(t), parent[c] = t
    PROVE  Finished(c)
<1>1. ~Owing(c)
  BY Positive DEF Finished, IInv, TypeOK
<1>2. stage[c] # "free"
  BY Names DEF IInv, FreeIsBlank
<1> QED
  BY <1>1, <1>2 DEF Owing, Finished, IInv, TypeOK

\* A finished task is past its functor.
LEMMA FinishedHasRun ==
    ASSUME IInv, NEW t \in Tasks, Finished(t)
    PROVE  stage[t] \in {"notifying", "left"}
<1>1. ~OwnPending(t)
  BY Positive DEF Finished, IInv, TypeOK
<1> QED
  BY <1>1 DEF OwnPending, Finished, IInv, TypeOK, Stages

\* The finished tasks are closed under taking children, so the family of a
\* finished task, the least closed set that holds it, is finished with it.
LEMMA FamilyOfFinished ==
    ASSUME IInv, NEW t \in Tasks, Finished(t), NEW d \in Family(t)
    PROVE  d \in Tasks /\ Finished(d)
<1> DEFINE Done == {x \in Tasks : Finished(x)}
<1>1. Done \in SUBSET Tasks /\ t \in Done
  OBVIOUS
<1>2. \A c \in Tasks : parent[c] \in Done => c \in Done
  BY ChildrenOfFinished
<1>3. d \in Done
  BY <1>1, <1>2 DEF Family
<1> QED
  BY <1>3

LEMMA IInvFamily == IInv => FinishedMeansFamilyDone
<1> SUFFICES ASSUME IInv, NEW t \in Tasks, Finished(t), NEW d \in Family(t)
             PROVE  stage[d] \in {"notifying", "left"} /\ jobs[d] = 0
  BY DEF FinishedMeansFamilyDone
<1>1. d \in Tasks /\ Finished(d)
  BY FamilyOfFinished
<1> QED
  BY <1>1, FinishedHasRun DEF Finished

\* The program never leaves the types: no counter falls below zero or passes
\* the bound, and every frame that returns has a frame to return to.
THEOREM TypeCorrect == Spec => []TypeOK
<1>1. IInv => TypeOK
  BY DEF IInv
<1> QED
  BY <1>1, Inductive, PTL

\* Task.hpp:50: a counter is the task's own share plus one per child that has
\* not reported, at every moment of every interleaving.
THEOREM CountersExact == Spec => []JobsExact
<1>1. IInv => JobsExact
  BY DEF IInv
<1> QED
  BY <1>1, Inductive, PTL

\* r2.h:80: IsFinished of a task covers all that stems from it.
THEOREM FamilyDone == Spec => []FinishedMeansFamilyDone
<1> QED
  BY IInvFamily, Inductive, PTL

\* Task.hpp:205: "The same task was executed two times." never fires.
THEOREM ExecutedOnce == Spec => []NeverExecutedTwice
<1>1. IInv => NeverExecutedTwice
  BY PositiveWhenNotified DEF NeverExecutedTwice
<1> QED
  BY <1>1, Inductive, PTL

\* Task.hpp:151: "Adding child task to a parent that has already finished."
\* never fires.
THEOREM ChildrenInTime == Spec => []NoLateChild
<1>1. IInv => NoLateChild
  <2> SUFFICES ASSUME IInv, NEW f \in Frames, InUserCode(f), NEW p \in ParentsFor(f)
               PROVE  jobs[p] > 0
    BY DEF NoLateChild
  <2>1. p \in Tasks /\ stage[p] \in {"calling", "created"}
    BY Names DEF ParentsFor, InUserCode
  <2> QED
    BY <2>1, Positive DEF OwnPending
<1> QED
  BY <1>1, Inductive, PTL

\* TaskManager::Wait returns only when nothing of the awaited family is left
\* to run.
THEOREM WaitSound == Spec => WaitIsSound
<1>1. IInv /\ [Next]_vars =>
        [\A f \in Frames : awaits[f] # NoTask /\ awaits'[f] = NoTask =>
            \A d \in Family(awaits[f]) : stage[d] \in {"notifying", "left"}]_vars
  <2> SUFFICES ASSUME IInv, Next, NEW f \in Frames,
                      awaits[f] # NoTask, awaits'[f] = NoTask,
                      NEW d \in Family(awaits[f])
               PROVE  stage[d] \in {"notifying", "left"}
    OBVIOUS
  <2>1. \E g \in Frames : EndWait(g)
    <3>1. awaits' # awaits
      OBVIOUS
    <3>2. CASE \E g \in Frames, t \in Tasks : BeginWait(g, t)
      BY <3>2, Names DEF BeginWait, IInv, TypeOK
    <3>3. CASE \E g \in Frames, t \in Tasks :
                 \/ \E p \in Tasks \cup {NoTask} : CreateTask(g, t, p)
                 \/ PushTask(g, t) \/ RunTask(g, t) \/ ExecuteOneTask(g, t)
      BY <3>1, <3>3 DEF CreateTask, PushTask, RunTask, ExecuteOneTask, Call
    <3>4. CASE \E t \in Tasks : Return(t) \/ Notify(t)
      BY <3>1, <3>4 DEF Return, Notify
    <3> QED
      BY <3>2, <3>3, <3>4 DEF Next
  <2> PICK g \in Frames : EndWait(g)
    BY <2>1
  <2>2. g = f
    BY DEF EndWait, IInv, TypeOK
  <2>3. awaits[f] \in Tasks /\ Finished(awaits[f])
    BY <2>2 DEF EndWait, IInv, TypeOK
  <2>4. d \in Tasks /\ Finished(d)
    BY <2>3, FamilyOfFinished
  <2> QED
    BY <2>4, FinishedHasRun
<1> QED
  BY <1>1, Inductive, PTL DEF Spec, WaitIsSound
=============================================================================
