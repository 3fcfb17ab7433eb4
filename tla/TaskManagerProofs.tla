-------------------------- MODULE TaskManagerProofs --------------------------
(***************************************************************************)
(* TaskManager for any number of workers, tasks, forks and steal attempts: *)
(* activeWorkersCount is exact, a task is in one place at a time, and a    *)
(* thread that leaves erases itself while nobody reads the vector.         *)
(***************************************************************************)
EXTENDS TaskManager, SequenceLemmas

AtHome    == {"start", "enter", "loop", "rest", "sleep", "woken", "leave"}
InUser    == {"user", "pushed", "wait"}
Leaving   == {"wake", "drain", "drainTake", "unreg", "spin", "erase", "gone",
              "reap", "join"}
Looking   == {"own", "ownTake", "first", "firstTake", "steal", "stealTake", "chain"}
HasRead   == {"ownTake", "firstTake", "stealTake", "drainTake", "chain", "call"}
HasTaken  == {"chain", "call"}

\* Where a thread can be follows from whose outermost loop it is in and from
\* whether it is inside of a task.
Place(th) ==
    /\ pc[th] \in AtHome => home[th] = "loop" /\ stack[th] = <<>>
    /\ pc[th] \in InUser => home[th] = "wait" /\ stack[th] = <<>>
    /\ pc[th] \in Leaving => home[th] = "drain" /\ stack[th] = <<>>
    /\ pc[th] \in {"wake", "reap", "join"} => th = Main
    /\ pc[th] \in {"body", "forked", "await"} => stack[th] # <<>>
    /\ pc[th] \in Looking /\ stack[th] = <<>> => home[th] # "drain"
    /\ home[th] = "loop" => th # Main
    /\ home[th] = "wait" => th = Main

Control == \A th \in Threads : Place(th)

\* What a thread has read is set while it needs it, and only then.
Registers ==
    \A th \in Threads :
        /\ pc[th] \in HasRead => victim[th] \in Threads /\ front[th] \in Tasks
        /\ pc[th] \notin HasRead => victim[th] = Nil
        /\ pc[th] \in {"steal", "stealTake"} => tries[th] > 0

\* Only a fork has anything on top of it.
Nesting ==
    \A th \in Threads : \A i \in DOMAIN stack[th] :
        i > 1 \/ pc[th] # "body" => stack[th][i] \in Forks

\* A task that was taken is in the hands of one thread, at one place.
FrontHeld ==
    \A th \in Threads : pc[th] \in HasTaken =>
        /\ status[front[th]] = "taken"
        /\ \A u \in Threads : pc[u] \in HasTaken /\ front[u] = front[th] => u = th
        /\ \A u \in Threads : \A i \in DOMAIN stack[u] : stack[u][i] # front[th]

StackHeld ==
    \A th \in Threads : \A i \in DOMAIN stack[th] :
        /\ status[stack[th][i]] = "taken"
        /\ \A u \in Threads : \A j \in DOMAIN stack[u] :
              stack[u][j] = stack[th][i] => u = th /\ j = i

Holds(th, t) ==
    \/ pc[th] \in HasTaken /\ front[th] = t
    \/ \E i \in DOMAIN stack[th] : stack[th][i] = t

SomebodyHas ==
    \A t \in Tasks : status[t] = "taken" => \E th \in Threads : Holds(th, t)

HeldOnce == FrontHeld /\ StackHeld /\ SomebodyHas

\* A task that is queued is in one queue, at one place.
Filed ==
    /\ \A v \in Threads : \A i \in DOMAIN queue[v] :
          /\ status[queue[v][i]] = "queued"
          /\ \A w \in Threads : \A j \in DOMAIN queue[w] :
                queue[w][j] = queue[v][i] => w = v /\ j = i
    /\ \A t \in Tasks : status[t] = "queued" =>
          \E v \in Threads : \E i \in DOMAIN queue[v] : queue[v][i] = t

\* A fork that has not pushed its child yet has an unused child.
ChildrenWait ==
    /\ \A f \in Forks : status[f] \in {"none", "queued"} => status[Child[f]] = "none"
    /\ \A th \in Threads : pc[th] \in HasTaken /\ front[th] \in Forks =>
          status[Child[front[th]]] = "none"
    /\ \A th \in Threads : pc[th] = "body" /\ stack[th][1] \in Forks =>
          status[Child[stack[th][1]]] = "none"

\* workers holds each thread between its registration and its erasure once.
Outside == {"start", "gone", "reap", "join"}
Registered(th) == pc[th] \notin Outside

Roster ==
    /\ \A j, k \in DOMAIN workers : workers[j] = workers[k] => j = k
    /\ \A th \in Threads :
          Registered(th) <=> \E k \in DOMAIN workers : workers[k] = th

\* The threads that activeWorkersCount counts, by the labels it leaves out
Uncounted == {"start", "enter", "sleep", "woken", "unreg", "spin", "erase",
              "gone", "drain", "drainTake"}
Counted == {th \in Workers : pc[th] \notin Uncounted /\ home[th] = "loop"}

\* Nobody leaves before shouldStop, and who erases itself has the lock and
\* has paused the others.
Stopping ==
    /\ shouldStop <=> home[Main] = "drain"
    /\ \A w \in Workers : home[w] = "drain" \/ pc[w] = "leave" => shouldStop
    /\ \A th \in Threads : pc[th] \in {"spin", "erase"} => lock = th /\ shouldPause
    /\ pc[Main] = "wake" => wakes > 0

\* What concerns the tasks and what concerns the threads.
TaskInv == Registers /\ Nesting /\ HeldOnce /\ Filed /\ ChildrenWait
ThreadInv == Control /\ Roster /\ Stopping /\ ActiveExact

IInv == TypeOK /\ TaskInv /\ ThreadInv

\* With a clean stop no fork is under way once the manager stops; so a thread
\* that finds the count at zero has nobody beside it who steals, and a victim
\* stays registered as long as somebody may look at it.
NoForks == shouldStop => \A f \in Forks : status[f] \in {"none", "done"}

Alone ==
    \A th \in Threads : pc[th] = "erase" =>
        \A u \in Threads : home[u] = "loop" => pc[u] \in AtHome

VictimsStay ==
    \A th \in Threads :
        /\ pc[th] \in {"firstTake", "stealTake", "chain"} => Registered(victim[th])
        /\ pc[th] \in {"steal", "stealTake"} => \A v \in dist[th] : Registered(v)

CInv == NoForks /\ Alone /\ VictimsStay
-----------------------------------------------------------------------------
USE ForksAreRoots, ChildrenDiffer, NilIsNone, FinitelyMany, BoundsAreNat

LEMMA SequencesTyped ==
    ASSUME TypeOK, NEW w \in Threads
    PROVE  /\ queue[w] \in Seq(Tasks) /\ stack[w] \in Seq(Tasks)
           /\ Len(queue[w]) \in Nat /\ DOMAIN queue[w] = 1..Len(queue[w])
           /\ Len(stack[w]) \in Nat /\ DOMAIN stack[w] = 1..Len(stack[w])
           /\ \A i \in DOMAIN queue[w] : queue[w][i] \in Tasks
           /\ \A i \in DOMAIN stack[w] : stack[w][i] \in Tasks
BY DEF TypeOK

\* What a step may do that leaves the tasks where they are
LEMMA TasksUntouched ==
    ASSUME TaskInv, Registers', UNCHANGED <<queue, status, stack>>,
           \A u \in Threads : /\ pc'[u] \in HasTaken <=> pc[u] \in HasTaken
                              /\ pc[u] \in HasTaken => front'[u] = front[u]
                              /\ pc'[u] = "body" <=> pc[u] = "body"
    PROVE  TaskInv'
<1>1. /\ Nesting /\ FrontHeld /\ StackHeld /\ SomebodyHas /\ Filed /\ ChildrenWait
  BY DEF TaskInv, HeldOnce
<1>2. Nesting'
  BY <1>1 DEF Nesting
<1>3. FrontHeld'
  BY <1>1 DEF FrontHeld
<1>4. StackHeld' /\ Filed'
  BY <1>1 DEF StackHeld, Filed
<1>5. \A u \in Threads, t \in Tasks : Holds(u, t) => Holds(u, t)'
  BY DEF Holds
<1>6. SomebodyHas'
  BY <1>1, <1>5 DEF SomebodyHas
<1>7. ChildrenWait'
  BY <1>1 DEF ChildrenWait
<1> QED
  BY <1>2, <1>3, <1>4, <1>6, <1>7 DEF TaskInv, HeldOnce

\* A step that leaves the tasks alone and reads no queue.
Calm(th, to) ==
    /\ pc' = [pc EXCEPT ![th] = to]
    /\ UNCHANGED <<queue, status, stack, popping>>
    /\ pc[th] \notin HasRead \cup {"body"}
    /\ to \notin HasRead \cup {"body", "steal", "stealTake"}

LEMMA CalmKeepsTaskInv ==
    ASSUME TypeOK, TaskInv, NEW th \in Threads, NEW to, Calm(th, to)
    PROVE  TaskInv'
<1>1. Registers /\ DOMAIN pc = Threads
  BY DEF TaskInv, TypeOK
<1>2. /\ \A u \in Threads : pc'[u] = IF u = th THEN to ELSE pc[u]
      /\ UNCHANGED <<queue, status, stack, victim, front, tries>>
  BY <1>1 DEF Calm, popping
<1>3. Registers'
  BY <1>1, <1>2 DEF Registers, Calm
<1>4. \A u \in Threads : /\ pc'[u] \in HasTaken <=> pc[u] \in HasTaken
                         /\ pc'[u] = "body" <=> pc[u] = "body"
  BY <1>2 DEF Calm, HasTaken, HasRead
<1> QED
  BY <1>2, <1>3, <1>4, TasksUntouched

TriesKept(th) ==
    /\ \A u \in Threads \ {th} : tries'[u] = tries[u]
    /\ pc'[th] \in {"steal", "stealTake"} => tries'[th] > 0

LEMMA ReadKeepsTaskInv ==
    ASSUME TypeOK, TaskInv, NEW th \in Threads, NEW v \in Threads,
           NEW from \in {"own", "first", "steal", "drain"},
           NEW found \in {"ownTake", "firstTake", "stealTake", "drainTake"},
           NEW empty \in {"first", "steal", "await", "rest", "wait", "drain", "unreg"},
           Read(th, v, from, found, empty), TriesKept(th)
    PROVE  TaskInv'
<1>1. /\ Registers /\ DOMAIN pc = Threads /\ DOMAIN victim = Threads /\ DOMAIN front = Threads
      /\ UNCHANGED <<queue, status, stack>> /\ pc[th] = from
  BY DEF TaskInv, TypeOK, Read, Go
<1>2. CASE queue[v] = <<>>
  <2>1. /\ \A u \in Threads : pc'[u] = IF u = th THEN empty ELSE pc[u]
        /\ UNCHANGED <<victim, front>>
    BY <1>1, <1>2 DEF Read, Go
  <2>2. Registers'
    BY <1>1, <2>1 DEF Registers, TriesKept, HasRead
  <2>3. \A u \in Threads : /\ pc'[u] \in HasTaken <=> pc[u] \in HasTaken
                           /\ pc'[u] = "body" <=> pc[u] = "body"
    BY <1>1, <2>1 DEF HasTaken
  <2> QED
    BY <1>1, <2>1, <2>2, <2>3, TasksUntouched
<1>3. CASE queue[v] # <<>>
  <2>1. Head(queue[v]) \in Tasks
    BY <1>3, SequencesTyped
  <2>2. /\ \A u \in Threads : pc'[u] = IF u = th THEN found ELSE pc[u]
        /\ \A u \in Threads : victim'[u] = IF u = th THEN v ELSE victim[u]
        /\ \A u \in Threads : front'[u] = IF u = th THEN Head(queue[v]) ELSE front[u]
    BY <1>1, <1>3 DEF Read, Go
  <2>3. Registers'
    BY <1>1, <2>1, <2>2 DEF Registers, TriesKept, HasRead
  <2>4. \A u \in Threads : /\ pc'[u] \in HasTaken <=> pc[u] \in HasTaken
                           /\ pc[u] \in HasTaken => front'[u] = front[u]
                           /\ pc'[u] = "body" <=> pc[u] = "body"
    BY <1>1, <2>2 DEF HasTaken
  <2> QED
    BY <1>1, <2>3, <2>4, TasksUntouched
<1> QED
  BY <1>2, <1>3

LEMMA ChainKeepsTaskInv ==
    ASSUME TypeOK, TaskInv, NEW th \in Threads, Chain(th)
    PROVE  TaskInv'
<1>1. /\ Registers /\ DOMAIN pc = Threads /\ pc[th] = "chain"
      /\ UNCHANGED <<queue, status, stack, victim, front, tries>>
  BY DEF TaskInv, TypeOK, Chain, Go, popping
<1>2. \A u \in Threads : pc'[u] = IF u = th THEN "call" ELSE pc[u]
  BY <1>1 DEF Chain, Go
<1>3. Registers'
  BY <1>1, <1>2 DEF Registers, HasRead
<1>4. \A u \in Threads : /\ pc'[u] \in HasTaken <=> pc[u] \in HasTaken
                         /\ pc'[u] = "body" <=> pc[u] = "body"
  BY <1>1, <1>2 DEF HasTaken
<1> QED
  BY <1>1, <1>3, <1>4, TasksUntouched

LEMMA ExchangeKeepsTaskInv ==
    ASSUME TypeOK, TaskInv, NEW th \in Threads,
           NEW from \in {"ownTake", "firstTake", "stealTake", "drainTake"},
           NEW won \in HasTaken,
           NEW lost \in {"first", "steal", "await", "rest", "wait", "drain", "unreg"},
           Exchange(th, from, won, lost), TriesKept(th)
    PROVE  TaskInv'
<1>1. PICK v \in Threads, t \in Tasks : v = victim[th] /\ t = front[th] /\ pc[th] = from
  BY DEF TaskInv, Registers, Exchange, Go, HasRead
<1>2. /\ Registers /\ Nesting /\ FrontHeld /\ StackHeld /\ SomebodyHas /\ Filed /\ ChildrenWait
      /\ pc \in [Threads -> Labels] /\ DOMAIN victim = Threads /\ DOMAIN front = Threads
      /\ DOMAIN queue = Threads /\ DOMAIN status = Tasks
  BY DEF TaskInv, HeldOnce, TypeOK
<1>3. CASE ~Unmoved(queue[v], t)
  <2>1. /\ pc' = [pc EXCEPT ![th] = lost]
        /\ victim' = [victim EXCEPT ![th] = Nil]
        /\ front' = [front EXCEPT ![th] = Nil]
        /\ UNCHANGED <<queue, status, stack>>
    BY <1>1, <1>3 DEF Exchange, Go
  <2>2. \A u \in Threads : /\ pc'[u] = IF u = th THEN lost ELSE pc[u]
                           /\ victim'[u] = IF u = th THEN Nil ELSE victim[u]
                           /\ front'[u] = IF u = th THEN Nil ELSE front[u]
    BY <1>2, <2>1
  <2>3. Registers' /\ Nesting'
    BY <1>1, <1>2, <2>1, <2>2 DEF Registers, Nesting, TriesKept, HasRead
  <2>4. \A u \in Threads : /\ pc'[u] \in HasTaken <=> pc[u] \in HasTaken
                           /\ pc[u] \in HasTaken => front'[u] = front[u]
    BY <1>1, <2>2 DEF HasTaken
  <2>5. FrontHeld'
    BY <1>2, <2>1, <2>4 DEF FrontHeld
  <2>6. StackHeld' /\ Filed'
    BY <1>2, <2>1 DEF StackHeld, Filed
  <2>7. \A u \in Threads, k \in Tasks : Holds(u, k) => Holds(u, k)'
    BY <2>1, <2>4 DEF Holds
  <2>8. SomebodyHas'
    BY <1>2, <2>1, <2>7 DEF SomebodyHas
  <2>9. \A u \in Threads : pc'[u] = "body" => pc[u] = "body"
    BY <2>2
  <2>10. ChildrenWait'
    BY <1>2, <2>1, <2>4, <2>9 DEF ChildrenWait
  <2> QED
    BY <2>3, <2>5, <2>6, <2>8, <2>10 DEF TaskInv, HeldOnce
<1>4. CASE Unmoved(queue[v], t)
  <2>1. /\ pc' = [pc EXCEPT ![th] = won]
        /\ queue' = [queue EXCEPT ![v] = Tail(queue[v])]
        /\ status' = [status EXCEPT ![t] = "taken"]
        /\ UNCHANGED <<victim, front, stack>>
    BY <1>1, <1>4 DEF Exchange, Go
  <2>2. /\ \A u \in Threads : pc'[u] = IF u = th THEN won ELSE pc[u]
        /\ \A w \in Threads : queue'[w] = IF w = v THEN Tail(queue[v]) ELSE queue[w]
        /\ \A k \in Tasks : status'[k] = IF k = t THEN "taken" ELSE status[k]
    BY <1>2, <2>1
  <2>3. queue[v] # <<>> /\ queue[v][1] = t /\ 1 \in DOMAIN queue[v]
    BY <1>4, SequencesTyped DEF Unmoved
  <2>4. /\ status[t] = "queued"
        /\ \A w \in Threads : \A j \in DOMAIN queue[w] : queue[w][j] = t => w = v /\ j = 1
    BY <1>2, <2>3 DEF Filed
  <2>5. /\ DOMAIN queue'[v] = 1..(Len(queue[v]) - 1)
        /\ \A j \in DOMAIN queue'[v] : queue'[v][j] = queue[v][j + 1]
    <3>1. queue[v] \in Seq(Tasks)
      BY SequencesTyped
    <3>2. /\ DOMAIN Tail(queue[v]) = 1..(Len(queue[v]) - 1)
          /\ \A j \in 1..(Len(queue[v]) - 1) : Tail(queue[v])[j] = queue[v][j + 1]
      BY <2>3, <3>1, TailShifts, Zenon
    <3> QED
      BY <2>2, <3>2, Zenon
  <2>6. Registers' /\ Nesting'
    BY <1>1, <1>2, <2>1, <2>2 DEF Registers, Nesting, TriesKept, HasRead, HasTaken
  <2>7. \A u \in Threads : pc'[u] \in HasTaken <=> (u = th \/ pc[u] \in HasTaken)
    BY <1>1, <2>2 DEF HasTaken
  <2>8. /\ \A u \in Threads : pc[u] \in HasTaken => front[u] # t
        /\ \A u \in Threads : \A i \in DOMAIN stack[u] : stack[u][i] # t
    BY <1>2, <2>4 DEF FrontHeld, StackHeld
  <2>9. \A u \in Threads : pc[u] \in HasTaken => front[u] \in Tasks
    BY <1>2 DEF Registers, HasTaken, HasRead
  <2>10. FrontHeld'
    <3>1. SUFFICES ASSUME NEW u \in Threads, u = th \/ pc[u] \in HasTaken
                   PROVE  /\ status'[front[u]] = "taken"
                          /\ \A w \in Threads : (w = th \/ pc[w] \in HasTaken)
                                 /\ front[w] = front[u] => w = u
                          /\ \A w \in Threads : \A i \in DOMAIN stack[w] :
                                 stack[w][i] # front[u]
      BY <2>1, <2>7 DEF FrontHeld
    <3>2. CASE u = th
      BY <1>1, <2>2, <2>8, <3>2
    <3>3. CASE u # th
      BY <1>1, <1>2, <2>2, <2>8, <2>9, <3>1, <3>3 DEF FrontHeld
    <3> QED
      BY <3>2, <3>3
  <2>11. StackHeld'
    BY <1>2, <2>1, <2>2, <2>8, SequencesTyped DEF StackHeld
  <2>12. Holds(th, t)' /\ \A u \in Threads, k \in Tasks : Holds(u, k) => Holds(u, k)'
    BY <1>1, <2>1, <2>7 DEF Holds
  <2>13. SomebodyHas'
    <3>1. ASSUME NEW k \in Tasks, status'[k] = "taken", k # t
          PROVE  \E u \in Threads : Holds(u, k)'
      BY <1>2, <2>2, <2>12, <3>1 DEF SomebodyHas
    <3>2. \E u \in Threads : Holds(u, t)'
      BY <2>12
    <3> QED
      BY <3>1, <3>2 DEF SomebodyHas
  <2>14. Filed'
    <3> DEFINE Old(w, i) == IF w = v THEN i + 1 ELSE i
    <3>1. ASSUME NEW w \in Threads, NEW i \in DOMAIN queue'[w]
          PROVE  /\ Old(w, i) \in DOMAIN queue[w] /\ i \in Nat \ {0}
                 /\ queue'[w][i] = queue[w][Old(w, i)]
                 /\ queue[w][Old(w, i)] \in Tasks
      <4>1. CASE w = v
        <5>1. i \in 1..(Len(queue[v]) - 1) /\ Len(queue[v]) \in Nat
          BY <2>5, <3>1, <4>1, SequencesTyped
        <5>2. i \in Nat \ {0} /\ i + 1 \in 1..Len(queue[v])
          BY <5>1
        <5>3. i + 1 \in DOMAIN queue[v] /\ queue'[v][i] = queue[v][i + 1]
          BY <2>5, <5>1, <5>2, SequencesTyped
        <5> QED
          BY <4>1, <5>2, <5>3, SequencesTyped
      <4>2. CASE w # v
        <5>1. queue'[w] = queue[w]
          BY <2>2, <4>2
        <5> QED
          BY <3>1, <4>2, <5>1, SequencesTyped
      <4> QED
        BY <4>1, <4>2
    <3>2. ASSUME NEW w \in Threads, NEW i \in DOMAIN queue'[w]
          PROVE  status'[queue'[w][i]] = "queued"
      <4>1. queue[w][Old(w, i)] # t
        BY <2>4, <3>1
      <4>2. status[queue[w][Old(w, i)]] = "queued"
        BY <1>2, <3>1 DEF Filed
      <4> QED
        BY <2>2, <3>1, <4>1, <4>2
    <3>3. ASSUME NEW w \in Threads, NEW i \in DOMAIN queue'[w],
                 NEW u \in Threads, NEW j \in DOMAIN queue'[u], queue'[u][j] = queue'[w][i]
          PROVE  u = w /\ j = i
      <4>1. u = w /\ Old(u, j) = Old(w, i)
        BY <1>2, <3>1, <3>3 DEF Filed
      <4> QED
        BY <3>1, <4>1
    <3>4. ASSUME NEW k \in Tasks, status'[k] = "queued"
          PROVE  \E w \in Threads : \E i \in DOMAIN queue'[w] : queue'[w][i] = k
      <4>1. k # t /\ status[k] = "queued"
        BY <2>2, <3>4
      <4>2. PICK w \in Threads : \E i \in DOMAIN queue[w] : queue[w][i] = k
        BY <1>2, <4>1 DEF Filed
      <4>3. PICK i \in DOMAIN queue[w] : queue[w][i] = k
        BY <4>2
      <4>4. CASE w = v
        <5>1. i # 1 /\ i \in 1..Len(queue[v]) /\ Len(queue[v]) \in Nat
          BY <2>3, <4>1, <4>3, <4>4, SequencesTyped
        <5>2. i - 1 \in DOMAIN queue'[v] /\ queue'[v][i - 1] = k
          BY <2>5, <4>3, <4>4, <5>1
        <5> QED
          BY <5>2
      <4>5. CASE w # v
        BY <2>2, <4>3, <4>5
      <4> QED
        BY <4>4, <4>5
    <3> QED
      BY <3>2, <3>3, <3>4 DEF Filed
  <2>15. ChildrenWait'
    <3>1. \A k \in Tasks : status[k] = "none" => status'[k] = "none"
      BY <2>2, <2>4
    <3>2. \A f \in Forks : f \in Tasks /\ Child[f] \in Tasks
      BY DEF Tasks
    <3>3. \A f \in Forks : status[f] \in {"none", "queued"} => status[Child[f]] = "none"
      BY <1>2 DEF ChildrenWait
    <3>4. \A f \in Forks : status'[f] \in {"none", "queued"} => status'[Child[f]] = "none"
      BY <2>2, <3>1, <3>2, <3>3
    <3>5. ASSUME NEW u \in Threads, pc'[u] \in HasTaken, front'[u] \in Forks
          PROVE  status'[Child[front'[u]]] = "none"
      <4>1. CASE u = th
        BY <1>1, <2>1, <2>4, <3>1, <3>2, <3>3, <3>5, <4>1
      <4>2. CASE u # th
        BY <1>2, <2>1, <2>7, <3>1, <3>2, <3>5, <4>2 DEF ChildrenWait
      <4> QED
        BY <4>1, <4>2
    <3>6. ASSUME NEW u \in Threads, pc'[u] = "body", stack'[u][1] \in Forks
          PROVE  status'[Child[stack'[u][1]]] = "none"
      <4>1. pc[u] = "body"
        BY <2>2, <3>6 DEF HasTaken
      <4> QED
        BY <1>2, <2>1, <3>1, <3>2, <3>6, <4>1 DEF ChildrenWait
    <3> QED
      BY <3>4, <3>5, <3>6 DEF ChildrenWait
  <2> QED
    BY <2>6, <2>10, <2>11, <2>13, <2>14, <2>15 DEF TaskInv, HeldOnce
<1> QED
  BY <1>3, <1>4

LEMMA CallKeepsTaskInv ==
    ASSUME TypeOK, TaskInv, NEW th \in Threads, Call(th)
    PROVE  TaskInv'
<1>1. PICK t \in Tasks : t = front[th] /\ pc[th] = "call" /\ victim[th] \in Threads
  BY DEF TaskInv, Registers, Call, Go, HasRead
<1>2. /\ Registers /\ Nesting /\ FrontHeld /\ StackHeld /\ SomebodyHas /\ Filed /\ ChildrenWait
      /\ DOMAIN pc = Threads /\ DOMAIN victim = Threads /\ DOMAIN front = Threads
      /\ DOMAIN stack = Threads /\ DOMAIN tries = Threads
  BY DEF TaskInv, HeldOnce, TypeOK
<1>3. UNCHANGED <<queue, status>>
  BY DEF Call
<1>4. \A u \in Threads : /\ pc'[u] = IF u = th THEN "body" ELSE pc[u]
                         /\ stack'[u] = IF u = th THEN <<t>> \o stack[th] ELSE stack[u]
                         /\ front'[u] = IF u = th THEN Nil ELSE front[u]
                         /\ victim'[u] = IF u = th THEN Nil ELSE victim[u]
                         /\ tries'[u] = IF u = th THEN 0 ELSE tries[u]
  BY <1>1, <1>2 DEF Call, Go
<1>5. /\ DOMAIN stack'[th] = 1..(Len(stack[th]) + 1)
      /\ stack'[th][1] = t
      /\ \A j \in 1..(Len(stack[th]) + 1) : j # 1 => stack'[th][j] = stack[th][j - 1]
  <2>1. stack[th] \in Seq(Tasks) /\ stack'[th] = <<t>> \o stack[th]
    BY <1>4, SequencesTyped
  <2>2. /\ DOMAIN (<<t>> \o stack[th]) = 1..(Len(stack[th]) + 1)
        /\ (<<t>> \o stack[th])[1] = t
        /\ \A j \in 1..(Len(stack[th]) + 1) :
              j # 1 => (<<t>> \o stack[th])[j] = stack[th][j - 1]
    BY <2>1, ConsShifts
  <2> QED
    BY <2>1, <2>2
\* Where an element of a stack was before the call
<1> DEFINE Old(u, i) == IF u = th THEN i - 1 ELSE i
<1>6. ASSUME NEW u \in Threads, NEW i \in DOMAIN stack'[u], ~(u = th /\ i = 1)
      PROVE  /\ Old(u, i) \in DOMAIN stack[u] /\ stack'[u][i] = stack[u][Old(u, i)]
             /\ i \in Nat \ {0}
  BY <1>4, <1>5, <1>6, SequencesTyped
<1>7. /\ status[t] = "taken"
      /\ \A u \in Threads : pc[u] \in HasTaken /\ front[u] = t => u = th
      /\ \A u \in Threads : \A i \in DOMAIN stack[u] : stack[u][i] # t
  BY <1>1, <1>2 DEF FrontHeld, HasTaken
<1>8. \A u \in Threads : pc'[u] \in HasTaken <=> (u # th /\ pc[u] \in HasTaken)
  BY <1>4 DEF HasTaken
<1>9. Registers'
  BY <1>2, <1>4 DEF Registers, HasRead
<1>10. Nesting'
  <2>1. SUFFICES ASSUME NEW u \in Threads, NEW i \in DOMAIN stack'[u], i > 1 \/ pc'[u] # "body"
                 PROVE  stack'[u][i] \in Forks
    BY DEF Nesting
  <2>2. ~(u = th /\ i = 1)
    BY <1>4, <2>1
  <2>3. Old(u, i) > 1 \/ pc[u] # "body"
    BY <1>1, <1>4, <1>6, <2>1, <2>2
  <2> QED
    BY <1>2, <1>6, <2>2, <2>3 DEF Nesting
<1>11. FrontHeld'
  <2>1. SUFFICES ASSUME NEW u \in Threads, u # th, pc[u] \in HasTaken
                 PROVE  /\ status'[front'[u]] = "taken"
                        /\ \A w \in Threads : pc'[w] \in HasTaken /\ front'[w] = front'[u] => w = u
                        /\ \A w \in Threads : \A i \in DOMAIN stack'[w] :
                              stack'[w][i] # front'[u]
    BY <1>8 DEF FrontHeld
  <2>2. front'[u] = front[u] /\ front[u] # t
    BY <1>4, <1>7, <2>1
  <2>3. \A w \in Threads : pc'[w] \in HasTaken /\ front'[w] = front'[u] => w = u
    BY <1>2, <1>4, <1>8, <2>1, <2>2 DEF FrontHeld
  <2>4. ASSUME NEW w \in Threads, NEW i \in DOMAIN stack'[w]
        PROVE  stack'[w][i] # front'[u]
    BY <1>2, <1>5, <1>6, <2>1, <2>2 DEF FrontHeld
  <2> QED
    BY <1>2, <1>3, <2>1, <2>2, <2>3, <2>4 DEF FrontHeld
<1>12. StackHeld'
  <2>1. ASSUME NEW u \in Threads, NEW i \in DOMAIN stack'[u]
        PROVE  status'[stack'[u][i]] = "taken"
    BY <1>2, <1>3, <1>5, <1>6, <1>7 DEF StackHeld
  <2>2. ASSUME NEW u \in Threads, NEW i \in DOMAIN stack'[u],
               NEW w \in Threads, NEW j \in DOMAIN stack'[w], stack'[w][j] = stack'[u][i]
        PROVE  w = u /\ j = i
    <3>0. \A x \in Threads : \A k \in DOMAIN stack'[x] :
              stack'[x][k] = t => x = th /\ k = 1
      BY <1>6, <1>7
    <3>1. CASE u = th /\ i = 1
      BY <1>5, <2>2, <3>0, <3>1
    <3>2. CASE w = th /\ j = 1
      BY <1>5, <2>2, <3>0, <3>2
    <3>3. CASE ~(u = th /\ i = 1) /\ ~(w = th /\ j = 1)
      <4>1. w = u /\ Old(w, j) = Old(u, i)
        BY <1>2, <1>6, <2>2, <3>3 DEF StackHeld
      <4> QED
        BY <1>6, <3>3, <4>1
    <3> QED
      BY <3>1, <3>2, <3>3
  <2> QED
    BY <2>1, <2>2 DEF StackHeld
<1>13. SomebodyHas'
  <2>1. ASSUME NEW u \in Threads, NEW k \in Tasks, Holds(u, k) PROVE Holds(u, k)'
    <3>1. CASE pc[u] \in HasTaken /\ front[u] = k
      <4>1. CASE u = th
        <5>1. k = t /\ 1 \in DOMAIN stack'[th]
          BY <1>1, <1>5, <3>1, <4>1, SequencesTyped
        <5> QED
          BY <1>5, <4>1, <5>1 DEF Holds
      <4>2. CASE u # th
        BY <1>4, <1>8, <3>1, <4>2 DEF Holds
      <4> QED
        BY <4>1, <4>2
    <3>2. ASSUME NEW i \in DOMAIN stack[u], stack[u][i] = k PROVE Holds(u, k)'
      <4>1. CASE u = th
        <5>1. i + 1 \in 1..(Len(stack[th]) + 1) /\ i + 1 # 1 /\ (i + 1) - 1 = i
          BY <3>2, <4>1, SequencesTyped
        <5> QED
          BY <1>5, <3>2, <4>1, <5>1 DEF Holds
      <4>2. CASE u # th
        BY <1>4, <3>2, <4>2 DEF Holds
      <4> QED
        BY <4>1, <4>2
    <3> QED
      BY <2>1, <3>1, <3>2 DEF Holds
  <2> QED
    BY <1>2, <1>3, <2>1 DEF SomebodyHas
<1>14. Filed'
  BY <1>2, <1>3 DEF Filed
<1>15. ChildrenWait'
  <2>1. ASSUME NEW u \in Threads, pc'[u] \in HasTaken, front'[u] \in Forks
        PROVE  status'[Child[front'[u]]] = "none"
    BY <1>2, <1>3, <1>4, <1>8, <2>1 DEF ChildrenWait
  <2>2. ASSUME NEW u \in Threads, pc'[u] = "body", stack'[u][1] \in Forks
        PROVE  status'[Child[stack'[u][1]]] = "none"
    <3>1. CASE u = th
      BY <1>1, <1>2, <1>3, <1>5, <2>2, <3>1 DEF ChildrenWait, HasTaken
    <3>2. CASE u # th
      BY <1>2, <1>3, <1>4, <2>2, <3>2 DEF ChildrenWait
    <3> QED
      BY <3>1, <3>2
  <2> QED
    BY <1>2, <1>3, <2>1, <2>2 DEF ChildrenWait
<1> QED
  BY <1>9, <1>10, <1>11, <1>12, <1>13, <1>14, <1>15 DEF TaskInv, HeldOnce

LEMMA PushKeepsTaskInv ==
    ASSUME TypeOK, TaskInv, Control, NEW th \in Threads, NEW t \in Tasks,
           NEW from \in {"user", "body"}, NEW to \in {"pushed", "forked"},
           Push(th, t, from, to), status[t] = "none",
           from = "body" => stack[th] # <<>> /\ stack[th][1] \in Forks,
           \A f \in Forks : Child[f] = t => from = "body" /\ f = stack[th][1]
    PROVE  TaskInv'
<1>1. /\ Registers /\ Nesting /\ FrontHeld /\ StackHeld /\ SomebodyHas /\ Filed /\ ChildrenWait
      /\ DOMAIN pc = Threads /\ DOMAIN queue = Threads /\ DOMAIN status = Tasks
  BY DEF TaskInv, HeldOnce, TypeOK
<1>2. UNCHANGED <<stack, victim, front, tries>> /\ pc[th] = from
  BY DEF Push, Go, popping
<1>3. /\ \A u \in Threads : pc'[u] = IF u = th THEN to ELSE pc[u]
      /\ \A w \in Threads : queue'[w] = IF w = th THEN Append(queue[th], t) ELSE queue[w]
      /\ \A k \in Tasks : status'[k] = IF k = t THEN "queued" ELSE status[k]
  BY <1>1 DEF Push, Go
<1>4. /\ DOMAIN Append(queue[th], t) = 1..(Len(queue[th]) + 1)
      /\ Append(queue[th], t)[Len(queue[th]) + 1] = t
      /\ \A j \in 1..Len(queue[th]) : Append(queue[th], t)[j] = queue[th][j]
  <2>1. queue[th] \in Seq(Tasks)
    BY SequencesTyped
  <2> QED
    BY <2>1, AppendShifts
<1>5. /\ \A u \in Threads : pc'[u] \in HasTaken <=> pc[u] \in HasTaken
      /\ \A u \in Threads : pc'[u] \in HasRead <=> pc[u] \in HasRead
  BY <1>2, <1>3 DEF HasTaken, HasRead
<1>6. /\ \A u \in Threads : pc[u] \in HasTaken => front[u] \in Tasks /\ front[u] # t
      /\ \A u \in Threads : \A i \in DOMAIN stack[u] : stack[u][i] \in Tasks /\ stack[u][i] # t
      /\ \A w \in Threads : \A j \in DOMAIN queue[w] : queue[w][j] \in Tasks /\ queue[w][j] # t
  BY <1>1, SequencesTyped DEF Registers, FrontHeld, StackHeld, Filed, HasTaken, HasRead
<1>7. Registers'
  BY <1>1, <1>2, <1>3, <1>5 DEF Registers
<1>8. Nesting'
  <2>1. \A u \in Threads : \A i \in DOMAIN stack[u] :
            i = 1 /\ pc'[u] # "body" /\ pc[u] = "body" => stack[u][i] \in Forks
    BY <1>2, <1>3
  <2>2. \A u \in Threads : \A i \in DOMAIN stack[u] : i \in Nat \ {0}
    BY SequencesTyped
  <2> QED
    BY <1>1, <1>2, <2>1, <2>2 DEF Nesting
<1>9. FrontHeld'
  BY <1>1, <1>2, <1>3, <1>5, <1>6 DEF FrontHeld
<1>10. StackHeld'
  BY <1>1, <1>2, <1>3, <1>6 DEF StackHeld
<1>11. SomebodyHas'
  <2>1. \A u \in Threads, k \in Tasks : Holds(u, k) => Holds(u, k)'
    BY <1>2, <1>5 DEF Holds
  <2>2. \A k \in Tasks : status'[k] = "taken" => status[k] = "taken"
    BY <1>3
  <2> QED
    BY <1>1, <2>1, <2>2 DEF SomebodyHas
<1>12. Filed'
  <2>1. /\ Len(queue[th]) \in Nat /\ DOMAIN queue[th] = 1..Len(queue[th])
        /\ DOMAIN queue'[th] = 1..(Len(queue[th]) + 1)
        /\ queue'[th][Len(queue[th]) + 1] = t
        /\ \A j \in 1..Len(queue[th]) : queue'[th][j] = queue[th][j]
        /\ \A w \in Threads : w # th => queue'[w] = queue[w]
    <3>1. Len(queue[th]) \in Nat /\ DOMAIN queue[th] = 1..Len(queue[th])
      BY SequencesTyped
    <3>2. queue'[th] = Append(queue[th], t)
      BY <1>3
    <3> QED
      BY <1>3, <1>4, <3>1, <3>2
  <2>2. \A w \in Threads : \A i \in DOMAIN queue[w] :
            i \in DOMAIN queue'[w] /\ queue'[w][i] = queue[w][i]
    <3>1. ASSUME NEW w \in Threads, NEW i \in DOMAIN queue[w]
          PROVE  i \in DOMAIN queue'[w] /\ queue'[w][i] = queue[w][i]
      BY <2>1, <3>1
    <3> QED
      BY <3>1
  <2>3. \A w \in Threads : \A i \in DOMAIN queue'[w] :
            \/ w = th /\ i = Len(queue[th]) + 1 /\ queue'[w][i] = t
            \/ i \in DOMAIN queue[w] /\ queue'[w][i] = queue[w][i]
    <3>1. ASSUME NEW w \in Threads, NEW i \in DOMAIN queue'[w]
          PROVE  \/ w = th /\ i = Len(queue[th]) + 1 /\ queue'[w][i] = t
                 \/ i \in DOMAIN queue[w] /\ queue'[w][i] = queue[w][i]
      BY <2>1, <3>1
    <3> QED
      BY <3>1
  <2>4. ASSUME NEW w \in Threads, NEW i \in DOMAIN queue'[w]
        PROVE  status'[queue'[w][i]] = "queued"
    BY <1>1, <1>3, <1>6, <2>3 DEF Filed
  <2>5. ASSUME NEW w \in Threads, NEW i \in DOMAIN queue'[w],
               NEW u \in Threads, NEW j \in DOMAIN queue'[u], queue'[u][j] = queue'[w][i]
        PROVE  u = w /\ j = i
    <3>1. CASE queue'[w][i] = t
      BY <1>6, <2>3, <2>5, <3>1
    <3>2. CASE queue'[w][i] # t
      BY <1>1, <2>3, <2>5, <3>2 DEF Filed
    <3> QED
      BY <3>1, <3>2
  <2>6. ASSUME NEW k \in Tasks, status'[k] = "queued"
        PROVE  \E w \in Threads : \E i \in DOMAIN queue'[w] : queue'[w][i] = k
    <3>1. CASE k = t
      BY <2>1, <3>1
    <3>2. CASE k # t
      <4>1. PICK w \in Threads : \E i \in DOMAIN queue[w] : queue[w][i] = k
        BY <1>1, <1>3, <2>6, <3>2 DEF Filed
      <4> QED
        BY <2>2, <4>1
    <3> QED
      BY <3>1, <3>2
  <2> QED
    BY <2>4, <2>5, <2>6 DEF Filed
<1>13. ChildrenWait'
  <2>1. \A f \in Forks : f \in Tasks /\ Child[f] \in Tasks
    BY DEF Tasks
  <2>2. \A f \in Forks : Child[f] = t =>
            /\ status[f] = "taken" /\ f # t
            /\ \A u \in Threads : pc[u] \in HasTaken => front[u] # f
            /\ \A u \in Threads : \A i \in DOMAIN stack[u] : stack[u][i] = f => u = th
    <3>1. SUFFICES ASSUME NEW f \in Forks, Child[f] = t, from = "body", f = stack[th][1]
                   PROVE  /\ status[f] = "taken" /\ f # t
                          /\ \A u \in Threads : pc[u] \in HasTaken => front[u] # f
                          /\ \A u \in Threads : \A i \in DOMAIN stack[u] :
                                stack[u][i] = f => u = th
      OBVIOUS
    <3>2. 1 \in DOMAIN stack[th]
      BY <3>1, SequencesTyped
    <3> QED
      BY <1>1, <3>1, <3>2 DEF FrontHeld, StackHeld
  <2>3. \A f \in Forks : status'[f] \in {"none", "queued"} => status'[Child[f]] = "none"
    BY <1>1, <1>3, <2>1, <2>2 DEF ChildrenWait
  <2>4. \A u \in Threads : pc'[u] \in HasTaken /\ front'[u] \in Forks =>
            status'[Child[front'[u]]] = "none"
    BY <1>1, <1>2, <1>3, <1>5, <2>1, <2>2 DEF ChildrenWait
  <2>5. ASSUME NEW u \in Threads, pc'[u] = "body", stack'[u][1] \in Forks
        PROVE  status'[Child[stack'[u][1]]] = "none"
    <3>1. u # th /\ pc[u] = "body"
      BY <1>3, <2>5
    <3>2. status[Child[stack[u][1]]] = "none" /\ stack[u][1] \in Forks
      BY <1>1, <1>2, <2>5, <3>1 DEF ChildrenWait
    <3>3. Child[stack[u][1]] # t
      <4>1. SUFFICES ASSUME Child[stack[u][1]] = t PROVE FALSE
        OBVIOUS
      <4>2. 1 \in DOMAIN stack[th] /\ stack[th][1] = stack[u][1]
        BY <3>2, <4>1, SequencesTyped
      <4>3. 1 \in DOMAIN stack[u]
        BY <3>1, SequencesTyped DEF Control, Place
      <4> QED
        BY <2>2, <3>1, <3>2, <4>1, <4>3
    <3> QED
      BY <1>2, <1>3, <2>1, <3>2, <3>3
  <2> QED
    BY <2>3, <2>4, <2>5 DEF ChildrenWait
<1> QED
  BY <1>7, <1>8, <1>9, <1>10, <1>11, <1>12, <1>13 DEF TaskInv, HeldOnce

LEMMA FinishKeepsTaskInv ==
    ASSUME TypeOK, TaskInv, Control, NEW th \in Threads, Finish(th)
    PROVE  TaskInv'
<1>1. /\ Registers /\ Nesting /\ FrontHeld /\ StackHeld /\ SomebodyHas /\ Filed /\ ChildrenWait
      /\ DOMAIN pc = Threads /\ DOMAIN stack = Threads /\ DOMAIN status = Tasks
  BY DEF TaskInv, HeldOnce, TypeOK
<1>2. /\ UNCHANGED <<queue, victim, front, tries>>
      /\ pc[th] \in {"body", "await"} /\ Resumed(th) \in {"await", "loop", "drain", "wait"}
  BY DEF Finish, popping, Resumed, TypeOK
<1>3. stack[th] \in Seq(Tasks) /\ stack[th] # <<>> /\ 1 \in DOMAIN stack[th]
  BY <1>2, SequencesTyped DEF Control, Place
<1>4. PICK t \in Tasks : t = stack[th][1] /\ t = Head(stack[th])
  BY <1>3
<1>5. /\ \A u \in Threads : pc'[u] = IF u = th THEN Resumed(th) ELSE pc[u]
      /\ \A w \in Threads : w # th => stack'[w] = stack[w]
      /\ stack'[th] = Tail(stack[th])
      /\ \A k \in Tasks : status'[k] = IF k = t THEN "done" ELSE status[k]
  BY <1>1, <1>4 DEF Finish
<1>6. /\ DOMAIN stack[th] = 1..Len(stack[th]) /\ Len(stack[th]) \in Nat
      /\ DOMAIN stack'[th] = 1..(Len(stack[th]) - 1)
      /\ \A j \in 1..(Len(stack[th]) - 1) : stack'[th][j] = stack[th][j + 1]
  <2>1. /\ DOMAIN Tail(stack[th]) = 1..(Len(stack[th]) - 1)
        /\ \A j \in 1..(Len(stack[th]) - 1) : Tail(stack[th])[j] = stack[th][j + 1]
    BY <1>3, TailShifts
  <2> QED
    BY <1>5, <2>1, SequencesTyped
\* Where an element of a stack was before the return
<1> DEFINE Old(u, i) == IF u = th THEN i + 1 ELSE i
<1>7. ASSUME NEW u \in Threads, NEW i \in DOMAIN stack'[u]
      PROVE  /\ Old(u, i) \in DOMAIN stack[u] /\ stack'[u][i] = stack[u][Old(u, i)]
             /\ i \in Nat \ {0} /\ stack[u][Old(u, i)] \in Tasks
  <2>1. CASE u = th
    <3>1. i \in 1..(Len(stack[th]) - 1) /\ i + 1 \in DOMAIN stack[th] /\ i \in Nat \ {0}
      BY <1>6, <1>7, <2>1
    <3> QED
      BY <1>6, <2>1, <3>1, SequencesTyped
  <2>2. CASE u # th
    <3>1. stack'[u] = stack[u]
      BY <1>5, <2>2
    <3> QED
      BY <1>7, <2>2, <3>1, SequencesTyped
  <2> QED
    BY <2>1, <2>2
<1>8. /\ status[t] = "taken"
      /\ \A u \in Threads : pc[u] \in HasTaken => front[u] \in Tasks /\ front[u] # t
      /\ \A u \in Threads : \A i \in DOMAIN stack[u] : stack[u][i] = t => u = th /\ i = 1
      /\ \A w \in Threads : \A j \in DOMAIN queue[w] : queue[w][j] \in Tasks /\ queue[w][j] # t
  BY <1>1, <1>3, <1>4, SequencesTyped
     DEF Registers, FrontHeld, StackHeld, Filed, HasTaken, HasRead
<1>9. /\ \A u \in Threads : pc'[u] \in HasTaken <=> pc[u] \in HasTaken
      /\ \A u \in Threads : pc'[u] \in HasRead <=> pc[u] \in HasRead
      /\ \A u \in Threads : pc'[u] \in {"body", "steal", "stealTake"} => u # th
  BY <1>2, <1>5 DEF HasTaken, HasRead
<1>10. Registers'
  BY <1>1, <1>2, <1>5, <1>9 DEF Registers
<1>11. Nesting'
  <2>1. SUFFICES ASSUME NEW u \in Threads, NEW i \in DOMAIN stack'[u], i > 1 \/ pc'[u] # "body"
                 PROVE  stack'[u][i] \in Forks
    BY DEF Nesting
  <2>2. Old(u, i) > 1 \/ pc[u] # "body"
    BY <1>5, <1>7, <2>1
  <2> QED
    BY <1>1, <1>7, <2>2 DEF Nesting
<1>12. FrontHeld'
  <2>1. \A u \in Threads : pc[u] \in HasTaken =>
            \A w \in Threads : \A i \in DOMAIN stack'[w] : stack'[w][i] # front[u]
    BY <1>1, <1>7 DEF FrontHeld
  <2> QED
    BY <1>1, <1>2, <1>5, <1>8, <1>9, <2>1 DEF FrontHeld
<1>13. StackHeld'
  <2>1. ASSUME NEW u \in Threads, NEW i \in DOMAIN stack'[u]
        PROVE  status'[stack'[u][i]] = "taken"
    <3>1. ~(u = th /\ Old(u, i) = 1)
      BY <1>7
    <3>2. stack[u][Old(u, i)] # t
      BY <1>7, <1>8, <3>1
    <3> QED
      BY <1>1, <1>5, <1>7, <3>2 DEF StackHeld
  <2>2. ASSUME NEW u \in Threads, NEW i \in DOMAIN stack'[u],
               NEW w \in Threads, NEW j \in DOMAIN stack'[w], stack'[w][j] = stack'[u][i]
        PROVE  w = u /\ j = i
    <3>1. w = u /\ Old(w, j) = Old(u, i)
      BY <1>1, <1>7, <2>2 DEF StackHeld
    <3> QED
      BY <1>7, <3>1
  <2> QED
    BY <2>1, <2>2 DEF StackHeld
<1>14. SomebodyHas'
  <2>1. ASSUME NEW u \in Threads, NEW k \in Tasks, Holds(u, k), k # t PROVE Holds(u, k)'
    <3>1. CASE pc[u] \in HasTaken /\ front[u] = k
      BY <1>2, <1>9, <3>1 DEF Holds
    <3>2. ASSUME NEW i \in DOMAIN stack[u], stack[u][i] = k PROVE Holds(u, k)'
      <4>1. CASE u = th
        <5>1. i # 1 /\ i \in 1..Len(stack[th])
          BY <1>4, <1>6, <2>1, <3>2, <4>1
        <5>2. i - 1 \in 1..(Len(stack[th]) - 1) /\ (i - 1) + 1 = i
          BY <1>6, <5>1
        <5> QED
          BY <1>6, <3>2, <4>1, <5>2 DEF Holds
      <4>2. CASE u # th
        BY <1>5, <3>2, <4>2 DEF Holds
      <4> QED
        BY <4>1, <4>2
    <3> QED
      BY <2>1, <3>1, <3>2 DEF Holds
  <2>2. \A k \in Tasks : status'[k] = "taken" => status[k] = "taken" /\ k # t
    BY <1>5
  <2> QED
    BY <1>1, <2>1, <2>2 DEF SomebodyHas
<1>15. Filed'
  BY <1>1, <1>2, <1>5, <1>8 DEF Filed
<1>16. ChildrenWait'
  <2>1. \A f \in Forks : f \in Tasks /\ Child[f] \in Tasks
    BY DEF Tasks
  <2>2. \A k \in Tasks : status[k] = "none" => status'[k] = "none"
    BY <1>5, <1>8
  <2>3. \A f \in Forks : status'[f] \in {"none", "queued"} => status'[Child[f]] = "none"
    BY <1>1, <1>5, <2>1, <2>2 DEF ChildrenWait
  <2>4. \A u \in Threads : pc'[u] \in HasTaken /\ front'[u] \in Forks =>
            status'[Child[front'[u]]] = "none"
    BY <1>1, <1>2, <1>9, <2>1, <2>2 DEF ChildrenWait
  <2>5. \A u \in Threads : pc'[u] = "body" /\ stack'[u][1] \in Forks =>
            status'[Child[stack'[u][1]]] = "none"
    BY <1>1, <1>5, <1>9, <2>1, <2>2 DEF ChildrenWait
  <2> QED
    BY <2>3, <2>4, <2>5 DEF ChildrenWait
<1> QED
  BY <1>10, <1>11, <1>12, <1>13, <1>14, <1>15, <1>16 DEF TaskInv, HeldOnce

-----------------------------------------------------------------------------
LEMMA CountedFinite == Counted \subseteq Workers /\ IsFiniteSet(Counted)
<1>1. Counted \subseteq Workers
  BY DEF Counted
<1> QED
  BY <1>1, FS_Subset

LEMMA ActiveCounts == ActiveExact <=> active = Cardinality(Counted)
BY DEF ActiveExact, Counted, Uncounted

LEMMA ThreadsFinite == IsFiniteSet(Threads) /\ Cardinality(Threads) \in Nat
<1>1. IsFiniteSet(Threads)
  BY FS_AddElement DEF Threads
<1> QED
  BY <1>1, FS_CardinalityType

\* A step that one thread takes without touching what the threads share.
Quiet(th, to) ==
    /\ pc' = [pc EXCEPT ![th] = to]
    /\ UNCHANGED <<control, home>>
    /\ \A u \in Threads \ {th} : stack'[u] = stack[u]
    /\ pc'[Main] = "wake" => wakes' > 0
    /\ to \in Outside <=> pc[th] \in Outside
    /\ home[th] = "loop" => (to \in Uncounted <=> pc[th] \in Uncounted)
    /\ to = "leave" => shouldStop
    /\ to \in {"spin", "erase"} => pc[th] \in {"spin", "erase"}

LEMMA QuietKeepsThreadInv ==
    ASSUME TypeOK, ThreadInv, NEW th \in Threads, NEW to, Quiet(th, to), Place(th)'
    PROVE  ThreadInv'
<1>1. /\ Control /\ Roster /\ Stopping /\ active = Cardinality(Counted)
      /\ pc \in [Threads -> Labels]
  BY ActiveCounts DEF ThreadInv, TypeOK
<1>2. /\ \A u \in Threads : pc'[u] = IF u = th THEN to ELSE pc[u]
      /\ UNCHANGED <<workers, lock, active, shouldPause, shouldStop, home>>
      /\ \A u \in Threads \ {th} : stack'[u] = stack[u]
  BY <1>1 DEF Quiet, control
<1>3. Control'
  <2>1. \A u \in Threads \ {th} : Place(u)'
    BY <1>1, <1>2 DEF Control, Place
  <2> QED
    BY <2>1 DEF Control
<1>4. \A u \in Threads : Registered(u)' <=> Registered(u)
  BY <1>2 DEF Quiet, Registered
<1>5. Roster'
  BY <1>1, <1>2, <1>4 DEF Roster
<1>6. Stopping'
  <2>1. Main \in Threads /\ Workers \subseteq Threads
    BY DEF Threads
  <2> QED
    BY <1>1, <1>2, <2>1 DEF Stopping, Quiet
<1>7. Counted' = Counted
  <2>1. Workers \subseteq Threads
    BY DEF Threads
  <2> QED
    BY <1>2, <2>1 DEF Counted, Quiet
<1>8. ActiveExact'
  <2>1. ActiveExact' <=> active' = Cardinality(Counted')
    BY DEF ActiveExact, Counted, Uncounted
  <2> QED
    BY <1>1, <1>2, <1>7, <2>1
<1> QED
  BY <1>3, <1>5, <1>6, <1>8 DEF ThreadInv

\* The labels of home are labels a thread may come back to.
LEMMA HomeTyped ==
    ASSUME TypeOK, NEW th \in Threads
    PROVE  /\ home[th] \in {"loop", "drain", "wait"}
           /\ Resumed(th) \in {"await", "loop", "drain", "wait"}
           /\ Missed(th) \in {"await", "rest", "drain", "wait"}
BY DEF TypeOK, Resumed, Missed

\* The steps of a thread that only move its program counter, and signal.
LEMMA CalmStep ==
    ASSUME IInv, NEW th \in Threads, NEW to \in Labels, Calm(th, to), Quiet(th, to),
           Place(th)', signaled' \in BOOLEAN, goal' \in Roots \cup {Nil},
           wakes' \in 0..Cardinality(Workers), pauses' = pauses
    PROVE  IInv'
<1>1. TaskInv' /\ ThreadInv'
  BY CalmKeepsTaskInv, QuietKeepsThreadInv DEF IInv
<1>2. TypeOK'
  BY DEF IInv, TypeOK, Calm, Quiet, control, popping
<1> QED
  BY <1>1, <1>2 DEF IInv

LEMMA LoopStep ==
    ASSUME IInv, NEW th \in Threads,
           Loop(th) \/ Sleep(th) \/ Woken(th) \/ Quiesce(th) \/ Await(th)
    PROVE  IInv'
<1>1. /\ Place(th) /\ TypeOK
      /\ pc \in [Threads -> Labels] /\ home[th] \in {"loop", "drain", "wait"}
  BY HomeTyped DEF IInv, ThreadInv, Control, TypeOK
<1>2. PICK to \in Labels :
          /\ pc' = [pc EXCEPT ![th] = to]
          /\ \/ pc[th] = "loop" /\ to = "leave" /\ shouldStop
             \/ pc[th] = "loop" /\ to \in {"rest", "own"}
             \/ pc[th] = "sleep" /\ to = "woken"
             \/ pc[th] = "woken" /\ to \in {"sleep", "enter"}
             \/ pc[th] = "spin" /\ to = "erase"
             \/ pc[th] = "await" /\ to = "own"
  BY DEF Loop, Sleep, Woken, Quiesce, Await, Go, Labels, Searching
<1>3. /\ UNCHANGED <<control, queue, status, home, stack, popping, mainOnly>>
      /\ signaled' \in BOOLEAN
  BY <1>1 DEF Loop, Sleep, Woken, Quiesce, Await, TypeOK
<1>4. Calm(th, to)
  BY <1>2, <1>3 DEF Calm, HasRead
<1>5. Quiet(th, to)
  <2>1. Main \in Threads
    BY DEF Threads
  <2>2. pc'[Main] = "wake" => pc[Main] = "wake"
    BY <1>1, <1>2, <2>1
  <2>3. pc'[Main] = "wake" => wakes' > 0
    BY <1>3, <2>2 DEF IInv, ThreadInv, Stopping, mainOnly
  <2> QED
    BY <1>2, <1>3, <2>3 DEF Quiet, Outside, Uncounted
<1>6. Place(th)'
  BY <1>1, <1>2, <1>3 DEF Place, AtHome, InUser, Leaving, Looking
<1>7. goal' \in Roots \cup {Nil} /\ wakes' \in 0..Cardinality(Workers) /\ pauses' = pauses
  BY <1>1, <1>3 DEF TypeOK, mainOnly
<1> QED
  BY <1>3, <1>4, <1>5, <1>6, <1>7, CalmStep

LEMMA CallerStep ==
    ASSUME IInv,
           \/ Announce(Main, "pushed", "user") \/ MainWait \/ WakeAll \/ Reap
           \/ \E th \in Threads : Announce(th, "forked", "await")
    PROVE  IInv'
<1>1. /\ TypeOK /\ Control /\ Stopping /\ Main \in Threads
      /\ pc \in [Threads -> Labels]
  BY DEF IInv, ThreadInv, TypeOK, Threads
<1>2. PICK th \in Threads, to \in Labels :
          /\ pc' = [pc EXCEPT ![th] = to]
          /\ \/ th = Main /\ pc[th] = "pushed" /\ to = "user"
             \/ th = Main /\ pc[th] = "user" /\ to = "wait"
             \/ th = Main /\ pc[th] = "wait" /\ to \in {"user", "own"}
             \/ th = Main /\ pc[th] = "wake" /\ to = "drain"
             \/ th = Main /\ pc[th] = "wake" /\ to = "wake" /\ wakes' > 0
             \/ th = Main /\ pc[th] = "reap" /\ to \in {"reap", "join"}
             \/ th = Main /\ pc[th] = "join" /\ to = "gone"
             \/ pc[th] = "forked" /\ to = "await"
  <2>1. CASE WakeAll
    <3>1. pc[Main] = "wake" /\ wakes' = wakes - 1 /\ wakes \in Nat
      BY <1>1, <2>1 DEF WakeAll, Go, TypeOK
    <3>2. pc' = [pc EXCEPT ![Main] = IF wakes > 1 THEN "wake" ELSE "drain"]
      BY <2>1 DEF WakeAll, Go
    <3>3. CASE wakes > 1
      <4>1. pc' = [pc EXCEPT ![Main] = "wake"] /\ wakes' > 0
        BY <3>1, <3>2, <3>3
      <4>2. "wake" \in Labels
        BY DEF Labels
      <4> QED
        BY <1>1, <3>1, <4>1, <4>2
    <3>4. CASE ~(wakes > 1)
      BY <1>1, <3>1, <3>2, <3>4 DEF Labels
    <3> QED
      BY <3>3, <3>4
  <2>2. CASE ~WakeAll
    BY <1>1, <2>2 DEF Announce, MainWait, Reap, Go, Labels, Searching
  <2> QED
    BY <2>1, <2>2
<1>3. /\ UNCHANGED <<control, queue, status, home, stack, popping, pauses>>
      /\ signaled' \in BOOLEAN
  BY <1>1 DEF Announce, MainWait, WakeAll, Reap, mainOnly, TypeOK
<1>4. goal' \in Roots \cup {Nil}
  BY <1>1 DEF Announce, MainWait, WakeAll, Reap, mainOnly, TypeOK
<1>5. wakes' \in 0..Cardinality(Workers) /\ (WakeAll \/ wakes' = wakes)
  <2>1. CASE WakeAll
    <3>1. wakes \in 0..Cardinality(Workers) /\ wakes > 0 /\ wakes' = wakes - 1
      BY <1>1, <2>1 DEF WakeAll, Go, TypeOK, Stopping
    <3> QED
      BY <2>1, <3>1, FS_CardinalityType
  <2>2. CASE ~WakeAll
    BY <1>1, <2>2 DEF Announce, MainWait, Reap, mainOnly, TypeOK
  <2> QED
    BY <2>1, <2>2
<1>6. Calm(th, to)
  BY <1>2, <1>3 DEF Calm, HasRead
<1>7. Place(th)
  BY <1>1 DEF Control
<1>8. Quiet(th, to)
  <2>1. pc'[Main] = "wake" => wakes' > 0
    <3>1. SUFFICES ASSUME pc'[Main] = "wake" PROVE wakes' > 0
      OBVIOUS
    <3>2. pc[Main] = "wake"
      BY <1>1, <1>2, <3>1
    <3>3. CASE th = Main
      BY <1>1, <1>2, <3>1, <3>2, <3>3
    <3>4. CASE th # Main
      <4>1. ~WakeAll
        BY <1>1, <1>2, <3>2, <3>4 DEF WakeAll, Go, Labels
      <4> QED
        BY <1>1, <1>5, <3>2, <4>1 DEF Stopping
    <3> QED
      BY <3>3, <3>4
  <2>2. home[th] = "loop" => th # Main
    BY <1>7 DEF Place
  <2> QED
    BY <1>2, <1>3, <2>1, <2>2 DEF Quiet, Outside, Uncounted
<1>9. Place(th)'
  BY <1>1, <1>2, <1>3, <1>7 DEF Place, AtHome, InUser, Leaving, Looking
<1> QED
  BY <1>3, <1>4, <1>5, <1>6, <1>8, <1>9, CalmStep

\* Where a pop may lead, by where it began and whose queue it looks in
Leads(th, from, to) ==
    \/ from \in {"own", "ownTake", "first", "firstTake", "steal", "stealTake"}
       /\ to \in Looking
    \/ from \in {"steal", "stealTake"} /\ to = Missed(th)
    \/ from \in {"ownTake", "firstTake", "drainTake"} /\ to = "call"
    \/ from = "drain" /\ to = "drainTake"
    \/ from \in {"drain", "drainTake"} /\ to = "unreg"

LEMMA LeadsQuietly ==
    ASSUME IInv, NEW th \in Threads, NEW from, NEW to,
           pc[th] = from, pc' = [pc EXCEPT ![th] = to], Leads(th, from, to),
           UNCHANGED <<control, home, stack, mainOnly>>
    PROVE  Quiet(th, to) /\ Place(th)' /\ to \in Labels
<1>1. /\ pc \in [Threads -> Labels] /\ Main \in Threads /\ Place(th) /\ Stopping
      /\ home[th] \in {"loop", "drain", "wait"}
  BY HomeTyped DEF IInv, ThreadInv, Control, TypeOK, Threads
<1>2. Place(th)'
  BY <1>1 DEF Place, Leads, Looking, Leaving, AtHome, InUser, Missed
<1>3. /\ to \in {"ownTake", "first", "firstTake", "steal", "stealTake", "chain", "call",
                 "drainTake", "unreg", "own", "await", "rest", "wait"}
      /\ home[th] = "loop" => from \notin {"drain", "drainTake"} /\ to # "wait"
  BY <1>1 DEF Leads, Place, Looking, Leaving, Missed
<1>4. pc'[Main] = "wake" => wakes' > 0
  <2>1. pc'[Main] = "wake" => pc[Main] = "wake"
    BY <1>1, <1>3
  <2> QED
    BY <1>1, <2>1 DEF Stopping, mainOnly
<1>5. from \notin Outside /\ from \notin Uncounted \ {"drain", "drainTake"}
  BY DEF Leads, Outside, Uncounted
<1>6. from \in {"drain", "drainTake"} => home[th] = "drain"
  BY <1>1 DEF Place, Leaving
<1>7. home[th] = "loop" => to \notin {"drainTake", "unreg"}
  BY <1>1, <1>6 DEF Leads, Looking, Missed
<1>8. /\ to \notin Outside /\ to \notin {"leave", "spin", "erase"}
      /\ home[th] = "loop" => to \notin Uncounted /\ from \notin Uncounted
  BY <1>3, <1>5, <1>6, <1>7 DEF Outside, Uncounted
<1>9. Quiet(th, to)
  BY <1>4, <1>5, <1>8 DEF Quiet
<1> QED
  BY <1>2, <1>3, <1>9 DEF Labels, Searching

LEMMA ReadStep ==
    ASSUME IInv, NEW th \in Threads, NEW v \in Threads,
           NEW from \in {"own", "first", "steal", "drain"},
           NEW found \in {"ownTake", "firstTake", "stealTake", "drainTake"},
           NEW empty \in {"first", "steal", "await", "rest", "wait", "drain", "unreg"},
           Read(th, v, from, found, empty), TriesKept(th),
           Leads(th, from, found), Leads(th, from, empty),
           tries' \in [Threads -> 0..Attempts], dist' \in [Threads -> SUBSET Threads]
    PROVE  IInv'
<1>1. TypeOK /\ TaskInv /\ ThreadInv
  BY DEF IInv
<1>2. TaskInv'
  BY <1>1, ReadKeepsTaskInv
<1>3. PICK to \in {found, empty} : pc[th] = from /\ pc' = [pc EXCEPT ![th] = to]
  BY DEF Read, Go
<1>4. UNCHANGED <<control, signaled, queue, status, home, stack, mainOnly>>
  BY DEF Read
<1>5. Quiet(th, to) /\ Place(th)' /\ to \in Labels
  BY <1>3, <1>4, LeadsQuietly
<1>6. ThreadInv'
  BY <1>1, <1>5, QuietKeepsThreadInv
<1>7. victim' \in [Threads -> Threads \cup {Nil}] /\ front' \in [Threads -> Tasks \cup {Nil}]
  <2>1. queue[v] # <<>> => Head(queue[v]) \in Tasks
    BY <1>1, SequencesTyped
  <2>2. victim \in [Threads -> Threads \cup {Nil}] /\ front \in [Threads -> Tasks \cup {Nil}]
    BY <1>1 DEF TypeOK
  <2> QED
    BY <2>1, <2>2 DEF Read
<1>8. TypeOK'
  BY <1>1, <1>3, <1>4, <1>5, <1>7 DEF TypeOK, control, mainOnly
<1> QED
  BY <1>2, <1>6, <1>8 DEF IInv

LEMMA ExchangeStep ==
    ASSUME IInv, NEW th \in Threads,
           NEW from \in {"ownTake", "firstTake", "stealTake", "drainTake"},
           NEW won \in HasTaken,
           NEW lost \in {"first", "steal", "await", "rest", "wait", "drain", "unreg"},
           Exchange(th, from, won, lost), TriesKept(th),
           Leads(th, from, won), Leads(th, from, lost),
           tries' \in [Threads -> 0..Attempts], dist' \in [Threads -> SUBSET Threads]
    PROVE  IInv'
<1>1. TypeOK /\ TaskInv /\ ThreadInv
  BY DEF IInv
<1>2. TaskInv'
  BY <1>1, ExchangeKeepsTaskInv
<1>3. PICK to \in {won, lost} : pc[th] = from /\ pc' = [pc EXCEPT ![th] = to]
  BY DEF Exchange, Go
<1>4. UNCHANGED <<control, signaled, home, stack, mainOnly>>
  BY DEF Exchange
<1>5. Quiet(th, to) /\ Place(th)' /\ to \in Labels
  BY <1>3, <1>4, LeadsQuietly
<1>6. ThreadInv'
  BY <1>1, <1>5, QuietKeepsThreadInv
<1>7. victim[th] \in Threads /\ queue[victim[th]] \in Seq(Tasks)
  <2>1. victim[th] \in Threads
    BY <1>1, <1>3 DEF TaskInv, Registers, HasRead
  <2> QED
    BY <1>1, <2>1, SequencesTyped
<1>8. /\ victim' \in [Threads -> Threads \cup {Nil}] /\ front' \in [Threads -> Tasks \cup {Nil}]
      /\ queue' \in [Threads -> Seq(Tasks)]
      /\ status' \in [Tasks -> {"none", "queued", "taken", "done"}]
  <2>1. Unmoved(queue[victim[th]], front[th]) => Tail(queue[victim[th]]) \in Seq(Tasks)
    BY <1>7 DEF Unmoved
  <2>2. /\ victim \in [Threads -> Threads \cup {Nil}] /\ front \in [Threads -> Tasks \cup {Nil}]
        /\ queue \in [Threads -> Seq(Tasks)]
        /\ status \in [Tasks -> {"none", "queued", "taken", "done"}]
    BY <1>1 DEF TypeOK
  <2>3. CASE Unmoved(queue[victim[th]], front[th])
    <3>1. /\ queue' = [queue EXCEPT ![victim[th]] = Tail(queue[victim[th]])]
          /\ status' = [status EXCEPT ![front[th]] = "taken"]
          /\ UNCHANGED <<victim, front>>
      BY <2>3 DEF Exchange
    <3> QED
      BY <1>7, <2>1, <2>2, <2>3, <3>1
  <2>4. CASE ~Unmoved(queue[victim[th]], front[th])
    BY <2>2, <2>4 DEF Exchange
  <2> QED
    BY <2>3, <2>4
<1>9. TypeOK'
  BY <1>1, <1>3, <1>4, <1>5, <1>8 DEF TypeOK, control, mainOnly
<1> QED
  BY <1>2, <1>6, <1>9 DEF IInv

LEMMA SearchStep ==
    ASSUME IInv, NEW th \in Threads, Search(th)
    PROVE  IInv'
<1>1. /\ TypeOK /\ Place(th) /\ Registers /\ Roster /\ th \in Threads
      /\ Missed(th) \in {"await", "rest", "drain", "wait"}
      /\ tries \in [Threads -> 0..Attempts] /\ dist \in [Threads -> SUBSET Threads]
      /\ pc \in [Threads -> Labels] /\ workers \in Seq(Threads)
  BY HomeTyped DEF IInv, ThreadInv, TaskInv, Control, TypeOK
<1>2. ASSUME PopOwn(th) PROVE IInv'
  <2>1. pc'[th] \notin {"steal", "stealTake"} /\ UNCHANGED <<tries, dist>>
    BY <1>1, <1>2 DEF PopOwn, Read, Exchange, Go
  <2>2. TriesKept(th)
    BY <2>1 DEF TriesKept
  <2>3. CASE Read(th, th, "own", "ownTake", "first")
    BY <1>1, <2>1, <2>2, <2>3, ReadStep DEF Leads, Looking
  <2>4. CASE Exchange(th, "ownTake", "call", "first")
    BY <1>1, <2>1, <2>2, <2>4, ExchangeStep DEF Leads, Looking, HasTaken
  <2> QED
    BY <1>2, <2>3, <2>4 DEF PopOwn
<1>3. ASSUME StealFirst(th) PROVE IInv'
  <2>1. TriesKept(th) /\ tries' \in [Threads -> 0..Attempts] /\ dist' \in [Threads -> SUBSET Threads]
    <3>1. {workers[i] : i \in DOMAIN workers} \subseteq Threads
      BY <1>1
    <3>2. Attempts \in 0..Attempts /\ Attempts > 0
      OBVIOUS
    <3>3. pc'[th] # "stealTake"
      BY <1>1, <1>3 DEF StealFirst, Read, Exchange, Go
    <3>4. CASE pc'[th] = "steal"
      <4>1. /\ tries' = [tries EXCEPT ![th] = Attempts]
            /\ dist' = [dist EXCEPT ![th] = {workers[i] : i \in DOMAIN workers}]
        BY <1>3, <3>4 DEF StealFirst
      <4> QED
        BY <1>1, <3>1, <3>2, <4>1 DEF TriesKept
    <3>5. CASE pc'[th] # "steal"
      <4>1. UNCHANGED <<tries, dist>>
        BY <1>3, <3>5 DEF StealFirst
      <4> QED
        BY <1>1, <3>3, <3>5, <4>1 DEF TriesKept
    <3> QED
      BY <3>4, <3>5
  <2>2. CASE Read(th, Head(workers), "first", "firstTake", "steal")
    <3>1. workers # <<>>
      BY <1>1, <2>2 DEF Read, Go, Roster, Registered, Outside
    <3>2. Head(workers) \in Threads
      BY <1>1, <3>1
    <3> QED
      BY <1>1, <2>1, <2>2, <3>2, ReadStep DEF Leads, Looking
  <2>3. CASE Exchange(th, "firstTake", "call", "steal")
    BY <1>1, <2>1, <2>3, ExchangeStep DEF Leads, Looking, HasTaken
  <2> QED
    BY <1>3, <2>2, <2>3 DEF StealFirst
<1> DEFINE last == IF tries[th] = 1 THEN Missed(th) ELSE "steal"
<1>4. /\ Leads(th, "steal", last) /\ Leads(th, "stealTake", last)
      /\ last \in {"steal", "await", "rest", "drain", "wait"}
  BY <1>1 DEF Leads, Looking
<1>5. last = "steal" => tries[th] # 1
  BY <1>1
<1>6. ASSUME NEW v \in Threads, StealFrom(th, v) PROVE IInv'
  <2>1. Read(th, v, "steal", "stealTake", last) /\ tries[th] \in 1..Attempts /\ pc[th] = "steal"
    BY <1>1, <1>6 DEF StealFrom, Read, Go, Registers
  <2>2. tries' = [tries EXCEPT ![th] = IF queue[v] = <<>> THEN @ - 1 ELSE @]
    BY <1>6 DEF StealFrom
  <2>3. tries' \in [Threads -> 0..Attempts] /\ \A u \in Threads \ {th} : tries'[u] = tries[u]
    BY <1>1, <2>1, <2>2
  <2>4. pc'[th] \in {"steal", "stealTake"} => tries'[th] > 0
    BY <1>1, <1>5, <2>1, <2>2 DEF Read, Go
  <2>5. dist' \in [Threads -> SUBSET Threads]
    BY <1>1, <1>6 DEF StealFrom
  <2> HIDE DEF last
  <2> QED
    BY <1>4, <2>1, <2>3, <2>4, <2>5, ReadStep DEF TriesKept, Leads, Looking
<1>7. ASSUME StealTake(th) PROVE IInv'
  <2>1. Exchange(th, "stealTake", "chain", last) /\ tries[th] \in 1..Attempts
    BY <1>1, <1>7 DEF StealTake, Exchange, Go, Registers
  <2>2. tries' = [tries EXCEPT ![th] = @ - 1]
    BY <1>7 DEF StealTake
  <2>3. tries' \in [Threads -> 0..Attempts] /\ \A u \in Threads \ {th} : tries'[u] = tries[u]
    BY <1>1, <2>1, <2>2
  <2>4. pc'[th] \in {"steal", "stealTake"} => tries'[th] > 0
    BY <1>1, <1>5, <2>1, <2>2 DEF Exchange, Go
  <2>5. dist' \in [Threads -> SUBSET Threads]
    BY <1>1, <1>7 DEF StealTake
  <2> HIDE DEF last
  <2> QED
    BY <1>4, <2>1, <2>3, <2>4, <2>5, ExchangeStep DEF TriesKept, Leads, Looking, HasTaken
<1>8. ASSUME Chain(th) PROVE IInv'
  <2>1. /\ pc[th] = "chain" /\ pc' = [pc EXCEPT ![th] = "call"]
        /\ UNCHANGED <<control, queue, status, home, stack, popping, mainOnly>>
        /\ signaled' \in BOOLEAN
    BY <1>1, <1>8 DEF Chain, Go, TypeOK
  <2>2. Place(th)'
    BY <1>1, <2>1 DEF Place, AtHome, InUser, Leaving, Looking
  <2>3. pc'[Main] = "wake" => wakes' > 0
    BY <1>1, <2>1 DEF Threads, IInv, ThreadInv, Stopping, mainOnly
  <2>4. Quiet(th, "call")
    BY <2>1, <2>3 DEF Quiet, Outside, Uncounted
  <2>5. ThreadInv' /\ TaskInv'
    BY <1>1, <1>8, <2>2, <2>4, QuietKeepsThreadInv, ChainKeepsTaskInv DEF IInv
  <2>6. "call" \in Labels
    BY DEF Labels, Searching
  <2>7. TypeOK'
    BY <1>1, <2>1, <2>6 DEF TypeOK, control, popping, mainOnly
  <2> QED
    BY <2>5, <2>7 DEF IInv
<1>9. ASSUME Drain(th) PROVE IInv'
  <2>1. pc'[th] \notin {"steal", "stealTake"} /\ UNCHANGED <<tries, dist>>
    BY <1>1, <1>9 DEF Drain, Read, Exchange, Go
  <2>2. TriesKept(th)
    BY <2>1 DEF TriesKept
  <2>3. CASE Read(th, th, "drain", "drainTake", "unreg")
    BY <1>1, <2>1, <2>2, <2>3, ReadStep DEF Leads, Looking
  <2>4. CASE Exchange(th, "drainTake", "call", "unreg")
    BY <1>1, <2>1, <2>2, <2>4, ExchangeStep DEF Leads, Looking, HasTaken
  <2> QED
    BY <1>9, <2>3, <2>4 DEF Drain
<1> QED
  BY <1>2, <1>3, <1>6, <1>7, <1>8, <1>9 DEF Search

LEMMA CallStep ==
    ASSUME IInv, NEW th \in Threads, Call(th)
    PROVE  IInv'
<1>1. /\ TypeOK /\ TaskInv /\ ThreadInv /\ Place(th) /\ Stopping /\ Main \in Threads
      /\ pc \in [Threads -> Labels]
  BY DEF IInv, ThreadInv, Control, TypeOK, Threads
<1>2. front[th] \in Tasks /\ pc[th] = "call"
  BY <1>1 DEF Call, Go, TaskInv, Registers, HasRead
<1>3. <<front[th]>> \o stack[th] \in Seq(Tasks) /\ <<front[th]>> \o stack[th] # <<>>
  <2>1. stack[th] \in Seq(Tasks)
    BY <1>1, SequencesTyped
  <2> QED
    BY <1>2, <2>1, ConsShifts
<1>4. /\ pc' = [pc EXCEPT ![th] = "body"]
      /\ UNCHANGED <<control, signaled, queue, status, home, dist, mainOnly>>
      /\ stack' = [stack EXCEPT ![th] = <<front[th]>> \o stack[th]]
  BY DEF Call, Go
<1>5. stack' \in [Threads -> Seq(Tasks)] /\ stack'[th] # <<>>
      /\ \A u \in Threads \ {th} : stack'[u] = stack[u]
  BY <1>1, <1>3, <1>4 DEF TypeOK
<1>6. Place(th)'
  BY <1>1, <1>4, <1>5 DEF Place, AtHome, InUser, Leaving, Looking
<1>7. pc'[Main] = "wake" => wakes' > 0
  BY <1>1, <1>4 DEF Stopping, mainOnly
<1>8. Quiet(th, "body")
  BY <1>2, <1>4, <1>5, <1>7 DEF Quiet, Outside, Uncounted
<1>9. ThreadInv' /\ TaskInv'
  BY <1>1, <1>6, <1>8, QuietKeepsThreadInv, CallKeepsTaskInv
<1>10. /\ front' \in [Threads -> Tasks \cup {Nil}] /\ victim' \in [Threads -> Threads \cup {Nil}]
       /\ tries' \in [Threads -> 0..Attempts]
  BY <1>1 DEF Call, TypeOK
<1>11. pc' \in [Threads -> Labels]
  BY <1>1, <1>4 DEF Labels
<1>12. TypeOK'
  BY <1>1, <1>4, <1>5, <1>10, <1>11 DEF TypeOK, control, mainOnly
<1> QED
  BY <1>9, <1>12 DEF IInv

LEMMA PushStep ==
    ASSUME IInv, NEW th \in Threads, NEW t \in Tasks,
           NEW from \in {"user", "body"}, NEW to \in {"pushed", "forked"},
           from = "user" <=> to = "pushed",
           Push(th, t, from, to), status[t] = "none",
           from = "body" => stack[th] # <<>> /\ stack[th][1] \in Forks,
           \A f \in Forks : Child[f] = t => from = "body" /\ f = stack[th][1]
    PROVE  IInv'
<1>1. /\ TypeOK /\ TaskInv /\ ThreadInv /\ Control /\ Place(th) /\ Stopping /\ Main \in Threads
      /\ pc \in [Threads -> Labels]
  BY DEF IInv, ThreadInv, Control, TypeOK, Threads
<1>2. /\ pc[th] = from /\ pc' = [pc EXCEPT ![th] = to]
      /\ UNCHANGED <<control, signaled, home, stack, popping, mainOnly>>
      /\ queue' = [queue EXCEPT ![th] = Append(queue[th], t)]
      /\ status' = [status EXCEPT ![t] = "queued"]
  BY DEF Push, Go
<1>3. Place(th)'
  BY <1>1, <1>2 DEF Place, AtHome, InUser, Leaving, Looking
<1>4. pc'[Main] = "wake" => wakes' > 0
  BY <1>1, <1>2 DEF Stopping, mainOnly
<1>5. Quiet(th, to)
  BY <1>2, <1>4 DEF Quiet, Outside, Uncounted
<1>6. TaskInv'
  BY <1>1, PushKeepsTaskInv
<1>7. ThreadInv'
  BY <1>1, <1>3, <1>5, QuietKeepsThreadInv
<1>8. queue' \in [Threads -> Seq(Tasks)]
  <2>1. Append(queue[th], t) \in Seq(Tasks)
    BY <1>1, SequencesTyped
  <2> QED
    BY <1>1, <1>2, <2>1 DEF TypeOK
<1>9. pc' \in [Threads -> Labels]
  BY <1>1, <1>2 DEF Labels
<1>10. TypeOK'
  BY <1>1, <1>2, <1>8, <1>9 DEF TypeOK, control, popping, mainOnly
<1> QED
  BY <1>6, <1>7, <1>10 DEF IInv

LEMMA FinishStep ==
    ASSUME IInv, NEW th \in Threads, Finish(th)
    PROVE  IInv'
<1>1. /\ TypeOK /\ TaskInv /\ ThreadInv /\ Control /\ Place(th) /\ Stopping /\ Main \in Threads
      /\ pc \in [Threads -> Labels] /\ home[th] \in {"loop", "drain", "wait"}
  BY HomeTyped DEF IInv, ThreadInv, Control, TypeOK, Threads
<1>2. /\ pc[th] \in {"body", "await"} /\ pc' = [pc EXCEPT ![th] = Resumed(th)]
      /\ status' = [status EXCEPT ![Head(stack[th])] = "done"]
      /\ stack' = [stack EXCEPT ![th] = Tail(stack[th])]
      /\ UNCHANGED <<control, signaled, queue, home, popping, mainOnly>>
  BY DEF Finish
<1>3. stack[th] \in Seq(Tasks) /\ stack[th] # <<>> /\ Len(stack[th]) \in Nat
  BY <1>1, <1>2, SequencesTyped DEF Place
<1>4. /\ Tail(stack[th]) \in Seq(Tasks) /\ Head(stack[th]) \in Tasks
      /\ Tail(stack[th]) = <<>> <=> ~(Len(stack[th]) > 1)
  BY <1>3, TailEmpty
<1>5. /\ stack' \in [Threads -> Seq(Tasks)] /\ stack'[th] = Tail(stack[th])
      /\ \A u \in Threads \ {th} : stack'[u] = stack[u]
      /\ status' \in [Tasks -> {"none", "queued", "taken", "done"}]
  BY <1>1, <1>2, <1>4 DEF TypeOK
<1>6. \/ Resumed(th) = "await" /\ stack'[th] # <<>>
      \/ Resumed(th) = home[th] /\ stack'[th] = <<>>
  BY <1>3, <1>4, <1>5 DEF Resumed
<1>7. Place(th)'
  <2>1. pc'[th] = Resumed(th) /\ home'[th] = home[th]
    BY <1>1, <1>2
  <2>2. home[th] = "loop" => th # Main
    BY <1>1 DEF Place
  <2>3. home[th] = "wait" => th = Main
    BY <1>1 DEF Place
  <2> QED
    BY <1>1, <1>6, <2>1, <2>2, <2>3 DEF Place, AtHome, InUser, Leaving, Looking
<1>8. /\ Resumed(th) \in {"await", "loop", "drain", "wait"}
      /\ home[th] = "loop" => Resumed(th) # "drain"
  BY <1>1, <1>6
<1>9. pc'[Main] = "wake" => wakes' > 0
  BY <1>1, <1>2, <1>8 DEF Stopping, mainOnly
<1>10. Quiet(th, Resumed(th))
  BY <1>2, <1>5, <1>8, <1>9 DEF Quiet, Outside, Uncounted
<1>11. TaskInv'
  BY <1>1, FinishKeepsTaskInv
<1>12. ThreadInv'
  BY <1>1, <1>7, <1>10, QuietKeepsThreadInv
<1>13. pc' \in [Threads -> Labels]
  BY <1>1, <1>2, <1>8 DEF Labels
<1>14. TypeOK'
  BY <1>1, <1>2, <1>5, <1>13 DEF TypeOK, control, popping, mainOnly
<1> QED
  BY <1>11, <1>12, <1>14 DEF IInv

LEMMA ExecuteStep ==
    ASSUME IInv, NEW th \in Threads, Execute(th)
    PROVE  IInv'
<1>1. /\ TypeOK /\ StackHeld /\ ChildrenWait /\ Place(th)
  BY DEF IInv, ThreadInv, TaskInv, HeldOnce, Control
<1>2. ASSUME Push(th, Child[Head(stack[th])], "body", "forked"), Head(stack[th]) \in Forks
      PROVE  IInv'
  <2>1. pc[th] = "body" /\ stack[th] # <<>> /\ stack[th] \in Seq(Tasks)
    BY <1>1, <1>2, SequencesTyped DEF Push, Go, Place
  <2>2. PICK f \in Forks : f = stack[th][1] /\ f = Head(stack[th])
    BY <1>2, <2>1
  <2>3. Child[f] \in Tasks /\ status[Child[f]] = "none"
    BY <1>1, <2>1, <2>2 DEF ChildrenWait, Tasks
  <2>4. Push(th, Child[f], "body", "forked")
    BY <1>2, <2>2
  <2>5. \A g \in Forks : Child[g] = Child[f] => g = stack[th][1]
    BY <2>2
  <2> QED
    BY <2>1, <2>2, <2>3, <2>4, <2>5, PushStep
<1>3. CASE Call(th)
  BY <1>3, CallStep
<1>4. CASE Fork(th)
  BY <1>2, <1>4, CallerStep DEF Fork
<1>5. CASE Await(th)
  BY <1>5, LoopStep
<1>6. CASE Finish(th)
  BY <1>6, FinishStep
<1> QED
  BY <1>3, <1>4, <1>5, <1>6 DEF Execute

LEMMA MainPushStep ==
    ASSUME IInv, MainPush
    PROVE  IInv'
<1>1. ASSUME NEW t \in Roots, status[t] = "none", Push(Main, t, "user", "pushed")
      PROVE  IInv'
  <2>1. t \in Tasks /\ Main \in Threads /\ \A f \in Forks : Child[f] # t
    BY DEF Tasks, Threads
  <2> QED
    BY <1>1, <2>1, PushStep
<1>2. CASE Announce(Main, "pushed", "user")
  BY <1>2, CallerStep
<1> QED
  BY <1>1, <1>2 DEF MainPush

-----------------------------------------------------------------------------
(* The steps that change what the threads share *)

LEMMA CountKept ==
    ASSUME ActiveExact, active' = active, Counted' = Counted
    PROVE  ActiveExact'
<1>1. ActiveExact' <=> active' = Cardinality(Counted')
  BY DEF ActiveExact, Counted, Uncounted
<1> QED
  BY <1>1, ActiveCounts

LEMMA RegisterStep ==
    ASSUME IInv, NEW th \in Workers, Register(th)
    PROVE  IInv'
<1>1. /\ TypeOK /\ TaskInv /\ Control /\ Roster /\ Stopping /\ ActiveExact
      /\ th \in Threads /\ Main \in Threads /\ Workers \subseteq Threads /\ th # Main
      /\ pc \in [Threads -> Labels] /\ workers \in Seq(Threads)
  BY DEF IInv, ThreadInv, TypeOK, Threads
<1>2. /\ pc[th] = "start" /\ pc' = [pc EXCEPT ![th] = "enter"]
      /\ workers' = Append(workers, th)
      /\ UNCHANGED <<lock, active, shouldPause, shouldStop, signaled, queue,
                     status, home, stack, popping, mainOnly>>
  BY DEF Register, Go
<1>3. Calm(th, "enter")
  BY <1>2 DEF Calm, HasRead
<1>4. TaskInv'
  BY <1>1, <1>3, CalmKeepsTaskInv
<1>5. \A u \in Threads : pc'[u] = IF u = th THEN "enter" ELSE pc[u]
  BY <1>1, <1>2
<1>6. Control'
  BY <1>1, <1>2, <1>5 DEF Control, Place, AtHome, InUser, Leaving, Looking
<1>7. /\ workers' \in Seq(Threads) /\ DOMAIN workers' = 1..(Len(workers) + 1)
      /\ workers'[Len(workers) + 1] = th
      /\ \A j \in 1..Len(workers) : workers'[j] = workers[j]
      /\ Len(workers) \in Nat /\ DOMAIN workers = 1..Len(workers)
  <2>1. /\ Append(workers, th) \in Seq(Threads)
        /\ DOMAIN Append(workers, th) = 1..(Len(workers) + 1)
        /\ Append(workers, th)[Len(workers) + 1] = th
        /\ \A j \in 1..Len(workers) : Append(workers, th)[j] = workers[j]
    BY <1>1, AppendShifts
  <2>2. Len(workers) \in Nat /\ DOMAIN workers = 1..Len(workers)
    BY <1>1
  <2> QED
    BY <1>2, <2>1, <2>2
<1>8. \A k \in DOMAIN workers : workers[k] # th
  BY <1>1, <1>2 DEF Roster, Registered, Outside
<1>9. Roster'
  <2>1. \A j, k \in DOMAIN workers' : workers'[j] = workers'[k] => j = k
    BY <1>1, <1>7, <1>8 DEF Roster
  <2>2. ASSUME NEW u \in Threads
        PROVE  Registered(u)' <=> \E k \in DOMAIN workers' : workers'[k] = u
    <3>1. CASE u = th
      <4>1. Len(workers) + 1 \in DOMAIN workers'
        BY <1>7
      <4> QED
        BY <1>5, <1>7, <3>1, <4>1 DEF Registered, Outside
    <3>2. CASE u # th
      <4>1. Registered(u)' <=> Registered(u)
        BY <1>5, <3>2 DEF Registered
      <4>2. (\E k \in DOMAIN workers' : workers'[k] = u)
              <=> \E k \in DOMAIN workers : workers[k] = u
        BY <1>7, <3>2
      <4> QED
        BY <1>1, <4>1, <4>2 DEF Roster
    <3> QED
      BY <3>1, <3>2
  <2> QED
    BY <2>1, <2>2 DEF Roster
<1>10. Stopping'
  BY <1>1, <1>2, <1>5 DEF Stopping, mainOnly
<1>11. Counted' = Counted
  BY <1>1, <1>2, <1>5 DEF Counted, Uncounted
<1>12. ActiveExact'
  BY <1>1, <1>2, <1>11, CountKept
<1>13. Len(workers') <= Cardinality(Threads)
  <2>1. PICK s \in Seq(Threads) : s = workers' /\ Distinct(s)
    BY <1>7, <1>9 DEF Roster, Distinct
  <2> QED
    BY <2>1, DistinctBounded, ThreadsFinite
<1>14. pc' \in [Threads -> Labels]
  BY <1>1, <1>2 DEF Labels
<1>15. TypeOK'
  BY <1>1, <1>2, <1>7, <1>13, <1>14 DEF TypeOK, popping, mainOnly
<1> QED
  BY <1>4, <1>6, <1>9, <1>10, <1>12, <1>15 DEF IInv, ThreadInv

LEMMA EnterStep ==
    ASSUME IInv, NEW th \in Workers, Enter(th)
    PROVE  IInv'
<1>1. /\ TypeOK /\ TaskInv /\ Control /\ Roster /\ Stopping /\ ActiveExact
      /\ th \in Threads /\ Main \in Threads /\ Workers \subseteq Threads /\ th # Main
      /\ pc \in [Threads -> Labels]
  BY DEF IInv, ThreadInv, TypeOK, Threads
<1>2. /\ pc[th] = "enter" /\ pc' = [pc EXCEPT ![th] = "loop"] /\ active' = active + 1
      /\ UNCHANGED <<workers, lock, shouldPause, shouldStop, signaled, queue,
                     status, home, stack, popping, mainOnly>>
  BY DEF Enter, Go
<1>3. Calm(th, "loop")
  BY <1>2 DEF Calm, HasRead
<1>4. TaskInv'
  BY <1>1, <1>3, CalmKeepsTaskInv
<1>5. \A u \in Threads : pc'[u] = IF u = th THEN "loop" ELSE pc[u]
  BY <1>1, <1>2
<1>6. Control'
  BY <1>1, <1>2, <1>5 DEF Control, Place, AtHome, InUser, Leaving, Looking
<1>7. Roster'
  <2>1. \A u \in Threads : Registered(u)' <=> Registered(u)
    BY <1>2, <1>5 DEF Registered, Outside
  <2> QED
    BY <1>1, <1>2, <2>1 DEF Roster
<1>8. Stopping'
  BY <1>1, <1>2, <1>5 DEF Stopping, mainOnly
<1>9. home[th] = "loop"
  BY <1>1, <1>2 DEF Control, Place, AtHome
<1>10. Counted' = Counted \cup {th} /\ th \notin Counted
  BY <1>1, <1>2, <1>5, <1>9 DEF Counted, Uncounted
<1>11. active' = Cardinality(Counted')
  <2>1. active = Cardinality(Counted)
    BY <1>1, ActiveCounts
  <2>2. Cardinality(Counted \cup {th}) = Cardinality(Counted) + 1
    BY <1>10, CountedFinite, FS_AddElement
  <2> QED
    BY <1>2, <1>10, <2>1, <2>2
<1>12. ActiveExact'
  BY <1>11 DEF ActiveExact, Counted, Uncounted
<1>13. active' \in 0..Cardinality(Workers)
  <2>1. Counted' \subseteq Workers
    BY DEF Counted
  <2>2. Cardinality(Counted') <= Cardinality(Workers) /\ IsFiniteSet(Counted')
    BY <2>1, FS_Subset
  <2> QED
    BY <1>11, <2>2, FS_CardinalityType
<1>14. pc' \in [Threads -> Labels]
  BY <1>1, <1>2 DEF Labels
<1>15. TypeOK'
  BY <1>1, <1>2, <1>13, <1>14 DEF TypeOK, popping, mainOnly
<1> QED
  BY <1>4, <1>6, <1>7, <1>8, <1>12, <1>15 DEF IInv, ThreadInv

LEMMA RestStep ==
    ASSUME IInv, NEW th \in Workers, Rest(th)
    PROVE  IInv'
<1>1. /\ TypeOK /\ TaskInv /\ Control /\ Roster /\ Stopping /\ ActiveExact /\ Place(th)
      /\ th \in Threads /\ Main \in Threads /\ Workers \subseteq Threads /\ th # Main
      /\ pc \in [Threads -> Labels] /\ home \in [Threads -> {"loop", "drain", "wait"}]
  BY DEF IInv, ThreadInv, Control, TypeOK, Threads
<1>2. PICK to \in {"sleep", "drain"} :
          /\ pc[th] \in {"rest", "leave"} /\ (pc[th] = "rest" <=> to = "sleep")
          /\ pc' = [pc EXCEPT ![th] = to]
          /\ home' = [home EXCEPT ![th] = IF to = "drain" THEN "drain" ELSE home[th]]
  BY <1>1 DEF Rest, Go
<1>3. /\ active' = active - 1
      /\ UNCHANGED <<workers, lock, shouldPause, shouldStop, signaled, queue,
                     status, stack, popping, mainOnly>>
  BY DEF Rest
<1>4. Calm(th, to)
  BY <1>2, <1>3 DEF Calm, HasRead
<1>5. TaskInv'
  BY <1>1, <1>4, CalmKeepsTaskInv
<1>6. /\ \A u \in Threads : pc'[u] = IF u = th THEN to ELSE pc[u]
      /\ \A u \in Threads : home'[u] = IF u = th /\ to = "drain" THEN "drain" ELSE home[u]
  BY <1>1, <1>2
<1>7. Control'
  BY <1>1, <1>2, <1>3, <1>6 DEF Control, Place, AtHome, InUser, Leaving, Looking
<1>8. Roster'
  <2>1. \A u \in Threads : Registered(u)' <=> Registered(u)
    BY <1>2, <1>6 DEF Registered, Outside
  <2> QED
    BY <1>1, <1>3, <2>1 DEF Roster
<1>9. Stopping'
  BY <1>1, <1>2, <1>3, <1>6 DEF Stopping, mainOnly
<1>10. Counted' = Counted \ {th} /\ th \in Counted
  BY <1>1, <1>2, <1>6 DEF Counted, Uncounted, Place, AtHome
<1>11. active' = Cardinality(Counted')
  <2>1. active = Cardinality(Counted)
    BY <1>1, ActiveCounts
  <2>2. Cardinality(Counted \ {th}) = Cardinality(Counted) - 1
    BY <1>10, CountedFinite, FS_RemoveElement
  <2> QED
    BY <1>3, <1>10, <2>1, <2>2
<1>12. ActiveExact'
  BY <1>11 DEF ActiveExact, Counted, Uncounted
<1>13. active' \in 0..Cardinality(Workers)
  <2>1. Counted' \subseteq Workers
    BY DEF Counted
  <2>2. Cardinality(Counted') <= Cardinality(Workers) /\ IsFiniteSet(Counted')
    BY <2>1, FS_Subset
  <2> QED
    BY <1>11, <2>2, FS_CardinalityType
<1>14. pc' \in [Threads -> Labels] /\ home' \in [Threads -> {"loop", "drain", "wait"}]
  BY <1>1, <1>2 DEF Labels
<1>15. TypeOK'
  BY <1>1, <1>3, <1>13, <1>14 DEF TypeOK, popping, mainOnly
<1> QED
  BY <1>5, <1>7, <1>8, <1>9, <1>12, <1>15 DEF IInv, ThreadInv

LEMMA UnregisterStep ==
    ASSUME IInv, NEW th \in Threads, Unregister(th)
    PROVE  IInv'
<1>1. /\ TypeOK /\ TaskInv /\ Control /\ Roster /\ Stopping /\ ActiveExact /\ Place(th)
      /\ Main \in Threads /\ Workers \subseteq Threads
      /\ pc \in [Threads -> Labels] /\ workers \in Seq(Threads)
  BY DEF IInv, ThreadInv, Control, TypeOK, Threads
<1>2. ASSUME BeginUnregister(th) PROVE IInv'
  <2>1. /\ pc[th] = "unreg" /\ pc' = [pc EXCEPT ![th] = "spin"]
        /\ lock = Nil /\ lock' = th /\ shouldPause' = TRUE
        /\ UNCHANGED <<workers, active, shouldStop, signaled, queue, status, home,
                       stack, popping, mainOnly>>
    BY <1>2 DEF BeginUnregister, Go
  <2>2. Calm(th, "spin")
    BY <2>1 DEF Calm, HasRead
  <2>3. TaskInv'
    BY <1>1, <2>2, CalmKeepsTaskInv
  <2>4. \A u \in Threads : pc'[u] = IF u = th THEN "spin" ELSE pc[u]
    BY <1>1, <2>1
  <2>5. Control'
    BY <1>1, <2>1, <2>4 DEF Control, Place, AtHome, InUser, Leaving, Looking
  <2>6. Roster'
    <3>1. \A u \in Threads : Registered(u)' <=> Registered(u)
      BY <2>1, <2>4 DEF Registered, Outside
    <3> QED
      BY <1>1, <2>1, <3>1 DEF Roster
  <2>7. Stopping'
    BY <1>1, <2>1, <2>4 DEF Stopping, mainOnly
  <2>8. Counted' = Counted
    BY <1>1, <2>1, <2>4 DEF Counted, Uncounted
  <2>9. ActiveExact'
    BY <1>1, <2>1, <2>8, CountKept
  <2>10. pc' \in [Threads -> Labels]
    BY <1>1, <2>1 DEF Labels
  <2>11. TypeOK'
    BY <1>1, <2>1, <2>10 DEF TypeOK, popping, mainOnly
  <2> QED
    BY <2>3, <2>5, <2>6, <2>7, <2>9, <2>11 DEF IInv, ThreadInv
<1>3. ASSUME EndUnregister(th) PROVE IInv'
  <2>1. PICK to \in {"reap", "gone"} :
            /\ pc[th] = "erase" /\ pc' = [pc EXCEPT ![th] = to]
            /\ to = "reap" => th = Main
    BY <1>3 DEF EndUnregister, Go
  <2>2. /\ workers' = RemoveFirst(workers, th) /\ lock' = Nil /\ shouldPause' = FALSE
        /\ UNCHANGED <<active, shouldStop, signaled, queue, status, home, stack,
                       popping, mainOnly>>
    BY <1>3 DEF EndUnregister
  <2>3. Calm(th, to)
    BY <2>1, <2>2 DEF Calm, HasRead
  <2>4. TaskInv'
    BY <1>1, <2>3, CalmKeepsTaskInv
  <2>5. \A u \in Threads : pc'[u] = IF u = th THEN to ELSE pc[u]
    BY <1>1, <2>1
  <2>6. Control'
    BY <1>1, <2>1, <2>2, <2>5 DEF Control, Place, AtHome, InUser, Leaving, Looking
  <2>7. PICK r : r = workers' /\ r = RemoveFirst(workers, th)
    BY <2>2
  <2>8. r \in Seq(Threads) /\ Len(r) <= Len(workers) /\ Distinct(r) /\ Range(r) = Range(workers) \ {th}
    <3>1. Distinct(workers)
      BY <1>1 DEF Roster, Distinct
    <3> QED
      BY <1>1, <2>7, <3>1, RemoveFirstProperties
  <2>9. Roster'
    <3>1. \A j, k \in DOMAIN workers' : workers'[j] = workers'[k] => j = k
      BY <2>7, <2>8 DEF Distinct
    <3>2. ASSUME NEW u \in Threads
          PROVE  Registered(u)' <=> \E k \in DOMAIN workers' : workers'[k] = u
      <4>1. Registered(u)' <=> u # th /\ Registered(u)
        BY <2>1, <2>5 DEF Registered, Outside
      <4>2. (\E k \in DOMAIN r : r[k] = u)
               <=> (u # th /\ \E k \in DOMAIN workers : workers[k] = u)
        BY <2>8 DEF Range
      <4> QED
        BY <1>1, <2>7, <4>1, <4>2 DEF Roster
    <3> QED
      BY <3>1, <3>2 DEF Roster
  <2>10. Stopping'
    <3>1. lock = th
      BY <1>1, <2>1 DEF Stopping
    <3> QED
      BY <1>1, <2>1, <2>2, <2>5, <3>1 DEF Stopping, mainOnly
  <2>11. Counted' = Counted
    BY <1>1, <2>1, <2>2, <2>5 DEF Counted, Uncounted, Place
  <2>12. ActiveExact'
    BY <1>1, <2>2, <2>11, CountKept
  <2>13. pc' \in [Threads -> Labels]
    BY <1>1, <2>1 DEF Labels
  <2>14. workers' \in Seq(Threads) /\ Len(workers') <= Cardinality(Threads)
    BY <2>7, <2>8, DistinctBounded, ThreadsFinite
  <2>15. TypeOK'
    BY <1>1, <2>2, <2>13, <2>14 DEF TypeOK, popping, mainOnly
  <2> QED
    BY <2>4, <2>6, <2>9, <2>10, <2>12, <2>15 DEF IInv, ThreadInv
<1>4. CASE Quiesce(th)
  BY <1>4, LoopStep
<1> QED
  BY <1>2, <1>3, <1>4 DEF Unregister

LEMMA PauseStep ==
    ASSUME IInv, NEW b \in BOOLEAN, Pause(b)
    PROVE  IInv'
<1>1. /\ TypeOK /\ TaskInv /\ Control /\ Roster /\ Stopping /\ ActiveExact
      /\ Main \in Threads /\ Threads = Workers \cup {Main}
  BY DEF IInv, ThreadInv, TypeOK, Threads
<1>2. /\ pc[Main] = "user" /\ shouldPause' = b /\ pauses' = pauses + 1 /\ pauses < MaxPauses
      /\ UNCHANGED <<workers, lock, active, shouldStop, signaled, queue, status,
                     pc, home, stack, popping, goal, wakes>>
  BY DEF Pause
<1>3. TaskInv'
  <2>1. Registers'
    BY <1>1, <1>2 DEF TaskInv, Registers, popping
  <2> QED
    BY <1>1, <1>2, <2>1, TasksUntouched DEF popping
<1>4. Control' /\ Roster' /\ ActiveExact'
  BY <1>1, <1>2 DEF Control, Place, Roster, Registered, ActiveExact
<1>5. \A th \in Threads : pc[th] \notin {"spin", "erase"}
  <2>1. home[Main] = "wait" /\ ~shouldStop
    BY <1>1, <1>2 DEF Control, Place, InUser, Stopping
  <2> QED
    BY <1>1, <1>2, <2>1 DEF Control, Place, Leaving, Stopping
<1>6. Stopping'
  BY <1>1, <1>2, <1>5 DEF Stopping
<1>7. pauses' \in 0..MaxPauses
  BY <1>1, <1>2 DEF TypeOK
<1>8. TypeOK'
  BY <1>1, <1>2, <1>7 DEF TypeOK, popping
<1> QED
  BY <1>3, <1>4, <1>6, <1>8 DEF IInv, ThreadInv

LEMMA DestroyStep ==
    ASSUME IInv, Destroy
    PROVE  IInv'
<1>1. /\ TypeOK /\ TaskInv /\ Control /\ Roster /\ Stopping /\ ActiveExact
      /\ Main \in Threads /\ Workers \subseteq Threads /\ Main \notin Workers
      /\ pc \in [Threads -> Labels] /\ home \in [Threads -> {"loop", "drain", "wait"}]
  BY DEF IInv, ThreadInv, TypeOK, Threads
<1>2. PICK to \in {"drain", "wake"} :
          /\ pc[Main] = "user" /\ pc' = [pc EXCEPT ![Main] = to]
          /\ to = "wake" => Workers # {}
  BY DEF Destroy, Go
<1>3. /\ shouldStop' = TRUE /\ wakes' = Cardinality(Workers)
      /\ home' = [home EXCEPT ![Main] = "drain"]
      /\ UNCHANGED <<workers, lock, active, shouldPause, signaled, queue, status,
                     stack, popping, goal, pauses>>
  BY DEF Destroy
<1>4. Calm(Main, to)
  BY <1>2, <1>3 DEF Calm, HasRead
<1>5. TaskInv'
  BY <1>1, <1>4, CalmKeepsTaskInv
<1>6. /\ \A u \in Threads : pc'[u] = IF u = Main THEN to ELSE pc[u]
      /\ \A u \in Threads : home'[u] = IF u = Main THEN "drain" ELSE home[u]
  BY <1>1, <1>2, <1>3
<1>7. Control'
  BY <1>1, <1>2, <1>3, <1>6 DEF Control, Place, AtHome, InUser, Leaving, Looking
<1>8. Roster'
  <2>1. \A u \in Threads : Registered(u)' <=> Registered(u)
    BY <1>2, <1>6 DEF Registered, Outside
  <2> QED
    BY <1>1, <1>3, <2>1 DEF Roster
<1>9. Cardinality(Workers) \in Nat /\ (Workers # {} => Cardinality(Workers) > 0)
  BY FS_CardinalityType, FS_EmptySet
<1>10. Stopping'
  BY <1>1, <1>2, <1>3, <1>6, <1>9 DEF Stopping
<1>11. Counted' = Counted
  BY <1>1, <1>6 DEF Counted
<1>12. ActiveExact'
  BY <1>1, <1>3, <1>11, CountKept
<1>13. pc' \in [Threads -> Labels] /\ home' \in [Threads -> {"loop", "drain", "wait"}]
  BY <1>1, <1>2, <1>3 DEF Labels
<1>14. TypeOK'
  BY <1>1, <1>3, <1>9, <1>13 DEF TypeOK, popping
<1> QED
  BY <1>5, <1>7, <1>8, <1>10, <1>12, <1>14 DEF IInv, ThreadInv

-----------------------------------------------------------------------------
LEMMA InitEstablishesIInv == Init => IInv
<1> SUFFICES ASSUME Init PROVE IInv
  OBVIOUS
<1>1. Main \in Threads /\ Workers \subseteq Threads /\ Main \notin Workers
  BY DEF Threads
<1>2. Cardinality(Workers) \in Nat /\ Cardinality(Threads) \in Nat /\ Cardinality(Threads) >= 1
  <2>1. Cardinality(Threads) # 0
    BY <1>1, ThreadsFinite, FS_EmptySet
  <2> QED
    BY <2>1, ThreadsFinite, FS_CardinalityType
<1>3. /\ workers \in Seq(Threads) /\ Len(workers) = 1 /\ workers[1] = Main
      /\ DOMAIN workers = {1}
  BY <1>1 DEF Init
<1>4. TypeOK
  <2>1. {"user", "start"} \subseteq Labels /\ 0 \in 0..Attempts /\ 0 \in 0..MaxPauses
        /\ 0 \in 0..Cardinality(Workers)
    BY <1>2 DEF Labels
  <2>2. <<>> \in Seq(Tasks)
    OBVIOUS
  <2>3. /\ workers \in Seq(Threads) /\ Len(workers) <= Cardinality(Threads)
        /\ lock \in Threads \cup {Nil} /\ active \in 0..Cardinality(Workers)
        /\ {shouldPause, shouldStop, signaled} \subseteq BOOLEAN
        /\ goal \in Roots \cup {Nil} /\ wakes \in 0..Cardinality(Workers)
        /\ pauses \in 0..MaxPauses
    BY <1>1, <1>2, <1>3, <2>1 DEF Init
  <2>4. /\ queue \in [Threads -> Seq(Tasks)] /\ stack \in [Threads -> Seq(Tasks)]
        /\ status \in [Tasks -> {"none", "queued", "taken", "done"}]
    BY <2>2 DEF Init
  <2>5. /\ pc \in [Threads -> Labels] /\ home \in [Threads -> {"loop", "drain", "wait"}]
        /\ victim \in [Threads -> Threads \cup {Nil}]
        /\ front \in [Threads -> Tasks \cup {Nil}]
        /\ tries \in [Threads -> 0..Attempts] /\ dist \in [Threads -> SUBSET Threads]
    BY <2>1 DEF Init
  <2> QED
    BY <2>3, <2>4, <2>5 DEF TypeOK
<1>5. \A th \in Threads : /\ pc[th] = IF th = Main THEN "user" ELSE "start"
                          /\ home[th] = IF th = Main THEN "wait" ELSE "loop"
                          /\ stack[th] = <<>> /\ queue[th] = <<>> /\ victim[th] = Nil
  BY DEF Init
<1>6. \A t \in Tasks : status[t] = "none"
  BY DEF Init
<1>7. TaskInv
  <2>1. Registers /\ Nesting
    BY <1>5 DEF Registers, Nesting, HasRead
  <2>2. HeldOnce
    BY <1>5, <1>6 DEF HeldOnce, FrontHeld, StackHeld, SomebodyHas, HasTaken
  <2>3. Filed
    BY <1>5, <1>6 DEF Filed
  <2>4. ChildrenWait
    BY <1>5, <1>6 DEF ChildrenWait, HasTaken, Tasks
  <2> QED
    BY <2>1, <2>2, <2>3, <2>4 DEF TaskInv
<1>8. Control
  BY <1>5 DEF Control, Place, AtHome, InUser, Leaving, Looking
<1>9. Roster
  BY <1>1, <1>3, <1>5 DEF Roster, Registered, Outside
<1>10. Stopping
  BY <1>1, <1>5 DEF Stopping, Init
<1>11. ActiveExact
  <2>1. Counted = {}
    BY <1>1, <1>5 DEF Counted, Uncounted
  <2> QED
    BY <2>1, ActiveCounts, FS_EmptySet DEF Init
<1> QED
  BY <1>4, <1>7, <1>8, <1>9, <1>10, <1>11 DEF IInv, ThreadInv

LEMMA StepKeepsIInv == IInv /\ [Next]_vars => IInv'
<1> SUFFICES ASSUME IInv, [Next]_vars PROVE IInv'
  OBVIOUS
<1>1. ASSUME NEW th \in Workers, WorkerStep(th) PROVE IInv'
  <2>1. th \in Threads
    BY DEF Threads
  <2> QED
    BY <1>1, <2>1, RegisterStep, EnterStep, LoopStep, RestStep DEF WorkerStep
<1>2. ASSUME NEW th \in Threads, Search(th) \/ Execute(th) \/ Unregister(th) PROVE IInv'
  BY <1>2, SearchStep, ExecuteStep, UnregisterStep
<1>3. ASSUME MainStep PROVE IInv'
  BY <1>3, MainPushStep, PauseStep, DestroyStep, CallerStep DEF MainStep
<1>4. ASSUME UNCHANGED vars PROVE IInv'
  <2>1. TypeOK'
    BY <1>4 DEF IInv, TypeOK, vars, popping, mainOnly
  <2>2. TaskInv /\ Registers'
    BY <1>4 DEF IInv, TaskInv, Registers, vars, popping
  <2>3. TaskInv'
    BY <1>4, <2>2, TasksUntouched DEF vars, popping
  <2>4. ThreadInv'
    BY <1>4 DEF IInv, ThreadInv, Control, Place, Roster, Registered, Stopping,
                ActiveExact, vars
  <2> QED
    BY <2>1, <2>3, <2>4 DEF IInv
<1> QED
  BY <1>1, <1>2, <1>3, <1>4 DEF Next

\* Whatever the threads do, the invariant holds.
THEOREM Safety == Spec => []IInv
BY InitEstablishesIInv, StepKeepsIInv, PTL DEF Spec

\* Every variable keeps to the values the code can store in it; in particular
\* activeWorkersCount and the Set() calls left never go below zero.
THEOREM TypesHold == Spec => []TypeOK
BY Safety, PTL DEF IInv

\* activeWorkersCount is the number of workers between SetThreadStatus(true)
\* and SetThreadStatus(false).
THEOREM CountIsExact == Spec => []ActiveExact
BY Safety, PTL DEF IInv, ThreadInv

LEMMA FiledOnce == TypeOK /\ Filed => QueuedOnce
<1> SUFFICES ASSUME TypeOK, Filed, NEW t \in Tasks, status[t] = "queued"
             PROVE  Cardinality(PlacesOf(t)) = 1
  BY DEF QueuedOnce
<1>1. PICK v \in Threads : \E i \in DOMAIN queue[v] : queue[v][i] = t
  BY DEF Filed
<1>2. PICK i \in DOMAIN queue[v] : queue[v][i] = t
  BY <1>1
<1>3. \A w \in Threads : \A j \in DOMAIN queue[w] : queue[w][j] = t => w = v /\ j = i
  BY <1>2 DEF Filed
<1>4. i \in 1..Cardinality(Tasks)
  <2>1. IsFiniteSet(Tasks)
    <3>1. IsFiniteSet({Child[f] : f \in Forks})
      <4> DEFINE T == {Child[f] : f \in Forks}
                 g == [f \in Forks |-> Child[f]]
      <4>1. g \in Surjection(Forks, T)
        BY DEF Surjection
      <4>2. IsFiniteSet(Forks)
        BY FS_Subset
      <4> HIDE DEF T, g
      <4>3. IsFiniteSet(T)
        BY <4>1, <4>2, FS_Surjection
      <4> QED
        BY <4>3 DEF T
    <3> QED
      BY <3>1, FS_Union DEF Tasks
  <2>2. queue[v] \in Seq(Tasks) /\ i \in 1..Len(queue[v]) /\ Len(queue[v]) \in Nat
    BY SequencesTyped
  <2>3. Distinct(queue[v])
    BY DEF Filed, Distinct
  <2>4. Len(queue[v]) <= Cardinality(Tasks)
    BY <2>1, <2>2, <2>3, DistinctBounded
  <2> QED
    BY <2>1, <2>2, <2>4, FS_CardinalityType
<1>5. PlacesOf(t) = {<<v, i>>}
  <2>1. <<v, i>> \in PlacesOf(t)
    BY <1>2, <1>4 DEF PlacesOf
  <2>2. \A p \in PlacesOf(t) : p = <<v, i>>
    BY <1>3 DEF PlacesOf
  <2> QED
    BY <2>1, <2>2
<1> QED
  BY <1>5, FS_Singleton

\* A task that was pushed is in one queue, at one place, until a pop takes it.
THEOREM QueuedIsInOnePlace == Spec => []QueuedOnce
BY Safety, FiledOnce, PTL DEF IInv, TaskInv

\* A task that a pop took is in the hands of one thread, which has it in its
\* register or somewhere on its stack, until the task is done: nothing runs a
\* task twice and nothing loses one.
THEOREM TakenIsHeldOnce == Spec => []HeldOnce
BY Safety, PTL DEF IInv, TaskInv

-----------------------------------------------------------------------------
(* The destructor, when it only runs while no fork is pending *)

\* A fork that is not pending when the manager stops stays so: what is popped
\* was queued, what a fork pushes is no fork, and the primary thread pushes
\* no more.
LEMMA StepKeepsNoForks ==
    ASSUME CleanStop, IInv, NoForks, Next
    PROVE  NoForks'
<1>1. /\ TypeOK /\ Registers /\ Filed /\ Control /\ Stopping
      /\ Main \in Threads /\ Workers \subseteq Threads /\ Forks \subseteq Tasks
      /\ DOMAIN status = Tasks
  BY DEF IInv, TaskInv, ThreadInv, TypeOK, Threads, Tasks
<1>2. SUFFICES ASSUME shouldStop, NEW f \in Forks, status[f] \in {"none", "done"}, ~Destroy
               PROVE  status'[f] \in {"none", "done"} \/ UNCHANGED status
  <2>1. CASE Destroy
    BY <2>1 DEF Destroy, NoForks
  <2>2. CASE ~Destroy
    <3>1. shouldStop' = shouldStop
      <4>1. ASSUME NEW th \in Workers, WorkerStep(th) PROVE shouldStop' = shouldStop
        BY <4>1 DEF WorkerStep, Register, Enter, Loop, Rest, Sleep, Woken, control
      <4>2. ASSUME NEW th \in Threads, Search(th) PROVE shouldStop' = shouldStop
        BY <4>2 DEF Search, PopOwn, StealFirst, StealFrom, StealTake, Chain, Drain, Read,
                    Exchange, control
      <4>3. ASSUME NEW th \in Threads, Execute(th) \/ Unregister(th)
            PROVE  shouldStop' = shouldStop
        BY <4>3 DEF Execute, Call, Fork, Await, Finish, Push, Announce, control,
                    Unregister, BeginUnregister, Quiesce, EndUnregister
      <4>4. ASSUME MainStep PROVE shouldStop' = shouldStop
        BY <2>2, <4>4 DEF MainStep, MainPush, Push, Announce, Pause, MainWait, WakeAll,
                          Reap, control
      <4> QED
        BY <4>1, <4>2, <4>3, <4>4 DEF Next
    <3> QED
      BY <1>2, <2>2, <3>1 DEF NoForks
  <2> QED
    BY <2>1, <2>2
<1>3. ASSUME NEW th \in Workers, WorkerStep(th) PROVE UNCHANGED status
  BY <1>3 DEF WorkerStep, Register, Enter, Loop, Rest, Sleep, Woken
<1>4. ASSUME NEW th \in Threads, Search(th)
      PROVE  status'[f] \in {"none", "done"} \/ UNCHANGED status
  <2>1. ASSUME NEW from \in {"ownTake", "firstTake", "stealTake", "drainTake"},
               NEW won, NEW lost, Exchange(th, from, won, lost)
        PROVE  status'[f] \in {"none", "done"} \/ UNCHANGED status
    <3>1. PICK v \in Threads, t \in Tasks : v = victim[th] /\ t = front[th]
      BY <1>1, <2>1 DEF Registers, Exchange, Go, HasRead
    <3>2. CASE Unmoved(queue[v], t)
      <4>1. 1 \in DOMAIN queue[v] /\ queue[v][1] = t
        BY <1>1, <3>2, SequencesTyped DEF Unmoved
      <4>2. f # t
        BY <1>1, <1>2, <4>1 DEF Filed
      <4>3. status' = [status EXCEPT ![t] = "taken"]
        BY <2>1, <3>1, <3>2 DEF Exchange
      <4> QED
        BY <1>1, <1>2, <4>2, <4>3
    <3>3. CASE ~Unmoved(queue[v], t)
      BY <2>1, <3>1, <3>3 DEF Exchange
    <3> QED
      BY <3>2, <3>3
  <2>2. ASSUME NEW v, NEW from, NEW found, NEW empty, Read(th, v, from, found, empty)
        PROVE  UNCHANGED status
    BY <2>2 DEF Read
  <2> QED
    BY <1>4, <2>1, <2>2 DEF Search, PopOwn, StealFirst, StealFrom, StealTake, Chain, Drain
<1>5. ASSUME NEW th \in Threads, Execute(th)
      PROVE  status'[f] \in {"none", "done"} \/ UNCHANGED status
  <2>1. CASE Fork(th)
    <3>1. ASSUME Push(th, Child[Head(stack[th])], "body", "forked"), Head(stack[th]) \in Forks
          PROVE  status'[f] \in {"none", "done"}
      <4>1. f # Child[Head(stack[th])]
        BY <3>1
      <4> QED
        BY <1>1, <1>2, <3>1, <4>1 DEF Push
    <3> QED
      BY <2>1, <3>1 DEF Fork, Announce
  <2>2. CASE Finish(th)
    BY <1>1, <1>2, <2>2 DEF Finish
  <2> QED
    BY <1>5, <2>1, <2>2 DEF Execute, Call, Await
<1>6. ASSUME NEW th \in Threads, Unregister(th) PROVE UNCHANGED status
  BY <1>6 DEF Unregister, BeginUnregister, Quiesce, EndUnregister
<1>7. ASSUME MainStep PROVE UNCHANGED status
  <2>1. pc[Main] # "user"
    BY <1>1, <1>2 DEF Control, Place, InUser, Stopping
  <2> QED
    BY <1>2, <1>7, <2>1 DEF MainStep, MainPush, Push, Go, Announce, Pause, MainWait, WakeAll, Reap
<1> QED
  BY <1>3, <1>4, <1>5, <1>6, <1>7 DEF Next

\* With no fork under way a thread that drains its queue does not steal, and
\* who is alone has nobody beside it who does.
LEMMA NobodySteals ==
    ASSUME IInv, NoForks, Alone, NEW th \in Threads, pc[th] = "erase",
           NEW u \in Threads
    PROVE  pc[u] \notin Looking
<1>1. /\ TypeOK /\ Nesting /\ StackHeld /\ Stopping /\ Place(th) /\ Place(u)
      /\ Main \in Threads /\ Threads = Workers \cup {Main}
  BY DEF IInv, TaskInv, HeldOnce, ThreadInv, Control, Threads
<1>2. shouldStop
  BY <1>1 DEF Place, Leaving, Stopping
<1>3. SUFFICES ASSUME pc[u] \in Looking PROVE FALSE
  OBVIOUS
<1>4. home[u] \in {"loop", "drain", "wait"}
  BY <1>1, HomeTyped
<1>5. CASE home[u] = "loop"
  BY <1>3, <1>5 DEF Alone, AtHome, Looking
<1>6. CASE home[u] = "drain"
  <2>1. stack[u] # <<>> /\ pc[u] # "body"
    BY <1>1, <1>3, <1>6 DEF Place, Looking
  <2>2. 1 \in DOMAIN stack[u]
    BY <1>1, <2>1, SequencesTyped
  <2> QED
    BY <1>1, <1>2, <2>1, <2>2 DEF Nesting, StackHeld, NoForks
<1>7. CASE home[u] = "wait"
  BY <1>1, <1>2, <1>7 DEF Place, Stopping
<1> QED
  BY <1>4, <1>5, <1>6, <1>7

\* What every step does to the labels, by who takes it and from where.
LEMMA SearchMovesTo ==
    ASSUME IInv, NEW th \in Threads, Search(th)
    PROVE  \E to \in {"ownTake", "first", "firstTake", "steal", "stealTake", "chain",
                      "call", "await", "rest", "drain", "wait", "drainTake", "unreg"} :
               pc' = [pc EXCEPT ![th] = to]
<1>1. Missed(th) \in {"await", "rest", "drain", "wait"}
  BY HomeTyped DEF IInv
<1>2. CASE PopOwn(th) \/ Drain(th)
  BY <1>2 DEF PopOwn, Drain, Read, Exchange, Go
<1>3. CASE StealFirst(th)
  BY <1>3 DEF StealFirst, Read, Exchange, Go
<1>4. ASSUME NEW v \in Threads, StealFrom(th, v)
      PROVE  \E to \in {"stealTake", "steal", "await", "rest", "drain", "wait"} :
                 pc' = [pc EXCEPT ![th] = to]
  BY <1>1, <1>4 DEF StealFrom, Read, Go
<1>5. CASE StealTake(th)
  BY <1>1, <1>5 DEF StealTake, Exchange, Go
<1>6. CASE Chain(th)
  BY <1>6 DEF Chain, Go
<1> QED
  BY <1>2, <1>3, <1>4, <1>5, <1>6 DEF Search

LEMMA SearchMovesFrom ==
    ASSUME NEW th \in Threads, Search(th)
    PROVE  /\ pc[th] \in Looking \cup {"drain", "drainTake"}
           /\ UNCHANGED <<control, home, stack, mainOnly>>
BY DEF Search, PopOwn, StealFirst, StealFrom, StealTake, Chain, Drain, Read, Exchange, Go,
       Looking

LEMMA ExecuteMoves ==
    ASSUME IInv, NEW th \in Threads, Execute(th)
    PROVE  /\ pc[th] \in {"call", "body", "forked", "await"}
           /\ UNCHANGED <<control, home, mainOnly>>
           /\ \E to \in {"body", "forked", "await", "own", "loop", "drain", "wait"} :
                  pc' = [pc EXCEPT ![th] = to]
<1>1. Resumed(th) \in {"await", "loop", "drain", "wait"}
  BY HomeTyped DEF IInv
<1> QED
  BY <1>1 DEF Execute, Call, Fork, Push, Announce, Await, Finish, Go

LEMMA MainMoves ==
    ASSUME MainStep
    PROVE  /\ \E to \in {"user", "pushed", "wait", "own", "wake", "drain", "reap", "join",
                         "gone"} : pc' = [pc EXCEPT ![Main] = to] \/ UNCHANGED pc
           /\ UNCHANGED workers
           /\ home' = home \/ home' = [home EXCEPT ![Main] = "drain"]
<1>1. ASSUME MainPush PROVE UNCHANGED <<workers, home>> /\ \E to \in {"pushed", "user"} :
                                   pc' = [pc EXCEPT ![Main] = to]
  BY <1>1 DEF MainPush, Push, Announce, Go, control
<1>2. ASSUME Destroy \/ WakeAll
      PROVE  /\ \E to \in {"wake", "drain"} : pc' = [pc EXCEPT ![Main] = to]
             /\ UNCHANGED workers
             /\ home' = home \/ home' = [home EXCEPT ![Main] = "drain"]
  BY <1>2 DEF Destroy, WakeAll, Go, control
<1>3. ASSUME MainWait \/ Reap
      PROVE  /\ \E to \in {"wait", "user", "own", "reap", "join", "gone"} :
                    pc' = [pc EXCEPT ![Main] = to]
             /\ UNCHANGED <<workers, home>>
  BY <1>3 DEF MainWait, Reap, Announce, Go, control
<1>4. ASSUME NEW b \in BOOLEAN, Pause(b) PROVE UNCHANGED <<pc, workers, home>>
  BY <1>4 DEF Pause
<1> QED
  BY <1>1, <1>2, <1>3, <1>4 DEF MainStep

LEMMA StepKeepsAlone ==
    ASSUME IInv, Alone, Next
    PROVE  Alone'
<1>1. /\ Control /\ Stopping /\ pc \in [Threads -> Labels] /\ DOMAIN home = Threads
      /\ Main \in Threads /\ Workers \subseteq Threads /\ Threads = Workers \cup {Main}
      /\ active = Cardinality(Counted)
  BY ActiveCounts DEF IInv, ThreadInv, TypeOK, Threads
<1> SUFFICES ASSUME NEW th \in Threads, pc'[th] = "erase",
                    NEW u \in Threads, home'[u] = "loop"
             PROVE  pc'[u] \in AtHome
  BY DEF Alone
<1>2. ASSUME NEW x \in Threads, Quiesce(x) PROVE pc'[u] \in AtHome
  <2>1. /\ active = 0 /\ pc' = [pc EXCEPT ![x] = "erase"] /\ home' = home /\ pc[x] = "spin"
    BY <1>2 DEF Quiesce, AllResting, Go
  <2>2. Counted = {}
    BY <1>1, <2>1, CountedFinite, FS_EmptySet
  <2>3. u # Main /\ u \in Workers /\ u # x
    BY <1>1, <2>1 DEF Control, Place, Leaving
  <2>4. pc[u] \in Uncounted /\ pc'[u] = pc[u]
    BY <1>1, <2>1, <2>2, <2>3 DEF Counted
  <2> QED
    BY <1>1, <2>1, <2>4 DEF Control, Place, Leaving, AtHome, Uncounted
<1>3. ASSUME pc[th] = "erase", home[u] = "loop", pc'[u] = pc[u] PROVE pc'[u] \in AtHome
  BY <1>3 DEF Alone
<1>4. ASSUME NEW x \in Workers, WorkerStep(x) PROVE pc'[u] \in AtHome
  <2>1. PICK to \in {"enter", "loop", "leave", "rest", "own", "sleep", "drain", "woken"} :
            /\ pc' = [pc EXCEPT ![x] = to]
            /\ to = "drain" => home' = [home EXCEPT ![x] = "drain"]
            /\ to = "own" => ~shouldStop
            /\ home' = home \/ home' = [home EXCEPT ![x] = "drain"]
    BY <1>4 DEF WorkerStep, Register, Enter, Loop, Rest, Sleep, Woken, Go
  <2>2. pc[th] = "erase" /\ home[u] = "loop"
    BY <1>1, <2>1
  <2>3. shouldStop
    BY <1>1, <2>2 DEF Control, Place, Leaving, Stopping
  <2>4. CASE u = x
    BY <1>1, <2>1, <2>3, <2>4 DEF AtHome
  <2>5. CASE u # x
    BY <1>1, <1>3, <2>1, <2>2, <2>5
  <2> QED
    BY <2>4, <2>5
<1>5. ASSUME NEW x \in Threads, Search(x) \/ Execute(x) PROVE pc'[u] \in AtHome
  <2>1. PICK to \in Labels \ {"erase"} : pc' = [pc EXCEPT ![x] = to]
    BY <1>5, SearchMovesTo, ExecuteMoves DEF Labels, Searching
  <2>2. pc[x] \notin AtHome /\ home' = home
    BY <1>5, SearchMovesFrom, ExecuteMoves DEF Looking, AtHome
  <2>3. pc[th] = "erase" /\ home[u] = "loop"
    BY <1>1, <2>1, <2>2
  <2>4. u # x
    BY <2>2, <2>3 DEF Alone
  <2> QED
    BY <1>1, <1>3, <2>1, <2>3, <2>4
<1>6. ASSUME NEW x \in Threads, BeginUnregister(x) \/ EndUnregister(x) PROVE pc'[u] \in AtHome
  <2>1. PICK to \in {"spin", "reap", "gone"} : pc' = [pc EXCEPT ![x] = to]
    BY <1>6 DEF BeginUnregister, EndUnregister, Go
  <2>2. home' = home /\ pc[x] \in Leaving
    BY <1>6 DEF BeginUnregister, EndUnregister, Go, Leaving
  <2>3. pc[th] = "erase" /\ home[u] = "loop" /\ u # x
    BY <1>1, <2>1, <2>2 DEF Control, Place
  <2> QED
    BY <1>1, <1>3, <2>1, <2>3
<1>7. ASSUME MainStep PROVE pc'[u] \in AtHome
  <2>1. u # Main /\ home[u] = "loop"
    BY <1>1, <1>7, MainMoves DEF Control, Place, IInv, TypeOK
  <2>2. pc[th] = "erase" /\ pc'[u] = pc[u]
    BY <1>1, <1>7, <2>1, MainMoves
  <2> QED
    BY <1>3, <2>1, <2>2
<1> QED
  BY <1>2, <1>4, <1>5, <1>6, <1>7 DEF Next, Unregister

LEMMA StepKeepsVictims ==
    ASSUME IInv, CInv, Next
    PROVE  VictimsStay'
<1>1. /\ Control /\ Registers /\ Roster /\ VictimsStay
      /\ pc \in [Threads -> Labels] /\ DOMAIN victim = Threads /\ DOMAIN dist = Threads
      /\ \A x \in Threads : dist[x] \subseteq Threads
      /\ Main \in Threads /\ Workers \subseteq Threads /\ workers \in Seq(Threads)
  BY DEF IInv, TaskInv, ThreadInv, CInv, TypeOK, Threads
\* The threads that may look at somebody, and what they look at, stay as they
\* are but for the one that takes the step.
<1>2. ASSUME NEW x \in Threads, NEW to \in Labels, pc' = [pc EXCEPT ![x] = to],
             to \in Outside => pc[x] \in Outside,
             \A u \in Threads \ {x} : victim'[u] = victim[u] /\ dist'[u] = dist[u],
             to \in {"firstTake", "stealTake", "chain"} => Registered(victim'[x]) /\ victim'[x] \in Threads,
             to \in {"steal", "stealTake"} => \A v \in dist'[x] : Registered(v) /\ v \in Threads
      PROVE  VictimsStay'
  <2>1. \A v \in Threads : Registered(v) => Registered(v)'
    BY <1>1, <1>2 DEF Registered
  <2>2. ASSUME NEW u \in Threads, pc'[u] \in {"firstTake", "stealTake", "chain"}
        PROVE  Registered(victim[u])'
    <3>1. CASE u = x
      <4>1. PICK v \in Threads : v = victim'[x] /\ Registered(v)
        BY <1>1, <1>2, <2>2, <3>1
      <4>2. Registered(v)'
        BY <2>1, <4>1
      <4> QED
        BY <3>1, <4>1, <4>2 DEF Registered
    <3>2. CASE u # x
      <4>1. PICK v \in Threads : v = victim[u] /\ Registered(v) /\ v = victim'[u]
        BY <1>1, <1>2, <2>2, <3>2 DEF VictimsStay, Registers, HasRead
      <4>2. Registered(v)'
        BY <2>1, <4>1
      <4> QED
        BY <4>1, <4>2 DEF Registered
    <3> QED
      BY <3>1, <3>2
  <2>3. ASSUME NEW u \in Threads, pc'[u] \in {"steal", "stealTake"}, NEW v \in dist'[u]
        PROVE  Registered(v)'
    <3>1. CASE u = x
      BY <1>1, <1>2, <2>1, <2>3, <3>1
    <3>2. CASE u # x
      BY <1>1, <1>2, <2>1, <2>3, <3>2 DEF VictimsStay
    <3> QED
      BY <3>1, <3>2
  <2> QED
    BY <2>2, <2>3 DEF VictimsStay
<1>3. ASSUME NEW x \in Workers, WorkerStep(x) PROVE VictimsStay'
  <2>1. PICK to \in {"enter", "loop", "leave", "rest", "own", "sleep", "drain", "woken"} :
            pc' = [pc EXCEPT ![x] = to]
    BY <1>3 DEF WorkerStep, Register, Enter, Loop, Rest, Sleep, Woken, Go
  <2>2. UNCHANGED <<victim, dist>>
    BY <1>3 DEF WorkerStep, Register, Enter, Loop, Rest, Sleep, Woken, popping
  <2>3. to \in Labels /\ to \notin Outside
    BY DEF Labels, Searching, Outside
  <2> QED
    BY <1>1, <1>2, <2>1, <2>2, <2>3
<1>4. ASSUME NEW x \in Threads, Execute(x) PROVE VictimsStay'
  <2>1. PICK to \in {"body", "forked", "await", "own", "loop", "drain", "wait"} :
            pc' = [pc EXCEPT ![x] = to]
    BY <1>4, ExecuteMoves
  <2>2. \A u \in Threads \ {x} : victim'[u] = victim[u] /\ dist'[u] = dist[u]
    BY <1>1, <1>4 DEF Execute, Call, Fork, Push, Announce, Await, Finish, popping
  <2>3. to \in Labels /\ to \notin Outside
    BY DEF Labels, Searching, Outside
  <2> QED
    BY <1>2, <2>1, <2>2, <2>3
<1>5. ASSUME MainStep PROVE VictimsStay'
  <2>1. UNCHANGED <<victim, dist>>
    BY <1>5 DEF MainStep, MainPush, Push, Announce, Pause, MainWait, Destroy, WakeAll, Reap,
                popping
  <2>2. CASE UNCHANGED pc
    BY <1>1, <2>1, <2>2 DEF VictimsStay, Registered
  <2>3. ASSUME NEW to \in {"user", "pushed", "wait", "own", "wake", "drain", "reap"},
               pc' = [pc EXCEPT ![Main] = to], to = "reap" => pc[Main] = "reap"
        PROVE  VictimsStay'
    <3>1. to \in Labels /\ to \notin Outside \ {"reap"} /\ (to = "reap" => pc[Main] \in Outside)
      BY <2>3 DEF Labels, Searching, Outside
    <3> QED
      BY <1>1, <1>2, <2>1, <2>3, <3>1
  <2>4. ASSUME NEW to \in {"join", "gone"}, pc' = [pc EXCEPT ![Main] = to],
               pc[Main] \in {"reap", "join"}
        PROVE  VictimsStay'
    <3>1. to \in Labels /\ pc[Main] \in Outside
      BY <2>4 DEF Labels, Searching, Outside
    <3> QED
      BY <1>1, <1>2, <2>1, <2>4, <3>1
  <2>5. \/ UNCHANGED pc
        \/ \E to \in {"user", "pushed", "wait", "own", "wake", "drain", "reap"} :
               pc' = [pc EXCEPT ![Main] = to] /\ (to = "reap" => pc[Main] = "reap")
        \/ \E to \in {"join", "gone"} :
               pc' = [pc EXCEPT ![Main] = to] /\ pc[Main] \in {"reap", "join"}
    <3>1. CASE MainPush \/ \E b \in BOOLEAN : Pause(b)
      BY <3>1 DEF MainPush, Push, Announce, Pause, Go
    <3>2. CASE MainWait \/ Destroy \/ WakeAll
      BY <3>2 DEF MainWait, Destroy, WakeAll, Go
    <3>3. CASE Reap
      BY <3>3 DEF Reap, Announce, Go
    <3> QED
      BY <1>5, <3>1, <3>2, <3>3 DEF MainStep
  <2> QED
    BY <2>2, <2>3, <2>4, <2>5
<1>6. ASSUME NEW x \in Threads, BeginUnregister(x) \/ Quiesce(x) PROVE VictimsStay'
  <2>1. PICK to \in {"spin", "erase"} : pc' = [pc EXCEPT ![x] = to]
    BY <1>6 DEF BeginUnregister, Quiesce, Go
  <2>2. UNCHANGED <<victim, dist>>
    BY <1>6 DEF BeginUnregister, Quiesce, popping
  <2>3. to \in Labels /\ to \notin Outside
    BY DEF Labels, Outside
  <2> QED
    BY <1>1, <1>2, <2>1, <2>2, <2>3
<1>7. ASSUME NEW x \in Threads, EndUnregister(x) PROVE VictimsStay'
  <2>1. PICK to \in {"reap", "gone"} : pc' = [pc EXCEPT ![x] = to] /\ pc[x] = "erase"
    BY <1>7 DEF EndUnregister, Go
  <2>2. \A u \in Threads : pc[u] \notin Looking
    BY <2>1, NobodySteals DEF CInv
  <2>3. \A u \in Threads : pc'[u] \notin Looking
    BY <1>1, <2>1, <2>2 DEF Looking
  <2> QED
    BY <2>3 DEF VictimsStay, Looking
<1>8. ASSUME NEW x \in Threads, Search(x) PROVE VictimsStay'
  <2>0. UNCHANGED <<workers>> /\ pc[x] \notin Outside /\ Registered(x)
    BY <1>8, SearchMovesFrom DEF Looking, Outside, Registered, control
  <2>1. PICK to \in {"ownTake", "first", "firstTake", "steal", "stealTake", "chain",
                     "call", "await", "rest", "drain", "wait", "drainTake", "unreg"} :
            pc' = [pc EXCEPT ![x] = to]
    BY <1>8, SearchMovesTo
  <2>2. pc'[x] = to /\ to \in Labels /\ to \notin Outside
    BY <1>1, <2>1 DEF Labels, Searching, Outside
  <2>3. \A u \in Threads \ {x} : victim'[u] = victim[u] /\ dist'[u] = dist[u]
    BY <1>1, <1>8 DEF Search, PopOwn, StealFirst, StealFrom, StealTake, Chain, Drain, Read,
                      Exchange, popping
  <2>4. \A i \in DOMAIN workers : Registered(workers[i]) /\ workers[i] \in Threads
    <3>1. \A i \in DOMAIN workers : workers[i] \in Threads
      BY <1>1
    <3> QED
      BY <1>1, <3>1 DEF Roster
  <2>5. CASE PopOwn(x) \/ Drain(x)
    <3>1. to \notin {"firstTake", "stealTake", "chain", "steal"}
      BY <1>1, <2>2, <2>5 DEF PopOwn, Drain, Read, Exchange, Go
    <3> QED
      BY <1>2, <2>1, <2>2, <2>3, <3>1
  <2>6. CASE StealFirst(x)
    <3>1. to \in {"firstTake", "call", "steal"}
      BY <1>1, <2>2, <2>6 DEF StealFirst, Read, Exchange, Go
    <3>2. to = "firstTake" => victim'[x] = Head(workers)
      BY <1>1, <2>2, <2>6 DEF StealFirst, Read, Exchange, Go
    <3>3. Registered(Head(workers)) /\ Head(workers) \in Threads
      <4>1. workers # <<>>
        BY <1>1, <2>0 DEF Roster
      <4>2. 1 \in DOMAIN workers /\ Head(workers) = workers[1]
        BY <1>1, <4>1
      <4> QED
        BY <2>4, <4>2
    <3>4. to = "steal" => dist'[x] = {workers[i] : i \in DOMAIN workers}
      BY <1>1, <2>2, <2>6 DEF StealFirst
    <3>5. to = "steal" => \A v \in dist'[x] : Registered(v) /\ v \in Threads
      BY <2>4, <3>4
    <3> QED
      BY <1>2, <2>1, <2>2, <2>3, <3>1, <3>2, <3>3, <3>5
  <2>7. ASSUME NEW v \in Threads, StealFrom(x, v) PROVE VictimsStay'
    <3>1. /\ pc[x] = "steal" /\ v \in dist[x]
          /\ to = "stealTake" => victim'[x] = v
          /\ to \notin {"firstTake", "chain"}
          /\ to \in {"steal", "stealTake"} => dist'[x] = dist[x]
      <4>1. Missed(x) \in {"await", "rest", "drain", "wait"}
        BY HomeTyped DEF IInv
      <4> QED
        BY <1>1, <2>2, <2>7, <4>1 DEF StealFrom, Read, Go, StillStealing
    <3>2. \A w \in dist[x] : Registered(w) /\ w \in Threads
      BY <1>1, <3>1 DEF VictimsStay
    <3> QED
      BY <1>2, <2>1, <2>2, <2>3, <3>1, <3>2
  <2>8. CASE StealTake(x)
    <3>1. /\ pc[x] = "stealTake" /\ to \notin {"firstTake", "stealTake"}
          /\ to = "chain" => victim'[x] = victim[x]
          /\ to \in {"steal", "stealTake"} => dist'[x] = dist[x]
      <4>1. Missed(x) \in {"await", "rest", "drain", "wait"}
        BY HomeTyped DEF IInv
      <4> QED
        BY <1>1, <2>2, <2>8, <4>1 DEF StealTake, Exchange, Go, StillStealing
    <3>2. \A w \in dist[x] : Registered(w) /\ w \in Threads
      BY <1>1, <3>1 DEF VictimsStay
    <3>3. Registered(victim[x]) /\ victim[x] \in Threads
      BY <1>1, <3>1 DEF VictimsStay, Registers, HasRead
    <3> QED
      BY <1>2, <2>1, <2>2, <2>3, <3>1, <3>2, <3>3
  <2>9. CASE Chain(x)
    <3>1. to = "call"
      BY <1>1, <2>2, <2>9 DEF Chain, Go
    <3> QED
      BY <1>2, <2>1, <2>2, <2>3, <3>1
  <2> QED
    BY <1>8, <2>5, <2>6, <2>7, <2>8, <2>9 DEF Search
<1> QED
  BY <1>3, <1>4, <1>5, <1>6, <1>7, <1>8 DEF Next, Unregister

LEMMA CleanStopSafe ==
    ASSUME CleanStop
    PROVE  Spec => [](IInv /\ CInv)
<1>1. Init => IInv /\ CInv
  <2> SUFFICES ASSUME Init PROVE CInv
    BY InitEstablishesIInv
  <2>1. \A th \in Threads : pc[th] \in {"user", "start"}
    BY DEF Init
  <2> QED
    BY <2>1 DEF Init, CInv, NoForks, Alone, VictimsStay
<1>2. IInv /\ CInv /\ [Next]_vars => (IInv /\ CInv)'
  <2> SUFFICES ASSUME IInv, CInv, [Next]_vars PROVE CInv'
    BY StepKeepsIInv
  <2>1. CASE Next
    BY <2>1, StepKeepsNoForks, StepKeepsAlone, StepKeepsVictims DEF CInv
  <2>2. CASE UNCHANGED vars
    BY <2>2 DEF vars, popping, CInv, NoForks, Alone, VictimsStay, Registered
  <2> QED
    BY <2>1, <2>2
<1> QED
  BY <1>1, <1>2, PTL DEF Spec

\* With a clean stop nobody reads the workers vector while a thread erases
\* itself from it, and a queue that is being stolen from belongs to a thread
\* that still exists.
THEOREM ErasesAlone ==
    ASSUME CleanStop
    PROVE  Spec => []EraseIsExclusive
<1>1. IInv /\ CInv => EraseIsExclusive
  <2> SUFFICES ASSUME IInv, CInv PROVE EraseIsExclusive
    OBVIOUS
  <2>1. \A th \in Threads : pc[th] = "erase" => \A u \in Threads : ~Stealing(u)
    BY NobodySteals DEF CInv, Stealing, Looking
  <2>2. ASSUME NEW th \in Threads, Stealing(th), victim[th] # Nil
        PROVE  pc[victim[th]] # "gone"
    <3>1. Registers /\ VictimsStay
      BY DEF IInv, TaskInv, CInv
    <3>2. pc[th] \in {"firstTake", "stealTake", "chain"}
      BY <2>2, <3>1 DEF Registers, HasRead, Stealing
    <3> QED
      BY <3>1, <3>2 DEF VictimsStay, Registered, Outside
  <2> QED
    BY <2>1, <2>2 DEF EraseIsExclusive
<1> QED
  BY <1>1, CleanStopSafe, PTL

=============================================================================
