# Verification of the unxray engine

TLA+ models of the X-Ray engine (this repository, a fork of OpenXRay), checked with TLC and, where marked, proved
with TLAPS. The models cover the parts of the engine that decide *when* and *in what order* things happen: the job
system that runs on every core, the scheduler that calls the game objects, and the world of the single player game: the
server's entities, the life simulation that takes them on and off the level, and the client objects that follow them a
frame later. Paths below are relative to `src/` of the repository; `PROJECT.json` gives the source lines of every definition.

## 1. The system

The program has one primary thread, which runs the frame loop, and the worker threads of a job system. Everything
else is callbacks from these two.

| Component | State | Operations | Talks to |
|---|---|---|---|
| **Task** (`xrCore/Threading/Task.hpp`) | parent, `jobs` counter, functor | create, run, climb to the parents | TaskManager, whoever waits |
| **TaskQueue** (`TaskManager.cpp`) | ring of pointers, head, tail | `push`, `pop`, `steal` | its worker, thieves |
| **TaskManager** (`TaskManager.cpp/.hpp`) | workers, their lock, `activeWorkersCount`, pause and stop flags, `newWorkArrived` | register, unregister, worker loop, `TryToSteal`, `Wait`, `Pause`, destructor | all of the above, Event |
| **TaskAllocator** (`TaskManager.cpp:54-83`) | slots of a worker, next index | `allocate` | Task |
| **Event** (`Event.cpp`) | flag, mutex, condition | `Set`, `Reset`, `Wait`, `Wait(ms)` | TaskManager, render and sound threads |
| **Parallel for** (`ParallelFor.hpp`, `ParallelForEach.hpp`) | range and grain of each functor | split, apply, wait | Task, TaskManager |
| **Scheduler** (`xrEngine/xrSheduler.cpp`) | real-time list, heap, processed list, registration queue, current object | `Register`, `Unregister`, `Update` | every game object, which calls back |
| **Frame loop, message registries** (`device.cpp`, `pure.h`) | handler lists | add, remove, process | all subsystems; one sequence runs on a worker |
| **Object list** (`xr_object_list.cpp`) | active, sleeping, crows, destroy queue | spawn, activate, sleep, update, destroy | Scheduler, level |
| **Sound emitters** (`xrSound/SoundRender_Emitter*.cpp`) | state of each emitter, targets, prefill task | start, stop, update | TaskManager |
| **Render phases** (`Layers/xrRender_R2/r2.h`, `render_phase_*`) | main and draw task of each phase | `run`, `ensure_main`, `ensure_phase` | TaskManager |
| **Game server** (`xrGame/xrServer*.cpp`) | entities, ids, owners and children | spawn, destroy, ownership take and reject | client level, ALife |
| **Client level** (`xrGame/Level*.cpp`, `GameObject.cpp`, `Actor_Events.cpp`) | queue of events, objects, who holds whom, what asked for its destruction | drain the queue, the handlers of spawn, take, reject, destroy | Game server, whose code runs inside the call; Object list |
| **Ids** (`xrGame/id_generator.h`) | free blocks with times | take, give back | Game server |
| **ALife** (`xrGame/alife_*`) | registries, online and offline objects | switch, move, register | Game server |
| **Inventory** (`xrGame/Inventory.cpp`) | slots, belt, ruck | put, take, activate | Client level |
| **AI core** (`xrAICore`) | open and closed lists | path search, planning | monsters, stalkers |

Where it is hard: tasks are counted by atomics that several threads bring down at once; queues are popped by threads
that do not own them; a waiting thread runs other tasks on its own stack; threads unregister while others iterate over
the workers; an event carries one signal for many sleepers; a frame calls objects that register, unregister and delete
each other; the client applies events that arrived before the spawn they refer to. `PROJECT.json` lists each such
place as a hazard with the properties that guard it, or the reason why none does yet.

What makes each part correct:

* *Task*: a finished task has no unfinished descendant; nobody counts a task down twice or adds to a finished one.
* *TaskQueue*: a bag. Nothing is lost, doubled, or overwritten.
* *TaskManager*: every thread that must leave does so, no one reads the vector or the queue of a thread that is
  erasing itself, pushed tasks get done.
* *Event*: one waiter per signal, no lost wakeup, a time limit that is kept.
* *Parallel for*: every index once.
* *Scheduler*: the lists hold what the owners asked for last, once; nobody is called twice a frame or after deletion;
  an overloaded frame leaves nobody behind.
* *Server and ALife*: the map of the server, parents and children, the object registry and the level registry agree
  after every request and every switch; being switched changes neither what exists nor who owns it.
* *Level and object list*: once the events are drained the level has an object for exactly the server's entities, with
  the owners the server names; a handler always finds the object in the state it expects; an object is gone before its
  entity can come back; what asks for its destruction leaves.

## 2. Modules

```
TaskBag   <--refines-- TaskQueue                TaskTree  <--EXTENDS, refines-- ParallelFor
AutoResetEvent <--refines-- Event               Scheduler
                TaskManager (uses the promises of TaskBag and AutoResetEvent)
ServerEntities <--EXTENDS-- OnlineWorld --refines--> Ownership
```

Each `MC<module>.tla` holds the model values, each `<module>Proofs.tla` the theorems. Operators introduced with "a
bug the properties must find" or "Mutant of", or standing directly before the definition they spoil (`ParentNotCounted`,
`AlwaysExchanges`, `SignalsNobody`, ...), are wrong variants of that definition: with them in place TLC must find the
property violated, which shows that the property says something about the code.

### TaskTree: `Task.hpp`, the task half of `TaskManager.cpp`

`jobs` and `parent` are the fields of `Task::Data`; `top`, `below` and `awaits` are the stacks of the threads, as
chains of activation records. A task is run at most once, so its record is identified with it. `CreateTask` is the
constructor together with `Dispatcher` (the counter of a child is added to its parent's before the child exists for
anybody else), `PushTask` and `RunTask` are the two ways to run it, `ExecuteOneTask` takes any queued task,
`Return` and `Notify` are the two halves of `Task::operator()`: the functor ends; the loop decrements, and climbs on
if it was the one to reach zero. `BeginWait`/`EndWait` are `TaskManager::Wait`; between them the thread runs other
tasks on top of the waiting frame, exactly as the code does. Queues are a set here, slots are identities.
`MayAwait` comes from how the code uses `Wait` (`r2.h:44-76`, `ParallelFor.hpp:135-159`): a frame waits for a task it has
created itself.

### TaskBag, TaskQueue: the ring of a worker

One atomic access per step: `Claim` (fetch_add of the tail), `Store`; `LoadHead`, `LoadSlot`, `Win` or `Lose` (the
exchange, which being weak may fail for no reason), `Clear`. `pop` and `steal` are the same code. TaskBag is the
promise: what is put is taken once. Sequential consistency is assumed; the code uses acquire, release and relaxed
orders whose effects beyond that are not modelled.

`Tight = FALSE` limits pushes to rings that keep a free slot (`KeepsSlack`); 4096 slots make that the normal case.
`Tight = TRUE` fills the ring as far as the assertion of `push` allows, which the run `task_queue_overflow` uses.

### AutoResetEvent, Event

Event is the POSIX code: a critical section up to the unlock or the wait is one step (`Set`, `Reset`, `Wait`,
`TimedWait`, `Look`), the library's part is external (`Spurious`, `Valid`, `Past`, and `Tick` for the clock). `DeadlineOf`
is the arithmetic of `Event.cpp:62-69`, with the length of a second a constant so that the carry is in reach of a small
clock. `due` remembers what the caller meant. AutoResetEvent is the promise of `Event.hpp`.

### TaskManager: the workers

`Loop`, `PopOwn`, `StealFirst`, `StealFrom`, `Chain`, `Missed`, `Rest`, `Sleep`, `Woken` are `TaskWorkerStart`,
`ExecuteOneTask` and `TryToSteal`; a pop is split at the place where another thread can be faster (`Read`, `Exchange`).
That the exchange is weak (`TaskManager.cpp:108`) is left out here: TaskQueue lets it fail for no reason, and to the
thread that is the same as losing it.
`Register`, `BeginUnregister`, `Quiesce`, `EndUnregister` follow the lock, the pause, the spin on
`activeWorkersCount` and the erase. `Destroy`, `WakeAll`, `Reap` are the destructor, `MainPush`, `MainWait`, `Pause` the calls
of the primary thread. A queue is a sequence (TaskQueue has shown the ring to be a bag), `newWorkArrived` a flag that
one sleeper takes (Event has shown that). `dist` is what the random index ranges over: it is set up before the loop of
`TryToSteal` from the size the vector had then. A task is a leaf, or a fork that pushes a child and waits for it.
`CleanStop` says whether the destructor may run while forks are pending. Left out: threads that register themselves
besides the workers, the allocator, statistics, and the event pump that `Wait` runs on the primary thread.

### ParallelFor

EXTENDS TaskTree; each action is one of TaskTree's with what the functor of `ParallelFor.hpp` does in it: `Run`, `SplitLeft`
(the child with the left half is created, its task then pushed by `Launch`), `SplitRight` (the rest is handed on),
`Apply`, `Leave`, `Await`. `grain` follows from the count of registered threads at that moment, as in the code.

### Scheduler: `xrSheduler.cpp`, `ISheduled.cpp`

`itemsRT`, `items`, `processed`, `registration`, `current` are the members of the same names. Items whose `Object` is
`nullptr` are kept as a count per time (`holes`): they occupy the heap until they reach the front. `stale` holds the slots
behind the end of `ItemsRT` while its range-based loop runs: the loop keeps the end it started with, and an erased
vector leaves its last element in the slot. The queue of requests is drained one at a time (`Cancel`, `Enlist`,
`Strike`); `NextRT`/`ReturnRT` and `CallTop`/`ReturnFrom`/`ReturnGone` bracket `shedule_Update`. In between, and between
frames, the owners act: `Create`, `Register`, `SetDestroy`, `Unregister`, `Delete`, for any object, the one being updated
included. The build is the release one, whose destructor unregisters unconditionally with whatever `b_RT` it has; the
constructor does not initialise `b_RT`, so `Create` chooses it. An object is an address, so `Create` after `Delete` reuses
one. Whether the time of a frame is used up is a choice, offered where the code looks at the clock: after every
`Batch`-th update, and not after one that ended in self-unregistering. Left out: `Destroy`, `EnsureOrder` (no caller), the
elapsed time told to an object, and the adjustment of the time slice.

### Ownership, ServerEntities, OnlineWorld: server, life simulation and level

ServerEntities is the server with the registries of the simulation, in a single player game. `entities` is
`xrServer::entities`; `parent` and `children` are `ID_Parent` and `children` of an entity, kept separately as in the
code; `taken` the identifiers in use; `registered`, `online` (`m_bOnline`) and `levelReg` belong to the simulation. `wire`
is the client's queue of events, to which every operation appends what it sends, in the order of the code. `ProcessSpawn` is
`Process_spawn` with the `OnCreate` and `OnTouch` of `game_sv_Single` it calls: the new entity is registered as a free one
(`CALifeSimulatorBase::create` hides the parent meanwhile) and then taken out of the level registry.
`ProcessOwnership`, `ProcessReject`, `ProcessDestroy` are the `Process_event_*` functions with `OnTouch`, `OnDetach` and
`release`; `Departure` is the order of rejects and destructions that `Process_event_destroy` packs and `Perform_destroy`
sends, what the owner carries in any order first. `SwitchOnline` and `SwitchOffline` are `add_online` and `remove_online` of the switch manager with what the
trader does for its children: the simulation frees every identifier and takes the same again, and drops the items that
are not saved (`Unsaved`: bolts). Each operation is one step, because the server runs inside the call of the client and
nothing of the game runs beside it.

OnlineWorld adds the level: `onLevel` (`Objects.net_Find`), `holder` (`H_Parent`), `dying` (`getDestroy` and the destroy
queue), `removed` (`m_bObjectRemoved`). In the parts "think" and "update" of a frame objects and scripts send requests
(`RequestSpawn`, `RequestTake`, `RequestReject`, `DestroyObject`, `ScriptRelease`, `ScriptCreate`), which the server serves
with what it knows *now* while the level still shows what it knew at the last drain. In "think" the simulation makes one
pass over the level registry (`Switch`; `visited` is `m_switch_counter`), whether in the scheduler or in the parallel
sequence of the frame before. "drain" is `ProcessGameEvents`, which empties the queue; `Take`, `OnSpawn`, `OnTake`,
`OnReject`, `OnDestroy` are the handlers. `DestroyMarked` is the end of `CObjectList::Update`. Any taker, the player
or a stalker, may refuse an item: one that is about to be destroyed always (`CanTakeItem`), any other by free choice, which stands for `CanTake`
and for weight (`Inventory.cpp:1257-1279`). It sends the item back with another request, in the middle of the
draining, and the reject that the server answers with comes back to somebody who never held it. `refused`, a history
variable that no action reads, remembers the items this concerns. `Valid` is the server looking into the client's object (`is_object_valid_on_svclient`).

`Ownership` is what the server promises of all this: objects are created, taken when free, dropped, and removed only
with everything they carry; the refinement maps `alive` to `taken` and `owner` to `parent`, so that every
switch must be a stuttering step, but for the unsaved items it removes.

## 3. Runs

Bounds are small because the hazards are local: two threads on one counter, one slot, one signal; a third makes
someone else's interference possible. Deadlock checking is off where the bounds let a model come to rest; `online_world`
goes on for ever and is checked for deadlock.

| Run | Instance | Shows |
|---|---|---|
| `task_tree` | 3 tasks, primary thread and 1 worker | counters exact, families complete, waits sound, both assertions of `Task.hpp` hold; waits return, pushed tasks finish |
| `task_queue` | ring of 3, 5 pushes (it wraps), 2 pushers, 3 poppers | nothing lost, doubled, reordered; refinement of the fair bag |
| `task_queue_overflow` | ring of 2 filled to the assertion | **violated**: a push that passes the assertion overwrites a slot in use |
| `event` | 3 threads, second of 4 units, deadlines that carry and do not | no lost wakeup, never early, delivery, timed waits return; refinement |
| `event_invalid_deadline` | limits of a quarter and a whole second, clock in single units | **violated**: deadlines of exactly or over a second hang |
| `task_manager` | 2 workers, a fork and its child, 1 pause, 2 steal attempts | exact count, exclusive erase, each queued task in one queue; the wait of the primary thread and the destructor return |
| `task_manager_drain` | 1 worker, 2 leaves | **violated**: "Finish all pending tasks" leaves some |
| `task_manager_alone` | 1 worker, fork pending at shutdown | **violated**: the last thread picks itself as a victim for ever |
| `parallel_for` | 1 worker, up to 7 indices, 5 tasks, grain of 1 or 2 threads | every index exactly once, in the end |
| `scheduler` | 2 objects, 3 frames, 3 queued requests, a look at the clock after each update | lists follow the owners, one place per object, once per frame, no call into a deleted object, fair turns |
| `scheduler_realtime` | 3 objects, a real-time one may leave during the loop | **violated**: one object is skipped, another updated twice |
| `online_world` | the player, a stalker, a weapon, a bolt; 2 requests a frame; every saved game of these; any number of frames | the tables agree, the level follows the server, no handler is surprised except by the reject of an item its taker refused, nothing returns before it has left, ownership survives switching, what asks to be destroyed leaves |

Why the bounds suffice: 3 tasks are a parent, a child and a stranger, or a chain of three, which is what the climbing
loop distinguishes; 5 pushes on a ring of 3 bring every slot round again while a slow popper still holds an old
position; the clock of `event` crosses a second twice; two workers and the primary thread are the least with a
thief, a victim and someone who unregisters; two objects are an object and another one that acts on it, three are needed
only for the real-time loop to have one to skip and one to repeat, and `scheduler_realtime` has them. In `task_manager` a
queue never holds two tasks at once (`task_manager_drain` has such queues), and the 5 attempts of the code are 2: one
that fails and is followed by another. In `online_world` two owners can compete for an item, one of them can leave
with it, and there is an item that is saved and one that is not; two requests of one frame meet in any order with the
switches of that frame, and the queue, though unbounded in the model, is emptied once a frame. The whole state space is
explored, and identifiers are used again without end. Instances with three items, or with three requests a frame, gave the same
answers for the invariants. Where the
theorems of section 5 apply the bounds do not matter.

## 4. Fairness and assumptions

* *Threads are scheduled*: weak fairness on the steps of a worker, of a task that is running, of a thread that holds
  a claim. The operating system justifies it. No fairness on the primary thread's decisions (to push, wait, pause,
  destroy), none on `Set`, `Reset` or the start of a `Wait`.
* *Stealing*: strong fairness on `StealFrom` for each pair of threads: the victim is drawn at random, and a
  thread that draws for ever draws every registered index. Strong fairness on `Win` in TaskQueue: a thread that attempts
  the exchange again and again succeeds some time; the exchange only fails spuriously or because another thread made progress.
* *Clock*: time passes (`Tick`), and the mutex is granted to threads that have been woken (`Look`, `GiveUp`).
* Atomics are sequentially consistent.
* `KeepsSlack` (TaskQueue), `CleanStop` (TaskManager) and `RealTimeLeave` (Scheduler) mark the conditions under which the
  code does what it says; the violated runs drop them one at a time. The game keeps them in general: 4096 slots, a
  destructor that runs after the level is gone, and one user (`configs_dumper`, multiplayer on Windows) that leaves the
  real-time list in its own update.
* *The frame goes on* (OnlineWorld): weak fairness on the parts of a frame, which the primary thread runs one after the
  other in a loop. No fairness on requests or switches. `ProcessGameEvents` drains everything,
  what is queued meanwhile included: `NET_Queue_Event::available` ignores the time of an event.
* *Identifiers* (`Fresh`): a new entity gets an identifier the level has nothing left of. The generator
  (`id_generator.h:91-122`) hands out of the block whose last release is the oldest, among 256 blocks of 256, so this fails only if
  every block with a free identifier has had one released in the same frame.
* *The simulation passes once a frame*: `visited` is reset with the frame. Turning `mt_alife` on or off between two frames could
  give two passes to one frame; that is left out.
* *Refusals are free*: whatever `CanTake` and the weights say, each taker may refuse each item each time. Items do not carry items. The player
  is neither destroyed nor switched off. All entities are on the level of the player.
* Waiting only for one's own tasks (`MayAwait`) is how the repository uses `Wait`; with a wait for any task (`MayAwaitAny`,
  the mutant of `WaitsReturn`) two suspended frames can wait for each other on one stack.

## 5. Theorems

Proved for all values of the constants, under the named assumptions of the modules:

* **TaskTreeProofs**: `TypeCorrect`, `CountersExact`, `FamilyDone`, `ExecutedOnce`, `ChildrenInTime`, `WaitSound`.
  `JobsExact` alone is not inductive: that a climbing frame is the only one entitled to its task's share needs
  `ClimbsFromZero` (the counter of what a frame last brought down is zero) and `OneClimber` (no two frames have brought
  the same counter to zero). With `ParentsExist`, `HasCaller` and `FreeIsBlank` for the shape of the tree they form `IInv`.
  `FamilyDone` follows by showing that the finished tasks are closed under children, so that the least closed set
  lies inside them; no induction on the tree is needed. `WaitSound` combines it with the guard of `EndWait`.
* **TaskQueueProofs** (assume `Tight = FALSE`): `Lossless`, `HandedOnce`, `FreeSlot`, `Implements` (TaskBag), `TypeCorrect`. `IInv` adds to the
  properties that claims and wins are of distinct positions, that a non-empty slot belongs to a live position or one being
  cleared, and `ReadsFresh`: whoever will win the exchange has read the item of that very position. The last is where a
  ring usually fails (ABA); it holds because positions are not reduced modulo the size before the exchange.
* **EventProofs**: `NoWakeupLost`, `TimedWaitNeverEarly`, `Implements` (AutoResetEvent), `TypeCorrect`. `DeadlinesMeant` says
  that the record handed to the library is the time the caller meant, carried or not; `ExpiredWhenDue` that a thread
  leaves the condition by timeout only after it.
* **ParallelForProofs**: `ImplementsTaskTree` (each step is one of TaskTree's, so its theorems hold here), `RangesCorrect`,
  `AppliedOnce`, `AppliedEverywhere`. `RangesCorrect` is the type invariant with the bounds of the ranges. The ranges of the tasks that still hold indices partition what is not
  visited (`OneHolder`, `HeldUnvisited`, `NoneForgotten`); all of them are in the family of the root (`AllInFamily`), so
  `FamilyDone` finishes the argument.
* **TaskManagerProofs** (any number of workers, tasks, forks, pauses and steal attempts): `Safety` (the inductive invariant), `TypesHold`,
  `CountIsExact` (`ActiveExact`), `QueuedIsInOnePlace` (`QueuedOnce`), `TakenIsHeldOnce`, and with `CleanStop` `ErasesAlone`
  (`EraseIsExclusive`). `IInv` has two halves that hardly meet. The half of the threads says where a thread can be, given whose
  outermost loop it is in (`Control`), that the vector holds every registered thread once (`Roster`), and who may stop or erase
  (`Stopping`); with it the count follows step by step, although a thread changes its own status, the flag that others wait for and
  the vector in three separate steps. The half of the tasks says that a queued task is in one queue at one place (`Filed`) and a
  taken one in the hands of one thread, in its register or on its stack (`HeldOnce`): a thief that read a front which somebody else
  then took fails its exchange. The assumption `FinitelyMany` (threads and tasks are finite sets) is what counting needs. With `CInv`
  (no fork is under way once the manager stops, so whoever finds the count at zero has no thief beside it, and a victim stays
  registered while somebody may look at it) the erasing is exclusive. `CleanStop` is needed: without it a fork that
  waits after the stop goes on stealing.
* **SchedulerProofs** (any objects, intervals, batch, number of frames and requests): `Safety`, `TypesHold`, `PlacedOnce` (`InOnePlace`),
  `OwnersFollowed` (`FollowsOwners`), `TurnsAreFair` (`FairTurns`); and with `~RealTimeLeave` `OnlyTheLiving` (`CallsTheLiving`) and `UpdatedOnce`
  (`OncePerFrame`). What makes the lists follow the owners is the order of the requests of one object in the queue: two registrations
  have an unregistration between them (`Alternate`), the first request of an object that is in a list takes it from there, by
  the right `b_RT` (`FirstStrikes`), the last one is what the owner wants (`LastIsWish`), and an object without a request is where its owner wants
  it, or was dropped because it is not needed (`Settled`). `Undisturbed` says that while objects are called there is no request of one
  that may still be called; that is why unregistering at once and queueing a request never mix for one object. Each step that
  drains the queue takes requests of one object out that precede the others of that object (`Thinned`), and one lemma
  (`QueueThins`) shows that this keeps the four. `CInv` adds that no slot is left behind the end of the real-time list and that who was
  updated in this frame has had its turn.
* **OnlineWorldProofs** (any sets of owners, items and unsaved items, any refusals, any number of requests and frames): `TablesAgree`
  (`Consistent`), `ServerKeepsOwnership` (the refinement of `Ownership`), `OwnersExist` (what follows from that for every entity and its owner), and for the level `LevelTypesHold` (`TypeOK`), `LevelFollowsServer`
  (`FollowsServer`), `EventsFit` (`NeverOffTrack`) and `OfflineLeavesLevel` (`OfflineIsOffLevel`). The server's half does not mention the
  level: `SInv`, the types of the tables with `Consistent`, is inductive by itself, with a lemma for each operation of the server,
  and `NextIsServerStep` shows that every action is one of these or leaves the tables alone.
  The level's half is about the content of the queue. A *view* is a function from the objects there are to their owners; an event
  leads from one view to the next or does not fit (`Leads`), and the events of a queue make a `Path`. The invariant (`Tracks`) is that
  the queue is a path from what the level shows to what the server has. Each operation of the server is shown to append a path from
  its old view to its new one (`Sends`; for a departure and an arrival the whole chain of views is written down), each handler to
  move the level one view on. What the queue alone does not say is in the other parts: `Shows` says that nobody holds what has been
  refused, and that the level then differs from the view of the queue only in such items, for which a reject is on its way; that follows either
  from the taker's request or, when the server has freed the item in the meantime, from the path itself (`PathFrees`). So `EventsFit` is
  restricted: for the reject of a refused item it does not say that the handler's assertions hold (they do not, see section 6) but only that
  nobody else holds the item then; `SpawnsNew` that what is spawned has left the level and nothing earlier in the
  queue is about it; `OfflineOK` that between two drains the level has nothing left of an offline entity unless it was
  switched in this pass. It speaks of switches in a pass only (see section 7). The last needs that only one pass runs per frame and that every frame drains the queue.
* **SequenceLemmas**: what `Tail`, `Append`, `RemoveAt`, `RemoveFirst` and the least and greatest position of a set do, for the three modules above.

The type invariants of TaskTree, TaskQueue and Event are part of their `IInv` and proved (`TypeCorrect`), so no run repeats them.

Every invariant and action property of the runs that pass is thus a theorem. Only model-checked: liveness, for which the prover has no
rules about fairness (`WaitsReturn`, `PushedIsFinished`, `DeliversSignal`, `TimedWaitReturns`, `ShutdownCompletes`, `WaitReturns`,
`EveryIndexIsVisited`, `RemovedLeaves`) and the refinement of the *fair* bag (`ImplementsFairBag`).

## 6. Findings

Each has a run and a trace; `PROJECT.json` quotes the lines.

1. The overflow assertion of `TaskQueue::push` looks at the head, but a popper advances the head before it clears its
   slot: a push in between passes and its task is wiped out.
2. "Finish all pending tasks" stops at the first pop that fails because a thief was faster.
3. A thread left alone in `TryToSteal` draws its own index for ever: shutdown with a pending fork can hang.
4. The deadline of a timed wait carries at most one second, and not when the nanoseconds are exactly one: EINVAL, and the
   loop spins with the mutex held.
5. Unregistering a real-time object in the real-time loop skips one object and updates another twice.

One more disagreement has no run of its own; `online_world` reaches it and `NeverOffTrack` exempts it in so many words. A taker that refuses
an item sends a reject (`Actor_Events.cpp:71-77`, `ai_stalker_events.cpp:56-62`), the server broadcasts it
(`xrServer_process_event_reject.cpp:70-81`), and it comes back to an owner that never held the item. In the player `VERIFY(GO->H_Parent())`
(`Actor_Events.cpp:112`) fails; a release build prints the error of the lines that follow it and goes on. A stalker has no such check:
`DropItem` runs for an item whose `m_pInventory` is not this one, against the `VERIFY`s of `Inventory.cpp:234-237`, and its `switch` may
come to `NODEFAULT`. Who owns what is not affected: neither side names an owner afterwards (`FollowsServer`).

## 7. Plan and what is not modelled

1. **TaskPool**: slots of `TaskAllocator` under TaskTree; a slot reused while the last notifier still reads its parent;
   when 4096 unfinished tasks of a thread make it spin.
2. **IdGenerator**: blocks and times, under `Fresh`.
3. The rest of the world: inventory boxes (whose loop over unsaved children looks wrong, see the hazards), groups of
   the simulation, saving, other levels; active and sleeping objects and crows of the object list.
4. **MessageRegistry** and **Frame**: adding and removing handlers while a message is processed; the sequence on a worker.
5. **SoundEmitter**: the emitter's states, its target, the prefill task that may end before its pointer is stored.
6. Slots and weight of the **Inventory**, then the planner and A* as pure functions against reference definitions.

Left out of the modelled parts of the world: `teleport_object`
(`alife_update_manager.cpp:376-406`), by which a script takes an entity offline outside a pass, so that `OfflineIsOffLevel` and
`RemovedLeaves` say nothing of such an entity; what `DropItem` does to the lists of an inventory; migration between clients, phantoms and
respawning, clients that connect or leave, the forced takes of multiplayer, `GE_TRANSFER_AMMO` (nobody sends it), the
other kinds of events, and positions (whether an entity is near enough to be switched is a free choice).

Not planned: physics (numerical), rendering, file system, scripting bindings, user interface layout, network
transport below the queues, editors and tools, vendored code. They are I/O, drawing or arithmetic without a protocol
that a model checker could say something about; the monsters' and stalkers' behaviour depends on perception and
tuning data for which nothing in the repository says what would be correct.
