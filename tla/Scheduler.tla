------------------------------ MODULE Scheduler ------------------------------
(***************************************************************************)
(* CSheduler (xrEngine/xrSheduler.cpp): the queue that calls               *)
(* shedule_Update of the game objects, on one thread.                      *)
(*                                                                         *)
(* What makes it hard is that the objects call back: an object may         *)
(* register, unregister, create or delete objects, itself too, while the   *)
(* scheduler walks its lists to call it.  An object stands for an address: *)
(* once deleted it may be created again.  The build is the release one,    *)
(* whose destructor unregisters; it does so also when the object is not    *)
(* registered.                                                             *)
(***************************************************************************)
EXTENDS Integers, SequencesExt

CONSTANTS
    Objects,        \* addresses of ISheduled objects
    Null,           \* nullptr
    Intervals,      \* dwUpdate: time from one update to when the next is due
    Batch,          \* 3: updates between two looks at the clock
    RealTimeLeave,  \* whether a real-time object may be unregistered while
                    \* the real-time objects are being updated
    MaxTime,        \* bound on Device.dwTimeGlobal
    MaxQueue        \* bound on the length of Registration

ASSUME NullIsNone      == Null \notin Objects
ASSUME IntervalsFuture == Intervals \subseteq Nat \ {0}
ASSUME BatchPositive   == Batch \in Nat \ {0}
ASSUME BoundsNat       == MaxTime \in Nat /\ MaxQueue \in Nat
ASSUME LeaveBoolean    == RealTimeLeave \in BOOLEAN

VARIABLES
    itemsRT,        \* ItemsRT, the objects only
    stale,          \* behind its end: the slots it had when its loop began
    items,          \* Items without those whose Object is nullptr
    holes,          \* how many such items there are, by dwTimeForExecute
    processed,      \* ItemsProcessed
    registration,   \* Registration
    current,        \* m_current_step_obj
    phase,          \* where Update is
    i,              \* the index of its loop
    callee,         \* whose shedule_Update is running, Null if none
    item,           \* the local item of ProcessStep
    now,            \* Device.dwTimeGlobal
    bRT,            \* shedule.b_RT of each object
    life,           \* "gone", "alive", or "leaving": getDestroy()
    wanted,         \* history: registered by its owner, and not unregistered
    updated         \* dbg_update_shedule: the objects updated in this frame

lists == <<itemsRT, stale, items, holes, processed>>
owners == <<bRT, life, wanted>>
vars == <<lists, registration, current, phase, i, callee, item, now, owners,
          updated>>

Requests == [op : BOOLEAN, rt : BOOLEAN, obj : Objects]
Item     == [obj : Objects, at : Nat, last : Nat]
NoItem   == [obj |-> Null, at |-> 0, last |-> 0]
Phases   == {"idle", "opening", "realtime", "step", "closing"}

\* Every variable has its type, the clock is looked at in every batch, and
\* there is a current object only while its update runs
TypeOK ==
    /\ itemsRT \in Seq(Objects) /\ stale \in Seq(Objects)
    /\ items \subseteq Item /\ processed \subseteq Item
    /\ holes \in [0..MaxTime + Max(Intervals) -> Nat]
    /\ registration \in Seq(Requests)
    /\ phase \in Phases
    /\ i \in Nat /\ (phase = "step" => i < Batch)
    /\ callee \in Objects \cup {Null} /\ current \in {callee, Null}
    /\ item \in Item \cup {NoItem}
    /\ now \in 0..MaxTime
    /\ bRT \in [Objects -> BOOLEAN]
    /\ life \in [Objects -> {"gone", "alive", "leaving"}]
    /\ wanted \in [Objects -> BOOLEAN]
    /\ updated \subseteq Objects

Init ==
    /\ itemsRT = <<>> /\ stale = <<>> /\ items = {} /\ processed = {}
    /\ holes = [t \in 0..MaxTime + Max(Intervals) |-> 0]
    /\ registration = <<>>
    /\ current = Null /\ callee = Null /\ item = NoItem
    /\ phase = "idle" /\ i = 0 /\ now = 0
    /\ bRT = [o \in Objects |-> FALSE]
    /\ life = [o \in Objects |-> "gone"]
    /\ wanted = [o \in Objects |-> FALSE]
    /\ updated = {}

-----------------------------------------------------------------------------
(* Taking an object out of the lists: internal_Unregister.                 *)

processingNow == phase \in {"realtime", "step"}     \* m_processing_now

\* Its result
Holds(o, rt) ==
    \/ rt /\ o \in Range(itemsRT)
    \/ ~rt /\ \E it \in items : it.obj = o
    \/ current = o

\* A bug the properties must find: the erase is forgotten
StaysRealTime(o) == UNCHANGED <<itemsRT, stale, items, holes, current>>

\* ItemsRT.erase: the items behind move up, the last slot keeps its contents
EraseRT(o) ==
    /\ itemsRT' = RemoveFirst(itemsRT, o)
    /\ stale' = IF phase = "realtime" THEN <<Last(itemsRT)>> \o stale ELSE stale
    /\ UNCHANGED <<items, holes, current>>

\* A bug the properties must find: Object is not set to nullptr
StaysInHeap(it) ==
    /\ holes' = [holes EXCEPT ![it.at] = @ + 1]
    /\ UNCHANGED <<itemsRT, stale, items, current>>

MakeHole(it) ==
    /\ items' = items \ {it}
    /\ holes' = [holes EXCEPT ![it.at] = @ + 1]
    /\ UNCHANGED <<itemsRT, stale, current>>

\* A bug the properties must find: m_current_step_obj is left as it is
StaysCurrent == UNCHANGED <<itemsRT, stale, items, holes, current>>

ForgetCurrent ==
    /\ current' = Null
    /\ UNCHANGED <<itemsRT, stale, items, holes>>

InternalUnregister(o, rt) ==
    \/ rt /\ o \in Range(itemsRT) /\ EraseRT(o)
    \/ ~rt /\ \E it \in items : it.obj = o /\ MakeHole(it)
    \/ /\ IF rt THEN o \notin Range(itemsRT) ELSE \A it \in items : it.obj # o
       /\ current = o
       /\ ForgetCurrent

-----------------------------------------------------------------------------
(* What the owners of objects do, between frames or inside an update.      *)

OwnersTurn == phase = "idle" \/ callee # Null

RoomInQueue == Len(registration) < MaxQueue

Request(op, rt, o) ==
    registration' = Append(registration, [op |-> op, rt |-> rt, obj |-> o])

\* The constructor does not set b_RT
Create(o) ==
    /\ OwnersTurn
    /\ life[o] = "gone"
    /\ life' = [life EXCEPT ![o] = "alive"]
    /\ \E rt \in BOOLEAN : bRT' = [bRT EXCEPT ![o] = rt]
    /\ UNCHANGED <<lists, registration, current, phase, i, callee, item, now,
                   wanted, updated>>

Register(o, rt) ==
    /\ OwnersTurn /\ RoomInQueue
    /\ life[o] = "alive" /\ ~wanted[o]
    /\ Request(TRUE, rt, o)
    /\ bRT' = [bRT EXCEPT ![o] = rt]
    /\ wanted' = [wanted EXCEPT ![o] = TRUE]
    /\ UNCHANGED <<lists, current, phase, i, callee, item, now, life, updated>>

\* setDestroy: shedule_Needed is false from now on
SetDestroy(o) ==
    /\ OwnersTurn
    /\ life[o] = "alive"
    /\ life' = [life EXCEPT ![o] = "leaving"]
    /\ UNCHANGED <<lists, registration, current, phase, i, callee, item, now,
                   bRT, wanted, updated>>

\* CSheduler::Unregister
UnregisterCall(o) ==
    /\ RealTimeLeave \/ phase # "realtime" \/ o \notin Range(itemsRT)
    /\ \/ /\ processingNow /\ Holds(o, bRT[o])
          /\ InternalUnregister(o, bRT[o])
          /\ UNCHANGED registration
       \/ /\ ~(processingNow /\ Holds(o, bRT[o]))
          /\ RoomInQueue
          /\ Request(FALSE, bRT[o], o)
          /\ UNCHANGED <<itemsRT, stale, items, holes, current>>
    /\ wanted' = [wanted EXCEPT ![o] = FALSE]
    /\ UNCHANGED <<processed, phase, i, callee, item, now, bRT, updated>>

Unregister(o) ==
    /\ OwnersTurn
    /\ wanted[o] /\ life[o] # "gone"
    /\ UnregisterCall(o)
    /\ UNCHANGED life

\* ~ScheduledBase
Delete(o) ==
    /\ OwnersTurn
    /\ life[o] # "gone"
    /\ life' = [life EXCEPT ![o] = "gone"]
    /\ UnregisterCall(o)

Owner ==
    \E o \in Objects :
        \/ Create(o)
        \/ \E rt \in BOOLEAN : Register(o, rt)
        \/ SetDestroy(o)
        \/ Unregister(o)
        \/ Delete(o)

-----------------------------------------------------------------------------
(* internal_Registration, one request at a time.                           *)

Draining == phase \in {"opening", "closing"} /\ registration # <<>>

Later == Tail(registration)

\* A bug the properties must find: requests are never paired
PairsNever(r, q) == FALSE

\* The first unregister of the same object further down the queue
IsPair(r, q) == ~q.op /\ q.obj = r.obj
PairOf(r) == SelectInSeq(Later, LAMBDA q : IsPair(r, q))

Cancel ==
    /\ Draining
    /\ LET r == Head(registration) IN
         /\ r.op /\ PairOf(r) # 0
         /\ registration' = RemoveAt(Later, PairOf(r))
    /\ UNCHANGED <<lists, current, phase, i, callee, item, now, owners, updated>>

\* internal_Register
Enlist ==
    /\ Draining
    /\ LET r == Head(registration) IN
         /\ r.op /\ PairOf(r) = 0
         /\ bRT' = [bRT EXCEPT ![r.obj] = r.rt]
         /\ \/ /\ r.rt
               /\ itemsRT' = Append(itemsRT, r.obj)
               /\ UNCHANGED items
            \/ /\ ~r.rt
               /\ items' = items \cup {[obj |-> r.obj, at |-> now, last |-> now]}
               /\ UNCHANGED itemsRT
    /\ registration' = Later
    /\ UNCHANGED <<stale, holes, processed, current, phase, i, callee, item,
                   now, life, wanted, updated>>

Strike ==
    /\ Draining
    /\ LET r == Head(registration) IN
         /\ ~r.op
         /\ \/ InternalUnregister(r.obj, r.rt)
            \/ /\ ~Holds(r.obj, r.rt)
               /\ UNCHANGED <<itemsRT, stale, items, holes, current>>
    /\ registration' = Later
    /\ UNCHANGED <<processed, phase, i, callee, item, now, owners, updated>>

-----------------------------------------------------------------------------
(* Update: a frame.                                                        *)

Begin ==
    /\ phase = "idle" /\ now < MaxTime
    /\ now' = now + 1
    /\ phase' = "opening"
    /\ updated' = {}
    /\ UNCHANGED <<lists, registration, current, i, callee, item, owners>>

StartProcessing ==
    /\ phase = "opening" /\ registration = <<>>
    /\ phase' = "realtime"
    /\ i' = 1
    /\ UNCHANGED <<lists, registration, current, callee, item, now, owners,
                   updated>>

End ==
    /\ phase = "closing" /\ registration = <<>>
    /\ phase' = "idle"
    /\ UNCHANGED <<lists, registration, current, i, callee, item, now, owners,
                   updated>>

\* The range-based for over ItemsRT keeps the end it had at first
Slots == itemsRT \o stale

NextRT ==
    /\ phase = "realtime" /\ callee = Null /\ i <= Len(Slots)
    /\ \/ /\ life[Slots[i]] # "alive"       \* !shedule_Needed()
          /\ i' = i + 1
          /\ UNCHANGED <<callee, updated>>
       \/ /\ life[Slots[i]] = "alive"
          /\ callee' = Slots[i]
          /\ updated' = updated \cup {Slots[i]}
          /\ UNCHANGED i
    /\ UNCHANGED <<lists, registration, current, phase, item, now, owners>>

ReturnRT ==
    /\ phase = "realtime" /\ callee # Null
    /\ callee' = Null
    /\ i' = i + 1
    /\ UNCHANGED <<lists, registration, current, phase, item, now, owners,
                   updated>>

DoneRT ==
    /\ phase = "realtime" /\ callee = Null /\ i > Len(Slots)
    /\ phase' = "step"
    /\ i' = 0
    /\ stale' = <<>>
    /\ UNCHANGED <<itemsRT, items, holes, processed, registration, current,
                   callee, item, now, owners, updated>>

-----------------------------------------------------------------------------
(* ProcessStep.                                                            *)

\* The front of the heap: any item or hole that nothing precedes
Times == {it.at : it \in items} \cup {t \in DOMAIN holes : holes[t] > 0}
IsTop(t) == t < now /\ \A u \in Times : t <= u

\* A bug the properties must find: % 3 is forgotten
AdvanceForEver(n) == n + 1

Advance(n) == (n + 1) % Batch

SkipHole ==
    /\ phase = "step" /\ callee = Null
    /\ \E t \in DOMAIN holes :
         /\ holes[t] > 0 /\ IsTop(t)
         /\ holes' = [holes EXCEPT ![t] = @ - 1]
    /\ i' = Advance(i)
    /\ UNCHANGED <<itemsRT, stale, items, processed, registration, current,
                   phase, callee, item, now, owners, updated>>

\* !shedule_Needed()
SkipUnneeded ==
    /\ phase = "step" /\ callee = Null
    /\ \E it \in items :
         /\ IsTop(it.at) /\ life[it.obj] # "alive"
         /\ items' = items \ {it}
    /\ i' = Advance(i)
    /\ UNCHANGED <<itemsRT, stale, holes, processed, registration, current,
                   phase, callee, item, now, owners, updated>>

CallTop ==
    /\ phase = "step" /\ callee = Null
    /\ \E it \in items :
         /\ IsTop(it.at) /\ life[it.obj] = "alive"
         /\ items' = items \ {it}
         /\ item' = it
         /\ callee' = it.obj /\ current' = it.obj
         /\ updated' = updated \cup {it.obj}
    /\ UNCHANGED <<itemsRT, stale, holes, processed, registration, phase, i,
                   now, owners>>

\* It unregistered itself: no look at the clock either
ReturnGone ==
    /\ phase = "step" /\ callee # Null /\ current = Null
    /\ callee' = Null /\ item' = NoItem
    /\ i' = Advance(i)
    /\ UNCHANGED <<lists, registration, current, phase, now, owners, updated>>

\* A bug the properties must find: dwTimeForExecute keeps its value
AtOnceAgain(it, d) == [it EXCEPT !.last = now]

Again(it, d) == [it EXCEPT !.at = now + d, !.last = now]

\* Pushing back what was processed
PutBack(done) ==
    /\ phase' = "closing"
    /\ items' = items \cup done
    /\ processed' = {}

ReturnFrom ==
    /\ phase = "step" /\ callee # Null /\ current # Null
    /\ callee' = Null /\ current' = Null /\ item' = NoItem
    /\ i' = Advance(i)
    /\ \E d \in Intervals :
         LET done == processed \cup {Again(item, d)} IN
         \/ processed' = done /\ UNCHANGED <<items, phase>>
         \/ Advance(i) = 0 /\ PutBack(done)         \* CPU::QPC() > cycles_limit
    /\ UNCHANGED <<itemsRT, stale, holes, registration, now, owners, updated>>

NothingDue ==
    /\ phase = "step" /\ callee = Null
    /\ \A t \in Times : t >= now
    /\ PutBack(processed)
    /\ UNCHANGED <<itemsRT, stale, holes, registration, current, i, callee,
                   item, now, owners, updated>>

Frame ==
    \/ Begin \/ StartProcessing \/ End
    \/ Cancel \/ Enlist \/ Strike
    \/ NextRT \/ ReturnRT \/ DoneRT
    \/ SkipHole \/ SkipUnneeded \/ CallTop \/ ReturnGone \/ ReturnFrom
    \/ NothingDue

Next == Owner \/ Frame

Spec == Init /\ [][Next]_vars

-----------------------------------------------------------------------------
(* Properties.                                                             *)

Places(o) ==
    Cardinality({k \in DOMAIN itemsRT : itemsRT[k] = o})
    + Cardinality({it \in items : it.obj = o})
    + Cardinality({it \in processed : it.obj = o})
    + (IF current = o THEN 1 ELSE 0)

\* The assertions of CSheduler::Registered: no object is in two lists, or
\* twice in one, however often it has changed its mind in a frame.
InOnePlace == \A o \in Objects : Places(o) <= 1

RequestsOf(o) == {k \in DOMAIN registration : registration[k].obj = o}
Scheduled(o) ==
    IF RequestsOf(o) = {} THEN Places(o) > 0 ELSE registration[Max(RequestsOf(o))].op

\* Whatever was requested between frames or inside updates, and wherever the
\* object was at that moment, the scheduler ends up with what its owner
\* asked for last; only an object that is not needed any more may be dropped.
FollowsOwners ==
    \A o \in Objects :
        /\ wanted[o] /\ life[o] = "alive" => Scheduled(o)
        /\ Scheduled(o) => wanted[o]

\* The scheduler never calls into a deleted object: not when its turn comes,
\* not when a pending registration is carried out.
CallsTheLiving ==
    /\ phase = "realtime" /\ callee = Null /\ i <= Len(Slots) =>
           life[Slots[i]] # "gone"
    /\ phase = "step" /\ callee = Null =>
           \A it \in items : IsTop(it.at) => life[it.obj] # "gone"
    /\ Draining /\ Head(registration).op /\ PairOf(Head(registration)) = 0 =>
           life[Head(registration).obj] # "gone"

\* ScheduledBase::shedule_Update: "called twice per frame" never fires.
OncePerFrame ==
    [][callee = Null /\ callee' # Null => callee' \notin updated]_vars

\* Nobody gets a second turn while an item waits that was due before the
\* first one: an overloaded scheduler goes round.
FairTurns == item # NoItem => \A it \in items : it.at >= item.last
=============================================================================
