------------------------------ MODULE TaskQueue ------------------------------
(***************************************************************************)
(* TaskQueue (xrCore/Threading/TaskManager.cpp): a ring of task pointers   *)
(* that any thread may pop from or steal from, one atomic access per step. *)
(*                                                                         *)
(* An item is named by the position it was pushed at.  The positions are   *)
(* size_t counters that never wrap here (2^64 pushes).  VERIFY2 of push    *)
(* stops the program when the ring is full, so a push only goes on when it *)
(* passes.                                                                 *)
(***************************************************************************)
EXTENDS Integers

CONSTANTS
    Size,       \* TASK_STORAGE_SIZE, 4096 in the code
    Producers,  \* threads that push: the worker that owns the queue
    Consumers,  \* threads that pop or steal, the owner among them
    NoItem,     \* nullptr
    MaxPush,    \* bound on the number of pushes
    Tight       \* whether the ring may fill up as far as the overflow
                \* assertion lets it

Threads   == Producers \cup Consumers
Positions == 0..(MaxPush - 1)

ASSUME SizeAtLeastTwo == Size \in Nat /\ Size >= 2
ASSUME MaxPushNat     == MaxPush \in Nat
ASSUME NoItemIsNot    == NoItem \notin Int
ASSUME TightBoolean   == Tight \in BOOLEAN

VARIABLES
    head,       \* m_head_pos
    tail,       \* m_tail_pos
    slot,       \* m_storage
    pc,         \* what each thread is doing
    pos,        \* its local task_pos or head_pos
    item,       \* its local task
    takes       \* history: how often each item was handed to a popper

vars == <<head, tail, slot, pc, pos, item, takes>>

TypeOK ==
    /\ head  \in 0..tail
    /\ tail  \in 0..MaxPush
    /\ slot  \in [0..(Size - 1) -> Positions \cup {NoItem}]
    /\ pc    \in [Threads -> {"idle", "claimed", "loaded", "read", "won"}]
    /\ pos   \in [Threads -> Nat]
    /\ item  \in [Threads -> Positions \cup {NoItem}]
    /\ takes \in [Positions -> Nat]

Init ==
    /\ head  = 0
    /\ tail  = 0
    /\ slot  = [i \in 0..(Size - 1) |-> NoItem]
    /\ pc    = [th \in Threads |-> "idle"]
    /\ pos   = [th \in Threads |-> 0]
    /\ item  = [th \in Threads |-> NoItem]
    /\ takes = [x \in Positions |-> 0]

At(p) == p % Size       \* p & TASK_STORAGE_MASK

Go(th, from, to) == pc[th] = from /\ pc' = [pc EXCEPT ![th] = to]

-----------------------------------------------------------------------------
\* The ring keeps a free slot: few tasks are queued, and whoever has won a
\* position clears its slot before the tail comes round to it again.
KeepsSlack ==
    /\ tail + 1 < head + Size
    /\ \A c \in Threads : pc[c] = "won" => tail + 1 < pos[c] + Size

\* push: m_tail_pos.fetch_add(1)
Claim(th) ==
    /\ th \in Producers
    /\ tail < MaxPush
    /\ Tight \/ KeepsSlack
    /\ Go(th, "idle", "claimed")
    /\ pos'  = [pos EXCEPT ![th] = tail]
    /\ tail' = tail + 1
    /\ UNCHANGED <<head, slot, item, takes>>

\* VERIFY2(task_pos - m_head_pos < TASK_STORAGE_SIZE, "Task queue overflow")
HasRoomOrOneMore(th) == pos[th] - head <= Size
HasRoom(th) == pos[th] - head < Size

\* push: m_storage[task_pos & MASK] = task
Store(th) ==
    /\ HasRoom(th)
    /\ Go(th, "claimed", "idle")
    /\ slot' = [slot EXCEPT ![At(pos[th])] = pos[th]]
    /\ UNCHANGED <<head, tail, pos, item, takes>>

\* pop: head_pos = m_head_pos.load()
LoadHead(th) ==
    /\ th \in Consumers
    /\ Go(th, "idle", "loaded")
    /\ pos' = [pos EXCEPT ![th] = head]
    /\ UNCHANGED <<head, tail, slot, item, takes>>

\* pop: task = m_storage[head_pos & MASK]; if (!task) return nullptr
LoadSlot(th) ==
    LET task == slot[At(pos[th])]
    IN  /\ Go(th, "loaded", IF task = NoItem THEN "idle" ELSE "read")
        /\ item' = [item EXCEPT ![th] = task]
        /\ UNCHANGED <<head, tail, slot, pos, takes>>

\* compare_exchange_weak finds the value it expects
AlwaysExchanges(th) == TRUE
Exchanges(th) == head = pos[th]

Win(th) ==
    /\ Exchanges(th)
    /\ Go(th, "read", "won")
    /\ head'  = pos[th] + 1
    /\ takes' = [takes EXCEPT ![item[th]] = @ + 1]
    /\ UNCHANGED <<tail, slot, pos, item>>

\* The exchange fails, because head has moved or for no reason ("weak").
Lose(th) ==
    /\ Go(th, "read", "idle")
    /\ item' = [item EXCEPT ![th] = NoItem]
    /\ UNCHANGED <<head, tail, slot, pos, takes>>

\* What the winner leaves in its slot
Untouched(th) == slot[At(pos[th])]
Cleared(th) == NoItem

\* pop: m_storage[head_pos & MASK] = nullptr; return task
Clear(th) ==
    /\ Go(th, "won", "idle")
    /\ slot' = [slot EXCEPT ![At(pos[th])] = Cleared(th)]
    /\ item' = [item EXCEPT ![th] = NoItem]
    /\ UNCHANGED <<head, tail, pos, takes>>

Next == \E th \in Threads :
    \/ Claim(th) \/ Store(th)
    \/ LoadHead(th) \/ LoadSlot(th) \/ Win(th) \/ Lose(th) \/ Clear(th)

Spec == Init /\ [][Next]_vars

\* Every thread keeps running, the consumers keep polling, and one that
\* attempts the exchange again and again succeeds some time.
Fairness == \A th \in Threads :
    /\ WF_vars(Store(th))
    /\ WF_vars(LoadHead(th))
    /\ WF_vars(LoadSlot(th))
    /\ SF_vars(Win(th))
    /\ WF_vars(Lose(th))
    /\ WF_vars(Clear(th))

FairSpec == Spec /\ Fairness

-----------------------------------------------------------------------------
\* The item of every position between head and tail is in its slot, or the
\* pushing thread is about to store it: nothing that was pushed is
\* overwritten or cleared by anyone but the popper that won it.
NothingLost ==
    \A x \in Positions : head <= x /\ x < tail =>
        \/ slot[At(x)] = x
        \/ \E th \in Threads : pc[th] = "claimed" /\ pos[th] = x

\* Each item goes to exactly one popper, in the order of the positions: it
\* has been handed out once if the head has passed it, and not otherwise.
TakenOnceInOrder ==
    \A x \in Positions : takes[x] = IF x < head THEN 1 ELSE 0

\* The overflow assertion says that the slot a push writes is free: a store
\* that passes it never hits a slot that is still in use.
StoresIntoFreeSlot ==
    \A th \in Threads : pc[th] = "claimed" /\ HasRoom(th) =>
        slot[At(pos[th])] = NoItem

\* No popper receives an item twice or one that was never pushed, and (for
\* FairSpec) every pushed item is received: the queue implements TaskBag.
Bag == INSTANCE TaskBag WITH
    Items  <- Positions,
    queued <- {x \in Positions : head <= x /\ x < tail},
    taken  <- {x \in Positions : takes[x] > 0}

ImplementsBag     == Bag!Spec
ImplementsFairBag == Bag!FairSpec
=============================================================================
