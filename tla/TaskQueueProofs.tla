--------------------------- MODULE TaskQueueProofs ---------------------------
(***************************************************************************)
(* TaskQueue for any ring size, any number of threads and any number of    *)
(* pushes, as long as the ring keeps a free slot (Tight = FALSE): no item  *)
(* is lost, none is handed out twice.                                      *)
(***************************************************************************)
EXTENDS TaskQueue, TLAPS

\* Two positions less than a lap apart share a slot only if they are equal.
LEMMA SlotsApart ==
    ASSUME NEW x \in Nat, NEW y \in Nat, x <= y, y < x + Size, At(x) = At(y)
    PROVE  x = y
<1> DEFINE r == x % Size
           k == x \div Size
           l == y \div Size
<1>1. /\ k \in Nat /\ l \in Nat /\ r \in Nat
      /\ x = Size * k + r /\ y = Size * l + r
  BY SizeAtLeastTwo DEF At
<1> HIDE DEF k, l, r
<1>2. Size * (l - k) < Size /\ 0 <= Size * (l - k)
  BY <1>1, SizeAtLeastTwo
<1>3. l - k < 1 /\ l - k >= 0
  BY <1>1, <1>2, SizeAtLeastTwo
<1> QED
  BY <1>1, <1>3, SizeAtLeastTwo

-----------------------------------------------------------------------------
\* The ring is never full.
Roomy == tail < head + Size

\* Each pushing thread holds a position of its own between head and tail.
ClaimsDistinct ==
    /\ \A c \in Threads : pc[c] = "claimed" => head <= pos[c] /\ pos[c] < tail
    /\ \A c, d \in Threads :
          pc[c] = "claimed" /\ pc[d] = "claimed" /\ pos[c] = pos[d] => c = d

\* Each winner holds a position of its own that the head has passed and the
\* tail has not come round to.
WinsDistinct ==
    /\ \A c \in Threads : pc[c] = "won" => pos[c] < head /\ tail < pos[c] + Size
    /\ \A c, d \in Threads :
          pc[c] = "won" /\ pc[d] = "won" /\ pos[c] = pos[d] => c = d

\* A filled slot holds an item that is queued or being taken, at its place.
SlotsLive ==
    \A i \in 0..(Size - 1) : slot[i] # NoItem =>
        /\ At(slot[i]) = i
        /\ slot[i] < tail
        /\ \A c \in Threads : pc[c] = "claimed" => pos[c] # slot[i]
        /\ \/ head <= slot[i]
           \/ \E c \in Threads : pc[c] = "won" /\ pos[c] = slot[i]

\* What a popper has read is what the head position holds, unless the head
\* has moved since and its exchange is bound to fail.
ReadsFresh ==
    \A c \in Threads :
        /\ pc[c] \in {"loaded", "read"} => pos[c] <= head
        /\ pc[c] = "read" => item[c] # NoItem
        /\ pc[c] = "read" /\ pos[c] = head =>
              item[c] = head /\ slot[At(head)] = head

IInv ==
    /\ TypeOK /\ Roomy /\ ClaimsDistinct /\ WinsDistinct /\ SlotsLive
    /\ ReadsFresh /\ NothingLost /\ TakenOnceInOrder

LEMMA AtRange == ASSUME NEW x \in Nat PROVE At(x) \in 0..(Size - 1)
BY SizeAtLeastTwo DEF At

LEMMA InitIInv == Init => IInv
<1> USE SizeAtLeastTwo, MaxPushNat DEF Init
<1>1. Init => TypeOK
  BY DEF TypeOK
<1>2. Init => Roomy /\ ClaimsDistinct /\ WinsDistinct /\ SlotsLive /\ ReadsFresh
  BY DEF Roomy, ClaimsDistinct, WinsDistinct, SlotsLive, ReadsFresh
<1>3. Init => NothingLost /\ TakenOnceInOrder
  BY DEF NothingLost, TakenOnceInOrder, Positions
<1> QED
  BY <1>1, <1>2, <1>3 DEF IInv

LEMMA ClaimKeepsIInv ==
    ASSUME IInv, Tight = FALSE, NEW th \in Threads, Claim(th)
    PROVE  IInv'
<1> USE SizeAtLeastTwo, MaxPushNat DEF IInv, Claim, Go
<1>1. TypeOK'
  BY DEF TypeOK
<1>2. Roomy' /\ ClaimsDistinct'
  BY DEF TypeOK, Roomy, KeepsSlack, ClaimsDistinct
<1>3. WinsDistinct'
  BY DEF TypeOK, KeepsSlack, WinsDistinct
<1>4. SlotsLive'
  BY NoItemIsNot DEF TypeOK, SlotsLive, Positions
<1>5. ReadsFresh'
  BY DEF TypeOK, ReadsFresh
<1>6. NothingLost' /\ TakenOnceInOrder'
  BY DEF TypeOK, NothingLost, TakenOnceInOrder, Positions
<1> QED
  BY <1>1, <1>2, <1>3, <1>4, <1>5, <1>6

LEMMA StoreKeepsIInv ==
    ASSUME IInv, NEW th \in Threads, Store(th)
    PROVE  IInv'
<1> USE SizeAtLeastTwo, MaxPushNat, NoItemIsNot DEF IInv, Store, Go
<1> DEFINE x == pos[th]
<1>1. /\ x \in Positions /\ head <= x /\ x < tail
      /\ At(x) \in 0..(Size - 1)
  BY AtRange DEF TypeOK, ClaimsDistinct, Positions
<1>2. \A y \in Positions : head <= y /\ y < tail /\ At(y) = At(x) => y = x
  BY <1>1, SlotsApart DEF TypeOK, Roomy, Positions
<1>3. TypeOK'
  BY <1>1 DEF TypeOK
<1>4. Roomy' /\ ClaimsDistinct' /\ WinsDistinct' /\ TakenOnceInOrder'
  BY DEF TypeOK, Roomy, ClaimsDistinct, WinsDistinct, TakenOnceInOrder
<1>5. SlotsLive'
  BY <1>1 DEF TypeOK, SlotsLive, ClaimsDistinct, Positions
<1>6. NothingLost'
  BY <1>1, <1>2 DEF TypeOK, NothingLost, Positions
<1>7. ReadsFresh'
  BY <1>1, <1>2, AtRange DEF TypeOK, ReadsFresh, Positions
<1> QED
  BY <1>3, <1>4, <1>5, <1>6, <1>7

LEMMA LoadHeadKeepsIInv ==
    ASSUME IInv, NEW th \in Threads, LoadHead(th)
    PROVE  IInv'
<1> USE SizeAtLeastTwo, MaxPushNat DEF IInv, LoadHead, Go
<1>1. TypeOK' /\ Roomy' /\ ClaimsDistinct' /\ WinsDistinct'
  BY DEF TypeOK, Roomy, ClaimsDistinct, WinsDistinct
<1>2. SlotsLive'
  BY DEF TypeOK, SlotsLive
<1>3. ReadsFresh' /\ NothingLost' /\ TakenOnceInOrder'
  BY DEF TypeOK, ReadsFresh, NothingLost, TakenOnceInOrder
<1> QED
  BY <1>1, <1>2, <1>3

LEMMA LoadSlotKeepsIInv ==
    ASSUME IInv, NEW th \in Threads, LoadSlot(th)
    PROVE  IInv'
<1> USE SizeAtLeastTwo, MaxPushNat, NoItemIsNot DEF IInv, LoadSlot, Go
<1> DEFINE task == slot[At(pos[th])]
<1>1. At(pos[th]) \in 0..(Size - 1) /\ pos[th] \in Nat
  BY AtRange DEF TypeOK
<1>2. TypeOK' /\ Roomy' /\ ClaimsDistinct' /\ WinsDistinct'
  BY <1>1 DEF TypeOK, Roomy, ClaimsDistinct, WinsDistinct
<1>3. SlotsLive' /\ NothingLost' /\ TakenOnceInOrder'
  BY DEF TypeOK, SlotsLive, NothingLost, TakenOnceInOrder
<1>4. task # NoItem /\ pos[th] = head => task = head
  <2> SUFFICES ASSUME task # NoItem, pos[th] = head PROVE task = head
    OBVIOUS
  <2>1. /\ task \in Nat /\ At(task) = At(head) /\ task < tail
        /\ head <= task \/ (task < head /\ tail < task + Size)
    BY <1>1 DEF TypeOK, SlotsLive, WinsDistinct, Positions
  <2>2. head \in Nat /\ tail \in Nat /\ head <= tail /\ tail < head + Size
    BY DEF TypeOK, Roomy
  <2>3. CASE head <= task
    BY <2>1, <2>2, <2>3, SlotsApart
  <2>4. CASE task < head /\ tail < task + Size
    BY <2>1, <2>2, <2>4, SlotsApart
  <2> QED
    BY <2>1, <2>3, <2>4
<1>5. ReadsFresh'
  BY <1>1, <1>4 DEF TypeOK, ReadsFresh
<1> QED
  BY <1>2, <1>3, <1>5

LEMMA WinKeepsIInv ==
    ASSUME IInv, NEW th \in Threads, Win(th)
    PROVE  IInv'
<1> USE SizeAtLeastTwo, MaxPushNat, NoItemIsNot DEF IInv, Win, Go, Exchanges
<1>1. /\ head \in Nat /\ pos[th] = head /\ item[th] = head
      /\ slot[At(head)] = head /\ At(head) \in 0..(Size - 1)
      /\ head \in Positions
  BY AtRange DEF TypeOK, ReadsFresh
<1>2. head < tail /\ \A c \in Threads : pc[c] = "claimed" => pos[c] # head
  BY <1>1 DEF SlotsLive
<1>3. TypeOK' /\ Roomy' /\ ClaimsDistinct'
  BY <1>1, <1>2 DEF TypeOK, Roomy, ClaimsDistinct
<1>4. WinsDistinct'
  BY <1>1, <1>2 DEF TypeOK, Roomy, WinsDistinct
<1>5. /\ pc'[th] = "won" /\ pc[th] = "read" /\ head' = head + 1
      /\ \A c \in Threads : c # th => pc'[c] = pc[c]
      /\ UNCHANGED <<tail, slot, pos>>
  BY <1>1 DEF TypeOK
<1>6. SlotsLive'
  <2> SUFFICES ASSUME NEW i \in 0..(Size - 1), slot[i] # NoItem
               PROVE  /\ At(slot[i]) = i
                      /\ slot[i] < tail
                      /\ \A c \in Threads : pc'[c] = "claimed" => pos[c] # slot[i]
                      /\ \/ head + 1 <= slot[i]
                         \/ \E c \in Threads : pc'[c] = "won" /\ pos[c] = slot[i]
    BY <1>5 DEF SlotsLive, At
  <2>1. slot[i] \in Nat
    BY DEF TypeOK, Positions
  <2>2. CASE slot[i] = head
    BY <1>1, <1>2, <1>5, <2>2 DEF SlotsLive
  <2>3. CASE slot[i] # head
    BY <1>1, <1>5, <2>1, <2>3 DEF SlotsLive
  <2> QED
    BY <2>2, <2>3
<1>7. ReadsFresh'
  BY <1>1 DEF TypeOK, ReadsFresh
<1>8. NothingLost'
  BY <1>1, <1>5 DEF NothingLost, Positions, At
<1>9. TakenOnceInOrder'
  BY <1>1 DEF TypeOK, TakenOnceInOrder, Positions
<1> QED
  BY <1>3, <1>4, <1>6, <1>7, <1>8, <1>9

LEMMA LoseKeepsIInv ==
    ASSUME IInv, NEW th \in Threads, Lose(th)
    PROVE  IInv'
<1> USE SizeAtLeastTwo, MaxPushNat DEF IInv, Lose, Go
<1>1. TypeOK' /\ Roomy' /\ ClaimsDistinct' /\ WinsDistinct'
  BY DEF TypeOK, Roomy, ClaimsDistinct, WinsDistinct
<1>2. SlotsLive' /\ ReadsFresh' /\ NothingLost' /\ TakenOnceInOrder'
  BY DEF TypeOK, SlotsLive, ReadsFresh, NothingLost, TakenOnceInOrder
<1> QED
  BY <1>1, <1>2

LEMMA ClearKeepsIInv ==
    ASSUME IInv, NEW th \in Threads, Clear(th)
    PROVE  IInv'
<1> USE SizeAtLeastTwo, MaxPushNat, NoItemIsNot DEF IInv, Clear, Go, Cleared
<1> DEFINE x == pos[th]
<1>1. x \in Nat /\ x < head /\ tail < x + Size /\ At(x) \in 0..(Size - 1)
  BY AtRange DEF TypeOK, WinsDistinct
<1>2. \A y \in Nat : head <= y /\ y <= tail => At(y) # At(x)
  BY <1>1, SlotsApart DEF TypeOK
<1>3. TypeOK' /\ Roomy' /\ ClaimsDistinct' /\ WinsDistinct' /\ TakenOnceInOrder'
  BY <1>1 DEF TypeOK, Roomy, ClaimsDistinct, WinsDistinct, TakenOnceInOrder
<1>4. SlotsLive'
  BY <1>1 DEF TypeOK, SlotsLive, Positions
<1>5. NothingLost'
  BY <1>1, <1>2 DEF TypeOK, NothingLost, Positions
<1>6. ReadsFresh'
  BY <1>1, <1>2 DEF TypeOK, ReadsFresh, Positions
<1> QED
  BY <1>3, <1>4, <1>5, <1>6

-----------------------------------------------------------------------------
LEMMA StepKeepsIInv == Tight = FALSE /\ IInv /\ [Next]_vars => IInv'
<1> SUFFICES ASSUME Tight = FALSE, IInv, [Next]_vars PROVE IInv'
  OBVIOUS
<1>1. CASE UNCHANGED vars
  <2> USE <1>1 DEF vars, IInv
  <2>1. TypeOK' /\ Roomy' /\ ClaimsDistinct' /\ WinsDistinct'
    BY DEF TypeOK, Roomy, ClaimsDistinct, WinsDistinct
  <2>2. SlotsLive' /\ ReadsFresh' /\ NothingLost' /\ TakenOnceInOrder'
    BY DEF SlotsLive, ReadsFresh, NothingLost, TakenOnceInOrder, At
  <2> QED
    BY <2>1, <2>2
<1>2. CASE Next
  <2> PICK th \in Threads : \/ Claim(th) \/ Store(th)
                            \/ LoadHead(th) \/ LoadSlot(th)
                            \/ Win(th) \/ Lose(th) \/ Clear(th)
    BY <1>2 DEF Next
  <2> QED
    BY ClaimKeepsIInv, StoreKeepsIInv, LoadHeadKeepsIInv, LoadSlotKeepsIInv,
       WinKeepsIInv, LoseKeepsIInv, ClearKeepsIInv
<1> QED
  BY <1>1, <1>2

LEMMA Inductive == ASSUME Tight = FALSE PROVE Spec => []IInv
<1>1. IInv /\ [Next]_vars => IInv'
  BY StepKeepsIInv
<1> QED
  BY <1>1, InitIInv, PTL DEF Spec

\* The positions and registers keep their types, and head never passes tail.
THEOREM TypeCorrect == ASSUME Tight = FALSE PROVE Spec => []TypeOK
<1>1. IInv => TypeOK
  BY DEF IInv
<1> QED
  BY <1>1, Inductive, PTL

\* TaskManager.cpp:94-115: as long as the ring keeps a free slot, every item
\* that was pushed and not popped is in the ring.
THEOREM Lossless == ASSUME Tight = FALSE PROVE Spec => []NothingLost
<1>1. IInv => NothingLost
  BY DEF IInv
<1> QED
  BY <1>1, Inductive, PTL

\* TaskManager.cpp:108: the exchange on the head hands each item to exactly
\* one popper, in the order of the pushes.
THEOREM HandedOnce == ASSUME Tight = FALSE PROVE Spec => []TakenOnceInOrder
<1>1. IInv => TakenOnceInOrder
  BY DEF IInv
<1> QED
  BY <1>1, Inductive, PTL

\* TaskManager.cpp:97: then the overflow assertion is as good as its text.
THEOREM FreeSlot == ASSUME Tight = FALSE PROVE Spec => []StoresIntoFreeSlot
<1>1. IInv => StoresIntoFreeSlot
  <2> SUFFICES ASSUME IInv, NEW th \in Threads, pc[th] = "claimed",
                      slot[At(pos[th])] # NoItem
               PROVE  FALSE
    BY DEF StoresIntoFreeSlot
  <2> DEFINE y == slot[At(pos[th])]
  <2>1. /\ pos[th] \in Nat /\ head <= pos[th] /\ pos[th] < tail
        /\ tail \in Nat /\ head \in Nat /\ tail < head + Size
    BY DEF IInv, TypeOK, ClaimsDistinct, Roomy
  <2>2. /\ y \in Nat /\ At(y) = At(pos[th]) /\ y < tail /\ y # pos[th]
        /\ head <= y \/ (y < head /\ tail < y + Size)
    <3>1. At(pos[th]) \in 0..(Size - 1)
      BY <2>1, AtRange
    <3>2. y \in Nat
      BY <3>1, NoItemIsNot DEF IInv, TypeOK, Positions
    <3> QED
      BY <3>1, <3>2 DEF IInv, TypeOK, SlotsLive, WinsDistinct
  <2>3. CASE head <= y /\ y <= pos[th]
    BY <2>1, <2>2, <2>3, SlotsApart, SizeAtLeastTwo
  <2>4. CASE head <= y /\ pos[th] <= y
    BY <2>1, <2>2, <2>4, SlotsApart, SizeAtLeastTwo
  <2>5. CASE y < head /\ tail < y + Size
    BY <2>1, <2>2, <2>5, SlotsApart, SizeAtLeastTwo
  <2> QED
    BY <2>1, <2>2, <2>3, <2>4, <2>5
<1> QED
  BY <1>1, Inductive, PTL

-----------------------------------------------------------------------------
\* Each step of the ring is a Put, a Take or a stutter of the bag.
LEMMA StepIsBagStep ==
    ASSUME IInv, IInv', Tight = FALSE, [Next]_vars
    PROVE  [Bag!Next]_(Bag!vars)
<1> DEFINE queued == {x \in Positions : head <= x /\ x < tail}
           taken  == {x \in Positions : takes[x] > 0}
<1>1. taken = {x \in Positions : x < head}
  BY DEF IInv, TakenOnceInOrder
<1>2. taken' = {x \in Positions : x < head'}
  BY DEF IInv, TakenOnceInOrder
<1>3. /\ head \in Nat /\ tail \in Nat /\ head <= tail
      /\ Positions \subseteq Nat
  BY DEF IInv, TypeOK, Positions
<1>4. CASE \E th \in Threads : Claim(th)
  <2>1. head' = head /\ tail' = tail + 1 /\ tail \in Positions
    BY <1>3, <1>4, MaxPushNat DEF Claim, Positions
  <2>2. tail \notin queued \cup taken
    BY <1>1, <1>3
  <2>3. queued' = queued \cup {tail}
    <3>1. \A x \in Positions :
            head <= x /\ x < tail + 1 <=> (head <= x /\ x < tail) \/ x = tail
      BY <1>3
    <3> QED
      BY <2>1, <3>1
  <2>4. taken' = taken
    BY <1>1, <1>2, <2>1
  <2> QED
    BY <2>1, <2>2, <2>3, <2>4 DEF Bag!Next, Bag!Put
<1>5. CASE \E th \in Threads : Win(th)
  <2>1. head' = head + 1 /\ tail' = tail
    BY <1>5 DEF Win, Exchanges
  <2>2. head < tail
    BY <1>3, <2>1 DEF IInv, TypeOK
  <2>3. head \in Positions
    BY <1>3, <2>2, MaxPushNat DEF IInv, TypeOK, Positions
  <2>4. head \in queued
    BY <1>3, <2>2, <2>3
  <2>5. queued' = queued \ {head}
    <3>1. \A x \in Positions :
            head + 1 <= x /\ x < tail <=> (head <= x /\ x < tail) /\ x # head
      BY <1>3
    <3> QED
      BY <2>1, <3>1
  <2>6. taken' = taken \cup {head}
    <3>1. \A x \in Positions : x < head + 1 <=> x < head \/ x = head
      BY <1>3
    <3> QED
      BY <1>1, <1>2, <2>1, <2>3, <3>1
  <2> QED
    BY <2>3, <2>4, <2>5, <2>6 DEF Bag!Next, Bag!Take
<1>6. CASE UNCHANGED <<head, tail, takes>>
  BY <1>6 DEF Bag!vars
<1> QED
  BY <1>4, <1>5, <1>6
     DEF Next, vars, Store, LoadHead, LoadSlot, Lose, Clear

\* The queue implements the bag of tasks that the task manager relies on.
THEOREM Implements == ASSUME Tight = FALSE PROVE Spec => ImplementsBag
<1>1. Init => Bag!Init
  BY MaxPushNat DEF Init, Bag!Init, Positions
<1>2. IInv /\ IInv' /\ [Next]_vars => [Bag!Next]_(Bag!vars)
  BY StepIsBagStep
<1> QED
  BY <1>1, <1>2, Inductive, PTL DEF Spec, ImplementsBag, Bag!Spec
=============================================================================
