--------------------------- MODULE SchedulerProofs ---------------------------
(***************************************************************************)
(* Scheduler for any number of objects, any intervals and any batch: an    *)
(* object is in one place, the scheduler follows what the owners asked for *)
(* last, calls only objects that exist, once in a frame, and in turn.      *)
(***************************************************************************)
EXTENDS Scheduler, SequenceLemmas

InRT(o)        == o \in Range(itemsRT)
InItems(o)     == \E it \in items : it.obj = o
InProcessed(o) == \E it \in processed : it.obj = o
Placed(o)      == InRT(o) \/ InItems(o) \/ InProcessed(o) \/ current = o

Processing == phase \in {"realtime", "step"}

\* An object is in one of the four places, once.
OneItem(S) == \A it, jt \in S : it.obj = jt.obj => it = jt

Apart ==
    /\ Distinct(itemsRT) /\ OneItem(items) /\ OneItem(processed)
    /\ \A o \in Objects :
          /\ InRT(o) => ~InItems(o) /\ ~InProcessed(o) /\ current # o
          /\ InItems(o) => ~InProcessed(o) /\ current # o
          /\ InProcessed(o) => current # o

\* What a phase has in hand
Hands ==
    /\ callee # Null => Processing
    /\ current # Null => phase = "step"
    /\ item # NoItem => phase = "step" /\ callee = item.obj
    /\ current # Null => item # NoItem
    /\ phase # "step" => processed = {}
    /\ phase # "realtime" => stale = <<>>
    /\ phase = "realtime" => i # 0

\* The requests of one object in a queue: its first, its last, and that it is
\* not registered twice without being unregistered in between.
IsFirst(q, k) == \A j \in DOMAIN q : q[j].obj = q[k].obj => k <= j
IsLast(q, k)  == \A j \in DOMAIN q : q[j].obj = q[k].obj => j <= k

Alternate(q) ==
    \A j, k \in DOMAIN q :
        j < k /\ q[j].obj = q[k].obj /\ q[j].op /\ q[k].op =>
            \E m \in DOMAIN q : j < m /\ m < k /\ q[m].obj = q[j].obj /\ ~q[m].op

Unasked(o) == \A k \in DOMAIN registration : registration[k].obj # o

\* The first request of an object in a list takes it from there; the last one
\* of any object is what its owner wants.
FirstStrikes ==
    \A k \in DOMAIN registration :
        IsFirst(registration, k) /\ Placed(registration[k].obj) =>
            /\ ~registration[k].op
            /\ registration[k].rt <=> InRT(registration[k].obj)

LastIsWish ==
    \A k \in DOMAIN registration : IsLast(registration, k) =>
        /\ registration[k].op <=> wanted[registration[k].obj]
        /\ registration[k].op => (registration[k].rt <=> bRT[registration[k].obj])

\* Without a request an object is where its owner wants it, or was dropped.
Settled ==
    \A o \in Objects : Unasked(o) =>
        /\ Placed(o) => wanted[o] /\ (bRT[o] <=> InRT(o))
        /\ wanted[o] /\ ~Placed(o) => life[o] # "alive"

\* While the objects are being updated nothing is asked of one that may still
\* be called.
Undisturbed ==
    Processing =>
        \A o \in Objects : InRT(o) \/ InItems(o) \/ current = o => Unasked(o)

WantedLive == \A o \in Objects : wanted[o] => life[o] # "gone"

\* Due times lie ahead, and the item in hand was due first.
InTurn ==
    /\ \A it \in items \cup processed : it.last <= it.at
    /\ item # NoItem => item.last <= item.at /\ \A it \in items : item.at <= it.at

Queue == Alternate(registration) /\ FirstStrikes /\ LastIsWish /\ Settled

IInv == TypeOK /\ Apart /\ Hands /\ Queue /\ Undisturbed /\ WantedLive /\ InTurn

\* While no real-time object leaves during their updates, no slot is left
\* behind, and who was updated in this frame has had its turn.
NoneLeft == stale = <<>>

HadTurn ==
    /\ phase = "opening" => updated = {}
    /\ phase = "realtime" =>
          \A o \in updated : \E k \in DOMAIN itemsRT :
              itemsRT[k] = o /\ (k < i \/ (k = i /\ callee # Null))
    /\ phase = "step" => \A it \in items : it.obj \notin updated

CInv == NoneLeft /\ HadTurn
-----------------------------------------------------------------------------
USE NullIsNone, IntervalsFuture, BatchPositive, BoundsNat, LeaveBoolean

(* Queues of requests *)

\* r is what is left of q, at the positions f, when requests of o are taken
\* out that precede the other requests of o.
Thinned(q, r, f, o) ==
    /\ \A k \in DOMAIN r : f[k] \in DOMAIN q /\ r[k] = q[f[k]]
    /\ \A j, k \in DOMAIN r : j < k <=> f[j] < f[k]
    /\ \A j \in DOMAIN q :
          \/ \E k \in DOMAIN r : f[k] = j
          \/ q[j].obj = o /\ \A k \in DOMAIN r : r[k].obj = o => j < f[k]

LEMMA ThinnedKeeps ==
    ASSUME NEW q \in Seq(Requests), NEW r \in Seq(Requests), NEW f, NEW o,
           Thinned(q, r, f, o), Alternate(q)
    PROVE  /\ Alternate(r)
           /\ \A k \in DOMAIN r : IsLast(r, k) => IsLast(q, f[k])
           /\ \A k \in DOMAIN r : r[k].obj # o /\ IsFirst(r, k) => IsFirst(q, f[k])
           /\ \A j \in DOMAIN q : q[j].obj # o => \E k \in DOMAIN r : r[k].obj = q[j].obj
<1>1. /\ \A k \in DOMAIN r : k \in Nat /\ f[k] \in DOMAIN q /\ f[k] \in Nat /\ r[k] = q[f[k]]
      /\ \A j \in DOMAIN q : j \in Nat
      /\ \A j, k \in DOMAIN r : j < k <=> f[j] < f[k]
      /\ \A j \in DOMAIN q :
          \/ \E k \in DOMAIN r : f[k] = j
          \/ q[j].obj = o /\ \A k \in DOMAIN r : r[k].obj = o => j < f[k]
  BY DEF Thinned
<1>2. ASSUME NEW j \in DOMAIN r, NEW k \in DOMAIN r,
             j < k, r[j].obj = r[k].obj, r[j].op, r[k].op
      PROVE  \E m \in DOMAIN r : j < m /\ m < k /\ r[m].obj = r[j].obj /\ ~r[m].op
  <2>1. f[j] < f[k] /\ q[f[j]].obj = q[f[k]].obj /\ q[f[j]].op /\ q[f[k]].op
    BY <1>1, <1>2
  <2>2. PICK m \in DOMAIN q : f[j] < m /\ m < f[k] /\ q[m].obj = q[f[j]].obj /\ ~q[m].op
    BY <1>1, <2>1 DEF Alternate
  <2>3. PICK n \in DOMAIN r : f[n] = m
    BY <1>1, <2>2
  <2> QED
    BY <1>1, <2>2, <2>3
<1>3. ASSUME NEW k \in DOMAIN r, IsLast(r, k) PROVE IsLast(q, f[k])
  <2>1. SUFFICES ASSUME NEW j \in DOMAIN q, q[j].obj = q[f[k]].obj PROVE j <= f[k]
    BY DEF IsLast
  <2>2. CASE \E n \in DOMAIN r : f[n] = j
    <3>1. PICK n \in DOMAIN r : f[n] = j
      BY <2>2
    <3>2. n <= k
      BY <1>1, <1>3, <2>1, <3>1 DEF IsLast
    <3> QED
      BY <1>1, <3>1, <3>2
  <2>3. CASE q[j].obj = o /\ \A n \in DOMAIN r : r[n].obj = o => j < f[n]
    <3>1. r[k].obj = o
      BY <1>1, <2>1, <2>3
    <3>2. j < f[k] /\ j \in Nat /\ f[k] \in Nat
      BY <1>1, <2>3, <3>1
    <3> QED
      BY <3>2
  <2> QED
    BY <1>1, <2>2, <2>3
<1>4. ASSUME NEW k \in DOMAIN r, r[k].obj # o, IsFirst(r, k) PROVE IsFirst(q, f[k])
  <2>1. SUFFICES ASSUME NEW j \in DOMAIN q, q[j].obj = q[f[k]].obj PROVE f[k] <= j
    BY DEF IsFirst
  <2>2. PICK n \in DOMAIN r : f[n] = j
    BY <1>1, <1>4, <2>1
  <2>3. k <= n
    BY <1>1, <1>4, <2>1, <2>2 DEF IsFirst
  <2> QED
    BY <1>1, <2>2, <2>3
<1>5. ASSUME NEW j \in DOMAIN q, q[j].obj # o
      PROVE  \E k \in DOMAIN r : r[k].obj = q[j].obj
  BY <1>1, <1>5
<1> QED
  BY <1>2, <1>3, <1>4, <1>5 DEF Alternate

LEMMA TailThins ==
    ASSUME NEW q \in Seq(Requests), q # <<>>
    PROVE  /\ Tail(q) \in Seq(Requests)
           /\ Thinned(q, Tail(q), [k \in DOMAIN Tail(q) |-> k + 1], q[1].obj)
           /\ DOMAIN q = 1..Len(q) /\ Len(q) \in Nat /\ 1 \in DOMAIN q /\ Head(q) = q[1]
           /\ DOMAIN Tail(q) = 1..(Len(q) - 1)
           /\ \A k \in DOMAIN Tail(q) : Tail(q)[k] = q[k + 1]
<1>1. /\ DOMAIN Tail(q) = 1..(Len(q) - 1) /\ Tail(q) \in Seq(Requests)
      /\ \A k \in 1..(Len(q) - 1) : Tail(q)[k] = q[k + 1]
  BY TailShifts
<1>2. DOMAIN q = 1..Len(q) /\ Len(q) \in Nat /\ Len(q) # 0 /\ Head(q) = q[1]
  BY EmptySeq, LenProperties
<1>3. Thinned(q, Tail(q), [k \in DOMAIN Tail(q) |-> k + 1], q[1].obj)
  <2> DEFINE r == Tail(q)
             f == [k \in DOMAIN r |-> k + 1]
  <2>1. \A k \in DOMAIN r : f[k] = k + 1
    OBVIOUS
  <2> HIDE DEF r, f
  <2>2. /\ DOMAIN r = 1..(Len(q) - 1)
        /\ \A k \in 1..(Len(q) - 1) : r[k] = q[k + 1]
    BY <1>1 DEF r
  <2>3. \A k \in DOMAIN r : f[k] \in DOMAIN q /\ r[k] = q[f[k]]
    BY <1>2, <2>1, <2>2
  <2>4. \A j, k \in DOMAIN r : j < k <=> f[j] < f[k]
    BY <1>2, <2>1, <2>2
  <2>5. ASSUME NEW j \in DOMAIN q
        PROVE  \/ \E k \in DOMAIN r : f[k] = j
               \/ q[j].obj = q[1].obj /\ \A k \in DOMAIN r : r[k].obj = q[1].obj => j < f[k]
    <3>1. CASE j = 1
      BY <1>2, <2>1, <2>2, <3>1
    <3>2. CASE j # 1
      <4>1. j - 1 \in DOMAIN r /\ (j - 1) + 1 = j
        BY <1>2, <2>2, <3>2
      <4> QED
        BY <2>1, <4>1
    <3> QED
      BY <3>1, <3>2
  <2>6. Thinned(q, r, f, q[1].obj)
    BY <2>3, <2>4, <2>5 DEF Thinned
  <2> QED
    BY <2>6 DEF r, f
<1> QED
  BY <1>1, <1>2, <1>3
-----------------------------------------------------------------------------
(* What keeps the queue in step with the lists and the owners *)

\* Nothing is asked and nobody is moved between the real-time objects and the
\* others: an object may change place, or be dropped when it is not needed.
LEMMA QueueStays ==
    ASSUME registration \in Seq(Requests), Queue,
           UNCHANGED <<registration, wanted, bRT>>,
           \A o \in Objects :
              /\ InRT(o)' <=> InRT(o)
              /\ Placed(o)' => Placed(o)
              /\ Placed(o) /\ ~Placed(o)' => life'[o] # "alive"
              /\ life'[o] = "alive" => life[o] = "alive"
    PROVE  Queue'
<1>1. \A k \in DOMAIN registration : registration[k].obj \in Objects
  <2>1. \A k \in DOMAIN registration : registration[k] \in Requests
    BY ElementOfSeq, LenProperties
  <2> QED
    BY <2>1 DEF Requests
<1>2. PICK r : r = registration /\ r = registration'
  OBVIOUS
<1>3. Alternate(r) /\ FirstStrikes /\ LastIsWish /\ Settled
  BY <1>2 DEF Queue
<1>4. Alternate(registration)'
  BY <1>2, <1>3
<1>5. FirstStrikes'
  BY <1>1, <1>2, <1>3 DEF FirstStrikes
<1>6. LastIsWish'
  BY <1>1, <1>2, <1>3 DEF LastIsWish
<1>7. Settled'
  BY <1>1, <1>2, <1>3 DEF Settled, Unasked
<1> QED
  BY <1>4, <1>5, <1>6, <1>7 DEF Queue

\* A request comes in behind the others.
LEMMA QueueGrows ==
    ASSUME registration \in Seq(Requests), Queue,
           NEW o \in Objects, NEW op \in BOOLEAN, NEW rt \in BOOLEAN,
           Request(op, rt, o),
           \A u \in Objects :
              /\ InRT(u)' <=> InRT(u)
              /\ Placed(u)' <=> Placed(u)
              /\ u # o => /\ wanted'[u] = wanted[u] /\ bRT'[u] = bRT[u]
                          /\ life'[u] = "alive" => life[u] = "alive",
           wanted'[o] = op,
           op => ~wanted[o] /\ bRT'[o] = rt,
           ~op => rt = bRT[o]
    PROVE  Queue' /\ \A u \in Objects : u # o /\ Unasked(u) => Unasked(u)'
<1> DEFINE new == [op |-> op, rt |-> rt, obj |-> o]
<1>1. \A k \in DOMAIN registration :
         registration[k] \in Requests /\ registration[k].obj \in Objects /\ k \in Nat
  <2>1. \A k \in DOMAIN registration : registration[k] \in Requests /\ k \in Nat
    BY ElementOfSeq, LenProperties
  <2> QED
    BY <2>1 DEF Requests
<1>2. new \in Requests
  BY DEF Requests
<1>3. PICK n \in Nat : DOMAIN registration = 1..n /\ n = Len(registration)
  BY LenProperties
<1>4. PICK r : r = registration' /\ r = Append(registration, new)
  BY DEF Request
<1>5. /\ DOMAIN r = 1..(n + 1)
      /\ r[n + 1].op = op /\ r[n + 1].rt = rt /\ r[n + 1].obj = o
      /\ \A k \in 1..n : r[k] = registration[k]
  BY <1>2, <1>3, <1>4, AppendShifts
<1>6. \A k \in DOMAIN r : k \in Nat /\ (k \in 1..n \/ k = n + 1)
  BY <1>3, <1>5
<1>7. Alternate(registration) /\ FirstStrikes /\ LastIsWish /\ Settled
  BY DEF Queue
<1>8. \A u \in Objects : Unasked(u)' => Unasked(u) /\ u # o
  BY <1>1, <1>3, <1>4, <1>5, <1>6 DEF Unasked
<1>9. \A u \in Objects : u # o /\ Unasked(u) => Unasked(u)'
  BY <1>1, <1>3, <1>4, <1>5, <1>6 DEF Unasked
<1>10. Alternate(r)
  <2>1. SUFFICES ASSUME NEW j \in DOMAIN r, NEW k \in DOMAIN r,
                        j < k, r[j].obj = r[k].obj, r[j].op, r[k].op
                 PROVE  \E m \in DOMAIN r : j < m /\ m < k /\ r[m].obj = r[j].obj /\ ~r[m].op
    BY DEF Alternate
  <2>2. j \in 1..n /\ r[j] = registration[j]
    BY <1>3, <1>5, <1>6, <2>1
  <2>3. CASE k \in 1..n
    <3>1. r[k] = registration[k]
      BY <1>5, <2>3
    <3>2. PICK m \in 1..n : /\ j < m /\ m < k /\ registration[m].obj = registration[j].obj
                            /\ ~registration[m].op
      BY <1>3, <1>7, <2>1, <2>2, <2>3, <3>1 DEF Alternate
    <3>3. m \in DOMAIN r /\ r[m] = registration[m]
      BY <1>3, <1>5, <3>2
    <3> QED
      BY <2>2, <3>2, <3>3
  <2>4. CASE k = n + 1
    <3> DEFINE T == {m \in 1..n : registration[m].obj = o}
    <3>1. op /\ j \in T
      BY <1>5, <2>1, <2>2, <2>4
    <3>2. T \in SUBSET (1..n) /\ T # {}
      BY <3>1
    <3>3. PICK m \in T : \A y \in T : y <= m
      BY <3>2, GreatestBelow
    <3>4. m \in DOMAIN registration /\ registration[m].obj = o /\ IsLast(registration, m)
      BY <1>3, <3>3 DEF IsLast
    <3>5. ~registration[m].op
      BY <1>7, <3>1, <3>4 DEF LastIsWish
    <3>6. j <= m /\ j # m /\ m \in Nat /\ m <= n
      BY <1>3, <2>1, <2>2, <3>1, <3>3, <3>5
    <3>7. m \in DOMAIN r /\ r[m] = registration[m]
      BY <1>5, <3>6, <1>3, <3>4
    <3> QED
      BY <1>3, <1>5, <2>1, <2>4, <3>4, <3>5, <3>6, <3>7
  <2> QED
    BY <1>6, <2>3, <2>4
<1>11. FirstStrikes'
  <2>1. SUFFICES ASSUME NEW k \in DOMAIN r, IsFirst(r, k), Placed(r[k].obj)'
                 PROVE  ~r[k].op /\ (r[k].rt <=> InRT(r[k].obj)')
    BY <1>4 DEF FirstStrikes
  <2>2. CASE k \in 1..n
    <3>1. r[k] = registration[k] /\ IsFirst(registration, k) /\ r[k].obj \in Objects
      BY <1>1, <1>3, <1>5, <2>1, <2>2 DEF IsFirst
    <3> QED
      BY <1>3, <1>7, <2>1, <2>2, <3>1 DEF FirstStrikes
  <2>3. CASE k = n + 1
    <3>1. Unasked(o)
      <4>1. SUFFICES ASSUME NEW j \in 1..n, registration[j].obj = o PROVE FALSE
        BY <1>3 DEF Unasked
      <4>2. j \in DOMAIN r /\ r[j].obj = r[k].obj /\ j < k
        BY <1>3, <1>5, <2>3, <4>1
      <4> QED
        BY <1>3, <1>6, <2>1, <4>2 DEF IsFirst
    <3>2. r[k].obj = o /\ r[k].op = op /\ r[k].rt = rt
      BY <1>5, <2>3
    <3>3. Placed(o)
      BY <2>1, <3>2
    <3>4. wanted[o] /\ (bRT[o] <=> InRT(o))
      BY <1>7, <3>1, <3>3 DEF Settled
    <3> QED
      BY <3>2, <3>4
  <2> QED
    BY <1>6, <2>2, <2>3
<1>12. LastIsWish'
  <2>1. SUFFICES ASSUME NEW k \in DOMAIN r, IsLast(r, k)
                 PROVE  /\ r[k].op <=> wanted'[r[k].obj]
                        /\ r[k].op => (r[k].rt <=> bRT'[r[k].obj])
    BY <1>4 DEF LastIsWish
  <2>2. CASE k \in 1..n
    <3>1. r[k] = registration[k] /\ r[k].obj \in Objects
      BY <1>1, <1>3, <1>5, <2>2
    <3>2. r[k].obj # o
      <4>1. n + 1 \in DOMAIN r /\ ~(n + 1 <= k)
        BY <1>3, <1>5, <2>2
      <4> QED
        BY <1>5, <2>1, <4>1 DEF IsLast
    <3>3. IsLast(registration, k)
      <4>1. SUFFICES ASSUME NEW j \in 1..n, registration[j].obj = registration[k].obj PROVE j <= k
        BY <1>3 DEF IsLast
      <4>2. j \in DOMAIN r /\ r[j].obj = r[k].obj
        BY <1>3, <1>5, <2>2, <4>1
      <4> QED
        BY <2>1, <4>2 DEF IsLast
    <3> QED
      BY <1>3, <1>7, <2>2, <3>1, <3>2, <3>3 DEF LastIsWish
  <2>3. CASE k = n + 1
    BY <1>5, <2>3
  <2> QED
    BY <1>6, <2>2, <2>3
<1>13. Settled'
  <2>1. SUFFICES ASSUME NEW u \in Objects, Unasked(u)'
                 PROVE  /\ Placed(u)' => wanted'[u] /\ (bRT'[u] <=> InRT(u)')
                        /\ wanted'[u] /\ ~Placed(u)' => life'[u] # "alive"
    BY DEF Settled
  <2>2. Unasked(u) /\ u # o
    BY <1>8, <2>1
  <2> QED
    BY <1>7, <2>2 DEF Settled
<1>14. Alternate(registration)'
  BY <1>4, <1>10
<1> QED
  BY <1>9, <1>11, <1>12, <1>13, <1>14 DEF Queue

\* Requests of o are taken out before the others of o, which leaves o in no
\* list, or asked for nothing more.
LEMMA QueueThins ==
    ASSUME registration \in Seq(Requests), Queue, NEW o \in Objects,
           NEW r \in Seq(Requests), r = registration', NEW f, Thinned(registration, r, f, o),
           UNCHANGED <<wanted, bRT, life>>,
           \A u \in Objects : u # o => (InRT(u)' <=> InRT(u)) /\ (Placed(u)' <=> Placed(u)),
           ~Placed(o)' \/ Unasked(o)',
           Unasked(o)' => /\ Placed(o)' => wanted[o] /\ (bRT[o] <=> InRT(o)')
                          /\ wanted[o] /\ ~Placed(o)' => life[o] # "alive"
    PROVE  Queue' /\ \A u \in Objects : Unasked(u) => Unasked(u)'
<1>1. Alternate(registration) /\ FirstStrikes /\ LastIsWish /\ Settled
  BY DEF Queue
<1>2. /\ Alternate(r)
      /\ \A k \in DOMAIN r : IsLast(r, k) => IsLast(registration, f[k])
      /\ \A k \in DOMAIN r : r[k].obj # o /\ IsFirst(r, k) => IsFirst(registration, f[k])
      /\ \A j \in DOMAIN registration : registration[j].obj # o =>
            \E k \in DOMAIN r : r[k].obj = registration[j].obj
  BY <1>1, ThinnedKeeps
<1>3. /\ \A k \in DOMAIN r : f[k] \in DOMAIN registration /\ r[k] = registration[f[k]]
      /\ \A k \in DOMAIN r : r[k].obj \in Objects
  <2>1. \A k \in DOMAIN r : r[k] \in Requests
    BY ElementOfSeq, LenProperties
  <2> QED
    BY <2>1 DEF Thinned, Requests
<1>4. \A u \in Objects : Unasked(u) => Unasked(u)'
  BY <1>3 DEF Unasked
<1>5. \A u \in Objects : u # o /\ Unasked(u)' => Unasked(u)
  BY <1>2 DEF Unasked
<1>6. FirstStrikes'
  <2>1. SUFFICES ASSUME NEW k \in DOMAIN r, IsFirst(r, k), Placed(r[k].obj)'
                 PROVE  ~r[k].op /\ (r[k].rt <=> InRT(r[k].obj)')
    BY DEF FirstStrikes
  <2>2. r[k].obj # o
    BY <2>1 DEF Unasked
  <2>3. IsFirst(registration, f[k]) /\ f[k] \in DOMAIN registration /\ r[k] = registration[f[k]]
    BY <1>2, <1>3, <2>1, <2>2
  <2>4. r[k].obj \in Objects
    BY <1>3
  <2> QED
    BY <1>1, <2>1, <2>2, <2>3, <2>4 DEF FirstStrikes
<1>7. LastIsWish'
  BY <1>1, <1>2, <1>3 DEF LastIsWish
<1>8. Settled'
  <2>1. SUFFICES ASSUME NEW u \in Objects, Unasked(u)'
                 PROVE  /\ Placed(u)' => wanted'[u] /\ (bRT'[u] <=> InRT(u)')
                        /\ wanted'[u] /\ ~Placed(u)' => life'[u] # "alive"
    BY DEF Settled
  <2>2. CASE u = o
    BY <2>1, <2>2
  <2>3. CASE u # o
    BY <1>1, <1>5, <2>1, <2>3 DEF Settled
  <2> QED
    BY <2>2, <2>3
<1>9. Alternate(registration)'
  BY <1>2
<1> QED
  BY <1>4, <1>6, <1>7, <1>8, <1>9 DEF Queue
-----------------------------------------------------------------------------
(* Pairs *)

LEMMA PairFound ==
    ASSUME registration \in Seq(Requests), registration # <<>>, NEW h \in Requests
    PROVE  /\ PairOf(h) = 0 => \A k \in DOMAIN Later : ~IsPair(h, Later[k])
           /\ PairOf(h) # 0 => /\ PairOf(h) \in DOMAIN Later /\ IsPair(h, Later[PairOf(h)])
                               /\ \A k \in DOMAIN Later : IsPair(h, Later[k]) => PairOf(h) <= k
<1> DEFINE I == {k \in 1..Len(Later) : IsPair(h, Later[k])}
<1>1. Later \in Seq(Requests)
  BY TailThins DEF Later
<1>2. DOMAIN Later = 1..Len(Later)
  BY <1>1, LenProperties
<1>3. PairOf(h) = IF I # {} THEN Min(I) ELSE 0
  BY DEF PairOf, SelectInSeq
<1>4. I # {} => Min(I) \in I /\ \A y \in I : Min(I) <= y
  BY LeastNatural, I \in SUBSET Nat
<1> HIDE DEF I
<1>5. CASE I = {}
  <2>1. \A k \in DOMAIN Later : ~IsPair(h, Later[k])
    BY <1>2, <1>5 DEF I
  <2> QED
    BY <1>3, <1>5, <2>1
<1>6. CASE I # {}
  <2>1. PICK m : m = PairOf(h) /\ m \in I /\ \A y \in I : m <= y
    BY <1>3, <1>4, <1>6
  <2>2. m \in DOMAIN Later /\ IsPair(h, Later[m]) /\ m # 0
    BY <1>2, <2>1 DEF I
  <2>3. \A k \in DOMAIN Later : IsPair(h, Later[k]) => m <= k
    BY <1>2, <2>1 DEF I
  <2> QED
    BY <2>1, <2>2, <2>3
<1> QED
  BY <1>5, <1>6

\* A registration and the unregistration that follows it go together: what is
\* left of the object's requests comes behind both.
LEMMA PairThins ==
    ASSUME NEW q \in Seq(Requests), q # <<>>, Alternate(q), q[1].op,
           NEW p \in DOMAIN Tail(q), IsPair(q[1], Tail(q)[p]),
           \A k \in DOMAIN Tail(q) : IsPair(q[1], Tail(q)[k]) => p <= k,
           NEW r, r = RemoveAt(Tail(q), p)
    PROVE  /\ r \in Seq(Requests)
           /\ \E f : Thinned(q, r, f, q[1].obj)
           /\ \E m \in DOMAIN q :
                 /\ ~q[m].op /\ q[m].obj = q[1].obj
                 /\ (\A k \in DOMAIN r : r[k].obj # q[1].obj) => IsLast(q, m)
<1> DEFINE f == [k \in DOMAIN r |-> IF k < p THEN k + 1 ELSE k + 2]
<1>1. PICK n \in Nat : /\ n = Len(q) /\ DOMAIN q = 1..n /\ n # 0
                       /\ DOMAIN Tail(q) = 1..(n - 1) /\ Tail(q) \in Seq(Requests)
                       /\ \A k \in 1..(n - 1) : Tail(q)[k] = q[k + 1]
  BY TailThins, EmptySeq
<1>2. Len(Tail(q)) = n - 1 /\ p \in 1..(n - 1) /\ n - 1 \in Nat
  BY <1>1, HeadTailProperties
<1>3. /\ r \in Seq(Requests) /\ Len(r) = n - 2
      /\ \A k \in 1..(n - 2) : r[k] = IF k < p THEN Tail(q)[k] ELSE Tail(q)[k + 1]
  <2>1. p \in 1..Len(Tail(q))
    BY <1>2
  <2>2. /\ r \in Seq(Requests) /\ Len(r) = Len(Tail(q)) - 1
        /\ \A k \in 1..(Len(Tail(q)) - 1) : r[k] = IF k < p THEN Tail(q)[k] ELSE Tail(q)[k + 1]
    BY <1>1, <2>1, RemoveAtProperties
  <2>3. Len(Tail(q)) - 1 = n - 2
    BY <1>2
  <2> QED
    BY <2>2, <2>3
<1>4. DOMAIN r = 1..(n - 2)
  BY <1>3, LenProperties
<1>5. \A k \in DOMAIN r : f[k] = IF k < p THEN k + 1 ELSE k + 2
  OBVIOUS
<1> HIDE DEF f
<1>6. ~q[p + 1].op /\ q[p + 1].obj = q[1].obj /\ p + 1 \in DOMAIN q
  BY <1>1, <1>2 DEF IsPair
<1>7. \A k \in DOMAIN r : f[k] \in DOMAIN q /\ r[k] = q[f[k]]
  <2>1. SUFFICES ASSUME NEW k \in 1..(n - 2) PROVE f[k] \in DOMAIN q /\ r[k] = q[f[k]]
    BY <1>4
  <2>2. CASE k < p
    BY <1>1, <1>2, <1>3, <1>4, <1>5, <2>2
  <2>3. CASE ~(k < p)
    <3>1. r[k] = Tail(q)[k + 1] /\ k + 1 \in 1..(n - 1)
      BY <1>2, <1>3, <2>3
    <3>2. Tail(q)[k + 1] = q[k + 2] /\ k + 2 \in 1..n
      BY <1>1, <3>1
    <3> QED
      BY <1>1, <1>4, <1>5, <2>3, <3>1, <3>2
  <2> QED
    BY <2>2, <2>3
<1>8. \A j, k \in DOMAIN r : j < k <=> f[j] < f[k]
  BY <1>2, <1>4, <1>5
<1>9. ASSUME NEW j \in DOMAIN q, j # 1, j # p + 1
      PROVE  \E k \in DOMAIN r : f[k] = j
  <2>1. CASE j < p + 1
    <3>1. j - 1 \in DOMAIN r /\ f[j - 1] = j
      BY <1>1, <1>2, <1>4, <1>5, <1>9, <2>1
    <3> QED
      BY <3>1
  <2>2. CASE ~(j < p + 1)
    <3>1. j - 2 \in DOMAIN r /\ f[j - 2] = j
      BY <1>1, <1>2, <1>4, <1>5, <1>9, <2>2
    <3> QED
      BY <3>1
  <2> QED
    BY <2>1, <2>2
\* no request of the object lies between the two
<1>10. ASSUME NEW j \in DOMAIN q, q[j].obj = q[1].obj, 1 < j, j < p + 1 PROVE FALSE
  <2>1. ASSUME NEW m \in DOMAIN q, q[m].obj = q[1].obj, 1 < m, m < p + 1, ~q[m].op PROVE FALSE
    <3>1. m - 1 \in 1..(n - 1) /\ (m - 1) + 1 = m /\ m - 1 < p
      BY <1>1, <1>2, <2>1
    <3>2. Tail(q)[m - 1] = q[m]
      BY <1>1, <3>1
    <3>3. IsPair(q[1], Tail(q)[m - 1])
      BY <2>1, <3>2 DEF IsPair
    <3>4. p <= m - 1
      BY <1>1, <3>1, <3>3
    <3> QED
      BY <1>1, <1>2, <3>1, <3>4
  <2>2. q[j].op
    BY <1>10, <2>1
  <2>3. 1 \in DOMAIN q
    BY <1>1
  <2>4. PICK m \in DOMAIN q : 1 < m /\ m < j /\ q[m].obj = q[1].obj /\ ~q[m].op
    BY <1>10, <2>2, <2>3 DEF Alternate
  <2>5. m < p + 1
    BY <1>1, <1>2, <1>10, <2>4
  <2> QED
    BY <2>1, <2>4, <2>5
<1>11. ASSUME NEW k \in DOMAIN r, r[k].obj = q[1].obj PROVE p + 1 < f[k]
  <2>1. q[f[k]].obj = q[1].obj /\ f[k] \in DOMAIN q
    BY <1>7, <1>11
  <2>2. f[k] \in Nat /\ 1 < f[k] /\ f[k] # p + 1
    BY <1>2, <1>4, <1>5
  <2>3. ~(f[k] < p + 1)
    BY <1>10, <2>1, <2>2
  <2> QED
    BY <1>2, <2>2, <2>3
<1>12. Thinned(q, r, f, q[1].obj)
  <2>1. ASSUME NEW j \in DOMAIN q
        PROVE  \/ \E k \in DOMAIN r : f[k] = j
               \/ q[j].obj = q[1].obj /\ \A k \in DOMAIN r : r[k].obj = q[1].obj => j < f[k]
    <3>1. CASE j = 1 \/ j = p + 1
      <4>1. q[j].obj = q[1].obj
        BY <1>6, <3>1
      <4>2. ASSUME NEW k \in DOMAIN r, r[k].obj = q[1].obj PROVE j < f[k]
        <5>1. p + 1 < f[k] /\ f[k] \in Nat
          BY <1>1, <1>7, <1>11, <4>2
        <5> QED
          BY <1>2, <3>1, <5>1
      <4> QED
        BY <4>1, <4>2
    <3>2. CASE j # 1 /\ j # p + 1
      BY <1>9, <3>2
    <3> QED
      BY <3>1, <3>2
  <2> QED
    BY <1>7, <1>8, <2>1 DEF Thinned
<1>13. ASSUME \A k \in DOMAIN r : r[k].obj # q[1].obj PROVE IsLast(q, p + 1)
  <2>1. SUFFICES ASSUME NEW j \in DOMAIN q, q[j].obj = q[p + 1].obj PROVE j <= p + 1
    BY DEF IsLast
  <2>2. j = 1 \/ j = p + 1
    BY <1>6, <1>7, <1>9, <1>13, <2>1
  <2> QED
    BY <1>2, <2>2
<1> QED
  BY <1>3, <1>6, <1>12, <1>13
-----------------------------------------------------------------------------
(* Taking an object out *)

LEMMA TakenOut ==
    ASSUME TypeOK, Apart, NEW o \in Objects, NEW rt \in BOOLEAN,
           InternalUnregister(o, rt), processed' = processed, phase' = phase,
           ~InProcessed(o), rt <=> InRT(o)
    PROVE  /\ Apart' /\ ~Placed(o)'
           /\ \A u \in Objects : u # o => (InRT(u)' <=> InRT(u)) /\ (Placed(u)' <=> Placed(u))
           /\ \A u \in Objects : /\ InRT(u)' => InRT(u)
                                 /\ InItems(u)' => InItems(u)
                                 /\ current' = u => current = u
           /\ items' \subseteq items /\ current' \in {current, Null}
           /\ itemsRT' \in Seq(Objects) /\ stale' \in Seq(Objects)
           /\ holes' \in [0..MaxTime + Max(Intervals) -> Nat]
           /\ phase # "realtime" \/ ~InRT(o) => stale' = stale
<1>1. /\ itemsRT \in Seq(Objects) /\ stale \in Seq(Objects) /\ items \subseteq Item
      /\ holes \in [0..MaxTime + Max(Intervals) -> Nat] /\ current \in Objects \cup {Null}
  BY DEF TypeOK
<1>2. Distinct(itemsRT) /\ OneItem(items) /\ OneItem(processed)
  BY DEF Apart
<1>3. CASE rt /\ o \in Range(itemsRT) /\ EraseRT(o)
  <2>1. PICK r : r = itemsRT' /\ r = RemoveFirst(itemsRT, o)
    BY <1>3 DEF EraseRT
  <2>2. r \in Seq(Objects) /\ Distinct(r) /\ Range(r) = Range(itemsRT) \ {o}
    BY <1>1, <1>2, <2>1, RemoveFirstProperties
  <2>3. UNCHANGED <<items, holes, current>>
    BY <1>3 DEF EraseRT
  <2>4. /\ \A u : InRT(u)' <=> InRT(u) /\ u # o
        /\ \A u : (InItems(u)' <=> InItems(u)) /\ (InProcessed(u)' <=> InProcessed(u))
    BY <2>1, <2>2, <2>3 DEF InRT, InItems, InProcessed
  <2>5. stale' \in Seq(Objects) /\ (phase # "realtime" => stale' = stale)
    <3>1. stale' = IF phase = "realtime" THEN <<Last(itemsRT)>> \o stale ELSE stale
      BY <1>3 DEF EraseRT
    <3>2. Last(itemsRT) \in Objects
      <4>1. itemsRT # <<>> /\ Len(itemsRT) \in Nat /\ DOMAIN itemsRT = 1..Len(itemsRT)
        BY <1>1, <1>3, EmptySeq, LenProperties DEF Range
      <4>2. Len(itemsRT) # 0
        BY <1>1, <4>1, EmptySeq
      <4>3. Len(itemsRT) \in 1..Len(itemsRT)
        BY <4>1, <4>2
      <4> QED
        BY <1>1, <4>3, ElementOfSeq DEF Last
    <3>3. <<Last(itemsRT)>> \o stale \in Seq(Objects)
      BY <1>1, <3>2, ConsShifts
    <3> QED
      BY <1>1, <3>1, <3>3
  <2>6. ~InItems(o) /\ current # o
    BY <1>3 DEF Apart, InRT
  <2>7. Apart'
    <3>1. Distinct(itemsRT)' /\ OneItem(items)' /\ OneItem(processed)'
      BY <1>2, <2>1, <2>2, <2>3
    <3> QED
      BY <2>3, <2>4, <3>1 DEF Apart
  <2>8. \A u : Placed(u)' <=> Placed(u) /\ u # o
    BY <2>3, <2>4, <2>6 DEF Placed
  <2> QED
    BY <1>1, <1>3, <2>1, <2>2, <2>3, <2>4, <2>5, <2>7, <2>8 DEF InRT
<1>4. CASE ~rt /\ \E it \in items : it.obj = o /\ MakeHole(it)
  <2>1. PICK it \in items : it.obj = o /\ MakeHole(it)
    BY <1>4
  <2>2. items' = items \ {it} /\ UNCHANGED <<itemsRT, stale, current>>
    BY <2>1 DEF MakeHole
  <2>3. \A jt \in items : jt.obj = o => jt = it
    BY <1>2, <2>1 DEF OneItem
  <2>4. \A u : (InRT(u)' <=> InRT(u)) /\ (InProcessed(u)' <=> InProcessed(u))
    BY <2>2 DEF InRT, InProcessed
  <2>5. \A u : InItems(u)' <=> InItems(u) /\ u # o
    BY <2>1, <2>2, <2>3 DEF InItems
  <2>6. InItems(o) /\ ~InRT(o) /\ current # o
    BY <2>1 DEF Apart, InItems
  <2>7. Apart'
    <3>1. Distinct(itemsRT)' /\ OneItem(items)' /\ OneItem(processed)'
      BY <1>2, <2>2 DEF OneItem
    <3> QED
      BY <2>2, <2>4, <2>5, <3>1 DEF Apart
  <2>8. \A u : Placed(u)' <=> Placed(u) /\ u # o
    BY <2>2, <2>4, <2>5, <2>6 DEF Placed
  <2>9. holes' \in [0..MaxTime + Max(Intervals) -> Nat]
    <3> DEFINE D == 0..MaxTime + Max(Intervals)
    <3>1. holes \in [D -> Nat] /\ holes' = [holes EXCEPT ![it.at] = @ + 1]
      BY <1>1, <2>1 DEF MakeHole
    <3> HIDE DEF D
    <3>2. CASE it.at \in D
      <4>1. holes[it.at] + 1 \in Nat
        BY <3>1, <3>2
      <4>2. holes' = [x \in D |-> IF x = it.at THEN holes[it.at] + 1 ELSE holes[x]]
        BY <3>1
      <4>3. holes' \in [D -> Nat]
        BY <3>1, <4>1, <4>2
      <4> QED
        BY <4>3 DEF D
    <3>3. CASE it.at \notin D
      <4>1. holes' \in [D -> Nat]
        BY <3>1, <3>3
      <4> QED
        BY <4>1 DEF D
    <3> QED
      BY <3>2, <3>3
  <2> QED
    BY <1>1, <2>2, <2>4, <2>5, <2>7, <2>8, <2>9
<1>5. CASE /\ IF rt THEN o \notin Range(itemsRT) ELSE \A it \in items : it.obj # o
           /\ current = o
           /\ ForgetCurrent
  <2>1. UNCHANGED <<itemsRT, stale, items, holes>> /\ current' = Null
    BY <1>5 DEF ForgetCurrent
  <2>2. \A u : /\ InRT(u)' <=> InRT(u)
               /\ InItems(u)' <=> InItems(u)
               /\ InProcessed(u)' <=> InProcessed(u)
    BY <2>1 DEF InRT, InItems, InProcessed
  <2>3. ~InRT(o) /\ ~InItems(o)
    BY <1>5 DEF Apart
  <2>4. Apart'
    <3>1. Distinct(itemsRT)' /\ OneItem(items)' /\ OneItem(processed)'
      BY <1>2, <2>1
    <3> QED
      BY <2>1, <2>2, <3>1 DEF Apart
  <2>5. \A u \in Objects : Placed(u)' <=> Placed(u) /\ u # o
    BY <1>5, <2>1, <2>2, <2>3 DEF Placed
  <2> QED
    BY <1>1, <1>5, <2>1, <2>2, <2>4, <2>5
<1> QED
  BY <1>3, <1>4, <1>5 DEF InternalUnregister
-----------------------------------------------------------------------------
(* The owners' steps *)

LEMMA PlacesStay ==
    ASSUME Apart, UNCHANGED <<itemsRT, items, processed, current>>
    PROVE  /\ Apart'
           /\ \A o : /\ InRT(o)' <=> InRT(o)
                     /\ InItems(o)' <=> InItems(o)
                     /\ InProcessed(o)' <=> InProcessed(o)
                     /\ Placed(o)' <=> Placed(o)
<1>1. \A o : /\ InRT(o)' <=> InRT(o)
             /\ InItems(o)' <=> InItems(o)
             /\ InProcessed(o)' <=> InProcessed(o)
  BY DEF InRT, InItems, InProcessed
<1>2. \A o : Placed(o)' <=> Placed(o)
  BY <1>1 DEF Placed
<1>3. Distinct(itemsRT)' /\ OneItem(items)' /\ OneItem(processed)'
  BY DEF Apart
<1>4. Apart'
  BY <1>1, <1>3 DEF Apart
<1> QED
  BY <1>1, <1>2, <1>4

LEMMA CreateKeeps ==
    ASSUME IInv, NEW o \in Objects, Create(o)
    PROVE  IInv'
<1>1. TypeOK /\ Apart /\ Hands /\ Queue /\ Undisturbed /\ WantedLive /\ InTurn
  BY DEF IInv
<1>2. /\ UNCHANGED <<itemsRT, stale, items, holes, processed, registration, current, phase, i,
                     callee, item, now, wanted, updated>>
      /\ life[o] = "gone"
  BY DEF Create, lists
<1>3. /\ bRT' \in [Objects -> BOOLEAN] /\ life' \in [Objects -> {"gone", "alive", "leaving"}]
      /\ \A u \in Objects : u # o => bRT'[u] = bRT[u] /\ life'[u] = life[u]
      /\ life'[o] = "alive"
  BY <1>1 DEF Create, TypeOK
<1>4. TypeOK'
  BY <1>1, <1>2, <1>3 DEF TypeOK
<1>5. /\ Apart'
      /\ \A u : (InRT(u)' <=> InRT(u)) /\ (InItems(u)' <=> InItems(u)) /\ (Placed(u)' <=> Placed(u))
  BY <1>1, <1>2, PlacesStay
<1>6. ~wanted[o]
  BY <1>1, <1>2 DEF WantedLive
<1>7. Queue'
  <2>1. PICK q : q = registration /\ q = registration'
    BY <1>2
  <2>2. Alternate(q) /\ FirstStrikes /\ LastIsWish /\ Settled
    BY <1>1, <2>1 DEF Queue
  <2>3. \A k \in DOMAIN q : q[k].obj \in Objects
    <3>1. \A k \in DOMAIN q : q[k] \in Requests
      BY <1>1, <2>1, ElementOfSeq, LenProperties DEF TypeOK
    <3> QED
      BY <3>1 DEF Requests
  <2>4. Alternate(registration)'
    BY <2>1, <2>2
  <2>5. FirstStrikes'
    BY <1>5, <2>1, <2>2, <2>3 DEF FirstStrikes
  <2>6. LastIsWish'
    BY <1>2, <1>3, <1>6, <2>1, <2>2, <2>3 DEF LastIsWish
  <2>7. Settled'
    BY <1>2, <1>3, <1>5, <1>6, <2>1, <2>2 DEF Settled, Unasked
  <2> QED
    BY <2>4, <2>5, <2>6, <2>7 DEF Queue
<1>8. Hands' /\ InTurn'
  BY <1>1, <1>2 DEF Hands, Processing, InTurn
<1>9. Undisturbed'
  BY <1>1, <1>2, <1>5 DEF Undisturbed, Processing, Unasked
<1>10. WantedLive'
  BY <1>1, <1>2, <1>3 DEF WantedLive
<1> QED
  BY <1>4, <1>5, <1>7, <1>8, <1>9, <1>10 DEF IInv

LEMMA RegisterKeeps ==
    ASSUME IInv, NEW o \in Objects, NEW rt \in BOOLEAN, Register(o, rt)
    PROVE  IInv'
<1>1. TypeOK /\ Apart /\ Hands /\ Queue /\ Undisturbed /\ WantedLive /\ InTurn
  BY DEF IInv
<1>2. /\ UNCHANGED <<itemsRT, stale, items, holes, processed, current, phase, i,
                     callee, item, now, life, updated>>
      /\ life[o] = "alive" /\ ~wanted[o] /\ Request(TRUE, rt, o)
  BY DEF Register, lists
<1>3. /\ bRT' \in [Objects -> BOOLEAN] /\ wanted' \in [Objects -> BOOLEAN]
      /\ \A u \in Objects : u # o => bRT'[u] = bRT[u] /\ wanted'[u] = wanted[u]
      /\ bRT'[o] = rt /\ wanted'[o] = TRUE
  BY <1>1 DEF Register, TypeOK
<1>4. registration \in Seq(Requests) /\ registration' \in Seq(Requests)
  <2>1. [op |-> TRUE, rt |-> rt, obj |-> o] \in Requests
    BY DEF Requests
  <2> QED
    BY <1>1, <1>2, <2>1, AppendProperties DEF TypeOK, Request
<1>5. TypeOK'
  BY <1>1, <1>2, <1>3, <1>4 DEF TypeOK
<1>6. /\ Apart'
      /\ \A u : (InRT(u)' <=> InRT(u)) /\ (InItems(u)' <=> InItems(u)) /\ (Placed(u)' <=> Placed(u))
  BY <1>1, <1>2, PlacesStay
<1>7. Queue' /\ \A u \in Objects : u # o /\ Unasked(u) => Unasked(u)'
  BY <1>1, <1>2, <1>3, <1>4, <1>6, QueueGrows
<1>8. Hands' /\ InTurn'
  BY <1>1, <1>2 DEF Hands, Processing, InTurn
<1>9. Undisturbed'
  <2>1. SUFFICES ASSUME Processing, NEW u \in Objects, InRT(u) \/ InItems(u) \/ current = u
                 PROVE  Unasked(u)'
    BY <1>2, <1>6 DEF Undisturbed, Processing
  <2>2. Unasked(u) /\ Placed(u)
    BY <1>1, <2>1 DEF Undisturbed, Placed
  <2>3. wanted[u]
    BY <1>1, <2>2 DEF Queue, Settled
  <2> QED
    BY <1>2, <1>7, <2>2, <2>3
<1>10. WantedLive'
  BY <1>1, <1>2, <1>3 DEF WantedLive
<1> QED
  BY <1>5, <1>6, <1>7, <1>8, <1>9, <1>10 DEF IInv

LEMMA SetDestroyKeeps ==
    ASSUME IInv, NEW o \in Objects, SetDestroy(o)
    PROVE  IInv'
<1>1. TypeOK /\ Apart /\ Hands /\ Queue /\ Undisturbed /\ WantedLive /\ InTurn
  BY DEF IInv
<1>2. /\ UNCHANGED <<itemsRT, stale, items, holes, processed, registration, current, phase, i,
                     callee, item, now, bRT, wanted, updated>>
  BY DEF SetDestroy, lists
<1>3. /\ life' \in [Objects -> {"gone", "alive", "leaving"}]
      /\ \A u \in Objects : u # o => life'[u] = life[u]
      /\ life'[o] = "leaving"
  BY <1>1 DEF SetDestroy, TypeOK
<1>4. TypeOK'
  BY <1>1, <1>2, <1>3 DEF TypeOK
<1>5. /\ Apart'
      /\ \A u : (InRT(u)' <=> InRT(u)) /\ (InItems(u)' <=> InItems(u)) /\ (Placed(u)' <=> Placed(u))
  BY <1>1, <1>2, PlacesStay
<1>6. registration \in Seq(Requests)
  BY <1>1 DEF TypeOK
<1>7. Queue'
  BY <1>1, <1>2, <1>3, <1>5, <1>6, QueueStays
<1>8. Hands' /\ InTurn'
  BY <1>1, <1>2 DEF Hands, Processing, InTurn
<1>9. Undisturbed'
  BY <1>1, <1>2, <1>5 DEF Undisturbed, Processing, Unasked
<1>10. WantedLive'
  BY <1>1, <1>2, <1>3 DEF WantedLive
<1> QED
  BY <1>4, <1>5, <1>7, <1>8, <1>9, <1>10 DEF IInv

LEMMA UnregisterKeeps ==
    ASSUME IInv, NEW o \in Objects, OwnersTurn, UnregisterCall(o),
           \/ life' = life
           \/ life' = [life EXCEPT ![o] = "gone"]
    PROVE  IInv'
<1>1. TypeOK /\ Apart /\ Hands /\ Queue /\ Undisturbed /\ WantedLive /\ InTurn
  BY DEF IInv
<1>2. UNCHANGED <<processed, phase, i, callee, item, now, bRT, updated>>
  BY DEF UnregisterCall
<1>3. /\ wanted' \in [Objects -> BOOLEAN] /\ life' \in [Objects -> {"gone", "alive", "leaving"}]
      /\ \A u \in Objects : u # o => wanted'[u] = wanted[u] /\ life'[u] = life[u]
      /\ wanted'[o] = FALSE
  BY <1>1 DEF UnregisterCall, TypeOK
<1>4. registration \in Seq(Requests) /\ bRT[o] \in BOOLEAN
  BY <1>1 DEF TypeOK
<1>5. WantedLive'
  BY <1>1, <1>3 DEF WantedLive
<1>6. CASE /\ processingNow /\ Holds(o, bRT[o])
           /\ InternalUnregister(o, bRT[o])
           /\ UNCHANGED registration
  <2>1. Processing /\ (InRT(o) \/ InItems(o) \/ current = o)
    BY <1>6 DEF processingNow, Processing, Holds, InRT, InItems
  <2>2. Unasked(o) /\ Placed(o) /\ ~InProcessed(o)
    BY <1>1, <2>1 DEF Undisturbed, Placed, Apart
  <2>3. bRT[o] <=> InRT(o)
    BY <1>1, <2>2 DEF Queue, Settled
  <2>4. /\ Apart' /\ ~Placed(o)'
        /\ \A u \in Objects : u # o => (InRT(u)' <=> InRT(u)) /\ (Placed(u)' <=> Placed(u))
        /\ \A u \in Objects : /\ InRT(u)' => InRT(u)
                              /\ InItems(u)' => InItems(u)
                              /\ current' = u => current = u
        /\ items' \subseteq items /\ current' \in {current, Null}
        /\ itemsRT' \in Seq(Objects) /\ stale' \in Seq(Objects)
        /\ holes' \in [0..MaxTime + Max(Intervals) -> Nat]
        /\ phase # "realtime" \/ ~InRT(o) => stale' = stale
    BY <1>1, <1>2, <1>4, <1>6, <2>2, <2>3, TakenOut
  <2>5. TypeOK'
    BY <1>1, <1>2, <1>3, <1>6, <2>4 DEF TypeOK
  <2>6. PICK q : q = registration /\ q = registration'
    BY <1>6
  <2>7. /\ Alternate(q) /\ FirstStrikes /\ LastIsWish /\ Settled
        /\ \A k \in DOMAIN q : q[k].obj # o /\ q[k].obj \in Objects
    <3>1. \A k \in DOMAIN q : q[k] \in Requests
      BY <1>4, <2>6, ElementOfSeq, LenProperties
    <3> QED
      BY <1>1, <2>2, <2>6, <3>1 DEF Queue, Unasked, Requests
  <2>8. Queue'
    <3>1. FirstStrikes'
      BY <2>4, <2>6, <2>7 DEF FirstStrikes
    <3>2. LastIsWish'
      BY <1>2, <1>3, <2>6, <2>7 DEF LastIsWish
    <3>3. Settled'
      BY <1>2, <1>3, <2>4, <2>6, <2>7 DEF Settled, Unasked
    <3>4. Alternate(registration)'
      BY <2>6, <2>7
    <3> QED
      BY <3>1, <3>2, <3>3, <3>4 DEF Queue
  <2>9. Hands'
    BY <1>1, <1>2, <1>6, <2>1, <2>4 DEF Hands, Processing
  <2>10. InTurn'
    BY <1>1, <1>2, <2>4 DEF InTurn
  <2>11. Undisturbed'
    BY <1>1, <1>2, <1>6, <2>4 DEF Undisturbed, Processing, Unasked
  <2> QED
    BY <1>5, <2>4, <2>5, <2>8, <2>9, <2>10, <2>11 DEF IInv
<1>7. CASE /\ ~(processingNow /\ Holds(o, bRT[o]))
           /\ Request(FALSE, bRT[o], o)
           /\ UNCHANGED <<itemsRT, stale, items, holes, current>>
  <2>1. registration' \in Seq(Requests)
    <3>1. [op |-> FALSE, rt |-> bRT[o], obj |-> o] \in Requests
      BY <1>4 DEF Requests
    <3> QED
      BY <1>4, <1>7, <3>1, AppendProperties DEF Request
  <2>2. TypeOK'
    BY <1>1, <1>2, <1>3, <1>7, <2>1 DEF TypeOK
  <2>3. /\ Apart'
        /\ \A u : (InRT(u)' <=> InRT(u)) /\ (InItems(u)' <=> InItems(u)) /\ (Placed(u)' <=> Placed(u))
    BY <1>1, <1>2, <1>7, PlacesStay
  <2>4. Queue' /\ \A u \in Objects : u # o /\ Unasked(u) => Unasked(u)'
    BY <1>1, <1>2, <1>3, <1>4, <1>7, <2>3, QueueGrows
  <2>5. Hands' /\ InTurn'
    BY <1>1, <1>2, <1>7 DEF Hands, Processing, InTurn
  <2>6. Undisturbed'
    <3>1. SUFFICES ASSUME Processing, NEW u \in Objects, InRT(u) \/ InItems(u) \/ current = u
                   PROVE  Unasked(u)'
      BY <1>2, <1>7, <2>3 DEF Undisturbed, Processing
    <3>2. Unasked(u) /\ Placed(u)
      BY <1>1, <3>1 DEF Undisturbed, Placed
    <3>3. (bRT[u] <=> InRT(u)) /\ (InItems(u) => ~InRT(u))
      BY <1>1, <3>2 DEF Queue, Settled, Apart
    <3>4. u # o
      BY <1>7, <3>1, <3>3 DEF processingNow, Processing, Holds, InRT, InItems
    <3> QED
      BY <2>4, <3>2, <3>4
  <2> QED
    BY <1>5, <2>2, <2>3, <2>4, <2>5, <2>6 DEF IInv
<1> QED
  BY <1>6, <1>7 DEF UnregisterCall

LEMMA OwnerKeeps ==
    ASSUME IInv, Owner
    PROVE  IInv'
<1>1. ASSUME NEW o \in Objects, Unregister(o) PROVE IInv'
  BY <1>1, UnregisterKeeps DEF Unregister
<1>2. ASSUME NEW o \in Objects, Delete(o) PROVE IInv'
  BY <1>2, UnregisterKeeps DEF Delete
<1> QED
  BY <1>1, <1>2, CreateKeeps, RegisterKeeps, SetDestroyKeeps DEF Owner
-----------------------------------------------------------------------------
(* The steps of internal_Registration *)

LEMMA DrainsAlone ==
    ASSUME IInv, Draining
    PROVE  /\ registration \in Seq(Requests) /\ registration # <<>>
           /\ Head(registration) = registration[1] /\ 1 \in DOMAIN registration
           /\ registration[1] \in Requests /\ registration[1].obj \in Objects
           /\ registration[1].op \in BOOLEAN /\ registration[1].rt \in BOOLEAN
           /\ IsFirst(registration, 1)
           /\ Later = Tail(registration) /\ Later \in Seq(Requests)
           /\ ~Processing /\ callee = Null /\ current = Null /\ item = NoItem
           /\ processed = {} /\ stale = <<>> /\ \A o : ~InProcessed(o)
<1>1. registration \in Seq(Requests) /\ registration # <<>> /\ phase \in {"opening", "closing"}
  BY DEF IInv, TypeOK, Draining
<1>2. /\ DOMAIN registration = 1..Len(registration) /\ 1 \in DOMAIN registration
      /\ Head(registration) = registration[1] /\ Tail(registration) \in Seq(Requests)
  BY <1>1, TailThins
<1>3. registration[1] \in Requests
  BY <1>1, <1>2, ElementOfSeq
<1>4. /\ registration[1].obj \in Objects
      /\ registration[1].op \in BOOLEAN /\ registration[1].rt \in BOOLEAN
  BY <1>3 DEF Requests
<1>5. IsFirst(registration, 1)
  BY <1>2 DEF IsFirst
<1>6. ~Processing
  BY <1>1 DEF Processing
<1>7. callee = Null /\ current = Null /\ item = NoItem /\ processed = {} /\ stale = <<>>
  BY <1>1, <1>6 DEF IInv, Hands
<1> QED
  BY <1>1, <1>2, <1>3, <1>4, <1>5, <1>6, <1>7 DEF Later, InProcessed

LEMMA CancelKeeps ==
    ASSUME IInv, Cancel
    PROVE  IInv'
<1>1. TypeOK /\ Apart /\ Hands /\ Queue /\ Undisturbed /\ WantedLive /\ InTurn
  BY DEF IInv
<1>2. UNCHANGED <<itemsRT, stale, items, holes, processed, current, phase, i,
                  callee, item, now, bRT, life, wanted, updated>>
  BY DEF Cancel, lists, owners
<1>3. Draining
  BY DEF Cancel
<1>4. /\ registration \in Seq(Requests) /\ registration # <<>>
      /\ Head(registration) = registration[1] /\ 1 \in DOMAIN registration
      /\ registration[1] \in Requests /\ registration[1].obj \in Objects
      /\ IsFirst(registration, 1) /\ Later = Tail(registration) /\ ~Processing
  BY <1>3, DrainsAlone
<1>5. PICK o \in Objects : o = registration[1].obj
  BY <1>4
<1>6. PICK p : p = PairOf(registration[1])
  OBVIOUS
<1>7. registration[1].op /\ p # 0 /\ registration' = RemoveAt(Later, p)
  BY <1>4, <1>6 DEF Cancel
<1>8. /\ p \in DOMAIN Later /\ IsPair(registration[1], Later[p])
      /\ \A k \in DOMAIN Later : IsPair(registration[1], Later[k]) => p <= k
  BY <1>4, <1>6, <1>7, PairFound
<1>9. PICK r : r = registration' /\ r = RemoveAt(Tail(registration), p)
  BY <1>4, <1>7
<1>10. /\ r \in Seq(Requests)
       /\ \E f : Thinned(registration, r, f, o)
       /\ \E m \in DOMAIN registration :
             /\ ~registration[m].op /\ registration[m].obj = o
             /\ (\A k \in DOMAIN r : r[k].obj # o) => IsLast(registration, m)
  <2>1. Alternate(registration)
    BY <1>1 DEF Queue
  <2> QED
    BY <1>4, <1>5, <1>7, <1>8, <1>9, <2>1, PairThins
<1>11. PICK f : Thinned(registration, r, f, o)
  BY <1>10
<1>12. /\ Apart'
       /\ \A u : (InRT(u)' <=> InRT(u)) /\ (InItems(u)' <=> InItems(u)) /\ (Placed(u)' <=> Placed(u))
  BY <1>1, <1>2, PlacesStay
<1>13. ~Placed(o)
  BY <1>1, <1>4, <1>5, <1>7 DEF Queue, FirstStrikes
<1>14. Unasked(o)' => ~wanted[o]
  <2>1. HAVE Unasked(o)'
  <2>2. \A k \in DOMAIN r : r[k].obj # o
    BY <1>9, <2>1 DEF Unasked
  <2>3. PICK m \in DOMAIN registration : /\ ~registration[m].op /\ registration[m].obj = o
                                         /\ IsLast(registration, m)
    BY <1>10, <2>2
  <2> QED
    BY <1>1, <2>3 DEF Queue, LastIsWish
<1>15. Queue'
  <2>1. ~Placed(o)'
    BY <1>12, <1>13
  <2> QED
    BY <1>1, <1>2, <1>4, <1>9, <1>10, <1>11, <1>12, <1>14, <2>1, QueueThins
<1>16. TypeOK'
  BY <1>1, <1>2, <1>9, <1>10 DEF TypeOK
<1>17. Hands' /\ InTurn'
  BY <1>1, <1>2 DEF Hands, Processing, InTurn
<1>18. Undisturbed'
  BY <1>2, <1>4 DEF Undisturbed, Processing
<1>19. WantedLive'
  BY <1>1, <1>2 DEF WantedLive
<1> QED
  BY <1>12, <1>15, <1>16, <1>17, <1>18, <1>19 DEF IInv

\* A registration without a pair is the object's only request.
LEMMA OnlyRequest ==
    ASSUME IInv, Draining, registration[1].op, PairOf(registration[1]) = 0
    PROVE  /\ IsLast(registration, 1)
           /\ \A k \in DOMAIN Later : Later[k].obj # registration[1].obj
<1>1. /\ registration \in Seq(Requests) /\ registration # <<>>
      /\ registration[1] \in Requests /\ Later = Tail(registration)
  BY DrainsAlone
<1>2. PICK n \in Nat : /\ n = Len(registration) /\ DOMAIN registration = 1..n /\ n # 0
                       /\ DOMAIN Later = 1..(n - 1)
                       /\ \A k \in 1..(n - 1) : Later[k] = registration[k + 1]
  BY <1>1, TailThins, EmptySeq
<1>3. \A k \in DOMAIN Later : ~IsPair(registration[1], Later[k])
  BY <1>1, PairFound
<1>4. ASSUME NEW k \in DOMAIN registration, k # 1, registration[k].obj = registration[1].obj
      PROVE  registration[k].op
  <2>1. k - 1 \in 1..(n - 1) /\ (k - 1) + 1 = k
    BY <1>2, <1>4
  <2>2. Later[k - 1] = registration[k] /\ ~IsPair(registration[1], Later[k - 1])
    BY <1>2, <1>3, <2>1
  <2> QED
    BY <1>4, <2>2 DEF IsPair
<1>5. ASSUME NEW k \in DOMAIN registration, k # 1, registration[k].obj = registration[1].obj
      PROVE  FALSE
  <2>1. 1 \in DOMAIN registration /\ 1 < k
    BY <1>2, <1>5
  <2>2. PICK m \in DOMAIN registration :
           1 < m /\ m < k /\ registration[m].obj = registration[1].obj /\ ~registration[m].op
    BY <1>4, <1>5, <2>1 DEF IInv, Queue, Alternate
  <2> QED
    BY <1>2, <1>4, <2>2
<1>6. IsLast(registration, 1)
  BY <1>2, <1>5 DEF IsLast
<1>7. \A k \in DOMAIN Later : Later[k].obj # registration[1].obj
  <2>1. SUFFICES ASSUME NEW k \in 1..(n - 1), Later[k].obj = registration[1].obj PROVE FALSE
    BY <1>2
  <2>2. k + 1 \in DOMAIN registration /\ k + 1 # 1 /\ registration[k + 1] = Later[k]
    BY <1>2
  <2> QED
    BY <1>5, <2>1, <2>2
<1> QED
  BY <1>6, <1>7

LEMMA EnlistKeeps ==
    ASSUME IInv, Enlist
    PROVE  IInv'
<1>1. TypeOK /\ Apart /\ Hands /\ Queue /\ Undisturbed /\ WantedLive /\ InTurn
  BY DEF IInv
<1>2. UNCHANGED <<stale, holes, processed, current, phase, i, callee, item,
                  now, life, wanted, updated>>
  BY DEF Enlist
<1>3. Draining
  BY DEF Enlist
<1>4. /\ registration \in Seq(Requests) /\ registration # <<>>
      /\ Head(registration) = registration[1] /\ 1 \in DOMAIN registration
      /\ registration[1] \in Requests /\ registration[1].obj \in Objects
      /\ registration[1].rt \in BOOLEAN
      /\ IsFirst(registration, 1) /\ Later = Tail(registration) /\ ~Processing
      /\ callee = Null /\ item = NoItem
  BY <1>3, DrainsAlone
<1>5. PICK o \in Objects, rt \in BOOLEAN : o = registration[1].obj /\ rt = registration[1].rt
  BY <1>4
<1>6. registration[1].op /\ PairOf(registration[1]) = 0 /\ registration' = Later
  BY <1>4 DEF Enlist
<1>7. IsLast(registration, 1) /\ \A k \in DOMAIN Later : Later[k].obj # o
  BY <1>3, <1>5, <1>6, OnlyRequest
<1>8. wanted[o] /\ (rt <=> bRT[o])
  BY <1>1, <1>4, <1>5, <1>6, <1>7 DEF Queue, LastIsWish
<1>9. ~Placed(o)
  BY <1>1, <1>4, <1>5, <1>6 DEF Queue, FirstStrikes
<1>10. bRT' = bRT
  <2>1. bRT' = [bRT EXCEPT ![o] = rt] /\ bRT \in [Objects -> BOOLEAN]
    BY <1>1, <1>4, <1>5 DEF Enlist, TypeOK
  <2> QED
    BY <1>8, <2>1
<1>11. itemsRT \in Seq(Objects) /\ items \subseteq Item /\ now \in Nat
  BY <1>1 DEF TypeOK
\* the object is in one list from now on
<1>12. /\ itemsRT' \in Seq(Objects) /\ items' \subseteq Item
       /\ Apart' /\ Placed(o)' /\ (InRT(o)' <=> rt)
       /\ \A u \in Objects : u # o => (InRT(u)' <=> InRT(u)) /\ (Placed(u)' <=> Placed(u))
       /\ \A it \in items' : it \in items \/ it.last <= it.at
  <2>1. CASE rt /\ itemsRT' = Append(itemsRT, o) /\ items' = items
    <3>1. PICK s : s = itemsRT' /\ s = Append(itemsRT, o)
      BY <2>1
    <3>2. s \in Seq(Objects) /\ Range(s) = Range(itemsRT) \cup {o}
      BY <1>11, <3>1, AppendProperties, AppendRange
    <3>3. /\ \A u : InRT(u)' <=> InRT(u) \/ u = o
          /\ \A u : (InItems(u)' <=> InItems(u)) /\ (InProcessed(u)' <=> InProcessed(u))
      BY <1>2, <2>1, <3>1, <3>2 DEF InRT, InItems, InProcessed
    <3>4. Distinct(s)
      <4>1. PICK n \in Nat : n = Len(itemsRT) /\ DOMAIN itemsRT = 1..n
        BY <1>11, LenProperties
      <4>2. DOMAIN s = 1..(n + 1) /\ s[n + 1] = o /\ \A k \in 1..n : s[k] = itemsRT[k]
        BY <1>11, <3>1, <4>1, AppendShifts
      <4>3. \A k \in 1..n : itemsRT[k] # o
        BY <1>9, <4>1 DEF Placed, InRT, Range
      <4>4. Distinct(itemsRT)
        BY <1>1 DEF Apart
      <4>5. \A k \in DOMAIN s : k \in 1..n \/ k = n + 1
        BY <4>2
      <4> QED
        BY <4>1, <4>2, <4>3, <4>4, <4>5 DEF Distinct
    <3>5. Distinct(itemsRT)' /\ OneItem(items)' /\ OneItem(processed)'
      BY <1>1, <1>2, <2>1, <3>1, <3>4 DEF Apart
    <3>6. Apart'
      BY <1>1, <1>2, <1>9, <3>3, <3>5 DEF Apart, Placed
    <3>7. \A u : Placed(u)' <=> Placed(u) \/ u = o
      BY <1>2, <3>3 DEF Placed
    <3> QED
      BY <1>11, <2>1, <3>1, <3>2, <3>3, <3>6, <3>7
  <2>2. CASE ~rt /\ items' = items \cup {[obj |-> o, at |-> now, last |-> now]} /\ itemsRT' = itemsRT
    <3> DEFINE new == [obj |-> o, at |-> now, last |-> now]
    <3>1. new \in Item /\ new.obj = o /\ new.last <= new.at
      BY <1>11 DEF Item
    <3>2. items' = items \cup {new}
      BY <2>2
    <3> HIDE DEF new
    <3>3. /\ \A u : (InRT(u)' <=> InRT(u)) /\ (InProcessed(u)' <=> InProcessed(u))
          /\ \A u : InItems(u)' <=> InItems(u) \/ u = o
      BY <1>2, <2>2, <3>1, <3>2 DEF InRT, InItems, InProcessed
    <3>4. OneItem(items)'
      BY <1>1, <1>9, <3>1, <3>2 DEF Apart, OneItem, Placed, InItems
    <3>5. Distinct(itemsRT)' /\ OneItem(processed)'
      BY <1>1, <1>2, <2>2 DEF Apart
    <3>6. Apart'
      BY <1>1, <1>2, <1>9, <3>3, <3>4, <3>5 DEF Apart, Placed
    <3>7. \A u : Placed(u)' <=> Placed(u) \/ u = o
      BY <1>2, <3>3 DEF Placed
    <3> QED
      BY <1>9, <1>11, <2>2, <3>1, <3>2, <3>3, <3>6, <3>7 DEF Placed
  <2> QED
    BY <1>4, <1>5, <2>1, <2>2 DEF Enlist
<1>13. PICK r : r = registration' /\ r = Tail(registration)
  BY <1>4, <1>6
<1>14. /\ r \in Seq(Requests)
       /\ Thinned(registration, r, [k \in DOMAIN r |-> k + 1], o)
  BY <1>4, <1>5, <1>13, TailThins
<1>15. Unasked(o)'
  BY <1>4, <1>7, <1>13 DEF Unasked
<1>16. Queue'
  BY <1>1, <1>2, <1>4, <1>8, <1>10, <1>12, <1>13, <1>14, <1>15, QueueThins
<1>17. TypeOK'
  BY <1>1, <1>2, <1>10, <1>12, <1>13, <1>14 DEF TypeOK
<1>18. Hands'
  BY <1>1, <1>2 DEF Hands, Processing
<1>19. InTurn'
  BY <1>1, <1>2, <1>4, <1>12 DEF InTurn
<1>20. Undisturbed'
  BY <1>2, <1>4 DEF Undisturbed, Processing
<1>21. WantedLive'
  BY <1>1, <1>2 DEF WantedLive
<1> QED
  BY <1>12, <1>16, <1>17, <1>18, <1>19, <1>20, <1>21 DEF IInv

LEMMA StrikeKeeps ==
    ASSUME IInv, Strike
    PROVE  IInv'
<1>1. TypeOK /\ Apart /\ Hands /\ Queue /\ Undisturbed /\ WantedLive /\ InTurn
  BY DEF IInv
<1>2. UNCHANGED <<processed, phase, i, callee, item, now, bRT, life, wanted, updated>>
  BY DEF Strike, owners
<1>3. Draining
  BY DEF Strike
<1>4. /\ registration \in Seq(Requests) /\ registration # <<>>
      /\ Head(registration) = registration[1] /\ 1 \in DOMAIN registration
      /\ registration[1] \in Requests /\ registration[1].obj \in Objects
      /\ registration[1].rt \in BOOLEAN
      /\ IsFirst(registration, 1) /\ Later = Tail(registration) /\ ~Processing
      /\ callee = Null /\ current = Null /\ item = NoItem
      /\ processed = {} /\ stale = <<>> /\ \A u : ~InProcessed(u)
  BY <1>3, DrainsAlone
<1>5. PICK o \in Objects, rt \in BOOLEAN : o = registration[1].obj /\ rt = registration[1].rt
  BY <1>4
<1>6. /\ ~registration[1].op /\ registration' = Later
      /\ \/ InternalUnregister(o, rt)
         \/ ~Holds(o, rt) /\ UNCHANGED <<itemsRT, stale, items, holes, current>>
  BY <1>4, <1>5 DEF Strike
<1>7. Placed(o) => (rt <=> InRT(o))
  BY <1>1, <1>4, <1>5 DEF Queue, FirstStrikes
<1>8. /\ itemsRT' \in Seq(Objects) /\ items' \subseteq items /\ stale' = stale
      /\ holes' \in [0..MaxTime + Max(Intervals) -> Nat] /\ current' = Null
      /\ Apart' /\ ~Placed(o)'
      /\ \A u \in Objects : u # o => (InRT(u)' <=> InRT(u)) /\ (Placed(u)' <=> Placed(u))
  <2>1. CASE InternalUnregister(o, rt)
    <3>1. Placed(o)
      BY <2>1 DEF InternalUnregister, Placed, InRT, InItems
    <3>2. phase # "realtime"
      BY <1>4 DEF Processing
    <3> QED
      BY <1>1, <1>2, <1>4, <1>7, <2>1, <3>1, <3>2, TakenOut
  <2>2. CASE ~Holds(o, rt) /\ UNCHANGED <<itemsRT, stale, items, holes, current>>
    <3>1. /\ Apart'
          /\ \A u : (InRT(u)' <=> InRT(u)) /\ (Placed(u)' <=> Placed(u))
      BY <1>1, <1>2, <2>2, PlacesStay
    <3>2. ~Placed(o)
      BY <1>4, <1>7, <2>2 DEF Holds, Placed, InRT, InItems
    <3> QED
      BY <1>1, <1>4, <2>2, <3>1, <3>2 DEF TypeOK
  <2> QED
    BY <1>6, <2>1, <2>2
<1>9. PICK r : r = registration' /\ r = Tail(registration)
  BY <1>4, <1>6
<1>10. /\ r \in Seq(Requests)
       /\ Thinned(registration, r, [k \in DOMAIN r |-> k + 1], o)
       /\ DOMAIN registration = 1..Len(registration) /\ Len(registration) \in Nat
       /\ DOMAIN r = 1..(Len(registration) - 1)
       /\ \A k \in DOMAIN r : r[k] = registration[k + 1]
  BY <1>4, <1>5, <1>9, TailThins
<1>11. Unasked(o)' => ~wanted[o]
  <2>1. HAVE Unasked(o)'
  <2>2. \A k \in DOMAIN r : r[k].obj # o
    BY <1>9, <2>1 DEF Unasked
  <2>3. IsLast(registration, 1)
    <3>1. SUFFICES ASSUME NEW j \in DOMAIN registration, registration[j].obj = o PROVE j <= 1
      BY <1>5 DEF IsLast
    <3>2. j # 1 => j - 1 \in DOMAIN r /\ (j - 1) + 1 = j
      BY <1>10
    <3>3. j = 1
      BY <1>10, <2>2, <3>1, <3>2
    <3> QED
      BY <3>3
  <2> QED
    BY <1>1, <1>4, <1>5, <1>6, <2>3 DEF Queue, LastIsWish
<1>12. Queue'
  BY <1>1, <1>2, <1>4, <1>8, <1>9, <1>10, <1>11, QueueThins
<1>13. TypeOK'
  BY <1>1, <1>2, <1>4, <1>8, <1>9, <1>10 DEF TypeOK
<1>14. Hands'
  BY <1>1, <1>2, <1>8 DEF Hands, Processing
<1>15. InTurn'
  BY <1>1, <1>2, <1>4, <1>8 DEF InTurn
<1>16. Undisturbed'
  BY <1>2, <1>4 DEF Undisturbed, Processing
<1>17. WantedLive'
  BY <1>1, <1>2 DEF WantedLive
<1> QED
  BY <1>8, <1>12, <1>13, <1>14, <1>15, <1>16, <1>17 DEF IInv
-----------------------------------------------------------------------------
(* The other steps of Update *)

LEMMA ListsStay ==
    ASSUME IInv, UNCHANGED <<itemsRT, items, processed, current, registration, owners>>
    PROVE  /\ Apart' /\ Queue' /\ WantedLive'
           /\ phase' = phase \/ ~Processing' \/ registration = <<>> => Undisturbed'
<1>1. TypeOK /\ Apart /\ Queue /\ Undisturbed /\ WantedLive
  BY DEF IInv
<1>2. UNCHANGED <<bRT, life, wanted>>
  BY DEF owners
<1>3. /\ Apart'
      /\ \A u : (InRT(u)' <=> InRT(u)) /\ (InItems(u)' <=> InItems(u)) /\ (Placed(u)' <=> Placed(u))
  BY <1>1, PlacesStay
<1>4. registration \in Seq(Requests)
  BY <1>1 DEF TypeOK
<1>5. Queue'
  BY <1>1, <1>2, <1>3, <1>4, QueueStays
<1>6. WantedLive'
  BY <1>1, <1>2 DEF WantedLive
<1>7. ASSUME phase' = phase \/ ~Processing' \/ registration = <<>> PROVE Undisturbed'
  <2>1. \A u : Unasked(u)' <=> Unasked(u)
    BY DEF Unasked
  <2>2. registration = <<>> => \A u : Unasked(u)
    BY DEF Unasked
  <2> QED
    BY <1>1, <1>3, <1>7, <2>1, <2>2 DEF Undisturbed, Processing
<1> QED
  BY <1>3, <1>5, <1>6, <1>7

LEMMA BoundaryKeeps ==
    ASSUME IInv, Begin \/ StartProcessing \/ End
    PROVE  IInv'
<1>1. TypeOK /\ Hands /\ InTurn
  BY DEF IInv
<1>2. UNCHANGED <<itemsRT, stale, items, holes, processed, registration, current,
                  callee, item, bRT, life, wanted>>
  BY DEF Begin, StartProcessing, End, lists, owners
<1>3. Apart' /\ Queue' /\ WantedLive' /\ Undisturbed'
  <2>1. ~Processing' \/ registration = <<>>
    BY DEF Begin, StartProcessing, End, Processing
  <2> QED
    BY <1>2, <2>1, ListsStay DEF owners
<1>4. /\ phase' \in {"opening", "realtime", "idle"} /\ phase # "realtime" /\ phase # "step"
      /\ i' \in Nat /\ now' \in 0..MaxTime /\ updated' \subseteq Objects
      /\ phase' = "realtime" => i' = 1
  <2>1. i \in Nat /\ now \in 0..MaxTime /\ updated \subseteq Objects
    BY <1>1 DEF TypeOK
  <2>2. CASE Begin
    BY <2>1, <2>2 DEF Begin
  <2>3. CASE StartProcessing
    BY <2>1, <2>3 DEF StartProcessing
  <2>4. CASE End
    BY <2>1, <2>4 DEF End
  <2> QED
    BY <2>2, <2>3, <2>4
<1>5. TypeOK'
  BY <1>1, <1>2, <1>4 DEF TypeOK, Phases
<1>6. Hands'
  BY <1>1, <1>2, <1>4 DEF Hands, Processing
<1>7. InTurn'
  BY <1>1, <1>2 DEF InTurn
<1> QED
  BY <1>3, <1>5, <1>6, <1>7 DEF IInv

LEMMA SlotsTyped ==
    ASSUME TypeOK
    PROVE  /\ Slots \in Seq(Objects) /\ Len(Slots) \in Nat
           /\ \A k \in Nat : k # 0 /\ k <= Len(Slots) => Slots[k] \in Objects
<1>1. Slots \in Seq(Objects)
  BY ConcatProperties DEF TypeOK, Slots
<1> QED
  BY <1>1, ElementOfSeq, LenProperties

LEMMA RealTimeKeeps ==
    ASSUME IInv, NextRT \/ ReturnRT \/ DoneRT
    PROVE  IInv'
<1>1. TypeOK /\ Hands /\ InTurn
  BY DEF IInv
<1>2. UNCHANGED <<itemsRT, items, holes, processed, registration, current,
                  item, now, bRT, life, wanted>>
  BY DEF NextRT, ReturnRT, DoneRT, lists, owners
<1>3. phase = "realtime" /\ phase' \in {"realtime", "step"}
  BY DEF NextRT, ReturnRT, DoneRT
<1>4. item = NoItem /\ current = Null /\ i # 0
  BY <1>1, <1>3 DEF Hands
<1>5. /\ stale' \in Seq(Objects) /\ i' \in Nat /\ (phase' = "step" => i' = 0 /\ stale' = <<>>)
      /\ phase' = "realtime" => i' # 0
      /\ callee' \in Objects \cup {Null} /\ updated' \subseteq Objects
  <2>1. i \in Nat /\ stale \in Seq(Objects) /\ callee \in Objects \cup {Null} /\ updated \subseteq Objects
    BY <1>1 DEF TypeOK
  <2>2. CASE NextRT
    <3>1. i <= Len(Slots) /\ Slots[i] \in Objects
      BY <1>1, <1>4, <2>1, <2>2, SlotsTyped DEF NextRT
    <3>2. phase' = "realtime" /\ stale' = stale
      BY <1>3, <2>2 DEF NextRT, lists
    <3>3. i' \in Nat /\ i' # 0 /\ callee' \in Objects \cup {Null} /\ updated' \subseteq Objects
      BY <1>4, <2>1, <2>2, <3>1 DEF NextRT
    <3> QED
      BY <2>1, <3>2, <3>3
  <2>3. CASE ReturnRT
    BY <1>3, <1>4, <2>1, <2>3 DEF ReturnRT, lists
  <2>4. CASE DoneRT
    BY <2>1, <2>4 DEF DoneRT
  <2> QED
    BY <2>2, <2>3, <2>4
<1>6. TypeOK'
  BY <1>1, <1>2, <1>3, <1>4, <1>5 DEF TypeOK, Phases
<1>7. Apart' /\ Queue' /\ WantedLive'
  BY <1>2, ListsStay DEF owners
<1>8. Undisturbed'
  <2>1. /\ Apart'
        /\ \A u : (InRT(u)' <=> InRT(u)) /\ (InItems(u)' <=> InItems(u)) /\ (Placed(u)' <=> Placed(u))
    BY <1>2, PlacesStay DEF IInv
  <2>2. \A u : Unasked(u)' <=> Unasked(u)
    BY <1>2 DEF Unasked
  <2> QED
    BY <1>2, <1>3, <2>1, <2>2 DEF IInv, Undisturbed, Processing
<1>9. Hands'
  BY <1>1, <1>2, <1>3, <1>4, <1>5 DEF Hands, Processing
<1>10. InTurn'
  BY <1>1, <1>2 DEF InTurn
<1> QED
  BY <1>6, <1>7, <1>8, <1>9, <1>10 DEF IInv

LEMMA AdvanceBelow ==
    ASSUME NEW n \in Nat
    PROVE  Advance(n) \in Nat /\ Advance(n) < Batch
<1>1. n + 1 \in Nat /\ Batch \in Nat /\ Batch > 0
  OBVIOUS
<1>2. (n + 1) % Batch \in 0..(Batch - 1)
  BY <1>1
<1> QED
  BY <1>1, <1>2 DEF Advance

\* Between two calls ProcessStep has nothing in hand.
LEMMA NothingInHand ==
    ASSUME TypeOK, Hands, callee = Null
    PROVE  item = NoItem /\ current = Null
<1>1. item \in Item => item.obj \in Objects
  BY DEF Item
<1>2. item = NoItem
  BY <1>1 DEF TypeOK, Hands
<1> QED
  BY <1>2 DEF Hands

LEMMA SkipHoleKeeps ==
    ASSUME IInv, SkipHole
    PROVE  IInv'
<1>1. TypeOK /\ Hands /\ InTurn
  BY DEF IInv
<1>2. /\ UNCHANGED <<itemsRT, stale, items, processed, registration, current,
                     phase, callee, item, now, bRT, life, wanted, updated>>
      /\ phase = "step" /\ phase # "realtime"
  BY DEF SkipHole, owners
<1>3. i' \in Nat /\ i' < Batch
  BY <1>1, AdvanceBelow DEF TypeOK, SkipHole
<1>4. holes' \in [0..MaxTime + Max(Intervals) -> Nat]
  <2> DEFINE D == 0..MaxTime + Max(Intervals)
  <2>1. holes \in [D -> Nat]
    BY <1>1 DEF TypeOK
  <2> HIDE DEF D
  <2>2. PICK t \in D : holes[t] > 0 /\ holes' = [holes EXCEPT ![t] = @ - 1]
    BY <2>1 DEF SkipHole
  <2>3. holes[t] - 1 \in Nat
    BY <2>1, <2>2
  <2>4. holes' \in [D -> Nat]
    BY <2>1, <2>2, <2>3
  <2> QED
    BY <2>4 DEF D
<1>5. TypeOK'
  BY <1>1, <1>2, <1>3, <1>4 DEF TypeOK
<1>6. Apart' /\ Queue' /\ WantedLive' /\ Undisturbed'
  BY <1>2, ListsStay DEF owners
<1>7. Hands' /\ InTurn'
  BY <1>1, <1>2 DEF Hands, Processing, InTurn
<1> QED
  BY <1>5, <1>6, <1>7 DEF IInv

LEMMA ReturnGoneKeeps ==
    ASSUME IInv, ReturnGone
    PROVE  IInv'
<1>1. TypeOK /\ Hands /\ InTurn
  BY DEF IInv
<1>2. /\ UNCHANGED <<itemsRT, stale, items, holes, processed, registration, current,
                     phase, now, bRT, life, wanted, updated>>
      /\ phase = "step" /\ phase # "realtime"
      /\ current = Null /\ callee' = Null /\ item' = NoItem
  BY DEF ReturnGone, owners, lists
<1>3. i' \in Nat /\ i' < Batch
  BY <1>1, AdvanceBelow DEF TypeOK, ReturnGone
<1>4. TypeOK'
  BY <1>1, <1>2, <1>3 DEF TypeOK
<1>5. Apart' /\ Queue' /\ WantedLive' /\ Undisturbed'
  BY <1>2, ListsStay DEF owners
<1>6. Hands' /\ InTurn'
  BY <1>1, <1>2 DEF Hands, Processing, InTurn
<1> QED
  BY <1>4, <1>5, <1>6 DEF IInv

LEMMA SkipUnneededKeeps ==
    ASSUME IInv, SkipUnneeded
    PROVE  IInv'
<1>1. TypeOK /\ Apart /\ Hands /\ Queue /\ Undisturbed /\ WantedLive /\ InTurn
  BY DEF IInv
<1>2. /\ UNCHANGED <<itemsRT, stale, holes, processed, registration, current,
                     phase, callee, item, now, bRT, life, wanted, updated>>
      /\ phase = "step" /\ phase # "realtime"
  BY DEF SkipUnneeded, owners
<1>3. PICK it \in items : life[it.obj] # "alive" /\ items' = items \ {it}
  BY DEF SkipUnneeded
<1>4. i' \in Nat /\ i' < Batch
  BY <1>1, AdvanceBelow DEF TypeOK, SkipUnneeded
<1>5. TypeOK'
  BY <1>1, <1>2, <1>3, <1>4 DEF TypeOK
<1>6. /\ \A u : (InRT(u)' <=> InRT(u)) /\ (InProcessed(u)' <=> InProcessed(u))
      /\ \A u : InItems(u)' => InItems(u)
      /\ \A u : InItems(u) /\ u # it.obj => InItems(u)'
  BY <1>2, <1>3 DEF InRT, InItems, InProcessed
<1>7. Apart'
  <2>1. Distinct(itemsRT)' /\ OneItem(items)' /\ OneItem(processed)'
    BY <1>1, <1>2, <1>3 DEF Apart, OneItem
  <2> QED
    BY <1>1, <1>2, <1>6, <2>1 DEF Apart
<1>8. /\ \A u : Placed(u)' => Placed(u)
      /\ \A u : Placed(u) /\ ~Placed(u)' => u = it.obj
  BY <1>2, <1>6 DEF Placed
<1>9. Queue'
  <2>1. registration \in Seq(Requests)
    BY <1>1 DEF TypeOK
  <2> QED
    BY <1>1, <1>2, <1>3, <1>6, <1>8, <2>1, QueueStays
<1>10. Hands'
  BY <1>1, <1>2 DEF Hands, Processing
<1>11. InTurn'
  BY <1>1, <1>2, <1>3 DEF InTurn
<1>12. Undisturbed'
  BY <1>1, <1>2, <1>6 DEF Undisturbed, Processing, Unasked
<1>13. WantedLive'
  BY <1>1, <1>2 DEF WantedLive
<1> QED
  BY <1>5, <1>7, <1>9, <1>10, <1>11, <1>12, <1>13 DEF IInv

LEMMA CallTopKeeps ==
    ASSUME IInv, CallTop
    PROVE  IInv'
<1>1. TypeOK /\ Apart /\ Hands /\ Queue /\ Undisturbed /\ WantedLive /\ InTurn
  BY DEF IInv
<1>2. /\ UNCHANGED <<itemsRT, stale, holes, processed, registration, phase, i,
                     now, bRT, life, wanted>>
      /\ phase = "step" /\ callee = Null
  BY DEF CallTop, owners
<1>3. PICK it \in items : /\ IsTop(it.at) /\ items' = items \ {it} /\ item' = it
                          /\ callee' = it.obj /\ current' = it.obj
                          /\ updated' = updated \cup {it.obj}
  BY DEF CallTop
<1>4. item = NoItem /\ current = Null
  BY <1>1, <1>2, NothingInHand
<1>5. it \in Item /\ it.obj \in Objects /\ it.at \in Nat /\ it.last \in Nat
  BY <1>1 DEF TypeOK, Item
<1>6. TypeOK'
  BY <1>1, <1>2, <1>3, <1>5 DEF TypeOK
<1>7. \A jt \in items : jt.obj = it.obj => jt = it
  BY <1>1 DEF Apart, OneItem
<1>8. /\ \A u : (InRT(u)' <=> InRT(u)) /\ (InProcessed(u)' <=> InProcessed(u))
      /\ \A u : InItems(u)' <=> InItems(u) /\ u # it.obj
      /\ InItems(it.obj)
  BY <1>2, <1>3, <1>7 DEF InRT, InItems, InProcessed
<1>9. Apart'
  <2>1. Distinct(itemsRT)' /\ OneItem(items)' /\ OneItem(processed)'
    BY <1>1, <1>2, <1>3 DEF Apart, OneItem
  <2> QED
    BY <1>1, <1>2, <1>3, <1>8, <2>1 DEF Apart
<1>10. \A u \in Objects : Placed(u)' <=> Placed(u)
  BY <1>2, <1>3, <1>4, <1>8 DEF Placed
<1>11. Queue'
  <2>1. registration \in Seq(Requests)
    BY <1>1 DEF TypeOK
  <2> QED
    BY <1>1, <1>2, <1>8, <1>10, <2>1, QueueStays
<1>12. Hands'
  <2>1. it # NoItem
    BY <1>5 DEF NoItem
  <2>2. item' # NoItem /\ callee' = item'.obj
    BY <1>3, <2>1
  <2> QED
    BY <1>1, <1>2, <2>2 DEF Hands, Processing
<1>13. InTurn'
  <2>1. \A jt \in items : it.at <= jt.at
    BY <1>3 DEF IsTop, Times
  <2> QED
    BY <1>1, <1>2, <1>3, <2>1 DEF InTurn
<1>14. Undisturbed'
  BY <1>1, <1>2, <1>3, <1>8 DEF Undisturbed, Processing, Unasked
<1>15. WantedLive'
  BY <1>1, <1>2 DEF WantedLive
<1> QED
  BY <1>6, <1>9, <1>11, <1>12, <1>13, <1>14, <1>15 DEF IInv

\* Where the items go that were processed: they wait among the processed, or
\* are pushed back.
LEMMA ReturnFromKeeps ==
    ASSUME IInv, ReturnFrom
    PROVE  IInv'
<1>1. TypeOK /\ Apart /\ Hands /\ Queue /\ Undisturbed /\ WantedLive /\ InTurn
  BY DEF IInv
<1>2. /\ UNCHANGED <<itemsRT, stale, holes, registration, now, bRT, life, wanted, updated>>
      /\ phase = "step" /\ phase # "realtime" /\ callee # Null /\ current # Null
      /\ callee' = Null /\ current' = Null /\ item' = NoItem
  BY DEF ReturnFrom, owners
<1>3. i' \in Nat /\ i' < Batch
  BY <1>1, AdvanceBelow DEF TypeOK, ReturnFrom
<1>4. /\ items \subseteq Item /\ processed \subseteq Item /\ item \in Item \cup {NoItem}
      /\ now \in Nat /\ current \in {callee, Null}
  BY <1>1 DEF TypeOK
<1>5. item \in Item /\ item.obj = current /\ current \in Objects
  BY <1>1, <1>2, <1>4 DEF Hands, Item
<1>6. PICK d \in Intervals :
         LET done == processed \cup {Again(item, d)} IN
         \/ processed' = done /\ UNCHANGED <<items, phase>>
         \/ Advance(i) = 0 /\ PutBack(done)
  BY DEF ReturnFrom
<1>7. PICK e : e = Again(item, d)
  OBVIOUS
<1>8. e \in Item /\ e.obj = current /\ e.last <= e.at
  <2>1. e = [item EXCEPT !.at = now + d, !.last = now] /\ d \in Nat
    BY <1>7 DEF Again
  <2>2. e.obj = item.obj /\ e.at = now + d /\ e.last = now /\ e = [obj |-> e.obj, at |-> e.at, last |-> e.last]
    BY <1>5, <2>1 DEF Item
  <2>3. now + d \in Nat /\ now <= now + d
    BY <1>4, <2>1
  <2>4. e \in Item
    BY <1>4, <1>5, <2>2, <2>3 DEF Item
  <2> QED
    BY <1>5, <2>2, <2>3, <2>4
<1>9. \/ /\ processed' = processed \cup {e} /\ items' = items /\ phase' = "step"
      \/ /\ processed' = {} /\ items' = items \cup processed \cup {e} /\ phase' = "closing"
  BY <1>2, <1>6, <1>7 DEF PutBack
<1>10. TypeOK'
  BY <1>1, <1>2, <1>3, <1>4, <1>8, <1>9 DEF TypeOK, Phases
<1>11. \A u : InRT(u)' <=> InRT(u)
  BY <1>2 DEF InRT
<1>12. \/ /\ phase' = "step"
          /\ \A u : (InItems(u)' <=> InItems(u)) /\ (InProcessed(u)' <=> InProcessed(u) \/ u = current)
       \/ /\ phase' = "closing"
          /\ \A u : ~InProcessed(u)' /\ (InItems(u)' <=> InItems(u) \/ InProcessed(u) \/ u = current)
  <2>1. CASE processed' = processed \cup {e} /\ items' = items /\ phase' = "step"
    BY <1>8, <2>1 DEF InItems, InProcessed
  <2>2. CASE processed' = {} /\ items' = items \cup processed \cup {e} /\ phase' = "closing"
    BY <1>8, <2>2 DEF InItems, InProcessed
  <2> QED
    BY <1>9, <2>1, <2>2
<1>13. Apart'
  <2>1. ~InRT(current) /\ ~InItems(current) /\ ~InProcessed(current)
    BY <1>1, <1>5 DEF Apart
  <2>2. Distinct(itemsRT)'
    BY <1>1, <1>2 DEF Apart
  <2>3. \A it \in items : it.obj # current
    BY <2>1 DEF InItems
  <2>4. \A it \in processed : it.obj # current
    BY <2>1 DEF InProcessed
  <2>5. \A it \in items, jt \in processed : it.obj # jt.obj
    <3>1. \A it \in items : it.obj \in Objects /\ InItems(it.obj)
      BY <1>4 DEF Item, InItems
    <3>2. \A jt \in processed : InProcessed(jt.obj)
      BY DEF InProcessed
    <3> QED
      BY <1>1, <3>1, <3>2 DEF Apart
  <2>6. OneItem(items)' /\ OneItem(processed)'
    BY <1>1, <1>8, <1>9, <2>3, <2>4, <2>5 DEF Apart, OneItem
  <2> QED
    BY <1>1, <1>2, <1>11, <1>12, <2>1, <2>2, <2>6 DEF Apart
<1>14. \A u \in Objects : Placed(u)' <=> Placed(u)
  BY <1>2, <1>11, <1>12 DEF Placed
<1>15. Queue'
  <2>1. registration \in Seq(Requests)
    BY <1>1 DEF TypeOK
  <2> QED
    BY <1>1, <1>2, <1>11, <1>14, <2>1, QueueStays
<1>16. Hands'
  BY <1>1, <1>2, <1>9 DEF Hands, Processing
<1>17. InTurn'
  BY <1>1, <1>2, <1>8, <1>9 DEF InTurn
<1>18. Undisturbed'
  <2>1. CASE phase' = "closing"
    BY <2>1 DEF Undisturbed, Processing
  <2>2. CASE phase' # "closing"
    BY <1>1, <1>2, <1>11, <1>12, <2>2 DEF Undisturbed, Processing, Unasked
  <2> QED
    BY <2>1, <2>2
<1>19. WantedLive'
  BY <1>1, <1>2 DEF WantedLive
<1> QED
  BY <1>10, <1>13, <1>15, <1>16, <1>17, <1>18, <1>19 DEF IInv

LEMMA NothingDueKeeps ==
    ASSUME IInv, NothingDue
    PROVE  IInv'
<1>1. TypeOK /\ Apart /\ Hands /\ Queue /\ Undisturbed /\ WantedLive /\ InTurn
  BY DEF IInv
<1>2. /\ UNCHANGED <<itemsRT, stale, holes, registration, current, i, callee,
                     item, now, bRT, life, wanted, updated>>
      /\ phase = "step" /\ phase # "realtime" /\ callee = Null
  BY DEF NothingDue, owners
<1>3. items' = items \cup processed /\ processed' = {} /\ phase' = "closing"
  BY DEF NothingDue, PutBack
<1>4. item = NoItem /\ current = Null
  BY <1>1, <1>2, NothingInHand
<1>5. TypeOK'
  BY <1>1, <1>2, <1>3 DEF TypeOK, Phases
<1>6. /\ \A u : InRT(u)' <=> InRT(u)
      /\ \A u : ~InProcessed(u)' /\ (InItems(u)' <=> InItems(u) \/ InProcessed(u))
  BY <1>2, <1>3 DEF InRT, InItems, InProcessed
<1>7. Apart'
  <2>1. \A it \in items, jt \in processed : it.obj # jt.obj
    <3>1. \A it \in items : it.obj \in Objects /\ InItems(it.obj)
      BY <1>1 DEF TypeOK, Item, InItems
    <3>2. \A jt \in processed : InProcessed(jt.obj)
      BY DEF InProcessed
    <3> QED
      BY <1>1, <3>1, <3>2 DEF Apart
  <2>2. Distinct(itemsRT)' /\ OneItem(items)' /\ OneItem(processed)'
    BY <1>1, <1>2, <1>3, <2>1 DEF Apart, OneItem
  <2> QED
    BY <1>1, <1>2, <1>6, <2>2 DEF Apart
<1>8. \A u : Placed(u)' <=> Placed(u)
  BY <1>2, <1>6 DEF Placed
<1>9. Queue'
  <2>1. registration \in Seq(Requests)
    BY <1>1 DEF TypeOK
  <2> QED
    BY <1>1, <1>2, <1>6, <1>8, <2>1, QueueStays
<1>10. Hands'
  BY <1>1, <1>2, <1>3, <1>4 DEF Hands, Processing
<1>11. InTurn'
  BY <1>1, <1>2, <1>3, <1>4 DEF InTurn
<1>12. Undisturbed'
  BY <1>3 DEF Undisturbed, Processing
<1>13. WantedLive'
  BY <1>1, <1>2 DEF WantedLive
<1> QED
  BY <1>5, <1>7, <1>9, <1>10, <1>11, <1>12, <1>13 DEF IInv

LEMMA FrameKeeps ==
    ASSUME IInv, Frame
    PROVE  IInv'
BY BoundaryKeeps, CancelKeeps, EnlistKeeps, StrikeKeeps, RealTimeKeeps, SkipHoleKeeps,
   SkipUnneededKeeps, CallTopKeeps, ReturnGoneKeeps, ReturnFromKeeps, NothingDueKeeps DEF Frame
-----------------------------------------------------------------------------
(* What holds in every state *)

LEMMA Starts == Init => IInv
<1>1. SUFFICES ASSUME Init PROVE IInv
  OBVIOUS
<1>2. /\ itemsRT = <<>> /\ stale = <<>> /\ items = {} /\ processed = {} /\ registration = <<>>
      /\ current = Null /\ callee = Null /\ item = NoItem /\ phase = "idle" /\ i = 0 /\ now = 0
      /\ updated = {}
  BY <1>1 DEF Init
<1>3. TypeOK
  <2>1. holes \in [0..MaxTime + Max(Intervals) -> Nat]
    BY <1>1 DEF Init
  <2>2. /\ bRT \in [Objects -> BOOLEAN] /\ wanted \in [Objects -> BOOLEAN]
        /\ life \in [Objects -> {"gone", "alive", "leaving"}]
    BY <1>1 DEF Init
  <2>3. now \in 0..MaxTime
    BY <1>2
  <2> QED
    BY <1>2, <2>1, <2>2, <2>3 DEF TypeOK, Phases
<1>10. \A o \in Objects : ~wanted[o]
  BY <1>1 DEF Init
<1>4. \A o : ~InRT(o) /\ ~InItems(o) /\ ~InProcessed(o)
  BY <1>2 DEF InRT, InItems, InProcessed, Range
<1>5. \A o \in Objects : ~Placed(o)
  BY <1>2, <1>4 DEF Placed
<1>6. Apart
  BY <1>2, <1>4 DEF Apart, Distinct, OneItem
<1>7. Hands
  BY <1>2 DEF Hands, Processing
<1>8. Queue
  BY <1>2, <1>5, <1>10 DEF Queue, Alternate, FirstStrikes, LastIsWish, Settled
<1>9. Undisturbed /\ WantedLive /\ InTurn
  BY <1>2, <1>10 DEF Undisturbed, Processing, WantedLive, InTurn
<1> QED
  BY <1>3, <1>6, <1>7, <1>8, <1>9 DEF IInv

LEMMA Stutters == IInv /\ UNCHANGED vars => IInv'
<1>1. SUFFICES ASSUME IInv, UNCHANGED vars PROVE IInv'
  OBVIOUS
<1>2. UNCHANGED <<itemsRT, stale, items, holes, processed, registration, current, phase, i,
                  callee, item, now, bRT, life, wanted, updated>>
  BY <1>1 DEF vars, lists, owners
<1>3. TypeOK' /\ Hands' /\ InTurn'
  BY <1>1, <1>2 DEF IInv, TypeOK, Hands, Processing, InTurn
<1>4. Apart' /\ Queue' /\ WantedLive' /\ Undisturbed'
  BY <1>1, <1>2, ListsStay DEF owners
<1> QED
  BY <1>3, <1>4 DEF IInv

\* The inductive invariant: the places of the objects, the order of their
\* requests, and what each request promises about them.
THEOREM Safety == Spec => []IInv
<1>1. IInv /\ [Next]_vars => IInv'
  BY OwnerKeeps, FrameKeeps, Stutters DEF Next
<1> QED
  BY Starts, <1>1, PTL DEF Spec

\* Every variable of the scheduler keeps its type, whatever objects register,
\* unregister or are deleted while it walks its lists.
THEOREM TypesHold == Spec => []TypeOK
<1>1. IInv => TypeOK
  BY DEF IInv
<1> QED
  BY <1>1, Safety, PTL

LEMMA PlacesCounted ==
    ASSUME Apart, NEW o \in Objects
    PROVE  Places(o) = IF Placed(o) THEN 1 ELSE 0
<1> DEFINE A == {k \in DOMAIN itemsRT : itemsRT[k] = o}
           B == {it \in items : it.obj = o}
           C == {it \in processed : it.obj = o}
           n == IF current = o THEN 1 ELSE 0
<1>3. Cardinality({}) = 0 /\ \A x : Cardinality({x}) = 1
  BY FS_EmptySet, FS_Singleton
<1>4. InRT(o) <=> A # {}
  BY DEF InRT, Range
<1>5. InItems(o) <=> B # {}
  BY DEF InItems
<1>6. InProcessed(o) <=> C # {}
  BY DEF InProcessed
<1>7. \A x, y \in A : x = y
  BY DEF Apart, Distinct
<1>8. \A x, y \in B : x = y
  BY DEF Apart, OneItem
<1>9. \A x, y \in C : x = y
  BY DEF Apart, OneItem
<1>10. Places(o) = Cardinality(A) + Cardinality(B) + Cardinality(C) + n
  BY DEF Places
<1> HIDE DEF A, B, C
<1>11. ASSUME NEW S, \A x, y \in S : x = y
       PROVE  Cardinality(S) = IF S = {} THEN 0 ELSE 1
  <2>1. CASE S = {}
    BY <1>3, <2>1
  <2>2. CASE S # {}
    <3>1. PICK x \in S : TRUE
      BY <2>2
    <3>2. S = {x}
      BY <1>11, <3>1
    <3> QED
      BY <1>3, <2>2, <3>2
  <2> QED
    BY <2>1, <2>2
<1>12. Cardinality(A) = IF InRT(o) THEN 1 ELSE 0
  BY <1>4, <1>7, <1>11
<1>13. Cardinality(B) = IF InItems(o) THEN 1 ELSE 0
  BY <1>5, <1>8, <1>11
<1>14. Cardinality(C) = IF InProcessed(o) THEN 1 ELSE 0
  BY <1>6, <1>9, <1>11
<1>15. Places(o) = IF Placed(o) THEN 1 ELSE 0
  <2>1. /\ InRT(o) => ~InItems(o) /\ ~InProcessed(o) /\ current # o
        /\ InItems(o) => ~InProcessed(o) /\ current # o
        /\ InProcessed(o) => current # o
    BY DEF Apart
  <2> QED
    BY <1>10, <1>12, <1>13, <1>14, <2>1 DEF Placed
<1> QED
  BY <1>15

\* An object is in one list, once, whatever its owner has asked for in between
\* (the assertions of CSheduler::Registered).
THEOREM PlacedOnce == Spec => []InOnePlace
<1>1. IInv => InOnePlace
  <2>1. SUFFICES ASSUME IInv, NEW o \in Objects PROVE Places(o) <= 1
    BY DEF InOnePlace
  <2>2. Places(o) = IF Placed(o) THEN 1 ELSE 0
    BY <2>1, PlacesCounted DEF IInv
  <2> QED
    BY <2>2
<1> QED
  BY <1>1, Safety, PTL

LEMMA LastRequest ==
    ASSUME TypeOK, NEW o \in Objects, ~Unasked(o)
    PROVE  /\ RequestsOf(o) # {}
           /\ Max(RequestsOf(o)) \in DOMAIN registration
           /\ registration[Max(RequestsOf(o))].obj = o
           /\ IsLast(registration, Max(RequestsOf(o)))
<1>1. PICK n \in Nat : DOMAIN registration = 1..n
  BY LenProperties DEF TypeOK
<1>2. RequestsOf(o) \in SUBSET (1..n) /\ RequestsOf(o) # {}
  BY <1>1 DEF RequestsOf, Unasked
<1>3. \E x \in RequestsOf(o) : \A y \in RequestsOf(o) : y <= x
  BY <1>2, GreatestBelow
<1>4. \E x \in RequestsOf(o) : \A y \in RequestsOf(o) : x >= y
  BY <1>2, <1>3
<1>5. PICK m : /\ m = Max(RequestsOf(o)) /\ m \in RequestsOf(o)
               /\ \A y \in RequestsOf(o) : m >= y
  BY <1>4, Zenon DEF Max
<1>6. m \in DOMAIN registration /\ registration[m].obj = o
  BY <1>5 DEF RequestsOf
<1>7. IsLast(registration, m)
  BY <1>1, <1>5, <1>6 DEF IsLast, RequestsOf
<1> QED
  BY <1>2, <1>5, <1>6, <1>7

\* The scheduler ends up with what the owner of an object asked for last,
\* wherever the object was at that moment: in a list, in the update itself, or
\* in a request that has not been carried out.
THEOREM OwnersFollowed == Spec => []FollowsOwners
<1>1. IInv => FollowsOwners
  <2>1. SUFFICES ASSUME IInv, NEW o \in Objects
                 PROVE  /\ wanted[o] /\ life[o] = "alive" => Scheduled(o)
                        /\ Scheduled(o) => wanted[o]
    BY DEF FollowsOwners
  <2>2. TypeOK /\ Apart /\ LastIsWish /\ Settled
    BY <2>1 DEF IInv, Queue
  <2>3. CASE Unasked(o)
    <3>1. RequestsOf(o) = {}
      BY <2>3 DEF RequestsOf, Unasked
    <3>2. Places(o) > 0 <=> Placed(o)
      BY <2>2, PlacesCounted
    <3>3. Scheduled(o) <=> Placed(o)
      BY <3>1, <3>2 DEF Scheduled
    <3> QED
      BY <2>2, <2>3, <3>3 DEF Settled
  <2>4. CASE ~Unasked(o)
    <3>1. PICK m : /\ m = Max(RequestsOf(o)) /\ RequestsOf(o) # {}
                   /\ m \in DOMAIN registration /\ registration[m].obj = o
                   /\ IsLast(registration, m)
      BY <2>2, <2>4, LastRequest
    <3>2. Scheduled(o) <=> registration[m].op
      BY <3>1 DEF Scheduled
    <3> QED
      BY <2>2, <3>1, <3>2 DEF LastIsWish
  <2> QED
    BY <2>3, <2>4
<1> QED
  BY <1>1, Safety, PTL

\* While an item is in hand nothing waits that was due before its turn before:
\* an overloaded scheduler goes round.
THEOREM TurnsAreFair == Spec => []FairTurns
<1>1. IInv => FairTurns
  <2>1. SUFFICES ASSUME IInv, item # NoItem, NEW it \in items PROVE it.at >= item.last
    BY DEF FairTurns
  <2>2. item.last <= item.at /\ item.at <= it.at
    BY <2>1 DEF IInv, InTurn
  <2>3. item.last \in Nat /\ item.at \in Nat /\ it.at \in Nat
    BY <2>1 DEF IInv, TypeOK, Item
  <2> QED
    BY <2>2, <2>3
<1> QED
  BY <1>1, Safety, PTL
-----------------------------------------------------------------------------
(* While no real-time object leaves during their updates *)

LEMMA SlotsLeft ==
    ASSUME TypeOK, NoneLeft
    PROVE  Slots = itemsRT
BY DEF TypeOK, NoneLeft, Slots

\* Without requests an object that is in a list is wanted, so it exists.
LEMMA PlacedLives ==
    ASSUME IInv, NEW o \in Objects, Unasked(o), Placed(o)
    PROVE  life[o] # "gone"
BY DEF IInv, Queue, Settled, WantedLive

LEMMA NoneLeaves ==
    ASSUME ~RealTimeLeave, IInv, NoneLeft, [Next]_vars
    PROVE  NoneLeft'
<1>1. ASSUME NEW o \in Objects, UnregisterCall(o) PROVE NoneLeft'
  <2>1. phase # "realtime" \/ o \notin Range(itemsRT)
    BY <1>1 DEF UnregisterCall
  <2>2. stale' = stale
    BY <1>1, <2>1 DEF UnregisterCall, InternalUnregister, EraseRT, MakeHole, ForgetCurrent
  <2> QED
    BY <2>2 DEF NoneLeft
<1>2. CASE Owner
  <2>1. ASSUME NEW o \in Objects,
               Create(o) \/ SetDestroy(o) \/ \E rt \in BOOLEAN : Register(o, rt)
        PROVE  NoneLeft'
    BY <2>1 DEF Create, SetDestroy, Register, lists, NoneLeft
  <2>2. ASSUME NEW o \in Objects, Unregister(o) \/ Delete(o) PROVE NoneLeft'
    BY <1>1, <2>2 DEF Unregister, Delete
  <2> QED
    BY <1>2, <2>1, <2>2 DEF Owner
<1>3. CASE Strike
  <2>1. phase # "realtime"
    BY <1>3 DEF Strike, Draining
  <2>2. stale' = stale
    BY <1>3, <2>1 DEF Strike, InternalUnregister, EraseRT, MakeHole, ForgetCurrent
  <2> QED
    BY <2>2 DEF NoneLeft
<1>4. CASE /\ ~Strike /\ Frame
  BY <1>4 DEF Frame, Begin, StartProcessing, End, Cancel, Enlist, NextRT, ReturnRT, DoneRT,
              SkipHole, SkipUnneeded, CallTop, ReturnGone, ReturnFrom, NothingDue, lists, NoneLeft
<1>5. CASE UNCHANGED vars
  BY <1>5 DEF vars, lists, NoneLeft
<1> QED
  BY <1>2, <1>3, <1>4, <1>5 DEF Next

LEMMA OwnersLeaveTurns ==
    ASSUME ~RealTimeLeave, Owner
    PROVE  /\ UNCHANGED <<phase, i, callee, updated>> /\ items' \subseteq items
           /\ phase = "realtime" => itemsRT' = itemsRT
<1>1. ASSUME NEW o \in Objects, UnregisterCall(o)
      PROVE  /\ UNCHANGED <<phase, i, callee, updated>> /\ items' \subseteq items
             /\ phase = "realtime" => itemsRT' = itemsRT
  <2>1. phase # "realtime" \/ o \notin Range(itemsRT)
    BY <1>1 DEF UnregisterCall
  <2> QED
    BY <1>1, <2>1 DEF UnregisterCall, InternalUnregister, EraseRT, MakeHole, ForgetCurrent
<1>2. ASSUME NEW o \in Objects,
             Create(o) \/ SetDestroy(o) \/ \E rt \in BOOLEAN : Register(o, rt)
      PROVE  UNCHANGED <<phase, i, callee, updated, items, itemsRT>>
  BY <1>2 DEF Create, SetDestroy, Register, lists
<1>3. ASSUME NEW o \in Objects, Unregister(o) \/ Delete(o)
      PROVE  /\ UNCHANGED <<phase, i, callee, updated>> /\ items' \subseteq items
             /\ phase = "realtime" => itemsRT' = itemsRT
  BY <1>1, <1>3 DEF Unregister, Delete
<1> QED
  BY <1>2, <1>3 DEF Owner

LEMMA TurnsTaken ==
    ASSUME ~RealTimeLeave, IInv, CInv, [Next]_vars
    PROVE  HadTurn'
<1>1. TypeOK /\ Apart /\ Hands /\ NoneLeft /\ HadTurn /\ Slots = itemsRT
  BY SlotsLeft DEF IInv, CInv
<1>2. /\ itemsRT \in Seq(Objects) /\ DOMAIN itemsRT = 1..Len(itemsRT) /\ Len(itemsRT) \in Nat
      /\ i \in Nat /\ callee \in Objects \cup {Null} /\ items \subseteq Item
  BY <1>1, LenProperties DEF TypeOK
<1>3. CASE Owner
  BY <1>1, <1>3, OwnersLeaveTurns DEF HadTurn
<1>4. CASE Begin
  BY <1>4 DEF Begin, HadTurn
<1>5. CASE StartProcessing
  BY <1>1, <1>5 DEF StartProcessing, HadTurn
<1>6. CASE End
  BY <1>6 DEF End, HadTurn
<1>7. CASE Cancel \/ Enlist \/ Strike
  BY <1>1, <1>7 DEF Cancel, Enlist, Strike, Draining, HadTurn
<1>8. CASE NextRT
  <2>1. /\ phase = "realtime" /\ phase' = "realtime" /\ itemsRT' = itemsRT
        /\ callee = Null /\ i # 0 /\ i \in DOMAIN itemsRT
    BY <1>1, <1>2, <1>8 DEF NextRT, lists, Hands
  <2>2. CASE i' = i + 1 /\ callee' = callee /\ updated' = updated
    <3>1. \A o \in updated' : \E k \in DOMAIN itemsRT : itemsRT[k] = o /\ k < i + 1
      BY <1>1, <1>2, <2>1, <2>2 DEF HadTurn
    <3> QED
      BY <2>1, <2>2, <3>1 DEF HadTurn
  <2>3. CASE callee' = Slots[i] /\ updated' = updated \cup {Slots[i]} /\ i' = i
    <3>1. callee' = itemsRT[i] /\ callee' # Null
      <4>1. itemsRT[i] \in Objects
        BY <1>2, <2>1, ElementOfSeq
      <4> QED
        BY <1>1, <2>3, <4>1
    <3>2. ASSUME NEW o \in updated'
          PROVE  \E k \in DOMAIN itemsRT : itemsRT[k] = o /\ (k < i \/ k = i)
      <4>1. CASE o = itemsRT[i]
        BY <2>1, <4>1
      <4>2. CASE o \in updated
        BY <1>1, <2>1, <4>2 DEF HadTurn
      <4> QED
        BY <1>1, <2>3, <3>2, <4>1, <4>2
    <3> QED
      BY <2>1, <2>3, <3>1, <3>2 DEF HadTurn
  <2> QED
    BY <1>8, <2>2, <2>3 DEF NextRT
<1>9. CASE ReturnRT
  <2>1. /\ phase = "realtime" /\ phase' = "realtime" /\ itemsRT' = itemsRT
        /\ updated' = updated /\ i' = i + 1
    BY <1>9 DEF ReturnRT, lists
  <2>2. \A o \in updated : \E k \in DOMAIN itemsRT : itemsRT[k] = o /\ (k < i \/ k = i)
    BY <1>1, <2>1 DEF HadTurn
  <2>3. \A o \in updated : \E k \in DOMAIN itemsRT : itemsRT[k] = o /\ k < i + 1
    BY <1>2, <2>2
  <2> QED
    BY <2>1, <2>3 DEF HadTurn
<1>10. CASE DoneRT
  <2>1. phase = "realtime" /\ phase' = "step" /\ items' = items /\ updated' = updated
    BY <1>10 DEF DoneRT
  <2>2. \A o \in updated : InRT(o)
    BY <1>1, <2>1 DEF HadTurn, InRT, Range
  <2>3. \A it \in items : it.obj \in Objects /\ InItems(it.obj)
    BY <1>2 DEF Item, InItems
  <2>4. \A it \in items : it.obj \notin updated
    BY <1>1, <2>2, <2>3 DEF Apart
  <2> QED
    BY <2>1, <2>4 DEF HadTurn
<1>11. CASE SkipHole \/ SkipUnneeded \/ ReturnGone
  <2>1. phase = "step" /\ phase' = "step" /\ items' \subseteq items /\ updated' = updated
    BY <1>11 DEF SkipHole, SkipUnneeded, ReturnGone, lists
  <2> QED
    BY <1>1, <2>1 DEF HadTurn
<1>12. CASE CallTop
  <2>1. PICK it \in items : items' = items \ {it} /\ updated' = updated \cup {it.obj}
    BY <1>12 DEF CallTop
  <2>2. phase = "step" /\ phase' = "step"
    BY <1>12 DEF CallTop
  <2>3. \A jt \in items' : jt.obj # it.obj
    BY <1>1, <2>1 DEF Apart, OneItem
  <2> QED
    BY <1>1, <2>1, <2>2, <2>3 DEF HadTurn
<1>13. CASE ReturnFrom \/ NothingDue
  <2>1. /\ phase = "step" /\ updated' = updated
        /\ (phase' = "step" /\ items' = items) \/ phase' = "closing"
    BY <1>13 DEF ReturnFrom, NothingDue, PutBack
  <2> QED
    BY <1>1, <2>1 DEF HadTurn
<1>14. CASE UNCHANGED vars
  BY <1>1, <1>14 DEF vars, lists, HadTurn
<1> QED
  BY <1>3, <1>4, <1>5, <1>6, <1>7, <1>8, <1>9, <1>10, <1>11, <1>12, <1>13, <1>14 DEF Next, Frame

LEMMA SafetyInTurn ==
    ASSUME ~RealTimeLeave
    PROVE  Spec => [](IInv /\ CInv)
<1>1. Init => CInv
  BY DEF Init, CInv, NoneLeft, HadTurn
<1>2. IInv /\ [Next]_vars => IInv'
  BY OwnerKeeps, FrameKeeps, Stutters DEF Next
<1>3. IInv /\ CInv /\ [Next]_vars => CInv'
  BY NoneLeaves, TurnsTaken DEF CInv
<1> QED
  BY Starts, <1>1, <1>2, <1>3, PTL DEF Spec

\* As long as no real-time object is unregistered while they are updated, the
\* scheduler calls only objects that exist: in both loops, and when a pending
\* registration is carried out.
THEOREM OnlyTheLiving ==
    ASSUME ~RealTimeLeave
    PROVE  Spec => []CallsTheLiving
<1>1. IInv /\ CInv => CallsTheLiving
  <2>1. SUFFICES ASSUME IInv, NoneLeft PROVE CallsTheLiving
    BY DEF CInv
  <2>2. TypeOK /\ Apart /\ Hands /\ Queue /\ Undisturbed /\ WantedLive /\ Slots = itemsRT
    BY <2>1, SlotsLeft DEF IInv
  <2>3. ASSUME phase = "realtime", callee = Null, i <= Len(Slots)
        PROVE  life[Slots[i]] # "gone"
    <3>1. i # 0 /\ i \in Nat /\ itemsRT \in Seq(Objects)
      BY <2>2, <2>3 DEF Hands, TypeOK
    <3>2. PICK o : o = itemsRT[i]
      OBVIOUS
    <3>3. i \in DOMAIN itemsRT
      BY <2>2, <2>3, <3>1, LenProperties
    <3>4. o \in Objects /\ InRT(o)
      BY <3>1, <3>2, <3>3, LenProperties, ElementOfSeq DEF InRT, Range
    <3>5. Unasked(o) /\ Placed(o)
      BY <2>2, <2>3, <3>4 DEF Undisturbed, Processing, Placed
    <3> QED
      BY <2>1, <2>2, <3>2, <3>4, <3>5, PlacedLives
  <2>4. ASSUME phase = "step", NEW it \in items PROVE life[it.obj] # "gone"
    <3>1. it.obj \in Objects /\ InItems(it.obj)
      BY <2>2 DEF TypeOK, Item, InItems
    <3>2. Unasked(it.obj) /\ Placed(it.obj)
      BY <2>2, <2>4, <3>1 DEF Undisturbed, Processing, Placed
    <3> QED
      BY <2>1, <3>1, <3>2, PlacedLives
  <2>5. ASSUME Draining, Head(registration).op, PairOf(Head(registration)) = 0
        PROVE  life[Head(registration).obj] # "gone"
    <3>1. /\ Head(registration) = registration[1] /\ 1 \in DOMAIN registration
          /\ registration[1].obj \in Objects
      BY <2>1, <2>5, DrainsAlone
    <3>2. IsLast(registration, 1)
      BY <2>1, <2>5, <3>1, OnlyRequest
    <3>3. wanted[registration[1].obj]
      BY <2>2, <2>5, <3>1, <3>2 DEF Queue, LastIsWish
    <3> QED
      BY <2>2, <3>1, <3>3 DEF WantedLive
  <2> QED
    BY <2>3, <2>4, <2>5 DEF CallsTheLiving
<1> QED
  BY <1>1, SafetyInTurn, PTL

\* As long as no real-time object is unregistered while they are updated, no
\* object is updated twice in a frame (ScheduledBase::shedule_Update).
THEOREM UpdatedOnce ==
    ASSUME ~RealTimeLeave
    PROVE  Spec => OncePerFrame
<1>1. ASSUME IInv, CInv, Next, callee = Null, callee' # Null
      PROVE  callee' \notin updated
  <2>1. TypeOK /\ Apart /\ HadTurn /\ Slots = itemsRT /\ Hands
    BY <1>1, SlotsLeft DEF IInv, CInv
  <2>2. CASE Owner
    BY <1>1, <2>2, OwnersLeaveTurns
  <2>3. CASE NextRT
    <3>1. phase = "realtime" /\ callee' = itemsRT[i] /\ i \in DOMAIN itemsRT
      <4>1. i \in Nat /\ i # 0 /\ itemsRT \in Seq(Objects)
        BY <2>1, <2>3 DEF NextRT, TypeOK, Hands
      <4>2. DOMAIN itemsRT = 1..Len(itemsRT) /\ Len(itemsRT) \in Nat
        BY <4>1, LenProperties
      <4> QED
        BY <1>1, <2>1, <2>3, <4>1, <4>2 DEF NextRT
    <3>2. ASSUME callee' \in updated PROVE FALSE
      <4>1. PICK k \in DOMAIN itemsRT : itemsRT[k] = callee' /\ k < i
        BY <1>1, <2>1, <3>1, <3>2 DEF HadTurn
      <4>2. k = i
        BY <2>1, <3>1, <4>1 DEF Apart, Distinct
      <4>3. i \in Nat
        BY <2>1 DEF TypeOK
      <4> QED
        BY <4>1, <4>2, <4>3
    <3> QED
      BY <3>2
  <2>4. CASE CallTop
    BY <2>1, <2>4 DEF CallTop, HadTurn
  <2>5. CASE Frame /\ ~NextRT /\ ~CallTop
    BY <1>1, <2>5 DEF Frame, Begin, StartProcessing, End, Cancel, Enlist, Strike, ReturnRT, DoneRT,
                      SkipHole, SkipUnneeded, ReturnGone, ReturnFrom, NothingDue
  <2> QED
    BY <1>1, <2>2, <2>3, <2>4, <2>5 DEF Next
<1>2. IInv /\ CInv /\ [Next]_vars => [callee = Null /\ callee' # Null => callee' \notin updated]_vars
  BY <1>1
<1> QED
  BY <1>2, SafetyInTurn, PTL DEF OncePerFrame, Spec
=============================================================================
