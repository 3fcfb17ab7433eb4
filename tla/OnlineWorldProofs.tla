-------------------------- MODULE OnlineWorldProofs --------------------------
(***************************************************************************)
(* Proofs about the server and the level, for any number of entities,      *)
(* requests and frames.  First the server alone: its tables agree after    *)
(* every request and every switch, and what it does to them is a change of *)
(* ownership in the sense of Ownership.  Then the level: the events on     *)
(* their way lead from what it shows to what the server has, one by one.   *)
(***************************************************************************)
EXTENDS OnlineWorld, SequenceLemmas

(* The inductive invariant: what the tables hold and that they agree.      *)
SInv == ServerTypeOK /\ Consistent

\* What is brought about with an owner is an item.
MayOwn(o, i) == o # None => o \in Owners /\ i \in Items

USE NoneAssumption, KindsAssumption, ActorAssumption DEF Ids

LEMMA InitSInv == Init => SInv
  BY DEF Init, SInv, ServerTypeOK, Consistent, ParentsAgree, RegistriesAgree

LEMMA UnchangedSInv == SInv /\ UNCHANGED registries => SInv'
  BY DEF SInv, ServerTypeOK, Consistent, ParentsAgree, RegistriesAgree, registries

LEMMA SpawnSInv ==
  ASSUME SInv, NEW e \in Ids, NEW p \in Owners \cup {None}, MayOwn(p, e), ProcessSpawn(e, p)
  PROVE  SInv'
  BY DEF SInv, ServerTypeOK, Consistent, ParentsAgree, RegistriesAgree, MayOwn, ProcessSpawn

LEMMA OwnershipSInv ==
  ASSUME SInv, NEW o \in Owners, NEW i \in Items, ProcessOwnership(o, i)
  PROVE  SInv'
  BY DEF SInv, ServerTypeOK, Consistent, ParentsAgree, RegistriesAgree, ProcessOwnership

LEMMA RejectSInv ==
  ASSUME SInv, NEW o, NEW i, NEW q, ProcessReject(o, i, q)
  PROVE  SInv'
  BY DEF SInv, ServerTypeOK, Consistent, ParentsAgree, RegistriesAgree, ProcessReject, Rejectable

LEMMA EraseSInv ==
  ASSUME SInv, NEW e \in Ids, Erase(Whole(e))
  PROVE  SInv'
  BY DEF SInv, ServerTypeOK, Consistent, ParentsAgree, RegistriesAgree, Erase, Whole

LEMMA CreateSInv ==
  ASSUME SInv, NEW e \in Ids, NEW o \in Owners \cup {None}, MayOwn(o, e), CreateOffline(e, o)
  PROVE  SInv'
  BY DEF SInv, ServerTypeOK, Consistent, ParentsAgree, RegistriesAgree, MayOwn, CreateOffline

LEMMA OnlineSInv ==
  ASSUME SInv, NEW e \in Ids, SwitchOnline(e)
  PROVE  SInv'
  BY DEF SInv, ServerTypeOK, Consistent, ParentsAgree, RegistriesAgree, SwitchOnline, Whole

LEMMA OfflineSInv ==
  ASSUME SInv, NEW e \in Ids, SwitchOffline(e)
  PROVE  SInv'
  BY DEF SInv, ServerTypeOK, Consistent, ParentsAgree, RegistriesAgree, SwitchOffline, Whole

(***************************************************************************)
(* Every action of the level is one operation of the server or leaves its  *)
(* tables alone.                                                           *)
(***************************************************************************)
ServerStep ==
    \/ \E e \in Ids, p \in Owners \cup {None} :
          MayOwn(p, e) /\ (ProcessSpawn(e, p) \/ CreateOffline(e, p))
    \/ \E o \in Owners, i \in Items : ProcessOwnership(o, i)
    \/ \E o, i \in Ids, q \in {wire, Tail(wire)} : ProcessReject(o, i, q)
    \/ \E e \in Ids : Erase(Whole(e)) \/ SwitchOnline(e) \/ SwitchOffline(e)
    \/ UNCHANGED registries

LEMMA RequestIsServerStep == SInv /\ Request => ServerStep
<1> SUFFICES ASSUME SInv, Request PROVE ServerStep
  OBVIOUS
<1> USE DEF ServerStep
<1>1. ASSUME NEW e \in Ids, DestroyObject(e) PROVE ServerStep
  BY <1>1 DEF DestroyObject, ProcessDestroy, registries
<1>2. ASSUME NEW e \in Ids, ScriptRelease(e) PROVE ServerStep
  BY <1>2 DEF ScriptRelease, ProcessDestroy, Release
<1>3. ASSUME NEW e \in Ids, NEW p \in Owners \cup {None}, MayOwn(p, e),
             RequestSpawn(e, p) \/ ScriptCreate(e, p)
      PROVE  ServerStep
  BY <1>3 DEF RequestSpawn, ScriptCreate
<1>4. ASSUME NEW o \in Owners, NEW i \in Items, RequestTake(o, i) \/ RequestReject(o, i)
      PROVE  ServerStep
  BY <1>4 DEF RequestTake, RequestReject
<1> QED
  BY <1>1, <1>2, <1>3, <1>4 DEF Request, MayOwn, Ids

LEMMA EventIsServerStep == SInv /\ ProcessGameEvent => ServerStep
<1> SUFFICES ASSUME SInv, ProcessGameEvent PROVE ServerStep
  OBVIOUS
<1>1. ASSUME NEW o, NEW i, Take(o, i) PROVE ServerStep
  <2>1. Rejectable(o, i) => {o, i} \subseteq Ids
    BY DEF SInv, ServerTypeOK, Rejectable
  <2> QED
    BY <1>1, <2>1 DEF Take, Quietly, ServerStep
<1>2. Quietly => ServerStep
  BY DEF Quietly, ServerStep
<1>3. \/ \E o, i : Take(o, i)
      \/ Quietly
  BY DEF ProcessGameEvent, OnSpawn, OnTake, OnReject, OnDestroy
<1> QED
  BY <1>1, <1>2, <1>3

LEMMA NextIsServerStep == SInv /\ [Next]_vars => ServerStep
<1> SUFFICES ASSUME SInv, [Next]_vars PROVE ServerStep
  OBVIOUS
<1>1. ASSUME NEW e \in Ids, Switch(e) PROVE ServerStep
  BY <1>1 DEF Switch, ServerStep
<1>2. CASE BeginDrain \/ EndDrain \/ DestroyMarked \/ UNCHANGED vars
  BY <1>2 DEF BeginDrain, EndDrain, DestroyMarked, vars, ServerStep
<1> QED
  BY <1>1, <1>2, RequestIsServerStep, EventIsServerStep DEF Next, Frame

LEMMA StepSInv == SInv /\ ServerStep => SInv'
  BY UnchangedSInv, SpawnSInv, OwnershipSInv, RejectSInv, EraseSInv, CreateSInv, OnlineSInv,
     OfflineSInv DEF ServerStep

LEMMA AlwaysSInv == Spec => []SInv
<1>1. SInv /\ [Next]_vars => SInv'
  BY NextIsServerStep, StepSInv
<1> QED
  BY InitSInv, <1>1, PTL DEF Spec

(* The tables of xrServer and of the simulation agree after every request  *)
(* of the client, every switch and every event, whatever the entities, the *)
(* order of the requests and the number of frames.                         *)
THEOREM TablesAgree == Spec => []Consistent
<1>1. SInv => Consistent
  BY DEF SInv
<1> QED
  BY AlwaysSInv, <1>1, PTL

(***************************************************************************)
(* Each operation of the server is a step of Ownership, or no step of it.  *)
(***************************************************************************)
LEMMA OperationsKeepOwnership == SInv /\ ServerStep => [World!Next]_(World!ownership)
<1> SUFFICES ASSUME SInv, ServerStep PROVE [World!Next]_(World!ownership)
  OBVIOUS
<1> USE DEF SInv, ServerTypeOK, Consistent, ParentsAgree, RegistriesAgree
<1>1. ASSUME NEW e \in Ids, NEW p \in Owners \cup {None}, ProcessSpawn(e, p) \/ CreateOffline(e, p)
      PROVE  World!Create(e, p)
  BY <1>1 DEF World!Create, ProcessSpawn, CreateOffline
<1>2. ASSUME NEW o \in Owners, NEW i \in Items, ProcessOwnership(o, i)
      PROVE  World!Take(o, i)
  BY <1>2 DEF World!Take, ProcessOwnership
<1>3. ASSUME NEW o \in Ids, NEW i \in Ids, NEW q, ProcessReject(o, i, q)
      PROVE  World!Drop(i)
  BY <1>3 DEF World!Drop, ProcessReject, Rejectable
<1>4. ASSUME NEW e \in Ids, Erase(Whole(e))
      PROVE  World!Remove(Whole(e) \cap taken)
  BY <1>4 DEF World!Remove, Erase, Whole
<1>5. ASSUME NEW e \in Ids, SwitchOffline(e)
      PROVE  World!Remove(children[e] \cap Unsaved)
  BY <1>5 DEF World!Remove, SwitchOffline
<1>6. ASSUME NEW e \in Ids, SwitchOffline(e)
      PROVE  children[e] \cap Unsaved \subseteq taken
  BY <1>6 DEF SwitchOffline
<1>7. ASSUME NEW e \in Ids, SwitchOnline(e) PROVE UNCHANGED World!ownership
  BY <1>7 DEF SwitchOnline, World!ownership
<1>8. UNCHANGED registries => UNCHANGED World!ownership
  BY DEF registries, World!ownership
<1> QED
  BY <1>1, <1>2, <1>3, <1>4, <1>5, <1>6, <1>7, <1>8 DEF World!Next, ServerStep

(* What the server does to its entities is what Ownership promises: going  *)
(* online and offline changes neither what exists nor who owns it, and     *)
(* nothing outlives its owner.                                             *)
THEOREM ServerKeepsOwnership == Spec => KeepsOwnership
<1>1. Init => World!Init
  BY DEF Init, World!Init, World!Sound
<1>2. SInv /\ [Next]_vars => [World!Next]_(World!ownership)
  BY NextIsServerStep, OperationsKeepOwnership
<1> QED
  BY AlwaysSInv, <1>1, <1>2, PTL DEF Spec, KeepsOwnership, World!Spec

(***************************************************************************)
(* What Ownership promises for good, and so what the game may rely on.     *)
(***************************************************************************)
LEMMA OwnershipStaysSound == World!Sound /\ [World!Next]_(World!ownership) => World!Sound'
<1> SUFFICES ASSUME World!Sound, [World!Next]_(World!ownership) PROVE World!Sound'
  OBVIOUS
<1> USE DEF World!Sound
<1>1. ASSUME NEW e \in Ids, NEW o \in Ids \cup {None}, World!Create(e, o) PROVE World!Sound'
  BY <1>1 DEF World!Create
<1>2. ASSUME NEW o \in Ids, NEW e \in Ids, World!Take(o, e) PROVE World!Sound'
  BY <1>2 DEF World!Take
<1>3. ASSUME NEW e \in Ids, World!Drop(e) PROVE World!Sound'
  BY <1>3 DEF World!Drop
<1>4. ASSUME NEW gone \in SUBSET taken, World!Remove(gone) PROVE World!Sound'
  BY <1>4 DEF World!Remove
<1>5. CASE UNCHANGED World!ownership
  BY <1>5 DEF World!ownership
<1> QED
  BY <1>1, <1>2, <1>3, <1>4, <1>5 DEF World!Next

(* No entity outlives its owner: whoever is named as a parent has an       *)
(* identifier in use, so that it cannot be given to a stranger.            *)
THEOREM OwnersExist == Spec => []World!Sound
<1>1. World!Spec => []World!Sound
  BY OwnershipStaysSound, PTL DEF World!Spec, World!Init
<1> QED
  BY ServerKeepsOwnership, <1>1, PTL DEF KeepsOwnership

(***************************************************************************)
(* A view of the world: a function from the objects there are to the owner *)
(* of each.  An event leads from one view to the next, or does not fit it. *)
(***************************************************************************)
Events == [type : {"spawn", "take", "reject", "destroy"}, id : Ids, owner : Owners \cup {None}]

With(v, e, o) == [x \in DOMAIN v \cup {e} |-> IF x = e THEN o ELSE v[x]]
Without(v, e) == [x \in DOMAIN v \ {e} |-> v[x]]

Leads(v, m, u) ==
    \/ /\ m.type = "spawn" /\ m.id \notin DOMAIN v
       /\ m.owner \in DOMAIN v \cup {None}
       /\ u = With(v, m.id, m.owner)
    \/ /\ m.type = "take" /\ m.id \in DOMAIN v /\ v[m.id] = None
       /\ m.owner \in DOMAIN v
       /\ u = With(v, m.id, m.owner)
    \/ /\ m.type = "reject" /\ m.id \in DOMAIN v /\ v[m.id] = m.owner /\ m.owner # None
       /\ u = With(v, m.id, None)
    \/ /\ m.type = "destroy" /\ m.id \in DOMAIN v /\ v[m.id] = None
       /\ m.owner = None
       /\ \A x \in DOMAIN v : v[x] # m.id
       /\ u = Without(v, m.id)

(* The events of q lead from the view v to the view u.                     *)
Path(q, v, u) ==
    \E w : /\ w[1] = v /\ w[Len(q) + 1] = u
           /\ \A k \in 1..Len(q) : Leads(w[k], q[k], w[k + 1])

(* Every owner in a view is itself in the view, and stays so.              *)
WellFormed(v) == /\ v = [x \in DOMAIN v |-> v[x]]
                 /\ DOMAIN v \subseteq Ids
                 /\ \A x \in DOMAIN v : v[x] \in DOMAIN v \cup {None}

LEMMA LeadsWellFormed ==
    ASSUME NEW v, NEW u, NEW m \in Events, WellFormed(v), Leads(v, m, u)
    PROVE  WellFormed(u)
BY DEF WellFormed, Leads, With, Without, Events

LEMMA PathEmpty ==
    ASSUME NEW v, NEW u, Path(<<>>, v, u)
    PROVE  v = u
BY DEF Path

LEMMA PathNone ==
    ASSUME NEW v
    PROVE  Path(<<>>, v, v)
<1> DEFINE w == [k \in {1} |-> v]
<1>1. w[1] = v /\ w[Len(<<>>) + 1] = v /\ \A k \in 1..Len(<<>>) : Leads(w[k], <<>>[k], w[k + 1])
  OBVIOUS
<1> HIDE DEF w
<1> QED
  BY <1>1 DEF Path

LEMMA PathOne ==
    ASSUME NEW v, NEW u, NEW m, Leads(v, m, u)
    PROVE  Path(<<m>>, v, u)
<1> DEFINE w == [k \in 1..2 |-> IF k = 1 THEN v ELSE u]
<1>1. Len(<<m>>) = 1 /\ <<m>>[1] = m
  OBVIOUS
<1>2. w[1] = v /\ w[2] = u
  OBVIOUS
<1>3. \A k \in 1..1 : Leads(w[k], <<m>>[k], w[k + 1])
  BY <1>1, <1>2
<1> HIDE DEF w
<1>4. w[Len(<<m>>) + 1] = u /\ \A k \in 1..Len(<<m>>) : Leads(w[k], <<m>>[k], w[k + 1])
  BY <1>1, <1>2, <1>3
<1> QED
  BY <1>2, <1>4 DEF Path

LEMMA PathConcat ==
    ASSUME NEW q \in Seq(Events), NEW r \in Seq(Events), NEW v, NEW x, NEW u,
           Path(q, v, x), Path(r, x, u)
    PROVE  Path(q \o r, v, u)
<1>1. PICK a : /\ a[1] = v /\ a[Len(q) + 1] = x
               /\ \A k \in 1..Len(q) : Leads(a[k], q[k], a[k + 1])
  BY DEF Path
<1>2. PICK b : /\ b[1] = x /\ b[Len(r) + 1] = u
               /\ \A k \in 1..Len(r) : Leads(b[k], r[k], b[k + 1])
  BY DEF Path
<1>3. /\ q \o r \in Seq(Events)
      /\ Len(q \o r) = Len(q) + Len(r)
      /\ \A i \in 1..Len(q) + Len(r) : (q \o r)[i] = IF i <= Len(q) THEN q[i] ELSE r[i - Len(q)]
  BY ConcatProperties
<1>4. Len(q) \in Nat /\ Len(r) \in Nat
  BY LenProperties
<1> DEFINE w == [k \in 1..Len(q) + Len(r) + 1 |-> IF k <= Len(q) THEN a[k] ELSE b[k - Len(q)]]
<1>5. w[1] = v
  <2>1. CASE Len(q) = 0
    BY <2>1, <1>1, <1>2, <1>4
  <2>2. CASE Len(q) # 0
    BY <2>2, <1>1, <1>4
  <2> QED
    BY <2>1, <2>2
<1>6. w[Len(q) + Len(r) + 1] = u
  <2>1. w[Len(q) + Len(r) + 1] = b[(Len(q) + Len(r) + 1) - Len(q)]
    BY <1>4
  <2>2. (Len(q) + Len(r) + 1) - Len(q) = Len(r) + 1
    BY <1>4
  <2> QED
    BY <2>1, <2>2, <1>2
<1>7. ASSUME NEW k \in 1..Len(q) + Len(r)
      PROVE  Leads(w[k], (q \o r)[k], w[k + 1])
  <2>1. CASE k < Len(q)
    <3>1. k \in 1..Len(q) /\ w[k] = a[k] /\ w[k + 1] = a[k + 1] /\ (q \o r)[k] = q[k]
      BY <2>1, <1>3, <1>4
    <3> QED
      BY <3>1, <1>1
  <2>2. CASE k = Len(q)
    <3>1. k \in 1..Len(q) /\ w[k] = a[k] /\ w[k + 1] = b[1] /\ (q \o r)[k] = q[k]
      BY <2>2, <1>3, <1>4
    <3> QED
      BY <3>1, <1>1, <1>2, <2>2
  <2>3. CASE k > Len(q)
    <3> DEFINE j == k - Len(q)
    <3>1. /\ j \in 1..Len(r) /\ w[k] = b[j] /\ w[k + 1] = b[j + 1]
          /\ (q \o r)[k] = r[j]
      BY <2>3, <1>3, <1>4
    <3> QED
      BY <3>1, <1>2
  <2> QED
    BY <2>1, <2>2, <2>3, <1>4
<1> HIDE DEF w
<1> QED
  BY <1>3, <1>5, <1>6, <1>7 DEF Path

LEMMA PathTail ==
    ASSUME NEW q \in Seq(Events), q # <<>>, NEW v, NEW u, Path(q, v, u)
    PROVE  \E x : Leads(v, Head(q), x) /\ Path(Tail(q), x, u)
<1>1. PICK a : /\ a[1] = v /\ a[Len(q) + 1] = u
               /\ \A k \in 1..Len(q) : Leads(a[k], q[k], a[k + 1])
  BY DEF Path
<1>2. /\ Len(q) \in Nat /\ Len(q) >= 1 /\ Head(q) = q[1]
      /\ Tail(q) \in Seq(Events) /\ Len(Tail(q)) = Len(q) - 1
  BY EmptySeq, LenProperties, HeadTailProperties
<1>3. \A j \in 1..(Len(q) - 1) : Tail(q)[j] = q[j + 1]
  BY TailShifts
<1> DEFINE w == [k \in 1..Len(q) |-> a[k + 1]]
<1>4. w[1] = a[2] /\ w[Len(Tail(q)) + 1] = u
  BY <1>1, <1>2
<1>5. ASSUME NEW k \in 1..Len(Tail(q)) PROVE Leads(w[k], Tail(q)[k], w[k + 1])
  <2>1. k \in 1..(Len(q) - 1) /\ k + 1 \in 1..Len(q) /\ w[k] = a[k + 1] /\ w[k + 1] = a[(k + 1) + 1]
    BY <1>2
  <2> QED
    BY <2>1, <1>1, <1>3
<1>6. Path(Tail(q), a[2], u)
  <2> HIDE DEF w
  <2> QED
    BY <1>4, <1>5 DEF Path
<1>7. Leads(v, Head(q), a[2])
  BY <1>1, <1>2
<1> QED
  BY <1>6, <1>7

(* An item that had an owner and has lost it was rejected on the way.      *)
LEMMA PathFrees ==
    ASSUME NEW q \in Seq(Events), NEW v, NEW u, Path(q, v, u),
           NEW i \in DOMAIN v, v[i] # None, ~(i \in DOMAIN u /\ u[i] = v[i])
    PROVE  \E k \in 1..Len(q) : q[k].type = "reject" /\ q[k].id = i
<1>1. PICK w : /\ w[1] = v /\ w[Len(q) + 1] = u
               /\ \A k \in 1..Len(q) : Leads(w[k], q[k], w[k + 1])
  BY DEF Path
<1>2. Len(q) \in Nat
  BY LenProperties
<1> DEFINE Held(k) == i \in DOMAIN w[k] /\ w[k][i] = v[i]
           T == {k \in Nat : k \in 1..Len(q) + 1 /\ ~Held(k)}
<1>3. Len(q) + 1 \in T
  BY <1>1, <1>2
<1>4. T \in SUBSET Nat /\ T # {}
  BY <1>3
<1>5. PICK n \in T : \A y \in T : n <= y
  <2> HIDE DEF T
  <2> QED
    BY <1>4, LeastNatural
<1>6. n # 1
  BY <1>1
<1>7. n - 1 \in 1..Len(q) /\ (n - 1) + 1 = n /\ n - 1 \notin T
  BY <1>2, <1>5, <1>6
<1>8. Held(n - 1)
  BY <1>2, <1>7
<1>9. Leads(w[n - 1], q[n - 1], w[n])
  BY <1>1, <1>7
<1>10. q[n - 1] \in Events
  BY <1>7, ElementOfSeq
<1>11. q[n - 1].type = "reject" /\ q[n - 1].id = i
  BY <1>8, <1>9, <1>10 DEF Leads, With, Without, Events
<1> QED
  BY <1>7, <1>11

(***************************************************************************)
(* The events of a departure and of an arrival as paths.                   *)
(***************************************************************************)
LEMMA EventIsEvent ==
    ASSUME NEW t \in {"spawn", "take", "reject", "destroy"}, NEW i \in Ids,
           NEW o \in Owners \cup {None}
    PROVE  /\ Event(t, i, o) \in Events
           /\ Event(t, i, o).type = t /\ Event(t, i, o).id = i /\ Event(t, i, o).owner = o
BY DEF Event, Events

\* An order of a finite set lists each of its elements once.
LEMMA OrderProperties ==
    ASSUME NEW C, IsFiniteSet(C), NEW s \in SetToSeqs(C)
    PROVE  /\ s \in Seq(C) /\ Distinct(s) /\ Range(s) = C
           /\ DOMAIN s = 1..Len(s)
<1> DEFINE D == 1..Cardinality(C)
<1>1. s \in [D -> C] /\ \A j, k \in D : j # k => s[j] # s[k]
  BY DEF SetToSeqs
<1>2. Cardinality(C) \in Nat
  BY FS_CardinalityType
<1>3. s \in Seq(C) /\ DOMAIN s = D /\ Len(s) = Cardinality(C)
  BY <1>1, <1>2, SeqDef
<1>4. IsFiniteSet(D) /\ Cardinality(D) = Cardinality(C)
  BY <1>2, FS_Interval
<1>5. s \in Injection(D, C)
  BY <1>1 DEF Injection, IsInjective
<1>6. s \in Surjection(D, C)
  BY <1>4, <1>5, FS_Injection
<1>7. Range(s) = C
  BY <1>1, <1>6 DEF Surjection, Range
<1> QED
  BY <1>1, <1>3, <1>7 DEF Distinct

\* Every position up to 2 * n is the first or the second of a pair.
LEMMA Pairs ==
    ASSUME NEW n \in Nat, NEW k \in 1..2 * n
    PROVE  \E j \in 1..n : k = 2 * j - 1 \/ k = 2 * j
<1>1. CASE k % 2 = 1
  <2>1. (k + 1) \div 2 \in 1..n /\ k = 2 * ((k + 1) \div 2) - 1
    BY <1>1
  <2> QED
    BY <2>1
<1>2. CASE k % 2 # 1
  <2>1. k \div 2 \in 1..n /\ k = 2 * (k \div 2)
    BY <1>2
  <2> QED
    BY <2>1
<1> QED
  BY <1>1, <1>2

\* The events of Shed come in pairs: the item is rejected, then destroyed.
LEMMA ShedPairs ==
    ASSUME NEW e, NEW s \in Seq(Items)
    PROVE  /\ DOMAIN Shed(e, s) = 1..2 * Len(s)
           /\ Len(Shed(e, s)) = 2 * Len(s)
           /\ \A j \in 1..Len(s) : /\ Shed(e, s)[2 * j - 1] = Event("reject", s[j], e)
                                   /\ Shed(e, s)[2 * j] = Event("destroy", s[j], None)
<1>1. Len(s) \in Nat /\ 2 * Len(s) \in Nat
  BY LenProperties
<1>2. ASSUME NEW j \in 1..Len(s)
      PROVE  /\ Shed(e, s)[2 * j - 1] = Event("reject", s[j], e)
             /\ Shed(e, s)[2 * j] = Event("destroy", s[j], None)
  <2>1. /\ 2 * j - 1 \in 1..2 * Len(s) /\ 2 * j \in 1..2 * Len(s)
        /\ (2 * j - 1) % 2 = 1 /\ (2 * j) % 2 # 1
        /\ ((2 * j - 1) + 1) \div 2 = j /\ (2 * j) \div 2 = j
    BY <1>1
  <2> QED
    BY <2>1 DEF Shed
<1>3. DOMAIN Shed(e, s) = 1..2 * Len(s)
  BY DEF Shed
<1> QED
  BY <1>1, <1>2, <1>3

LEMMA ShedIn ==
    ASSUME NEW G, NEW e, NEW s \in Seq(Items),
           \A j \in 1..Len(s) : Event("reject", s[j], e) \in G /\ Event("destroy", s[j], None) \in G
    PROVE  Shed(e, s) \in Seq(G)
<1>1. Len(s) \in Nat /\ 2 * Len(s) \in Nat
  BY LenProperties
<1>2. ASSUME NEW k \in 1..2 * Len(s) PROVE Shed(e, s)[k] \in G
  <2>1. PICK j \in 1..Len(s) : k = 2 * j - 1 \/ k = 2 * j
    BY <1>1, Pairs
  <2>2. Shed(e, s)[2 * j - 1] \in G /\ Shed(e, s)[2 * j] \in G
    BY ShedPairs
  <2> QED
    BY <2>1, <2>2
<1>3. PICK r : r = Shed(e, s)
  OBVIOUS
<1>4. r \in [1..2 * Len(s) -> G]
  BY <1>2, <1>3 DEF Shed
<1> QED
  BY <1>1, <1>3, <1>4, SeqDef

LEMMA ShedPath ==
    ASSUME NEW v, WellFormed(v), NEW e, e # None, NEW s \in Seq(Items), Distinct(s),
           \A j \in 1..Len(s) : s[j] \in DOMAIN v /\ v[s[j]] = e,
           \A x \in DOMAIN v : v[x] \in Owners \cup {None}
    PROVE  Path(Shed(e, s), v, [x \in DOMAIN v \ Range(s) |-> v[x]])
<1> DEFINE n == Len(s)
           Shed1(j) == {s[i] : i \in 1..j}
           A(j) == [x \in DOMAIN v \ Shed1(j) |-> v[x]]
           B(j) == [x \in DOMAIN v \ Shed1(j - 1) |-> IF x = s[j] THEN None ELSE v[x]]
           w == [k \in 1..2 * n + 1 |-> IF k % 2 = 1 THEN A((k - 1) \div 2) ELSE B(k \div 2)]
<1>1. n \in Nat /\ DOMAIN s = 1..n /\ \A j \in 1..n : s[j] \in Items
  BY LenProperties, ElementOfSeq
<1>2. ASSUME NEW j \in 1..n
      PROVE  Leads(A(j - 1), Event("reject", s[j], e), B(j))
  <2>1. s[j] \notin Shed1(j - 1)
    BY <1>1 DEF Distinct
  <2>2. s[j] \in DOMAIN A(j - 1) /\ A(j - 1)[s[j]] = e
    BY <2>1
  <2>3. B(j) = With(A(j - 1), s[j], None)
    BY <2>2 DEF With
  <2> QED
    BY <2>2, <2>3 DEF Leads, Event
<1>3. ASSUME NEW j \in 1..n
      PROVE  Leads(B(j), Event("destroy", s[j], None), A(j))
  <2>1. s[j] \notin Shed1(j - 1) /\ s[j] \in Items
    BY <1>1 DEF Distinct
  <2>2. s[j] \in DOMAIN B(j) /\ B(j)[s[j]] = None
    BY <2>1
  <2>3. \A x \in DOMAIN B(j) : B(j)[x] \in Owners \cup {None}
    OBVIOUS
  <2>4. \A x \in DOMAIN B(j) : B(j)[x] # s[j]
    BY <2>1, <2>3
  <2>5. Shed1(j) = Shed1(j - 1) \cup {s[j]}
    OBVIOUS
  <2>6. DOMAIN A(j) = DOMAIN B(j) \ {s[j]}
    BY <2>5
  <2>7. A(j) = Without(B(j), s[j])
    BY <2>5, <2>6 DEF Without
  <2> QED
    BY <2>2, <2>4, <2>7 DEF Leads, Event
<1>4. ASSUME NEW j \in 1..n
      PROVE  /\ 2 * j - 1 \in 1..2 * n /\ 2 * j \in 1..2 * n
             /\ w[2 * j - 1] = A(j - 1) /\ w[2 * j] = B(j) /\ w[2 * j + 1] = A(j)
  <2>1. /\ 2 * j - 1 \in 1..2 * n + 1 /\ 2 * j \in 1..2 * n + 1 /\ 2 * j + 1 \in 1..2 * n + 1
        /\ (2 * j - 1) % 2 = 1 /\ (2 * j) % 2 # 1 /\ (2 * j + 1) % 2 = 1
        /\ ((2 * j - 1) - 1) \div 2 = j - 1 /\ (2 * j) \div 2 = j /\ ((2 * j + 1) - 1) \div 2 = j
    BY <1>1
  <2> HIDE DEF A, B
  <2> QED
    BY <2>1, <1>1
<1>5. w[1] = v
  <2>1. 1 \in 1..2 * n + 1 /\ 1 % 2 = 1 /\ (1 - 1) \div 2 = 0
    BY <1>1
  <2>2. w[1] = A(0)
    BY <2>1
  <2>3. Shed1(0) = {}
    OBVIOUS
  <2>4. v = [x \in DOMAIN v |-> v[x]]
    BY DEF WellFormed
  <2> QED
    BY <2>2, <2>3, <2>4
<1>6. w[2 * n + 1] = [x \in DOMAIN v \ Range(s) |-> v[x]]
  <2>1. 2 * n + 1 \in 1..2 * n + 1 /\ (2 * n + 1) % 2 = 1 /\ ((2 * n + 1) - 1) \div 2 = n
    <3>1. \A m \in Nat : /\ 2 * m + 1 \in 1..2 * m + 1 /\ (2 * m + 1) % 2 = 1
                         /\ ((2 * m + 1) - 1) \div 2 = m
      OBVIOUS
    <3> HIDE DEF n
    <3> QED
      BY <1>1, <3>1
  <2>2. w[2 * n + 1] = A(n)
    BY <2>1
  <2>3. Shed1(n) = Range(s)
    BY <1>1 DEF Range
  <2> QED
    BY <2>2, <2>3
<1> HIDE DEF w, A, B
<1>7. ASSUME NEW k \in 1..2 * n PROVE Leads(w[k], Shed(e, s)[k], w[k + 1])
  <2>1. PICK j \in 1..n : k = 2 * j - 1 \/ k = 2 * j
    BY <1>1, Pairs
  <2>2. CASE k = 2 * j - 1
    <3>1. k + 1 = 2 * j
      BY <2>2, <1>1
    <3>2. Shed(e, s)[2 * j - 1] = Event("reject", s[j], e)
      BY ShedPairs
    <3>3. w[2 * j - 1] = A(j - 1) /\ w[2 * j] = B(j)
      BY <1>4
    <3>4. Leads(w[2 * j - 1], Shed(e, s)[2 * j - 1], w[2 * j])
      BY <3>2, <3>3, <1>2
    <3> QED
      BY <3>1, <3>4, <2>2
  <2>3. CASE k = 2 * j
    <3>1. Shed(e, s)[2 * j] = Event("destroy", s[j], None)
      BY ShedPairs
    <3>2. w[2 * j] = B(j) /\ w[2 * j + 1] = A(j)
      BY <1>4
    <3>3. Leads(w[2 * j], Shed(e, s)[2 * j], w[2 * j + 1])
      BY <3>1, <3>2, <1>3
    <3> QED
      BY <3>3, <2>3
  <2> QED
    BY <2>1, <2>2, <2>3
<1>8. Len(Shed(e, s)) = 2 * n
  BY ShedPairs
<1> QED
  BY <1>5, <1>6, <1>7, <1>8 DEF Path

\* The items of an order s arrive one by one, each held by e.
Arrivals(e, s) == [k \in 1..Len(s) |-> Event("spawn", s[k], e)]

LEMMA ArrivalsPath ==
    ASSUME NEW v, WellFormed(v), NEW e \in DOMAIN v, NEW s \in Seq(Items), Distinct(s),
           \A j \in 1..Len(s) : s[j] \notin DOMAIN v
    PROVE  Path(Arrivals(e, s), v,
                [x \in DOMAIN v \cup Range(s) |-> IF x \in DOMAIN v THEN v[x] ELSE e])
<1> DEFINE n == Len(s)
           Came(j) == {s[i] : i \in 1..j}
           A(j) == [x \in DOMAIN v \cup Came(j) |-> IF x \in DOMAIN v THEN v[x] ELSE e]
           w == [k \in 1..n + 1 |-> A(k - 1)]
<1>1. n \in Nat /\ DOMAIN s = 1..n
  BY LenProperties
<1>2. Len(Arrivals(e, s)) = n /\ \A k \in 1..n : Arrivals(e, s)[k] = Event("spawn", s[k], e)
  BY <1>1 DEF Arrivals
<1>3. ASSUME NEW k \in 1..n PROVE Leads(A(k - 1), Event("spawn", s[k], e), A(k))
  <2>1. s[k] \notin Came(k - 1)
    BY <1>1 DEF Distinct
  <2>2. Came(k) = Came(k - 1) \cup {s[k]}
    BY <1>1
  <2>3. A(k) = With(A(k - 1), s[k], e)
    BY <2>1, <2>2 DEF With
  <2> QED
    BY <2>1, <2>3 DEF Leads, Event
<1>4. w[1] = v
  <2>1. w[1] = A(0) /\ Came(0) = {}
    BY <1>1
  <2>2. A(0) = [x \in DOMAIN v |-> v[x]]
    BY <2>1
  <2> QED
    BY <2>1, <2>2 DEF WellFormed
<1>5. w[n + 1] = [x \in DOMAIN v \cup Range(s) |-> IF x \in DOMAIN v THEN v[x] ELSE e]
  <2>1. n + 1 \in 1..n + 1 /\ (n + 1) - 1 = n
    BY <1>1
  <2>2. Came(n) = Range(s)
    BY <1>1 DEF Range
  <2> QED
    BY <2>1, <2>2
<1>6. ASSUME NEW k \in 1..n PROVE w[k] = A(k - 1) /\ w[k + 1] = A(k)
  <2>1. k \in 1..n + 1 /\ k + 1 \in 1..n + 1 /\ (k + 1) - 1 = k
    BY <1>1
  <2> HIDE DEF A
  <2> QED
    BY <2>1
<1> HIDE DEF A, w
<1>7. \A k \in 1..n : Leads(w[k], Arrivals(e, s)[k], w[k + 1])
  BY <1>2, <1>3, <1>6
<1> QED
  BY <1>2, <1>4, <1>5, <1>7 DEF Path

(***************************************************************************)
(* The inductive invariant.  The server's view is what it tells the client.*)
(***************************************************************************)
ServerView == [e \in entities |-> parent[e]]

\* The level has nothing left of e, and nothing about e is on its way.
Gone(e) == e \notin onLevel /\ \A k \in DOMAIN wire : wire[k].id # e

\* A reject of i is on its way.
Refused(i) == \E k \in DOMAIN wire : wire[k].type = "reject" /\ wire[k].id = i

(* What the level shows is the view v, except that it does not hold what   *)
(* was refused: the reject of that is on its way.                          *)
Shows(v) ==
    /\ WellFormed(v)
    /\ DOMAIN v = onLevel \ dying
    /\ \A e \in DOMAIN v \ refused : holder[e] = v[e]
    /\ \A e \in refused : e \in DOMAIN v /\ v[e] # None /\ Refused(e)

Tracks == \E v : Shows(v) /\ Path(wire, v, ServerView)

WireOK == wire \in Seq(Events)

\* What is spawned is new to the level.
SpawnsNew == \A k \in DOMAIN wire : wire[k].type = "spawn" =>
                 /\ wire[k].id \notin onLevel
                 /\ \A j \in 1..(k - 1) : wire[j].id # wire[k].id

LevelOK ==
    /\ refused \subseteq Ids
    /\ onLevel \subseteq Ids /\ dying \subseteq onLevel /\ removed \subseteq onLevel
    /\ holder \in [Ids -> onLevel \cup {None}]
    /\ \A e \in Ids \ onLevel : holder[e] = None
    /\ \A e \in refused : holder[e] = None
    /\ \A e \in Ids : holder[e] \in dying => e \in dying

FrameOK ==
    /\ visited \subseteq Ids
    /\ phase \in {"think", "drain", "update"} /\ requests \in 0 .. MaxRequests
    /\ phase = "think" => dying = {}

\* Who carries e, or e itself.
Top(e) == IF parent[e] = None THEN e ELSE parent[e]

(* Between the drains, an entity that is offline was either switched in    *)
(* this pass, or the level has nothing of it but an object it is about to  *)
(* drop, and hears nothing more about it.                                  *)
OfflineOK == phase # "drain" => \A e \in taken \ entities :
    \/ phase = "think" /\ Top(e) \in visited
    \/ e \notin onLevel \ dying /\ \A k \in DOMAIN wire : wire[k].id # e

LInv == LevelOK /\ FrameOK /\ WireOK /\ SpawnsNew /\ Tracks /\ OfflineOK

IInv == SInv /\ LInv

(***************************************************************************)
(* What each operation of the server sends.                                *)
(***************************************************************************)
\* The events that bring nothing new: each is about an entity that is online.
Parting == {m \in Events : m.type # "spawn" /\ m.id \in entities}

\* The server sends the events of q, which lead to its new view.
Sends(q) ==
    /\ q \in Seq(Events)
    /\ wire' = wire \o q
    /\ Path(q, ServerView, ServerView')
    /\ \A k \in 1..Len(q) : q[k].id \in entities \cup entities'
    /\ \A k \in 1..Len(q) : q[k].type = "spawn" =>
          Gone(q[k].id) /\ \A j \in 1..(k - 1) : q[j].id # q[k].id

LEMMA PartingSends ==
    ASSUME NEW q \in Seq(Parting), wire' = wire \o q, Path(q, ServerView, ServerView')
    PROVE  Sends(q)
<1>1. q \in Seq(Events)
  BY SeqDef DEF Parting
<1>2. \A k \in 1..Len(q) : q[k] \in Parting
  BY ElementOfSeq
<1> QED
  BY <1>1, <1>2 DEF Sends, Parting

LEMMA ServerViewWellFormed == SInv => WellFormed(ServerView)
  BY DEF SInv, ServerTypeOK, Consistent, ParentsAgree, ServerView, WellFormed

LEMMA SpawnSends ==
    ASSUME IInv, NEW e \in Ids, NEW p \in Owners \cup {None}, Fresh(e),
           ProcessSpawn(e, p)
    PROVE  \E q : Sends(q)
<1> DEFINE m == Event("spawn", e, p)
<1>1. m \in Events /\ m.type = "spawn" /\ m.id = e /\ m.owner = p
  BY EventIsEvent
<1>2. wire' = wire \o <<m>>
  <2>1. wire \in Seq(Events)
    BY DEF IInv, LInv, WireOK
  <2> QED
    BY <1>1, <2>1, AppendIsConcat DEF ProcessSpawn
<1>3. Leads(ServerView, m, ServerView')
  <2>1. e \notin entities /\ p \in entities \cup {None}
    BY DEF IInv, SInv, ServerTypeOK, ProcessSpawn
  <2>2. entities' = entities \cup {e} /\ \A x \in entities' : parent'[x] = IF x = e THEN p ELSE parent[x]
    BY DEF IInv, SInv, ServerTypeOK, ProcessSpawn
  <2>3. ServerView' = With(ServerView, e, p)
    BY <2>2 DEF ServerView, With
  <2> QED
    BY <1>1, <2>1, <2>3 DEF Leads, ServerView
<1>4. Gone(e) /\ e \in entities'
  BY <1>1 DEF Gone, Fresh, ProcessSpawn
<1> HIDE DEF m
<1>5. <<m>> \in Seq(Events) /\ Len(<<m>>) = 1 /\ <<m>>[1] = m
  BY <1>1
<1>6. Path(<<m>>, ServerView, ServerView')
  BY <1>3, PathOne
<1>7. Sends(<<m>>)
  BY <1>1, <1>2, <1>4, <1>5, <1>6 DEF Sends
<1> QED
  BY <1>7

LEMMA OwnershipSends ==
    ASSUME IInv, NEW o \in Owners, NEW i \in Items, ProcessOwnership(o, i)
    PROVE  \E q : Sends(q)
<1> DEFINE m == Event("take", i, o)
<1>1. m \in Events /\ m.type = "take" /\ m.id = i /\ m.owner = o
  BY EventIsEvent
<1>2. wire' = wire \o <<m>>
  <2>1. wire \in Seq(Events)
    BY DEF IInv, LInv, WireOK
  <2> QED
    BY <1>1, <2>1, AppendIsConcat DEF ProcessOwnership
<1>3. Leads(ServerView, m, ServerView')
  <2>1. {o, i} \subseteq entities /\ parent[i] = None
    BY DEF ProcessOwnership
  <2>2. entities' = entities /\ \A x \in entities' : parent'[x] = IF x = i THEN o ELSE parent[x]
    BY DEF IInv, SInv, ServerTypeOK, ProcessOwnership
  <2>3. ServerView' = With(ServerView, i, o)
    BY <2>1, <2>2 DEF ServerView, With
  <2> QED
    BY <1>1, <2>1, <2>3 DEF Leads, ServerView
<1>4. m \in Parting
  BY <1>1 DEF Parting, ProcessOwnership
<1>5. <<m>> \in Seq(Parting)
  BY <1>4
<1> QED
  BY <1>2, <1>3, <1>5, PathOne, PartingSends

(* A reject, sent while the queue q is pending.                            *)
LEMMA RejectLeads ==
    ASSUME IInv, NEW o, NEW i, NEW q, ProcessReject(o, i, q)
    PROVE  /\ Event("reject", i, o) \in Parting
           /\ Leads(ServerView, Event("reject", i, o), ServerView')
           /\ i \in Items /\ o = parent[i]
<1>1. /\ {o, i} \subseteq entities /\ i \in Items /\ i \in Ids /\ o \in Ids
      /\ parent[i] = o /\ parent[i] \in Owners
  BY DEF IInv, SInv, ServerTypeOK, Consistent, ParentsAgree, ProcessReject, Rejectable
<1>2. entities' = entities /\ \A x \in entities' : parent'[x] = IF x = i THEN None ELSE parent[x]
  BY DEF IInv, SInv, ServerTypeOK, ProcessReject
<1>3. ServerView' = With(ServerView, i, None)
  BY <1>1, <1>2 DEF ServerView, With
<1>4. /\ Event("reject", i, o) \in Events
      /\ Event("reject", i, o).type = "reject"
      /\ Event("reject", i, o).id = i /\ Event("reject", i, o).owner = o
  BY <1>1, EventIsEvent
<1>5. Event("reject", i, o) \in Parting
  BY <1>1, <1>4 DEF Parting
<1>6. Leads(ServerView, Event("reject", i, o), ServerView')
  BY <1>1, <1>3, <1>4 DEF Leads, ServerView
<1> QED
  BY <1>1, <1>5, <1>6

LEMMA RejectSends ==
    ASSUME IInv, NEW o, NEW i, ProcessReject(o, i, wire)
    PROVE  \E q : Sends(q)
<1> DEFINE m == Event("reject", i, o)
<1>1. m \in Parting /\ Leads(ServerView, m, ServerView')
  BY RejectLeads
<1>2. wire' = wire \o <<m>>
  <2>1. wire \in Seq(Events) /\ m \in Events
    BY <1>1 DEF IInv, LInv, WireOK, Parting
  <2> QED
    BY <2>1, AppendIsConcat DEF ProcessReject
<1>3. <<m>> \in Seq(Parting)
  BY <1>1
<1> HIDE DEF m
<1> QED
  BY <1>1, <1>2, <1>3, PathOne, PartingSends

(* What e carries, then e itself, leave the view of the server.            *)
LEMMA DepartureProperties ==
    ASSUME IInv, NEW e \in entities, NEW s \in SetToSeqs(children[e])
    PROVE  /\ Departure(e, s) \in Seq(Parting)
           /\ Path(Departure(e, s), ServerView, [x \in entities \ Whole(e) |-> parent[x]])
<1>1. /\ e \in Ids /\ e # None /\ entities \subseteq Ids
      /\ children[e] \subseteq Items \cap entities
      /\ \A c \in Ids : c \in children[e] <=> parent[c] = e
      /\ \A x \in Ids : parent[x] \in Owners \cup {None}
      /\ parent[e] # None => parent[e] \in entities
  BY DEF IInv, SInv, ServerTypeOK, Consistent, ParentsAgree
<1>2. IsFiniteSet(children[e])
  BY <1>1, FiniteAssumption, FS_Subset
<1>3. /\ s \in Seq(children[e]) /\ Distinct(s) /\ Range(s) = children[e]
      /\ \A j \in 1..Len(s) : s[j] \in children[e]
  BY <1>2, OrderProperties, ElementOfSeq
<1>4. s \in Seq(Items)
  BY <1>1, <1>3, SeqDef
<1> DEFINE out  == Event("destroy", e, None)
           away == IF parent[e] = None THEN <<>> ELSE <<Event("reject", e, parent[e])>>
           v1   == [x \in entities \ children[e] |-> parent[x]]
           v2   == [x \in entities \ children[e] |-> IF x = e THEN None ELSE parent[x]]
           v3   == [x \in entities \ Whole(e) |-> parent[x]]
<1>5. out \in Parting
  BY <1>1, EventIsEvent DEF Parting
<1>6. Shed(e, s) \in Seq(Parting)
  <2>1. ASSUME NEW j \in 1..Len(s)
        PROVE  Event("reject", s[j], e) \in Parting /\ Event("destroy", s[j], None) \in Parting
    <3>1. s[j] \in Items /\ s[j] \in entities /\ s[j] \in Ids /\ parent[s[j]] = e /\ e \in Owners
      BY <1>1, <1>3
    <3> QED
      BY <3>1, EventIsEvent DEF Parting
  <2> QED
    BY <2>1, <1>4, ShedIn
<1>7. away \in Seq(Parting)
  <2>1. CASE parent[e] = None
    BY <2>1, EmptySeq
  <2>2. CASE parent[e] # None
    <3>1. Event("reject", e, parent[e]) \in Parting
      BY <2>2, <1>1, EventIsEvent DEF Parting
    <3>2. <<Event("reject", e, parent[e])>> \in Seq(Parting)
      BY <3>1
    <3> QED
      BY <2>2, <3>2
  <2> QED
    BY <2>1, <2>2
<1>8. <<out>> \in Seq(Parting)
  <2> HIDE DEF out
  <2> QED
    BY <1>5
<1>9. Seq(Parting) \subseteq Seq(Events)
  BY SeqDef DEF Parting
<1>10. Path(Shed(e, s), ServerView, v1)
  <2>1. WellFormed(ServerView)
    BY ServerViewWellFormed DEF IInv
  <2>2. \A j \in 1..Len(s) : s[j] \in DOMAIN ServerView /\ ServerView[s[j]] = e
    BY <1>1, <1>3 DEF ServerView
  <2>3. \A x \in DOMAIN ServerView : ServerView[x] \in Owners \cup {None}
    BY <1>1 DEF ServerView
  <2>4. Path(Shed(e, s), ServerView, [x \in DOMAIN ServerView \ Range(s) |-> ServerView[x]])
    BY <2>1, <2>2, <2>3, <1>1, <1>3, <1>4, ShedPath
  <2>5. v1 = [x \in DOMAIN ServerView \ Range(s) |-> ServerView[x]]
    BY <1>3 DEF ServerView
  <2> QED
    BY <2>4, <2>5
<1>11. Path(away, v1, v2)
  <2>1. CASE parent[e] = None
    <3>1. v1 = v2
      BY <2>1
    <3>2. Path(<<>>, v1, v1)
      BY PathNone
    <3> QED
      BY <2>1, <3>1, <3>2
  <2>2. CASE parent[e] # None
    <3>1. e \notin children[e]
      BY <1>1
    <3>2. v2 = With(v1, e, None)
      BY <3>1 DEF With
    <3>3. Leads(v1, Event("reject", e, parent[e]), v2)
      BY <2>2, <3>1, <3>2 DEF Leads, Event
    <3> QED
      BY <2>2, <3>3, PathOne
  <2> QED
    BY <2>1, <2>2
<1>12. Leads(v2, out, v3)
  <2>1. e \notin children[e]
    BY <1>1
  <2>2. \A x \in DOMAIN v2 : v2[x] # e
    BY <1>1
  <2>3. v3 = Without(v2, e)
    BY <2>1 DEF Without, Whole
  <2> QED
    BY <2>1, <2>2, <2>3 DEF Leads, Event
<1> DEFINE q == Shed(e, s) \o away
<1>13. Departure(e, s) = q \o <<out>>
  BY DEF Departure
<1> HIDE DEF out, away, v1, v2, v3
<1>14. q \in Seq(Parting) /\ Path(q, ServerView, v2)
  BY <1>6, <1>7, <1>9, <1>10, <1>11, ConcatProperties, PathConcat
<1> HIDE DEF q
<1>15. Path(<<out>>, v2, v3)
  BY <1>12, PathOne
<1>16. Departure(e, s) \in Seq(Parting) /\ Path(Departure(e, s), ServerView, v3)
  BY <1>8, <1>9, <1>13, <1>14, <1>15, ConcatProperties, PathConcat
<1> QED
  BY <1>16 DEF v3

LEMMA DestroySends ==
    ASSUME IInv, NEW e \in Ids, ProcessDestroy(e)
    PROVE  \E q : Sends(q)
<1>1. PICK s \in SetToSeqs(children[e]) : wire' = wire \o Departure(e, s)
  BY DEF ProcessDestroy
<1>2. entities' = entities \ Whole(e) /\ \A x \in Ids \ Whole(e) : parent'[x] = parent[x]
  BY DEF ProcessDestroy, Erase
<1>3. ServerView' = [x \in entities \ Whole(e) |-> parent[x]]
  BY <1>2 DEF ServerView, IInv, SInv, ServerTypeOK
<1> QED
  BY <1>1, <1>3, DepartureProperties, PartingSends DEF ProcessDestroy

LEMMA OfflineSends ==
    ASSUME IInv, NEW e \in Ids, SwitchOffline(e)
    PROVE  \E q : Sends(q)
<1>1. PICK s \in SetToSeqs(children[e]) : wire' = wire \o Departure(e, s)
  BY DEF SwitchOffline
<1>2. /\ entities' = entities \ Whole(e) /\ e \in entities
      /\ \A x \in Ids \ Whole(e) : parent'[x] = parent[x]
  BY DEF SwitchOffline, Whole, IInv, SInv, Consistent, RegistriesAgree
<1>3. ServerView' = [x \in entities \ Whole(e) |-> parent[x]]
  BY <1>2 DEF ServerView, IInv, SInv, ServerTypeOK
<1> QED
  BY <1>1, <1>2, <1>3, DepartureProperties, PartingSends

(* An entity that comes online is new to the level, with all it carries.   *)
LEMMA OnlineSends ==
    ASSUME IInv, NEW e \in Ids, SwitchOnline(e), \A c \in Whole(e) : Gone(c)
    PROVE  \E q : Sends(q)
<1>1. PICK s \in SetToSeqs(children[e]) : wire' = wire \o Arrival(e, s)
  BY DEF SwitchOnline
<1>2. /\ e \in taken \ entities /\ parent[e] = None /\ entities \subseteq Ids
      /\ children[e] \subseteq Items \ entities
      /\ \A c \in Ids : c \in children[e] <=> parent[c] = e
      /\ children[e] # {} => e \in Owners
  BY DEF SwitchOnline, IInv, SInv, ServerTypeOK, Consistent, ParentsAgree, RegistriesAgree
<1>3. IsFiniteSet(children[e])
  BY <1>2, FiniteAssumption, FS_Subset
<1>4. /\ s \in Seq(children[e]) /\ Distinct(s) /\ Range(s) = children[e]
      /\ DOMAIN s = 1..Len(s)
      /\ \A j \in 1..Len(s) : s[j] \in children[e]
      /\ Len(s) \in Nat
  BY <1>3, OrderProperties, ElementOfSeq, LenProperties
<1>5. s \in Seq(Items)
  BY <1>2, <1>4, SeqDef
<1> DEFINE first == Event("spawn", e, None)
           v1 == With(ServerView, e, None)
<1>6. first \in Events /\ first.type = "spawn" /\ first.id = e /\ first.owner = None
  BY EventIsEvent
<1>7. ASSUME NEW j \in 1..Len(s)
      PROVE  LET m == Event("spawn", s[j], e)
             IN  m \in Events /\ m.type = "spawn" /\ m.id = s[j] /\ m.owner = e
  BY <1>2, <1>4, EventIsEvent
<1>8. /\ Arrivals(e, s) \in Seq(Events) /\ Len(Arrivals(e, s)) = Len(s)
      /\ \A j \in 1..Len(s) : Arrivals(e, s)[j] = Event("spawn", s[j], e)
  BY <1>4, <1>7, SeqDef DEF Arrivals
<1>9. Leads(ServerView, first, v1)
  BY <1>2, <1>6 DEF Leads, ServerView
<1>10. WellFormed(v1)
  BY <1>6, <1>9, ServerViewWellFormed, LeadsWellFormed DEF IInv
<1>11. Path(Arrivals(e, s), v1, ServerView')
  <2>1. DOMAIN v1 = entities \cup {e}
    BY DEF With, ServerView
  <2>2. e \notin children[e]
    BY <1>2
  <2>3. \A j \in 1..Len(s) : s[j] \notin DOMAIN v1
    BY <2>1, <2>2, <1>2, <1>4
  <2>4. Path(Arrivals(e, s), v1,
             [x \in DOMAIN v1 \cup Range(s) |-> IF x \in DOMAIN v1 THEN v1[x] ELSE e])
    <3>1. e \in DOMAIN v1
      BY <2>1
    <3> HIDE DEF v1
    <3> QED
      BY <3>1, <1>4, <1>5, <1>10, <2>3, ArrivalsPath
  <2>5. entities' = entities \cup {e} \cup children[e] /\ parent' = parent
    BY DEF SwitchOnline, Whole
  <2>6. \A x \in entities' : parent[x] = IF x \in entities \cup {e}
                                         THEN IF x = e THEN None ELSE parent[x] ELSE e
    BY <1>2, <2>5
  <2>7. ServerView' = [x \in (entities \cup {e}) \cup children[e] |->
                          IF x \in entities \cup {e}
                          THEN IF x = e THEN None ELSE parent[x] ELSE e]
    BY <2>5, <2>6 DEF ServerView
  <2>8. ServerView' = [x \in DOMAIN v1 \cup Range(s) |-> IF x \in DOMAIN v1 THEN v1[x] ELSE e]
    BY <2>1, <2>7, <1>4 DEF With, ServerView
  <2> QED
    BY <2>4, <2>8
<1> HIDE DEF first, v1
<1>12. <<first>> \in Seq(Events) /\ Len(<<first>>) = 1 /\ <<first>>[1] = first
  BY <1>6
<1> DEFINE q == <<first>> \o Arrivals(e, s)
<1>13. Path(q, ServerView, ServerView')
  BY <1>8, <1>9, <1>11, <1>12, PathOne, PathConcat
<1>14. /\ q \in Seq(Events) /\ Len(q) = Len(s) + 1
       /\ q[1] = first
       /\ \A j \in 1..Len(s) : q[j + 1] = Event("spawn", s[j], e)
  <2>1. /\ q \in Seq(Events) /\ Len(q) = 1 + Len(s)
        /\ \A k \in 1..(1 + Len(s)) : q[k] = IF k <= 1 THEN <<first>>[k] ELSE Arrivals(e, s)[k - 1]
    BY <1>8, <1>12, ConcatProperties
  <2>2. \A j \in 1..Len(s) : q[j + 1] = Arrivals(e, s)[j]
    BY <2>1, <1>4
  <2> QED
    BY <2>1, <2>2, <1>4, <1>8, <1>12
<1>15. wire' = wire \o q
  BY <1>1 DEF Arrival, Arrivals, first
<1> HIDE DEF q
<1>16. ASSUME NEW k \in 1..Len(q)
       PROVE  /\ q[k].id \in Whole(e)
              /\ q[k].id = IF k = 1 THEN e ELSE s[k - 1]
  <2>1. CASE k = 1
    BY <2>1, <1>6, <1>14 DEF Whole
  <2>2. CASE k # 1
    <3>1. k - 1 \in 1..Len(s) /\ (k - 1) + 1 = k
      BY <2>2, <1>4, <1>14
    <3>2. q[k] = Event("spawn", s[k - 1], e) /\ s[k - 1] \in children[e]
      BY <3>1, <1>4, <1>14
    <3>3. q[k].id = s[k - 1] /\ q[k].owner = e
      BY <3>1, <3>2, <1>7
    <3> QED
      BY <2>2, <3>2, <3>3 DEF Whole
  <2> QED
    BY <2>1, <2>2
<1>17. ASSUME NEW k \in 1..Len(q), NEW j \in 1..(k - 1) PROVE q[j].id # q[k].id
  <2>1. j \in 1..Len(q) /\ k # 1 /\ k - 1 \in 1..Len(s) /\ j # k
    BY <1>4, <1>14
  <2>2. q[k].id = s[k - 1] /\ s[k - 1] \in children[e]
    BY <2>1, <1>4, <1>16
  <2>3. CASE j = 1
    BY <2>1, <2>2, <2>3, <1>2, <1>16
  <2>4. CASE j # 1
    <3>1. j - 1 \in 1..Len(s) /\ j - 1 # k - 1 /\ q[j].id = s[j - 1]
      BY <2>1, <2>4, <1>4, <1>14, <1>16
    <3> QED
      BY <3>1, <2>1, <2>2, <1>4 DEF Distinct
  <2> QED
    BY <2>3, <2>4
<1>18. Whole(e) \subseteq entities'
  BY DEF SwitchOnline
<1>19. Sends(q)
  BY <1>13, <1>14, <1>15, <1>16, <1>17, <1>18 DEF Sends
<1> QED
  BY <1>19

(***************************************************************************)
(* What was sent is appended to the wire, while the level stands still.    *)
(***************************************************************************)
\* An entity that is offline afterwards was switched, is new, or was before.
Stays(e) ==
    \/ phase = "think" /\ Top(e)' \in visited'
    \/ e \notin entities /\ (Gone(e) \/ (e \in taken /\ parent'[e] = parent[e]))

LEMMA SentLInv ==
    ASSUME IInv, NEW q, Sends(q), UNCHANGED <<onLevel, holder, dying, refused>>,
           removed' \subseteq onLevel, phase' = phase, visited \subseteq visited', visited' \subseteq Ids,
           requests' \in 0 .. MaxRequests,
           \A e \in taken' \ entities' : Stays(e)
    PROVE  LInv'
<1>1. /\ wire \in Seq(Events) /\ q \in Seq(Events) /\ Len(wire) \in Nat /\ Len(q) \in Nat
      /\ DOMAIN wire = 1..Len(wire)
  BY LenProperties DEF IInv, LInv, WireOK, Sends
<1>2. PICK r : r = wire' /\ r = wire \o q
  BY DEF Sends
<1>3. /\ r \in Seq(Events) /\ Len(r) = Len(wire) + Len(q) /\ DOMAIN r = 1..Len(r)
      /\ \A k \in 1..Len(wire) : r[k] = wire[k]
      /\ \A k \in 1..Len(q) : r[Len(wire) + k] = q[k]
      /\ \A k \in DOMAIN r : k \notin 1..Len(wire) => k - Len(wire) \in 1..Len(q) /\ r[k] = q[k - Len(wire)]
  <2>1. /\ r \in Seq(Events) /\ Len(r) = Len(wire) + Len(q)
        /\ \A k \in 1..Len(wire) + Len(q) : r[k] = IF k <= Len(wire) THEN wire[k] ELSE q[k - Len(wire)]
    BY <1>1, <1>2, ConcatProperties
  <2>2. \A k \in 1..Len(q) : /\ Len(wire) + k \in 1..Len(wire) + Len(q)
                             /\ ~(Len(wire) + k <= Len(wire)) /\ (Len(wire) + k) - Len(wire) = k
    BY <1>1
  <2>3. DOMAIN r = 1..Len(r)
    BY <2>1, LenProperties
  <2>4. \A k \in DOMAIN r : k \notin 1..Len(wire) => k - Len(wire) \in 1..Len(q) /\ ~(k <= Len(wire))
    BY <1>1, <2>1, <2>3
  <2>5. \A k \in 1..Len(wire) : r[k] = wire[k]
    BY <1>1, <2>1
  <2>6. \A k \in 1..Len(q) : r[Len(wire) + k] = q[k]
    BY <2>1, <2>2
  <2>7. \A k \in DOMAIN r : k \notin 1..Len(wire) => r[k] = q[k - Len(wire)]
    BY <2>1, <2>3, <2>4
  <2> QED
    BY <2>1, <2>3, <2>4, <2>5, <2>6, <2>7
<1>4. LevelOK'
  BY DEF IInv, LInv, LevelOK
<1>5. FrameOK'
  BY DEF IInv, LInv, FrameOK
<1>6. WireOK'
  BY <1>2, <1>3 DEF WireOK
<1>7. SpawnsNew'
  <2>1. ASSUME NEW k \in DOMAIN r, r[k].type = "spawn"
        PROVE  r[k].id \notin onLevel /\ \A j \in 1..(k - 1) : r[j].id # r[k].id
    <3>1. CASE k \in 1..Len(wire)
      <4>1. r[k] = wire[k] /\ \A j \in 1..(k - 1) : r[j] = wire[j]
        BY <3>1, <1>1, <1>3
      <4> QED
        BY <2>1, <3>1, <4>1, <1>1 DEF IInv, LInv, SpawnsNew
    <3>2. CASE k \notin 1..Len(wire)
      <4>1. k - Len(wire) \in 1..Len(q) /\ r[k] = q[k - Len(wire)]
        BY <3>2, <1>3
      <4>2. Gone(r[k].id) /\ \A j \in 1..((k - Len(wire)) - 1) : q[j].id # r[k].id
        BY <2>1, <4>1 DEF Sends
      <4>3. ASSUME NEW j \in 1..(k - 1) PROVE r[j].id # r[k].id
        <5>1. j \in DOMAIN r
          BY <1>1, <1>3
        <5>2. CASE j \in 1..Len(wire)
          BY <5>2, <4>2, <1>1, <1>3 DEF Gone
        <5>3. CASE j \notin 1..Len(wire)
          <6>1. r[j] = q[j - Len(wire)] /\ j - Len(wire) \in 1..Len(q)
            BY <5>1, <5>3, <1>3
          <6>2. j - Len(wire) \in 1..((k - Len(wire)) - 1)
            <7>1. k \in Int /\ j <= k - 1 /\ j \in Int /\ j - Len(wire) >= 1
              BY <6>1, <4>1, <1>1, <1>3
            <7> QED
              BY <7>1, <1>1
          <6> QED
            BY <6>1, <6>2, <4>2
        <5> QED
          BY <5>2, <5>3
      <4> QED
        BY <4>2, <4>3 DEF Gone
    <3> QED
      BY <3>1, <3>2
  <2> QED
    BY <2>1, <1>2 DEF SpawnsNew
<1>8. Tracks'
  <2>1. PICK v : Shows(v) /\ Path(wire, v, ServerView)
    BY DEF IInv, LInv, Tracks
  <2>2. Path(r, v, ServerView')
    BY <2>1, <1>1, <1>2, PathConcat DEF Sends
  <2>3. ASSUME NEW i, Refused(i) PROVE Refused(i)'
    <3>1. PICK k \in 1..Len(wire) : wire[k].type = "reject" /\ wire[k].id = i
      BY <2>3, <1>1 DEF Refused
    <3>2. k \in DOMAIN r /\ r[k] = wire[k]
      BY <1>1, <1>3
    <3> QED
      BY <3>1, <3>2, <1>2 DEF Refused
  <2>4. Shows(v)'
    BY <2>1, <2>3 DEF Shows
  <2> QED
    BY <2>2, <2>4, <1>2 DEF Tracks
<1>9. OfflineOK'
  <2> SUFFICES ASSUME phase' # "drain", NEW e \in taken' \ entities'
               PROVE  \/ phase' = "think" /\ Top(e)' \in visited'
                      \/ e \notin onLevel' \ dying' /\ \A k \in DOMAIN r : r[k].id # e
    BY <1>2 DEF OfflineOK
  <2>1. CASE phase = "think" /\ Top(e)' \in visited'
    BY <2>1
  <2>2. CASE e \notin entities /\ (Gone(e) \/ (e \in taken /\ parent'[e] = parent[e]))
    <3>1. \A k \in 1..Len(q) : q[k].id # e
      BY <2>2 DEF Sends
    <3>2. \/ phase = "think" /\ Top(e) \in visited /\ Top(e)' = Top(e)
          \/ e \notin onLevel \ dying /\ \A k \in DOMAIN wire : wire[k].id # e
      BY <2>2 DEF IInv, LInv, OfflineOK, Gone, Top
    <3>3. (\A k \in DOMAIN wire : wire[k].id # e) => \A k \in DOMAIN r : r[k].id # e
      BY <3>1, <1>1, <1>3
    <3> QED
      BY <3>2, <3>3
  <2> QED
    BY <2>1, <2>2 DEF Stays
<1> QED
  BY <1>4, <1>5, <1>6, <1>7, <1>8, <1>9 DEF LInv

\* Nothing is sent when what the server has online does not change.
LEMMA NothingSent ==
    ASSUME IInv, UNCHANGED wire, entities' = entities, \A e \in entities : parent'[e] = parent[e]
    PROVE  \E q : Sends(q)
<1>1. ServerView' = ServerView
  BY DEF ServerView
<1>2. wire \in Seq(Events)
  BY DEF IInv, LInv, WireOK
<1>3. wire' = wire \o <<>> /\ <<>> \in Seq(Parting)
  BY <1>2, ConcatEmptySeq, EmptySeq
<1> QED
  BY <1>1, <1>3, PathNone, PartingSends

(***************************************************************************)
(* The requests and the switches keep the invariant.                       *)
(***************************************************************************)
\* What the tables say of every entity, whichever the step.
LEMMA TableFacts ==
    ASSUME IInv
    PROVE  /\ entities \subseteq taken /\ taken \subseteq Ids
           /\ parent \in [Ids -> Owners \cup {None}]
           /\ children \in [Ids -> SUBSET Items]
           /\ \A c, o \in Ids : c \in children[o] <=> parent[c] = o
           /\ \A e \in taken : parent[e] # None => (e \in entities <=> parent[e] \in entities)
BY DEF IInv, SInv, ServerTypeOK, Consistent, ParentsAgree

LEMMA MakesRequestFrame ==
    ASSUME IInv, MakesRequest
    PROVE  /\ phase' = phase /\ visited' = visited /\ visited' \subseteq Ids
           /\ requests' \in 0 .. MaxRequests
BY RequestsAssumption DEF MakesRequest, IInv, LInv, FrameOK

LEMMA ClientStays ==
    ASSUME IInv, UNCHANGED client
    PROVE  UNCHANGED <<onLevel, holder, dying, refused>> /\ removed' \subseteq onLevel
BY DEF client, IInv, LInv, LevelOK

\* An operation that only removes entities leaves the others as they were.
LEMMA EraseStays ==
    ASSUME IInv, NEW e \in Ids, Erase(Whole(e))
    PROVE  \A x \in taken' \ entities' : Stays(x)
<1>1. \A x \in taken' \ entities' : x \in taken \ entities /\ x \notin Whole(e) /\ x \in Ids
  BY TableFacts DEF Erase
<1>2. \A x \in Ids : parent'[x] = IF x \in Whole(e) THEN None ELSE parent[x]
  BY DEF Erase
<1> QED
  BY <1>1, <1>2 DEF Stays

LEMMA SpawnLInv ==
    ASSUME IInv, NEW e \in Ids, NEW p \in Owners \cup {None}, RequestSpawn(e, p)
    PROVE  LInv'
<1>1. MakesRequest /\ Fresh(e) /\ ProcessSpawn(e, p) /\ UNCHANGED client
  BY DEF RequestSpawn
<1>2. PICK q : Sends(q)
  BY <1>1, SpawnSends
<1>3. \A x \in Ids : parent'[x] = IF x = e THEN p ELSE parent[x]
  BY <1>1, TableFacts DEF ProcessSpawn
<1>4. ASSUME NEW x \in taken' \ entities' PROVE Stays(x)
  BY <1>1, <1>3, <1>4, TableFacts DEF ProcessSpawn, Stays
<1> QED
  BY <1>1, <1>2, <1>4, MakesRequestFrame, ClientStays, SentLInv

LEMMA CreateLInv ==
    ASSUME IInv, NEW e \in Ids, NEW o \in Owners \cup {None}, ScriptCreate(e, o)
    PROVE  LInv'
<1>1. MakesRequest /\ Fresh(e) /\ CreateOffline(e, o) /\ UNCHANGED client
  BY DEF ScriptCreate
<1>2. \A x \in Ids : parent'[x] = IF x = e THEN o ELSE parent[x]
  BY <1>1, TableFacts DEF CreateOffline
<1>3. e \notin entities /\ entities' = entities /\ UNCHANGED wire
  BY <1>1, TableFacts DEF CreateOffline
<1>4. PICK q : Sends(q)
  BY <1>2, <1>3, TableFacts, NothingSent
<1>5. Gone(e)
  BY <1>1 DEF Fresh, Gone
<1>6. ASSUME NEW x \in taken' \ entities' PROVE Stays(x)
  BY <1>1, <1>2, <1>3, <1>5, <1>6, TableFacts DEF CreateOffline, Stays
<1> QED
  BY <1>1, <1>4, <1>6, MakesRequestFrame, ClientStays, SentLInv

LEMMA TakeLInv ==
    ASSUME IInv, NEW o \in Owners, NEW i \in Items, RequestTake(o, i)
    PROVE  LInv'
<1>1. MakesRequest /\ ProcessOwnership(o, i) /\ UNCHANGED client
  BY DEF RequestTake
<1>2. PICK q : Sends(q)
  BY <1>1, OwnershipSends
<1>3. \A x \in Ids : parent'[x] = IF x = i THEN o ELSE parent[x]
  BY <1>1, TableFacts DEF ProcessOwnership
<1>4. ASSUME NEW x \in taken' \ entities' PROVE Stays(x)
  BY <1>1, <1>3, <1>4, TableFacts DEF ProcessOwnership, Stays
<1> QED
  BY <1>1, <1>2, <1>4, MakesRequestFrame, ClientStays, SentLInv

LEMMA RejectStays ==
    ASSUME IInv, NEW o, NEW i, NEW q, ProcessReject(o, i, q)
    PROVE  \A x \in taken' \ entities' : Stays(x)
<1>1. i \in entities /\ UNCHANGED <<entities, taken>>
  BY DEF ProcessReject, Rejectable
<1>2. \A x \in Ids : parent'[x] = IF x = i THEN None ELSE parent[x]
  BY TableFacts DEF ProcessReject
<1> QED
  BY <1>1, <1>2, TableFacts DEF Stays

LEMMA RejectLInv ==
    ASSUME IInv, NEW o \in Owners, NEW i \in Items, RequestReject(o, i)
    PROVE  LInv'
<1>1. MakesRequest /\ ProcessReject(o, i, wire) /\ UNCHANGED client
  BY DEF RequestReject
<1>2. PICK q : Sends(q)
  BY <1>1, RejectSends
<1> QED
  BY <1>1, <1>2, RejectStays, MakesRequestFrame, ClientStays, SentLInv

LEMMA DestroyLInv ==
    ASSUME IInv, NEW e \in Ids, DestroyObject(e)
    PROVE  LInv'
<1>1. /\ MakesRequest /\ UNCHANGED <<onLevel, holder, dying, refused>>
      /\ removed' \subseteq onLevel
  BY DEF DestroyObject, IInv, LInv, LevelOK
<1>2. CASE ProcessDestroy(e)
  <2>1. PICK q : Sends(q)
    BY <1>2, DestroySends
  <2> QED
    BY <1>1, <1>2, <2>1, EraseStays, MakesRequestFrame, SentLInv DEF ProcessDestroy
<1>3. CASE UNCHANGED <<registries, wire>>
  <2>1. /\ UNCHANGED wire /\ entities' = entities /\ parent' = parent /\ taken' = taken
    BY <1>3 DEF registries
  <2>2. PICK q : Sends(q)
    BY <2>1, NothingSent
  <2>3. \A x \in taken' \ entities' : Stays(x)
    BY <2>1 DEF Stays
  <2> QED
    BY <1>1, <2>2, <2>3, MakesRequestFrame, SentLInv
<1> QED
  BY <1>2, <1>3 DEF DestroyObject

LEMMA ReleaseLInv ==
    ASSUME IInv, NEW e \in Ids, ScriptRelease(e)
    PROVE  LInv'
<1>1. MakesRequest /\ UNCHANGED client
  BY DEF ScriptRelease
<1>2. ASSUME Erase(Whole(e)), NEW q, Sends(q) PROVE LInv'
  BY <1>1, <1>2, EraseStays, MakesRequestFrame, ClientStays, SentLInv
<1>3. CASE ProcessDestroy(e)
  BY <1>2, <1>3, DestroySends DEF ProcessDestroy
<1>4. CASE Release(e)
  <2>1. Erase(Whole(e)) /\ UNCHANGED wire /\ e \notin entities /\ e \in taken
    BY <1>4 DEF Release, IInv, SInv, Consistent, RegistriesAgree
  <2>2. Whole(e) \cap entities = {}
    BY <2>1, TableFacts DEF Whole
  <2>3. entities' = entities /\ \A x \in entities : parent'[x] = parent[x]
    BY <2>1, <2>2, TableFacts DEF Erase
  <2>4. PICK q : Sends(q)
    BY <2>1, <2>3, NothingSent
  <2> QED
    BY <1>2, <2>1, <2>4
<1> QED
  BY <1>3, <1>4 DEF ScriptRelease

(* A pass switches an entity online that it has not visited: the level has *)
(* nothing left of it.                                                     *)
LEMMA UnvisitedIsGone ==
    ASSUME IInv, phase = "think", NEW e \in taken \ entities, parent[e] = None, e \notin visited,
           NEW c \in Whole(e)
    PROVE  Gone(c)
<1>1. c \in taken \ entities /\ Top(c) = e
  <2>1. CASE c = e
    BY <2>1 DEF Top
  <2>2. CASE c # e
    <3>1. c \in children[e] /\ c \in Ids /\ parent[c] = e
      BY <2>2, TableFacts DEF Whole
    <3>2. c \in taken /\ e # None
      BY <3>1, TableFacts DEF IInv, SInv, Consistent, ParentsAgree
    <3> QED
      BY <3>1, <3>2, TableFacts DEF Top
  <2> QED
    BY <2>1, <2>2
<1>2. dying = {}
  BY DEF IInv, LInv, FrameOK
<1> QED
  BY <1>1, <1>2 DEF IInv, LInv, OfflineOK, Gone

LEMMA SwitchLInv ==
    ASSUME IInv, NEW e \in Ids, Switch(e)
    PROVE  LInv'
<1>1. /\ phase = "think" /\ e \notin visited /\ visited' = visited \cup {e}
      /\ phase' = phase /\ requests' = requests /\ UNCHANGED client
  BY DEF Switch
<1>2. visited' \subseteq Ids /\ visited \subseteq visited' /\ requests' \in 0 .. MaxRequests
  BY <1>1 DEF IInv, LInv, FrameOK
<1>3. CASE SwitchOnline(e)
  <2>1. e \in taken \ entities /\ parent[e] = None
    BY <1>3 DEF SwitchOnline, IInv, SInv, Consistent, RegistriesAgree
  <2>2. PICK q : Sends(q)
    BY <1>1, <1>3, <2>1, UnvisitedIsGone, OnlineSends
  <2>3. \A x \in taken' \ entities' : Stays(x)
    BY <1>3, TableFacts DEF SwitchOnline, Stays
  <2> QED
    BY <1>1, <1>2, <2>2, <2>3, ClientStays, SentLInv
<1>4. CASE SwitchOffline(e)
  <2>1. PICK q : Sends(q)
    BY <1>4, OfflineSends
  <2>2. parent[e] = None
    BY <1>4 DEF SwitchOffline
  <2>3. \A x \in Ids : parent'[x] = IF x \in children[e] \cap Unsaved THEN None ELSE parent[x]
    BY <1>4 DEF SwitchOffline
  <2>4. ASSUME NEW x \in taken' \ entities' PROVE Stays(x)
    <3>1. /\ x \in taken /\ x \in Ids /\ x \notin children[e] \cap Unsaved
          /\ x \in entities => x \in Whole(e)
      BY <1>4, <2>4, TableFacts DEF SwitchOffline
    <3>2. parent'[x] = parent[x]
      BY <2>3, <3>1
    <3>3. x \in Whole(e) => Top(x)' = e
      BY <2>2, <3>1, <3>2, TableFacts DEF Top, Whole
    <3> QED
      BY <1>1, <3>1, <3>2, <3>3 DEF Stays
  <2> QED
    BY <1>1, <1>2, <2>1, <2>4, ClientStays, SentLInv
<1> QED
  BY <1>3, <1>4 DEF Switch

LEMMA RequestLInv == IInv /\ Request => LInv'
  BY SpawnLInv, CreateLInv, TakeLInv, RejectLInv, DestroyLInv, ReleaseLInv DEF Request, Ids

(***************************************************************************)
(* The event at the head of the wire is handled.                           *)
(***************************************************************************)
LEMMA HeadFacts ==
    ASSUME IInv, wire # <<>>
    PROVE  /\ wire \in Seq(Events) /\ Len(wire) \in Nat /\ Len(wire) >= 1
           /\ DOMAIN wire = 1..Len(wire)
           /\ Head(wire) = wire[1] /\ Head(wire) \in Events
           /\ Tail(wire) \in Seq(Events) /\ Len(Tail(wire)) = Len(wire) - 1
           /\ \A j \in 1..(Len(wire) - 1) : Tail(wire)[j] = wire[j + 1]
<1>1. wire \in Seq(Events)
  BY DEF IInv, LInv, WireOK
<1> QED
  BY <1>1, EmptySeq, LenProperties, HeadTailProperties, TailShifts, ElementOfSeq

\* The head of the wire gives way to at most a refusal at the end.
Pops(q) == /\ q \in Seq(Parting)
           /\ wire' = Tail(wire) \o q
           /\ Path(q, ServerView, ServerView')

LEMMA PopsWire ==
    ASSUME IInv, wire # <<>>, NEW q, Pops(q)
    PROVE  /\ wire' \in Seq(Events) /\ DOMAIN wire' = 1..(Len(wire) - 1 + Len(q)) /\ Len(q) \in Nat
           /\ \A k \in 1..(Len(wire) - 1) : wire'[k] = wire[k + 1]
           /\ \A k \in DOMAIN wire' : k \notin 1..(Len(wire) - 1) => wire'[k] \in Parting
           /\ \A k \in 1..Len(q) : /\ (Len(wire) - 1) + k \in DOMAIN wire'
                                   /\ wire'[(Len(wire) - 1) + k] = q[k]
<1>1. /\ Tail(wire) \in Seq(Events) /\ q \in Seq(Events) /\ Len(q) \in Nat
      /\ \A k \in 1..Len(q) : q[k] \in Parting
  <2>1. q \in Seq(Events)
    BY SeqDef DEF Pops, Parting
  <2> QED
    BY <2>1, HeadFacts, LenProperties, ElementOfSeq DEF Pops
<1>2. PICK r : r = wire' /\ r = Tail(wire) \o q
  BY DEF Pops
<1>3. PICK n \in Nat : n = Len(wire) - 1 /\ n = Len(Tail(wire))
  <2>1. Len(wire) \in Nat /\ Len(wire) >= 1 /\ Len(Tail(wire)) = Len(wire) - 1
    BY HeadFacts
  <2>2. Len(wire) - 1 \in Nat
    BY <2>1
  <2> QED
    BY <2>1, <2>2
<1>4. /\ r \in Seq(Events) /\ Len(r) = n + Len(q)
      /\ \A k \in 1..n + Len(q) : r[k] = IF k <= n THEN Tail(wire)[k] ELSE q[k - n]
  BY <1>1, <1>2, <1>3, ConcatProperties
<1>5. DOMAIN r = 1..(n + Len(q))
  BY <1>4, LenProperties
<1>6. \A k \in 1..n : r[k] = wire[k + 1]
  <2>1. \A k \in 1..n : r[k] = Tail(wire)[k]
    <3>1. \A k \in 1..n : k \in 1..n + Len(q) /\ k <= n
      BY <1>1
    <3> QED
      BY <3>1, <1>4
  <2> QED
    BY <2>1, <1>3, HeadFacts
<1>7. ASSUME NEW k \in DOMAIN r, k \notin 1..n PROVE r[k] \in Parting
  <2>1. k - n \in 1..Len(q) /\ ~(k <= n)
    BY <1>1, <1>5, <1>7
  <2> QED
    BY <2>1, <1>1, <1>4, <1>5
<1>8. ASSUME NEW k \in 1..Len(q) PROVE n + k \in DOMAIN r /\ r[n + k] = q[k]
  <2>1. n + k \in 1..n + Len(q) /\ ~(n + k <= n) /\ (n + k) - n = k
    BY <1>1
  <2> QED
    BY <2>1, <1>4, <1>5
<1> QED
  BY <1>1, <1>2, <1>3, <1>4, <1>5, <1>6, <1>7, <1>8

\* A refusal that is on its way, and is not the event at the head, stays so.
LEMMA RefusedStays ==
    ASSUME IInv, wire # <<>>, NEW q, Pops(q), NEW i, Refused(i), Head(wire).id # i
    PROVE  Refused(i)'
<1>1. PICK k \in 1..Len(wire) : wire[k].type = "reject" /\ wire[k].id = i
  BY HeadFacts DEF Refused
<1>2. k # 1
  BY <1>1, HeadFacts
<1>3. k - 1 \in 1..(Len(wire) - 1) /\ (k - 1) + 1 = k
  BY <1>2, HeadFacts
<1>4. wire'[k - 1] = wire[k] /\ k - 1 \in DOMAIN wire'
  BY <1>3, PopsWire
<1> QED
  BY <1>1, <1>4 DEF Refused

(* The view after the event is what the level shows then.                  *)
LEMMA PoppedLInv ==
    ASSUME IInv, phase = "drain", wire # <<>>, UNCHANGED frame, LevelOK',
           NEW q, Pops(q), NEW x, Path(Tail(wire), x, ServerView),
           \A e \in onLevel' \ onLevel : e = Head(wire).id,
           WellFormed(x), DOMAIN x = onLevel' \ dying',
           \A e \in DOMAIN x \ refused' : holder'[e] = x[e],
           \A e \in refused' : e \in DOMAIN x /\ x[e] # None /\ Refused(e)'
    PROVE  LInv'
<1>1. PICK r : r = wire'
  OBVIOUS
<1>2. /\ r \in Seq(Events) /\ DOMAIN r = 1..(Len(wire) - 1 + Len(q)) /\ Len(q) \in Nat
      /\ \A k \in 1..(Len(wire) - 1) : r[k] = wire[k + 1]
      /\ \A k \in DOMAIN r : k \notin 1..(Len(wire) - 1) => r[k] \in Parting
  BY <1>1, PopsWire
<1>3. \A k \in 1..(Len(wire) - 1) : k + 1 \in DOMAIN wire
  BY HeadFacts
<1>4. WireOK'
  BY <1>1, <1>2 DEF WireOK
<1>5. SpawnsNew'
  <2>1. ASSUME NEW k \in DOMAIN r, r[k].type = "spawn"
        PROVE  r[k].id \notin onLevel' /\ \A j \in 1..(k - 1) : r[j].id # r[k].id
    <3>1. k \in 1..(Len(wire) - 1) /\ r[k] = wire[k + 1] /\ k + 1 \in DOMAIN wire
      BY <2>1, <1>2, <1>3 DEF Parting
    <3>2. wire[k + 1].id \notin onLevel /\ \A j \in 1..((k + 1) - 1) : wire[j].id # wire[k + 1].id
      BY <2>1, <3>1 DEF IInv, LInv, SpawnsNew
    <3>3. 1 \in 1..((k + 1) - 1)
      BY <3>1, HeadFacts
    <3>4. r[k].id \notin onLevel'
      BY <3>1, <3>2, <3>3, HeadFacts
    <3>5. ASSUME NEW j \in 1..(k - 1) PROVE r[j].id # r[k].id
      <4>1. j \in 1..(Len(wire) - 1) /\ j + 1 \in 1..((k + 1) - 1)
        BY <3>1, HeadFacts
      <4> QED
        BY <4>1, <3>1, <3>2, <1>2
    <3> QED
      BY <3>4, <3>5
  <2> QED
    BY <2>1, <1>1 DEF SpawnsNew
<1>6. Tracks'
  <2>1. q \in Seq(Events)
    BY SeqDef DEF Pops, Parting
  <2>2. Path(wire', x, ServerView')
    BY <2>1, HeadFacts, PathConcat DEF Pops
  <2>3. Shows(x)'
    BY DEF Shows
  <2> QED
    BY <2>2, <2>3 DEF Tracks
<1>7. FrameOK' /\ OfflineOK'
  BY DEF frame, IInv, LInv, FrameOK, OfflineOK
<1> QED
  BY <1>4, <1>5, <1>6, <1>7 DEF LInv

LEMMA QuietlyPops ==
    ASSUME IInv, wire # <<>>, Quietly
    PROVE  Pops(<<>>)
<1>1. ServerView' = ServerView
  BY DEF ServerView, Quietly, registries
<1>2. Tail(wire) \in Seq(Events)
  BY HeadFacts
<1>3. wire' = Tail(wire) \o <<>> /\ <<>> \in Seq(Parting)
  BY <1>2, ConcatEmptySeq, EmptySeq DEF Quietly
<1> QED
  BY <1>1, <1>3, PathNone DEF Pops

(* An item that refuses to be taken is on its way back, either because its *)
(* taker sends it now or because the server has freed it in the meantime.  *)
LEMMA RefusalPops ==
    ASSUME IInv, wire # <<>>, NEW o \in Ids, NEW i \in Ids, NEW x, Path(Tail(wire), x, ServerView),
           i \in DOMAIN x, x[i] = o,
           IF Rejectable(o, i) THEN ProcessReject(o, i, Tail(wire)) ELSE Quietly
    PROVE  /\ \E q : Pops(q)
           /\ Refused(i)'
<1>1. CASE Rejectable(o, i)
  <2> DEFINE m == Event("reject", i, o)
  <2>1. m \in Parting /\ Leads(ServerView, m, ServerView') /\ m.type = "reject" /\ m.id = i
    BY <1>1, RejectLeads, EventIsEvent DEF Event
  <2>2. wire' = Tail(wire) \o <<m>>
    <3>1. Tail(wire) \in Seq(Events) /\ m \in Events
      BY <2>1, HeadFacts DEF Parting
    <3> QED
      BY <1>1, <3>1, AppendIsConcat DEF ProcessReject
  <2>3. <<m>> \in Seq(Parting)
    BY <2>1
  <2> HIDE DEF m
  <2>4. Pops(<<m>>)
    BY <2>1, <2>2, <2>3, PathOne DEF Pops
  <2>5. Len(<<m>>) = 1 /\ <<m>>[1] = m
    OBVIOUS
  <2>6. (Len(wire) - 1) + 1 \in DOMAIN wire' /\ wire'[(Len(wire) - 1) + 1] = m
    <3>1. 1 \in 1..Len(<<m>>)
      BY <2>5
    <3>2. /\ (Len(wire) - 1) + 1 \in DOMAIN wire'
          /\ wire'[(Len(wire) - 1) + 1] = <<m>>[1]
      BY <2>4, <3>1, PopsWire
    <3> QED
      BY <2>5, <3>2
  <2>7. Refused(i)'
    BY <2>1, <2>6 DEF Refused
  <2> QED
    BY <2>4, <2>7
<1>2. CASE ~Rejectable(o, i)
  <2>1. Pops(<<>>)
    BY <1>2, QuietlyPops
  <2>2. ~(i \in DOMAIN ServerView /\ ServerView[i] = x[i])
    BY <1>2, TableFacts DEF Rejectable, ServerView
  <2>3. Tail(wire) \in Seq(Events) /\ DOMAIN Tail(wire) = 1..Len(Tail(wire))
    BY HeadFacts, LenProperties
  <2>4. \E k \in 1..Len(Tail(wire)) : Tail(wire)[k].type = "reject" /\ Tail(wire)[k].id = i
    <3>1. x[i] # None
      OBVIOUS
    <3>2. PICK r : r = Tail(wire)
      OBVIOUS
    <3>3. PICK u : u = ServerView
      OBVIOUS
    <3>4. /\ r \in Seq(Events) /\ Path(r, x, u) /\ i \in DOMAIN x
          /\ ~(i \in DOMAIN u /\ u[i] = x[i])
      BY <2>2, <2>3, <3>2, <3>3
    <3>5. \E k \in 1..Len(r) : r[k].type = "reject" /\ r[k].id = i
      BY <3>1, <3>4, PathFrees
    <3> QED
      BY <3>2, <3>5
  <2>5. wire' = Tail(wire)
    BY <1>2 DEF Quietly
  <2>6. Refused(i)'
    BY <2>3, <2>4, <2>5 DEF Refused
  <2> QED
    BY <2>1, <2>6
<1> QED
  BY <1>1, <1>2

(* What the level shows and what the event at the head makes of it.        *)
NextView(v, x) == /\ Shows(v) /\ Leads(v, Head(wire), x) /\ WellFormed(x)
                  /\ Path(Tail(wire), x, ServerView)

LEMMA NextViewExists ==
    ASSUME IInv, wire # <<>>
    PROVE  \E v, x : NextView(v, x)
<1>1. PICK v : Shows(v) /\ Path(wire, v, ServerView)
  BY DEF IInv, LInv, Tracks
<1>2. PICK x : Leads(v, Head(wire), x) /\ Path(Tail(wire), x, ServerView)
  BY <1>1, HeadFacts, PathTail
<1>3. WellFormed(x)
  BY <1>1, <1>2, HeadFacts, LeadsWellFormed DEF Shows
<1> QED
  BY <1>1, <1>2, <1>3 DEF NextView

\* An object that the event is not about is shown as before.
LEMMA OthersKept ==
    ASSUME IInv, wire # <<>>, NEW v, NEW x, NextView(v, x), NEW q, Pops(q),
           NEW c \in DOMAIN v, c # Head(wire).id, x[c] = v[c]
    PROVE  /\ c \notin refused => holder[c] = x[c]
           /\ c \in refused => x[c] # None /\ Refused(c)'
<1>1. c \in refused => v[c] # None /\ Refused(c)
  BY DEF NextView, Shows
<1> QED
  BY <1>1, RefusedStays DEF NextView, Shows

(* The object that a spawn brings, or that is taken, is given to its owner *)
(* o in the view: either it holds it or it sends it back.                  *)
LEMMA TakeGives ==
    ASSUME IInv, wire # <<>>, NEW v, NEW x, NextView(v, x), NEW o \in onLevel \ dying,
           NEW i \in Ids, Head(wire).id = i, x = With(v, i, o), Take(o, i)
    PROVE  /\ \/ holder' = [holder EXCEPT ![i] = o] /\ refused' = refused
              \/ holder' = holder /\ refused' = refused \cup {i} /\ Refused(i)'
           /\ \E q : Pops(q)
<1>1. o \in Ids
  BY DEF IInv, LInv, LevelOK
<1>2. CASE holder' = [holder EXCEPT ![i] = o] /\ Quietly /\ UNCHANGED refused
  BY <1>2, QuietlyPops
<1>3. CASE /\ refused' = refused \cup {i} /\ UNCHANGED holder
           /\ IF Rejectable(o, i) THEN ProcessReject(o, i, Tail(wire)) ELSE Quietly
  <2>1. i \in DOMAIN x /\ x[i] = o
    BY DEF With
  <2>2. Path(Tail(wire), x, ServerView)
    BY DEF NextView
  <2>3. (\E q : Pops(q)) /\ Refused(i)'
    BY <1>1, <1>3, <2>1, <2>2, RefusalPops
  <2> QED
    BY <1>3, <2>3
<1> QED
  BY <1>2, <1>3 DEF Take

(* Who is given an object, or loses it, is the only one to see a change.   *)
LEMMA GivenOrLost ==
    ASSUME IInv, phase = "drain", wire # <<>>, UNCHANGED <<frame, dying>>, NEW v, NEW x, NextView(v, x),
           NEW i \in Ids, i = Head(wire).id, refused' \subseteq Ids,
           onLevel' = onLevel \cup {i}, i \notin dying, removed' \subseteq removed,
           NEW o \in (onLevel \ dying) \cup {None}, x = With(v, i, o),
           holder' \in [Ids -> onLevel \cup {None}],
           \A c \in Ids \ {i} : holder'[c] = holder[c] /\ (c \in refused' <=> c \in refused),
           \/ i \notin refused' /\ holder'[i] = o
           \/ i \in refused' /\ holder'[i] = None /\ o # None /\ Refused(i)',
           \E q : Pops(q)
    PROVE  LInv'
<1>1. /\ DOMAIN v = onLevel \ dying /\ WellFormed(x) /\ Path(Tail(wire), x, ServerView)
      /\ refused \subseteq DOMAIN v
  BY DEF NextView, Shows
<1>2. PICK q : Pops(q)
  OBVIOUS
<1>3. DOMAIN x = onLevel' \ dying' /\ DOMAIN x = DOMAIN v \cup {i}
  BY <1>1 DEF With
<1>4. refused' \subseteq Ids
  OBVIOUS
<1>5. LevelOK'
  <2>1. holder' \in [Ids -> onLevel' \cup {None}]
    BY DEF IInv, LInv, LevelOK
  <2>2. \A c \in Ids \ onLevel' : holder'[c] = None
    BY DEF IInv, LInv, LevelOK
  <2>3. \A c \in refused' : holder'[c] = None
    BY <1>4 DEF IInv, LInv, LevelOK
  <2>4. \A c \in Ids : holder'[c] \in dying' => c \in dying'
    BY NoneAssumption DEF IInv, LInv, LevelOK
  <2> QED
    BY <1>4, <2>1, <2>2, <2>3, <2>4 DEF IInv, LInv, LevelOK
<1>6. ASSUME NEW c \in DOMAIN x, c # i
      PROVE  /\ c \notin refused' => holder'[c] = x[c]
             /\ c \in refused' => x[c] # None /\ Refused(c)'
  <2>1. c \in DOMAIN v /\ x[c] = v[c] /\ c \in Ids
    BY <1>1, <1>3, <1>6 DEF With, IInv, LInv, LevelOK
  <2> QED
    BY <1>2, <1>6, <2>1, OthersKept
<1>7. x[i] = o
  BY DEF With
<1>8. \A c \in DOMAIN x \ refused' : holder'[c] = x[c]
  BY <1>6, <1>7
<1>9. \A c \in refused' : c \in DOMAIN x
  BY <1>1, <1>3, <1>4
<1>10. \A c \in refused' : c \in DOMAIN x /\ x[c] # None /\ Refused(c)'
  BY <1>6, <1>7, <1>9
<1>11. \A c \in onLevel' \ onLevel : c = Head(wire).id
  OBVIOUS
<1> QED
  BY <1>1, <1>2, <1>3, <1>5, <1>8, <1>10, <1>11, PoppedLInv

LEMMA OnSpawnLInv ==
    ASSUME IInv, phase = "drain", wire # <<>>, Head(wire).type = "spawn",
           OnSpawn(Head(wire).id, Head(wire).owner), UNCHANGED frame
    PROVE  LInv'
<1>1. PICK v, x : NextView(v, x)
  BY NextViewExists
<1>2. PICK e \in Ids, p \in Owners \cup {None} : e = Head(wire).id /\ p = Head(wire).owner
  BY HeadFacts DEF Events
<1>3. /\ e \notin DOMAIN v /\ p \in DOMAIN v \cup {None} /\ x = With(v, e, p)
      /\ DOMAIN v = onLevel \ dying
  BY <1>1, <1>2 DEF NextView, Leads, Shows
<1>4. /\ e \notin onLevel /\ e \notin dying /\ holder[e] = None /\ e \notin refused
      /\ holder \in [Ids -> onLevel \cup {None}] /\ refused \subseteq Ids
  BY <1>1, <1>2, HeadFacts DEF IInv, LInv, SpawnsNew, LevelOK, NextView, Shows
<1>5. /\ onLevel' = onLevel \cup {e} /\ removed' \subseteq removed /\ UNCHANGED dying
  BY <1>2 DEF OnSpawn
<1>6. CASE p = None
  <2>1. p \notin onLevel
    BY <1>6, NoneAssumption DEF IInv, LInv, LevelOK
  <2>2. Quietly /\ UNCHANGED <<holder, refused>>
    BY <1>2, <2>1 DEF OnSpawn
  <2>3. Pops(<<>>)
    BY <2>2, QuietlyPops
  <2> QED
    BY <1>1, <1>2, <1>3, <1>4, <1>5, <1>6, <2>2, <2>3, GivenOrLost
<1>7. CASE p # None
  <2>1. p \in onLevel \ dying
    BY <1>7, <1>3
  <2>2. Take(p, e)
    BY <1>2, <1>4, <2>1 DEF OnSpawn
  <2>3. /\ \/ holder' = [holder EXCEPT ![e] = p] /\ refused' = refused
           \/ holder' = holder /\ refused' = refused \cup {e} /\ Refused(e)'
        /\ \E q : Pops(q)
    BY <1>1, <1>2, <1>3, <2>1, <2>2, TakeGives
  <2>4. holder' \in [Ids -> onLevel \cup {None}] /\ refused' \subseteq Ids
    BY <1>4, <2>1, <2>3
  <2>5. /\ \A c \in Ids \ {e} : holder'[c] = holder[c] /\ (c \in refused' <=> c \in refused)
        /\ \/ e \notin refused' /\ holder'[e] = p
           \/ e \in refused' /\ holder'[e] = None /\ p # None /\ Refused(e)'
    BY <1>4, <1>7, <2>3
  <2> QED
    BY <1>1, <1>2, <1>3, <1>4, <1>5, <2>1, <2>3, <2>4, <2>5, GivenOrLost
<1> QED
  BY <1>6, <1>7

LEMMA OnTakeLInv ==
    ASSUME IInv, phase = "drain", wire # <<>>, Head(wire).type = "take",
           OnTake(Head(wire).owner, Head(wire).id), UNCHANGED frame
    PROVE  LInv'
<1>1. PICK v, x : NextView(v, x)
  BY NextViewExists
<1>2. PICK i \in Ids, o \in Owners \cup {None} : i = Head(wire).id /\ o = Head(wire).owner
  BY HeadFacts DEF Events
<1>3. /\ {i, o} \subseteq onLevel \ dying /\ o # None /\ x = With(v, i, o)
      /\ i \notin refused /\ holder[i] = None
  BY <1>1, <1>2, NoneAssumption DEF NextView, Leads, Shows, IInv, LInv, LevelOK
<1>4. holder \in [Ids -> onLevel \cup {None}] /\ refused \subseteq Ids
  BY DEF IInv, LInv, LevelOK
<1>5. Take(o, i) /\ UNCHANGED <<onLevel, dying, removed>>
  BY <1>2, <1>3 DEF OnTake
<1>6. /\ \/ holder' = [holder EXCEPT ![i] = o] /\ refused' = refused
         \/ holder' = holder /\ refused' = refused \cup {i} /\ Refused(i)'
      /\ \E q : Pops(q)
  BY <1>1, <1>2, <1>3, <1>5, TakeGives
<1>7. /\ holder' \in [Ids -> onLevel \cup {None}] /\ refused' \subseteq Ids
      /\ onLevel' = onLevel \cup {i} /\ removed' \subseteq removed
  BY <1>3, <1>4, <1>5, <1>6
<1>8. /\ \A c \in Ids \ {i} : holder'[c] = holder[c] /\ (c \in refused' <=> c \in refused)
      /\ \/ i \notin refused' /\ holder'[i] = o
         \/ i \in refused' /\ holder'[i] = None /\ o # None /\ Refused(i)'
  BY <1>3, <1>4, <1>6
<1> QED
  BY <1>1, <1>2, <1>3, <1>5, <1>6, <1>7, <1>8, GivenOrLost

LEMMA OnRejectLInv ==
    ASSUME IInv, phase = "drain", wire # <<>>, Head(wire).type = "reject",
           OnReject(Head(wire).owner, Head(wire).id), UNCHANGED frame
    PROVE  LInv'
<1>1. PICK v, x : NextView(v, x)
  BY NextViewExists
<1>2. PICK i \in Ids, o \in Owners \cup {None} : i = Head(wire).id /\ o = Head(wire).owner
  BY HeadFacts DEF Events
<1>3. /\ i \in DOMAIN v /\ v[i] = o /\ o # None /\ x = With(v, i, None)
      /\ DOMAIN v = onLevel \ dying /\ WellFormed(v)
  BY <1>1, <1>2 DEF NextView, Leads, Shows
<1>4. /\ o \in onLevel /\ i \in onLevel \ dying
      /\ holder[i] \in {o, None}
      /\ holder \in [Ids -> onLevel \cup {None}] /\ refused \subseteq Ids
  BY <1>1, <1>3 DEF NextView, Shows, WellFormed, IInv, LInv, LevelOK
<1>5. /\ Quietly /\ UNCHANGED <<onLevel, dying, removed>> /\ refused' = refused \ {i}
      /\ holder' = IF o = Actor => holder[i] = o THEN [holder EXCEPT ![i] = None] ELSE holder
  BY <1>2, <1>4 DEF OnReject
<1>6. Pops(<<>>)
  BY <1>5, QuietlyPops
<1>7. /\ holder' \in [Ids -> onLevel \cup {None}] /\ refused' \subseteq Ids
      /\ onLevel' = onLevel \cup {i} /\ removed' \subseteq removed
  BY <1>4, <1>5
<1>8. /\ \A c \in Ids \ {i} : holder'[c] = holder[c] /\ (c \in refused' <=> c \in refused)
      /\ i \notin refused' /\ holder'[i] = None
  BY <1>4, <1>5
<1> QED
  BY <1>1, <1>2, <1>3, <1>4, <1>5, <1>6, <1>7, <1>8, GivenOrLost

LEMMA OnDestroyLInv ==
    ASSUME IInv, phase = "drain", wire # <<>>, Head(wire).type = "destroy",
           OnDestroy(Head(wire).id), UNCHANGED frame
    PROVE  LInv'
<1>1. PICK v, x : NextView(v, x)
  BY NextViewExists
<1>2. PICK e \in Ids : e = Head(wire).id
  BY HeadFacts DEF Events
<1>3. /\ e \in DOMAIN v /\ v[e] = None /\ x = Without(v, e)
      /\ \A c \in DOMAIN v : v[c] # e
  BY <1>1, <1>2 DEF NextView, Leads
<1>4. /\ DOMAIN v = onLevel \ dying /\ refused \subseteq DOMAIN v /\ e \notin refused
      /\ \A c \in refused : holder[c] = None
  BY <1>1, <1>3 DEF NextView, Shows, IInv, LInv, LevelOK
<1>5. e \in onLevel /\ holder[e] = None /\ e # None
  BY <1>1, <1>3, <1>4, NoneAssumption DEF NextView, Shows
<1>6. Quietly /\ UNCHANGED <<onLevel, holder, removed, refused>>
  BY DEF OnDestroy
<1>7. ASSUME NEW c \in onLevel, holder[c] = e PROVE c \in dying
  <2> SUFFICES ASSUME c \in DOMAIN v PROVE FALSE
    BY <1>4
  <2>1. c \notin refused
    BY <1>4, <1>5, <1>7
  <2> QED
    BY <2>1, <1>1, <1>3, <1>7 DEF NextView, Shows
<1>8. dying' = dying \cup {e}
  BY <1>2, <1>5, <1>7 DEF OnDestroy
<1>9. LevelOK'
  BY <1>5, <1>6, <1>7, <1>8 DEF IInv, LInv, LevelOK
<1>10. Pops(<<>>)
  BY <1>6, QuietlyPops
<1>11. WellFormed(x) /\ Path(Tail(wire), x, ServerView)
  BY <1>1 DEF NextView
<1>12. DOMAIN x = onLevel' \ dying' /\ DOMAIN x = DOMAIN v \ {e}
  BY <1>3, <1>4, <1>6, <1>8 DEF Without
<1>13. ASSUME NEW c \in DOMAIN x
       PROVE  /\ c \notin refused => holder[c] = x[c]
              /\ c \in refused => x[c] # None /\ Refused(c)'
  <2>1. c \in DOMAIN v /\ c # e /\ x[c] = v[c]
    BY <1>3, <1>12 DEF Without
  <2> QED
    BY <2>1, <1>1, <1>2, <1>10, OthersKept
<1>14. \A c \in DOMAIN x \ refused' : holder'[c] = x[c]
  BY <1>6, <1>13
<1>15. \A c \in refused' : c \in DOMAIN x /\ x[c] # None /\ Refused(c)'
  BY <1>4, <1>6, <1>12, <1>13
<1>16. \A c \in onLevel' \ onLevel : c = Head(wire).id
  BY <1>6
<1> QED
  BY <1>6, <1>9, <1>10, <1>11, <1>12, <1>14, <1>15, <1>16, PoppedLInv

LEMMA EventLInv == IInv /\ ProcessGameEvent => LInv'
<1> SUFFICES ASSUME IInv, ProcessGameEvent PROVE LInv'
  OBVIOUS
<1>1. phase = "drain" /\ wire # <<>> /\ UNCHANGED frame
  BY DEF ProcessGameEvent
<1>2. CASE Head(wire).type = "spawn" /\ OnSpawn(Head(wire).id, Head(wire).owner)
  BY <1>1, <1>2, OnSpawnLInv
<1>3. CASE Head(wire).type = "take" /\ OnTake(Head(wire).owner, Head(wire).id)
  BY <1>1, <1>3, OnTakeLInv
<1>4. CASE Head(wire).type = "reject" /\ OnReject(Head(wire).owner, Head(wire).id)
  BY <1>1, <1>4, OnRejectLInv
<1>5. CASE Head(wire).type = "destroy" /\ OnDestroy(Head(wire).id)
  BY <1>1, <1>5, OnDestroyLInv
<1> QED
  BY <1>2, <1>3, <1>4, <1>5 DEF ProcessGameEvent

(***************************************************************************)
(* The parts of the frame, and the invariant.                              *)
(***************************************************************************)
LEMMA SameLInv ==
    ASSUME IInv, UNCHANGED <<registries, wire, client, visited, requests>>,
           phase' \in {phase, "drain"}
    PROVE  LInv'
<1>1. /\ LevelOK' /\ FrameOK' /\ WireOK' /\ SpawnsNew' /\ OfflineOK'
  BY DEF IInv, LInv, LevelOK, FrameOK, WireOK, SpawnsNew, OfflineOK, Top, registries, client
<1>2. Tracks'
  <2>1. PICK v : Shows(v) /\ Path(wire, v, ServerView)
    BY DEF IInv, LInv, Tracks
  <2>2. Shows(v)' /\ wire' = wire /\ ServerView' = ServerView
    BY <2>1 DEF Shows, Refused, ServerView, registries, client
  <2> QED
    BY <2>1, <2>2 DEF Tracks
<1> QED
  BY <1>1, <1>2 DEF LInv

\* With nothing on the wire the level shows what the server has.
LEMMA DrainedView ==
    ASSUME IInv, wire = <<>>
    PROVE  onLevel \ dying = entities /\ \A e \in entities : holder[e] = parent[e]
<1>1. PICK v : Shows(v) /\ Path(wire, v, ServerView)
  BY DEF IInv, LInv, Tracks
<1>2. v = ServerView
  BY <1>1, PathEmpty
<1>3. \A i : ~Refused(i)
  BY DEF Refused
<1> QED
  BY <1>1, <1>2, <1>3 DEF Shows, ServerView, IInv, LInv, LevelOK

LEMMA EndDrainLInv == IInv /\ EndDrain => LInv'
<1> SUFFICES ASSUME IInv, EndDrain PROVE LInv'
  OBVIOUS
<1>1. /\ wire = <<>> /\ phase' = "update" /\ UNCHANGED <<registries, wire, client, visited, requests>>
  BY DEF EndDrain
<1>2. /\ LevelOK' /\ FrameOK' /\ WireOK' /\ SpawnsNew'
  BY <1>1 DEF IInv, LInv, LevelOK, FrameOK, WireOK, SpawnsNew, registries, client
<1>3. OfflineOK'
  BY <1>1, DrainedView DEF OfflineOK, registries, client
<1>4. Tracks'
  <2>1. PICK v : Shows(v) /\ Path(wire, v, ServerView)
    BY DEF IInv, LInv, Tracks
  <2>2. Shows(v)' /\ wire' = wire /\ ServerView' = ServerView
    BY <1>1, <2>1 DEF Shows, Refused, ServerView, registries, client
  <2> QED
    BY <2>1, <2>2 DEF Tracks
<1> QED
  BY <1>2, <1>3, <1>4 DEF LInv

LEMMA DestroyMarkedLInv == IInv /\ DestroyMarked => LInv'
<1> SUFFICES ASSUME IInv, DestroyMarked PROVE LInv'
  OBVIOUS
<1>1. /\ onLevel' = onLevel \ dying /\ dying' = {} /\ removed' = removed \ dying
      /\ UNCHANGED <<registries, wire, refused>>
      /\ phase = "update" /\ phase' = "think" /\ visited' = {} /\ requests' = 0
      /\ holder' = [e \in Ids |-> IF e \in dying THEN None ELSE holder[e]]
  BY DEF DestroyMarked
<1>2. LevelOK'
  BY <1>1 DEF IInv, LInv, LevelOK
<1>3. FrameOK' /\ WireOK' /\ SpawnsNew'
  BY <1>1, RequestsAssumption DEF IInv, LInv, FrameOK, WireOK, SpawnsNew, registries
<1>4. OfflineOK'
  BY <1>1 DEF IInv, LInv, OfflineOK, registries
<1>5. Tracks'
  <2>1. PICK v : Shows(v) /\ Path(wire, v, ServerView)
    BY DEF IInv, LInv, Tracks
  <2>2. Shows(v)' /\ wire' = wire /\ ServerView' = ServerView
    <3>1. DOMAIN v \subseteq Ids
      BY <2>1 DEF Shows, WellFormed
    <3> QED
      BY <1>1, <2>1, <3>1 DEF Shows, Refused, ServerView, registries
  <2> QED
    BY <2>1, <2>2 DEF Tracks
<1> QED
  BY <1>2, <1>3, <1>4, <1>5 DEF LInv

LEMMA InitLInv == Init => LInv
<1> SUFFICES ASSUME Init PROVE LInv
  OBVIOUS
<1>1. SInv
  BY InitSInv
<1>2. \A x \in entities : parent[x] \in entities \cup {None} /\ x \in Ids
  BY <1>1 DEF Init, SInv, ServerTypeOK, Consistent, ParentsAgree
<1>3. wire = <<>> /\ wire \in Seq(Events) /\ DOMAIN wire = {}
  BY EmptySeq DEF Init
<1>4. LevelOK
  BY <1>2 DEF Init, LevelOK
<1>5. FrameOK
  BY RequestsAssumption DEF Init, FrameOK
<1>6. WireOK /\ SpawnsNew
  BY <1>3 DEF Init, WireOK, SpawnsNew
<1>7. OfflineOK
  BY <1>3 DEF Init, OfflineOK
<1>8. Tracks
  <2>1. WellFormed(ServerView)
    BY <1>1, ServerViewWellFormed
  <2>2. onLevel \ dying = entities /\ \A x \in entities : holder[x] = parent[x]
    BY <1>2 DEF Init
  <2>3. refused = {}
    BY DEF Init
  <2>4. Shows(ServerView)
    BY <2>1, <2>2, <2>3 DEF Shows, ServerView
  <2> QED
    BY <2>4, <1>3, PathNone DEF Tracks
<1> QED
  BY <1>4, <1>5, <1>6, <1>7, <1>8 DEF LInv

LEMMA AlwaysIInv == Spec => []IInv
<1>1. Init => IInv
  BY InitSInv, InitLInv DEF IInv
<1>2. IInv /\ [Next]_vars => IInv'
  <2> SUFFICES ASSUME IInv, [Next]_vars PROVE IInv'
    OBVIOUS
  <2>1. SInv'
    BY NextIsServerStep, StepSInv DEF IInv
  <2>2. (\E e \in Ids : Switch(e)) => LInv'
    BY SwitchLInv
  <2>3. BeginDrain \/ UNCHANGED vars => LInv'
    BY SameLInv DEF BeginDrain, vars, frame
  <2>4. LInv'
    BY <2>2, <2>3, RequestLInv, EventLInv, EndDrainLInv, DestroyMarkedLInv DEF Next, Frame
  <2> QED
    BY <2>1, <2>4 DEF IInv
<1> QED
  BY <1>1, <1>2, PTL DEF Spec

(***************************************************************************)
(* The theorems.                                                           *)
(***************************************************************************)
(* The variables have their types: what is marked or held is on the level, *)
(* and the wire holds events about entities.                               *)
THEOREM LevelTypesHold == Spec => []TypeOK
<1>1. IInv => TypeOK
  <2> SUFFICES ASSUME IInv PROVE TypeOK
    OBVIOUS
  <2>1. \A n \in DOMAIN wire : wire[n] \in Events
    <3>1. wire \in Seq(Events)
      BY DEF IInv, LInv, WireOK
    <3> QED
      BY <3>1, ElementOfSeq, LenProperties
  <2> QED
    BY <2>1 DEF TypeOK, Events, IInv, SInv, LInv, LevelOK, FrameOK
<1> QED
  BY AlwaysIInv, <1>1, PTL

(* Once its events are drained, the level has an object for exactly the    *)
(* entities of the server, held by the owners the server names: however    *)
(* the requests, switches and refusals of the frames before fell.          *)
THEOREM LevelFollowsServer == Spec => []FollowsServer
<1>1. IInv => FollowsServer
  BY DrainedView DEF FollowsServer
<1> QED
  BY AlwaysIInv, <1>1, PTL

(* Every event finds the level as its handler expects, except that an item *)
(* its taker has refused is rejected by somebody who never held it; nobody *)
(* else holds it then.  So in any order of requests and switches, none of  *)
(* the other assertions of the handlers fails, and a reject that is not the*)
(* consequence of a refusal finds the item with its owner.                 *)
THEOREM EventsFit == Spec => []NeverOffTrack
<1>1. IInv => NeverOffTrack
  <2> SUFFICES ASSUME IInv, wire # <<>>
               PROVE  LET m == Head(wire) IN
          /\ m.type = "spawn"   => m.id \notin onLevel
          /\ m.type # "spawn"   => m.id \in onLevel
          /\ m.owner # None     => m.owner \in onLevel \ dying
          /\ m.type \in {"take", "destroy"} => holder[m.id] = None
          /\ m.type = "reject"  => holder[m.id] = IF m.id \in refused THEN None ELSE m.owner
    BY DEF NeverOffTrack
  <2>1. PICK v, x : NextView(v, x)
    BY NextViewExists
  <2>2. PICK m \in Events : m = Head(wire) /\ m = wire[1] /\ 1 \in DOMAIN wire
    BY HeadFacts
  <2>3. /\ WellFormed(v) /\ DOMAIN v = onLevel \ dying /\ Leads(v, m, x)
        /\ \A e \in DOMAIN v \ refused : holder[e] = v[e]
        /\ \A e \in refused : holder[e] = None
    BY <2>1, <2>2 DEF NextView, Shows, IInv, LInv, LevelOK
  <2>4. m.type = "spawn" => m.id \notin onLevel
    BY <2>2 DEF IInv, LInv, SpawnsNew
  <2>5. m.type # "spawn" => m.id \in onLevel
    BY <2>3 DEF Leads
  <2>6. m.owner # None => m.owner \in onLevel \ dying
    BY <2>3 DEF Leads, WellFormed
  <2>7. m.type \in {"take", "destroy"} => holder[m.id] = None
    BY <2>3 DEF Leads
  <2>8. m.type = "reject" => holder[m.id] = IF m.id \in refused THEN None ELSE m.owner
    BY <2>3 DEF Leads
  <2> QED
    BY <2>2, <2>4, <2>5, <2>6, <2>7, <2>8
<1> QED
  BY AlwaysIInv, <1>1, PTL

(* When a pass of the simulation comes to an entity that is offline, the   *)
(* level has no object left of it, nor of anything it carries.             *)
THEOREM OfflineLeavesLevel == Spec => []OfflineIsOffLevel
<1>1. IInv => OfflineIsOffLevel
  <2> SUFFICES ASSUME IInv, phase = "think", NEW e \in levelReg \ (online \cup visited)
               PROVE  Whole(e) \cap onLevel = {}
    BY DEF OfflineIsOffLevel
  <2>1. e \in taken \ entities /\ parent[e] = None /\ e \notin visited
    BY DEF IInv, SInv, Consistent, RegistriesAgree
  <2> QED
    BY <2>1, UnvisitedIsGone DEF Gone
<1> QED
  BY AlwaysIInv, <1>1, PTL
=============================================================================
