---------------------------- MODULE SequenceLemmas ----------------------------
(***************************************************************************)
(* What the operators of the community modules that the models use do to a *)
(* sequence: the position SelectInSeq finds, what RemoveAt and RemoveFirst *)
(* leave, and how long a sequence without repetitions can be.              *)
(***************************************************************************)
EXTENDS SequencesExt, Integers, FiniteSetTheorems, SequenceTheorems,
        WellFoundedInduction, TLAPS

Distinct(s) == \A j, k \in DOMAIN s : s[j] = s[k] => j = k

\* A set of natural numbers that is not empty has a least element.
LEMMA LeastNatural ==
    ASSUME NEW T \in SUBSET Nat, T # {}
    PROVE  Min(T) \in T /\ \A y \in T : Min(T) <= y
<1> DEFINE Less == {ss \in Nat \X Nat : ss[1] < ss[2]}
<1>1. IsWellFoundedOn(Less, Nat)
  BY NatLessThanWellFounded DEF OpToRel
<1> HIDE DEF Less
<1>2. PICK x \in T : \A y \in T : ~ (<<y, x>> \in Less)
  BY <1>1, WFMin
<1>3. ASSUME NEW y \in T PROVE x <= y
  <2>1. y < x => <<y, x>> \in Less
    BY DEF Less
  <2> QED
    BY <1>2, <2>1
<1> QED
  BY <1>3 DEF Min

LEMMA TailShifts ==
    ASSUME NEW S, NEW s \in Seq(S), s # <<>>
    PROVE  /\ DOMAIN Tail(s) = 1..(Len(s) - 1)
           /\ \A j \in 1..(Len(s) - 1) : Tail(s)[j] = s[j + 1]
BY HeadTailProperties, LenProperties, Tail(s) \in Seq(S)

LEMMA TailEmpty ==
    ASSUME NEW S, NEW s \in Seq(S), s # <<>>
    PROVE  Tail(s) = <<>> <=> ~(Len(s) > 1)
<1>1. PICK r : r = Tail(s) /\ r \in Seq(S) /\ Len(r) = Len(s) - 1
  BY HeadTailProperties
<1>2. Len(s) \in Nat /\ Len(s) # 0
  BY EmptySeq, LenProperties
<1>3. r = <<>> <=> Len(r) = 0
  BY <1>1, EmptySeq
<1>4. Len(r) = 0 <=> ~(Len(s) > 1)
  BY <1>1, <1>2
<1> QED
  BY <1>1, <1>3, <1>4, Zenon

LEMMA ConsShifts ==
    ASSUME NEW S, NEW s \in Seq(S), NEW e \in S
    PROVE  /\ <<e>> \o s \in Seq(S)
           /\ DOMAIN (<<e>> \o s) = 1..(Len(s) + 1)
           /\ (<<e>> \o s)[1] = e
           /\ \A j \in 1..(Len(s) + 1) : j # 1 => (<<e>> \o s)[j] = s[j - 1]
<1>1. <<e>> \in Seq(S) /\ Len(<<e>>) = 1 /\ <<e>>[1] = e
  OBVIOUS
<1>2. /\ <<e>> \o s \in Seq(S)
      /\ Len(<<e>> \o s) = 1 + Len(s)
      /\ \A i \in 1..(1 + Len(s)) : (<<e>> \o s)[i] = IF i <= 1 THEN <<e>>[i] ELSE s[i - 1]
  BY <1>1, ConcatProperties
<1> QED
  BY <1>1, <1>2, LenProperties

LEMMA AppendShifts ==
    ASSUME NEW S, NEW s \in Seq(S), NEW e \in S
    PROVE  /\ Append(s, e) \in Seq(S)
           /\ DOMAIN Append(s, e) = 1..(Len(s) + 1)
           /\ Append(s, e)[Len(s) + 1] = e
           /\ \A j \in 1..Len(s) : Append(s, e)[j] = s[j]
BY AppendProperties, LenProperties

LEMMA RemoveAtProperties ==
    ASSUME NEW S, NEW s \in Seq(S), NEW n \in 1..Len(s)
    PROVE  /\ RemoveAt(s, n) \in Seq(S)
           /\ Len(RemoveAt(s, n)) = Len(s) - 1
           /\ \A k \in 1..(Len(s) - 1) :
                 RemoveAt(s, n)[k] = IF k < n THEN s[k] ELSE s[k + 1]
<1> DEFINE a == SubSeq(s, 1, n - 1)
           b == SubSeq(s, n + 1, Len(s))
<1>1. /\ a \in Seq(S) /\ Len(a) = n - 1
      /\ \A i \in 1..(n - 1) : a[i] = s[i]
  BY SubSeqProperties, 1 \in Int, n - 1 \in Int, ElementOfSeq
<1>2. /\ b \in Seq(S) /\ Len(b) = Len(s) - n
      /\ \A i \in 1..(Len(s) - n) : b[i] = s[n + i]
  BY SubSeqProperties, n + 1 \in Int, Len(s) \in Int, ElementOfSeq
<1> HIDE DEF a, b
<1>3. /\ a \o b \in Seq(S)
      /\ Len(a \o b) = Len(s) - 1
      /\ \A i \in 1..(Len(s) - 1) : (a \o b)[i] = IF i <= n - 1 THEN a[i] ELSE b[i - (n - 1)]
  BY <1>1, <1>2, ConcatProperties
<1>4. RemoveAt(s, n) = a \o b
  BY DEF RemoveAt, a, b
<1>5. ASSUME NEW k \in 1..(Len(s) - 1)
      PROVE  (a \o b)[k] = IF k < n THEN s[k] ELSE s[k + 1]
  <2>1. CASE k < n
    BY <1>1, <1>3, <2>1
  <2>2. CASE ~(k < n)
    <3>1. k - (n - 1) \in 1..(Len(s) - n) /\ n + (k - (n - 1)) = k + 1
      BY <2>2
    <3> QED
      BY <1>2, <1>3, <2>2, <3>1
  <2> QED
    BY <2>1, <2>2
<1> QED
  BY <1>3, <1>4, <1>5

\* Without repetitions RemoveFirst takes the element out and nothing else.
LEMMA RemoveFirstProperties ==
    ASSUME NEW S, NEW s \in Seq(S), Distinct(s), NEW e, NEW r, r = RemoveFirst(s, e)
    PROVE  r \in Seq(S) /\ Len(r) <= Len(s) /\ Distinct(r) /\ Range(r) = Range(s) \ {e}
<1>1. CASE ~ \E i \in 1..Len(s) : s[i] = e
  <2>1. r = s
    BY <1>1 DEF RemoveFirst
  <2>2. e \notin Range(s)
    BY <1>1 DEF Range
  <2> QED
    BY <2>1, <2>2
<1>2. CASE \E i \in 1..Len(s) : s[i] = e
  <2>1. PICK n \in 1..Len(s) : s[n] = e
    BY <1>2
  <2>2. {i \in 1..Len(s) : s[i] = e} = {n}
    BY <2>1 DEF Distinct
  <2>3. Min({n}) = n
    BY DEF Min
  <2>4. r = RemoveAt(s, n)
    BY <1>2, <2>2, <2>3 DEF RemoveFirst, SelectInSeq
  <2>5. /\ r \in Seq(S) /\ Len(r) = Len(s) - 1
        /\ \A k \in 1..(Len(s) - 1) : r[k] = IF k < n THEN s[k] ELSE s[k + 1]
    BY <2>4, RemoveAtProperties
  <2>6. \A j \in 1..Len(s) : j # n => s[j] # e
    BY <2>1 DEF Distinct
  <2>7. Distinct(r)
    <3>1. SUFFICES ASSUME NEW j \in 1..(Len(s) - 1), NEW k \in 1..(Len(s) - 1), r[j] = r[k]
                   PROVE  j = k
      BY <2>5 DEF Distinct
    <3> DEFINE At(i) == IF i < n THEN i ELSE i + 1
    <3>2. At(j) \in DOMAIN s /\ At(k) \in DOMAIN s /\ s[At(j)] = s[At(k)]
      BY <2>5, <3>1
    <3>3. At(j) = At(k)
      BY <3>2 DEF Distinct
    <3> QED
      BY <3>3
  <2>8. ASSUME NEW x, NEW k \in DOMAIN r, r[k] = x
        PROVE  x # e /\ \E j \in DOMAIN s : s[j] = x
    <3>1. CASE k < n
      BY <2>5, <2>6, <2>8, <3>1
    <3>2. CASE k >= n
      BY <2>5, <2>6, <2>8, <3>2
    <3> QED
      BY <2>5, <3>1, <3>2
  <2>9. ASSUME NEW x, x # e, NEW j \in DOMAIN s, s[j] = x
        PROVE  \E k \in DOMAIN r : r[k] = x
    <3>1. CASE j < n
      BY <2>1, <2>5, <2>9, <3>1
    <3>2. CASE j > n
      <4>1. j - 1 \in DOMAIN r /\ r[j - 1] = x
        BY <2>1, <2>5, <2>9, <3>2
      <4> QED
        BY <4>1
    <3> QED
      BY <2>1, <2>9, <3>1, <3>2
  <2>10. Range(r) = Range(s) \ {e}
    <3>1. ASSUME NEW x \in Range(r) PROVE x \in Range(s) \ {e}
      BY <2>8 DEF Range
    <3>2. ASSUME NEW x \in Range(s) \ {e} PROVE x \in Range(r)
      BY <2>9 DEF Range
    <3> QED
      BY <3>1, <3>2
  <2>11. Len(r) <= Len(s)
    BY <2>5
  <2> QED
    BY <2>5, <2>7, <2>10, <2>11, Zenon
<1> QED
  BY <1>1, <1>2

\* A sequence without repetitions is no longer than the set it draws from.
LEMMA DistinctBounded ==
    ASSUME NEW S, IsFiniteSet(S), NEW s \in Seq(S), Distinct(s)
    PROVE  Len(s) <= Cardinality(S)
<1>1. s \in Injection(1..Len(s), S)
  <2>1. s \in [1..Len(s) -> S]
    BY LenProperties
  <2> QED
    BY <2>1 DEF Distinct, Injection, IsInjective
<1>2. Cardinality(1..Len(s)) = Len(s) /\ IsFiniteSet(1..Len(s))
  BY FS_Interval, Len(s) \in Int, 1 \in Int, Len(s) >= 0
<1> QED
  BY <1>1, <1>2, FS_Injection

LEMMA AppendRange ==
    ASSUME NEW S, NEW s \in Seq(S), NEW e \in S
    PROVE  Range(Append(s, e)) = Range(s) \cup {e}
<1>1. /\ DOMAIN Append(s, e) = 1..(Len(s) + 1)
      /\ Append(s, e)[Len(s) + 1] = e
      /\ \A j \in 1..Len(s) : Append(s, e)[j] = s[j]
  BY AppendShifts
<1>2. DOMAIN s = 1..Len(s) /\ Len(s) \in Nat
  BY LenProperties
<1>3. ASSUME NEW x \in Range(Append(s, e)) PROVE x \in Range(s) \cup {e}
  <2>1. PICK j \in 1..(Len(s) + 1) : Append(s, e)[j] = x
    BY <1>1 DEF Range
  <2>2. j \in 1..Len(s) \/ j = Len(s) + 1
    BY <1>2
  <2> QED
    BY <1>1, <1>2, <2>1, <2>2 DEF Range
<1>4. ASSUME NEW x \in Range(s) \cup {e} PROVE x \in Range(Append(s, e))
  <2>1. CASE x = e
    <3>1. Len(s) + 1 \in 1..(Len(s) + 1)
      BY <1>2
    <3> QED
      BY <1>1, <2>1, <3>1 DEF Range
  <2>2. CASE x \in Range(s)
    <3>1. PICK j \in 1..Len(s) : s[j] = x
      BY <1>2, <2>2 DEF Range
    <3>2. j \in 1..(Len(s) + 1)
      BY <1>2
    <3> QED
      BY <1>1, <3>1, <3>2 DEF Range
  <2> QED
    BY <2>1, <2>2
<1> QED
  BY <1>3, <1>4

\* A set of positions that is not empty has a greatest element.
LEMMA GreatestBelow ==
    ASSUME NEW n \in Nat, NEW T \in SUBSET (1..n), T # {}
    PROVE  \E x \in T : \A y \in T : y <= x
<1> DEFINE U == {n - x : x \in T}
<1>1. U \in SUBSET Nat /\ U # {}
  <2>1. \A x \in T : n - x \in Nat
    OBVIOUS
  <2>2. U \in SUBSET Nat
    BY <2>1
  <2>3. PICK x \in T : TRUE
    OBVIOUS
  <2>4. n - x \in U
    OBVIOUS
  <2> QED
    BY <2>2, <2>4
<1> HIDE DEF U
<1>2. Min(U) \in U /\ \A y \in U : Min(U) <= y
  BY <1>1, LeastNatural
<1>3. PICK x \in T : Min(U) = n - x
  BY <1>2 DEF U
<1>4. \A y \in T : n - y \in U
  BY DEF U
<1>5. \A y \in T : n - x <= n - y /\ y \in Nat /\ x \in Nat
  BY <1>2, <1>3, <1>4
<1>6. \A y \in T : y <= x
  BY <1>5
<1> QED
  BY <1>6
=============================================================================
