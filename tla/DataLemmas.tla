------------------------------- MODULE DataLemmas -------------------------------
(***************************************************************************)
(* Facts about numbers, finite sets and sequences that the proofs of       *)
(* several components cite.                                                *)
(***************************************************************************)
EXTENDS Integers, FiniteSets, SequencesExt, OrderedPicks, FiniteSetTheorems, WellFoundedInduction, TLAPS

-------------------------------------------------------------------------------
(***************************************************************************)
(* Numbers                                                                 *)
(***************************************************************************)
\* Induction, said of a set: the intervals 1..n for the numbers that are not in
\* it would have a least one.
LEMMA NaturalsAreIn ==
  ASSUME NEW S, 0 \in S, \A n \in Nat : n \in S => n + 1 \in S
  PROVE  Nat \subseteq S
<1> DEFINE T == {1..n : n \in Nat \ S}
<1>1. SUFFICES ASSUME Nat \ S # {} PROVE FALSE
  OBVIOUS
<1>2. \A n \in Nat : 1..n \in FiniteSubsetsOf(Nat)
  <2>1. \A n \in Nat : IsFiniteSet(1..n) /\ 1..n \in SUBSET Nat
    BY FS_Interval
  <2> QED
    BY <2>1 DEF FiniteSubsetsOf
<1>3. T \subseteq FiniteSubsetsOf(Nat) /\ T # {}
  BY <1>1, <1>2
<1>4. PICK X \in T : \A Y \in T : ~ (<<Y, X>> \in StrictSubsetOrdering(Nat))
  BY <1>3, FS_StrictSubsetOrderingWellFounded, WFMin
<1>5. PICK n \in Nat \ S : X = 1..n
  OBVIOUS
<1>6. n # 0 /\ n - 1 \in Nat \ S
  OBVIOUS
<1>7. 1..(n-1) \in T
  BY <1>6
<1>8. 1..(n-1) \subseteq 1..n /\ n \in 1..n /\ n \notin 1..(n-1)
  BY <1>6
<1>9. 1..n \in SUBSET Nat /\ 1..(n-1) \in SUBSET Nat
  BY <1>6
<1>10. <<1..(n-1), 1..n>> \in StrictSubsetOrdering(Nat)
  BY <1>8, <1>9 DEF StrictSubsetOrdering
<1> QED
  BY <1>4, <1>5, <1>7, <1>10

\* A set of naturals with an upper bound has a greatest element.
LEMMA GreatestExists ==
  ASSUME NEW S \in SUBSET Nat, S # {}, NEW b \in Nat, \A s \in S : s <= b
  PROVE  \E m \in S : \A s \in S : s <= m
<1> DEFINE P == {n \in Nat : \A T \in SUBSET S :
                     T # {} /\ (\A s \in T : s <= n) => \E m \in T : \A s \in T : s <= m}
<1>1. 0 \in P
  <2> SUFFICES ASSUME NEW T \in SUBSET S, T # {}, \A s \in T : s <= 0
               PROVE  \E m \in T : \A s \in T : s <= m
    OBVIOUS
  <2>1. PICK m \in T : TRUE
    OBVIOUS
  <2>2. \A s \in T : s = 0
    OBVIOUS
  <2> QED
    BY <2>1, <2>2
<1>2. ASSUME NEW n \in Nat, n \in P PROVE n + 1 \in P
  <2> SUFFICES ASSUME NEW T \in SUBSET S, T # {}, \A s \in T : s <= n + 1
               PROVE  \E m \in T : \A s \in T : s <= m
    OBVIOUS
  <2>1. CASE n + 1 \in T
    BY <2>1
  <2>2. CASE n + 1 \notin T
    <3>1. \A s \in T : s <= n
      BY <2>2
    <3> QED
      BY <3>1, <1>2
  <2> QED
    BY <2>1, <2>2
<1>3. Nat \subseteq P
  <2> HIDE DEF P
  <2> QED
    BY <1>1, <1>2, NaturalsAreIn
<1> QED
  BY <1>3

\* Powers of two are numbers and grow: they count the subsets of 1..n.
LEMMA PowersGrow ==
  ASSUME NEW m \in Nat, NEW n \in Nat, m <= n
  PROVE  2^m \in Nat /\ 2^n \in Nat /\ 2^m <= 2^n
<1>1. /\ IsFiniteSet(1..m) /\ Cardinality(1..m) = m
      /\ IsFiniteSet(1..n) /\ Cardinality(1..n) = n
  BY FS_Interval
<1>2. /\ IsFiniteSet(SUBSET (1..m)) /\ Cardinality(SUBSET (1..m)) = 2^m
      /\ IsFiniteSet(SUBSET (1..n)) /\ Cardinality(SUBSET (1..n)) = 2^n
  BY <1>1, FS_SUBSET
<1>3. SUBSET (1..m) \in SUBSET SUBSET (1..n)
  OBVIOUS
<1> QED
  BY <1>2, <1>3, FS_Subset, FS_CardinalityType

\* A power of two is at least one: even the empty set has a subset.
LEMMA PowersPositive ==
  ASSUME NEW n \in Nat
  PROVE  2^n >= 1
<1>1. IsFiniteSet(1..n) /\ Cardinality(1..n) = n
  BY FS_Interval
<1>2. IsFiniteSet(SUBSET (1..n)) /\ Cardinality(SUBSET (1..n)) = 2^n
  BY <1>1, FS_SUBSET
<1>3. 2^n # 0 /\ 2^n \in Nat
  BY <1>2, FS_EmptySet, FS_CardinalityType
<1> QED
  BY <1>3

-------------------------------------------------------------------------------
(***************************************************************************)
(* Sequences                                                               *)
(***************************************************************************)
\* g[i] is what InOrder keeps of the first i elements of s, for i up to n.
KeptBy(s, S, n, g) ==
    /\ g[0] = <<>>
    /\ \A i \in 1..n : g[i] = IF s[i] \in S THEN Append(g[i - 1], s[i]) ELSE g[i - 1]

\* The function by which InOrder is defined exists: it is built up to n, for
\* every n up to the length of the sequence.
LEMMA InOrderUnfolds ==
  ASSUME NEW T, NEW s \in Seq(T), NEW S
  PROVE  \E g \in [0..Len(s) -> Seq(T)] :
            KeptBy(s, S, Len(s), g) /\ InOrder(s, S) = g[Len(s)]
<1> DEFINE Built(n) == \E g \in [0..n -> Seq(T)] : KeptBy(s, S, n, g)
           P == {n \in Nat : n <= Len(s) => Built(n)}
<1>1. Len(s) \in Nat /\ \A i \in 1..Len(s) : s[i] \in T
  OBVIOUS
<1>2. 0 \in P
  <2>1. [i \in 0..0 |-> <<>>] \in [0..0 -> Seq(T)] /\ KeptBy(s, S, 0, [i \in 0..0 |-> <<>>])
    BY DEF KeptBy
  <2> QED
    BY <2>1
<1> HIDE DEF Built
<1>3. ASSUME NEW n \in Nat, n \in P PROVE n + 1 \in P
  <2> SUFFICES ASSUME n + 1 <= Len(s) PROVE Built(n + 1)
    OBVIOUS
  <2>1. PICK g \in [0..n -> Seq(T)] : KeptBy(s, S, n, g)
    <3>1. Built(n)
      BY <1>1, <1>3
    <3> QED
      BY <3>1 DEF Built
  <2> DEFINE last == IF s[n + 1] \in S THEN Append(g[n], s[n + 1]) ELSE g[n]
             h == [i \in 0..(n+1) |-> IF i = n + 1 THEN last ELSE g[i]]
  <2>2. last \in Seq(T)
    BY <1>1, <2>1
  <2>3. /\ h[0] = g[0] /\ h[n + 1] = last /\ \A i \in 0..n : h[i] = g[i]
        /\ h \in [0..(n+1) -> Seq(T)]
    BY <2>2
  <2>4. KeptBy(s, S, n + 1, h)
    <3> HIDE DEF h
    <3>1. h[0] = <<>>
      BY <2>1, <2>3 DEF KeptBy
    <3>2. ASSUME NEW i \in 1..(n+1)
          PROVE  h[i] = IF s[i] \in S THEN Append(h[i - 1], s[i]) ELSE h[i - 1]
      <4>1. CASE i = n + 1
        <5>1. h[i] = last /\ h[i - 1] = g[n] /\ n \in 0..n
          BY <2>3, <4>1
        <5> QED
          BY <4>1, <5>1
      <4>2. CASE i \in 1..n
        <5>1. g[i] = IF s[i] \in S THEN Append(g[i - 1], s[i]) ELSE g[i - 1]
          BY <2>1, <4>2 DEF KeptBy
        <5>2. h[i] = g[i] /\ h[i - 1] = g[i - 1]
          BY <2>3, <4>2
        <5> QED
          BY <5>1, <5>2
      <4> QED
        BY <4>1, <4>2
    <3> QED
      BY <3>1, <3>2 DEF KeptBy
  <2> QED
    BY <2>3, <2>4 DEF Built
<1>4. Nat \subseteq P
  <2> HIDE DEF P
  <2> QED
    BY <1>2, <1>3, NaturalsAreIn
<1>5. PICK g \in [0..Len(s) -> Seq(T)] : KeptBy(s, S, Len(s), g)
  <2>1. Built(Len(s))
    BY <1>1, <1>4
  <2> QED
    BY <2>1 DEF Built
<1> DEFINE Body(f) == [i \in 0..Len(s) |->
                         IF i = 0 THEN <<>>
                         ELSE IF s[i] \in S THEN Append(f[i - 1], s[i]) ELSE f[i - 1]]
           kept == CHOOSE f : f = Body(f)
<1>6. g = Body(g)
  <2>1. \A i \in 0..Len(s) : g[i] = Body(g)[i]
    <3> SUFFICES ASSUME NEW i \in 0..Len(s) PROVE g[i] = Body(g)[i]
      OBVIOUS
    <3>1. CASE i = 0
      BY <1>5, <3>1 DEF KeptBy
    <3>2. CASE i # 0
      <4>1. i \in 1..Len(s)
        BY <1>1, <3>2
      <4> QED
        BY <1>5, <3>2, <4>1 DEF KeptBy
    <3> QED
      BY <3>1, <3>2
  <2> QED
    BY <2>1
<1>7. kept = Body(kept)
  <2> HIDE DEF Body
  <2> QED
    BY <1>6
<1>8. InOrder(s, S) = kept[Len(s)]
  BY DEF InOrder
<1> DEFINE Q == {n \in Nat : n <= Len(s) => kept[n] = g[n]}
<1> HIDE DEF kept
<1>9. Nat \subseteq Q
  <2>1. 0 \in Q
    BY <1>1, <1>5, <1>7 DEF KeptBy
  <2>2. ASSUME NEW n \in Nat, n \in Q PROVE n + 1 \in Q
    <3> SUFFICES ASSUME n + 1 <= Len(s) PROVE kept[n + 1] = g[n + 1]
      OBVIOUS
    <3>1. kept[n] = g[n] /\ n + 1 \in 1..Len(s) /\ (n + 1) - 1 = n
      BY <1>1, <2>2
    <3>2. kept[n + 1] = IF s[n + 1] \in S THEN Append(kept[n], s[n + 1]) ELSE kept[n]
      <4>1. n + 1 \in 0..Len(s) /\ n + 1 # 0
        BY <3>1
      <4>2. Body(kept)[n + 1] = IF s[n + 1] \in S THEN Append(kept[n], s[n + 1]) ELSE kept[n]
        BY <3>1, <4>1
      <4> HIDE DEF Body
      <4> QED
        BY <1>7, <4>2
    <3> QED
      BY <1>5, <3>1, <3>2 DEF KeptBy
  <2> HIDE DEF Q
  <2> QED
    BY <2>1, <2>2, NaturalsAreIn
<1> QED
  BY <1>1, <1>5, <1>8, <1>9 DEF KeptBy

\* m maps the positions of r to those positions of s, up to n, whose element is
\* in S, in order.
PickedFrom(s, S, n, r, m) ==
    /\ m \in [1..Len(r) -> 1..n]
    /\ \A i \in 1..Len(r) : r[i] = s[m[i]] /\ r[i] \in S
    /\ \A i, j \in 1..Len(r) : i < j => m[i] < m[j]
    /\ \A k \in 1..n : s[k] \in S => \E i \in 1..Len(r) : m[i] = k

\* InOrder keeps the elements that are in S, each once and in order.
LEMMA InOrderKeeps ==
  ASSUME NEW T, NEW s \in Seq(T), NEW S
  PROVE  /\ InOrder(s, S) \in Seq(T)
         /\ \E m : PickedFrom(s, S, Len(s), InOrder(s, S), m)
<1>1. Len(s) \in Nat /\ \A i \in 1..Len(s) : s[i] \in T
  OBVIOUS
<1>2. PICK g \in [0..Len(s) -> Seq(T)] :
            KeptBy(s, S, Len(s), g) /\ InOrder(s, S) = g[Len(s)]
  BY InOrderUnfolds
<1> DEFINE Good(n) == \E m : PickedFrom(s, S, n, g[n], m)
           P == {n \in Nat : n <= Len(s) => Good(n)}
<1>3. Good(0)
  <2>1. PickedFrom(s, S, 0, g[0], [i \in 1..0 |-> i])
    BY <1>2 DEF PickedFrom, KeptBy
  <2> QED
    BY <2>1
<1>4. ASSUME NEW n \in Nat, n + 1 <= Len(s), Good(n) PROVE Good(n + 1)
  <2>1. PICK m : PickedFrom(s, S, n, g[n], m)
    BY <1>4
  <2> DEFINE r == g[n]
             q == g[n + 1]
  <2>2. r \in Seq(T) /\ q \in Seq(T) /\ n + 1 \in 1..Len(s)
    BY <1>1, <1>2, <1>4
  <2>3. q = IF s[n + 1] \in S THEN Append(r, s[n + 1]) ELSE r
    <3>1. (n + 1) - 1 = n
      OBVIOUS
    <3> QED
      BY <1>2, <2>2, <3>1 DEF KeptBy
  <2>4. CASE s[n + 1] \notin S
    <3>1. PickedFrom(s, S, n + 1, q, m)
      BY <2>1, <2>2, <2>3, <2>4 DEF PickedFrom
    <3> QED
      BY <3>1
  <2>5. CASE s[n + 1] \in S
    <3> DEFINE l == Len(r)
               o == [i \in 1..(l + 1) |-> IF i = l + 1 THEN n + 1 ELSE m[i]]
    <3>1. /\ l \in Nat /\ Len(q) = l + 1 /\ q[l + 1] = s[n + 1]
          /\ \A i \in 1..l : q[i] = r[i]
      BY <1>1, <2>2, <2>3, <2>5
    <3>2. /\ m \in [1..l -> 1..n] /\ \A i \in 1..l : r[i] = s[m[i]] /\ r[i] \in S
          /\ \A i, j \in 1..l : i < j => m[i] < m[j]
          /\ \A k \in 1..n : s[k] \in S => \E i \in 1..l : m[i] = k
      BY <2>1 DEF PickedFrom
    <3> HIDE DEF r, q, l
    <3>3. o[l + 1] = n + 1 /\ \A i \in 1..l : o[i] = m[i]
      BY <3>1
    <3>4. o \in [1..(l+1) -> 1..(n+1)]
      BY <3>1, <3>2
    <3> HIDE DEF o
    <3>5. \A i \in 1..(l+1) : i = l + 1 \/ i \in 1..l
      BY <3>1
    <3>6. \A i \in 1..(l+1) : q[i] = s[o[i]] /\ q[i] \in S
      BY <2>5, <3>1, <3>2, <3>3, <3>5
    <3>7. \A i, j \in 1..(l+1) : i < j => o[i] < o[j]
      <4> SUFFICES ASSUME NEW i \in 1..(l+1), NEW j \in 1..(l+1), i < j PROVE o[i] < o[j]
        OBVIOUS
      <4>1. i \in 1..l /\ m[i] \in 1..n
        BY <3>1, <3>2
      <4>2. CASE j = l + 1
        BY <3>3, <4>1, <4>2
      <4>3. CASE j \in 1..l
        BY <3>2, <3>3, <4>1, <4>3
      <4> QED
        BY <3>5, <4>2, <4>3
    <3>8. \A k \in 1..(n+1) : s[k] \in S => \E i \in 1..(l+1) : o[i] = k
      <4> SUFFICES ASSUME NEW k \in 1..(n+1), s[k] \in S PROVE \E i \in 1..(l+1) : o[i] = k
        OBVIOUS
      <4>1. CASE k = n + 1
        BY <3>1, <3>3, <4>1
      <4>2. CASE k \in 1..n
        <5>1. PICK i \in 1..l : m[i] = k
          BY <3>2, <4>2
        <5>2. i \in 1..(l+1) /\ o[i] = k
          BY <3>1, <3>3, <5>1
        <5> QED
          BY <5>2
      <4> QED
        BY <4>1, <4>2
    <3>9. PickedFrom(s, S, n + 1, q, o)
      BY <3>1, <3>4, <3>6, <3>7, <3>8 DEF PickedFrom
    <3> QED
      BY <3>9 DEF q
  <2> QED
    BY <2>4, <2>5
<1>5. Nat \subseteq P
  <2> HIDE DEF Good
  <2>1. 0 \in P
    BY <1>3
  <2>2. ASSUME NEW n \in Nat, n \in P PROVE n + 1 \in P
    BY <1>1, <1>4, <2>2
  <2> HIDE DEF P
  <2> QED
    BY <2>1, <2>2, NaturalsAreIn
<1>6. Good(Len(s))
  <2> HIDE DEF Good
  <2> QED
    BY <1>1, <1>5
<1> QED
  BY <1>1, <1>2, <1>6

\* What most proofs need of it.
LEMMA InOrderElements ==
  ASSUME NEW T, NEW s \in Seq(T), NEW S
  PROVE  /\ InOrder(s, S) \in Seq(T)
         /\ \A i \in 1..Len(InOrder(s, S)) :
               InOrder(s, S)[i] \in S /\ \E k \in 1..Len(s) : s[k] = InOrder(s, S)[i]
         /\ \A k \in 1..Len(s) : s[k] \in S => \E i \in 1..Len(InOrder(s, S)) : InOrder(s, S)[i] = s[k]
<1>1. InOrder(s, S) \in Seq(T)
  BY InOrderKeeps
<1>2. PICK m : PickedFrom(s, S, Len(s), InOrder(s, S), m)
  BY InOrderKeeps
<1> QED
  BY <1>1, <1>2 DEF PickedFrom

\* The elements of sequences that grow at the end and lose their head.
LEMMA ElementsMove ==
  ASSUME NEW T
  PROVE  /\ ToSet(<<>>) = {}
         /\ \A s \in Seq(T), x \in T : /\ Append(s, x) \in Seq(T)
                                      /\ ToSet(Append(s, x)) = ToSet(s) \cup {x}
                                      /\ ToSet(s) \subseteq T
         /\ \A s \in Seq(T) : s # <<>> => /\ Head(s) \in T /\ Tail(s) \in Seq(T)
                                        /\ ToSet(s) = {Head(s)} \cup ToSet(Tail(s))
<1>1. ToSet(<<>>) = {}
  BY DEF ToSet
<1>2. ASSUME NEW s \in Seq(T), NEW x \in T
      PROVE  /\ Append(s, x) \in Seq(T)
             /\ ToSet(Append(s, x)) = ToSet(s) \cup {x}
             /\ ToSet(s) \subseteq T
  <2>1. /\ Append(s, x) \in Seq(T) /\ Len(Append(s, x)) = Len(s) + 1
        /\ Append(s, x)[Len(s) + 1] = x /\ \A i \in 1..Len(s) : Append(s, x)[i] = s[i]
    OBVIOUS
  <2>2. DOMAIN Append(s, x) = 1..(Len(s) + 1) /\ DOMAIN s = 1..Len(s) /\ Len(s) \in Nat
    OBVIOUS
  <2>3. \A i \in 1..(Len(s) + 1) : i \in 1..Len(s) \/ i = Len(s) + 1
    BY <2>2
  <2>4. 1..Len(s) \subseteq 1..(Len(s) + 1) /\ Len(s) + 1 \in 1..(Len(s) + 1)
    BY <2>2
  <2> QED
    BY <2>1, <2>2, <2>3, <2>4 DEF ToSet
<1>3. ASSUME NEW s \in Seq(T), s # <<>>
      PROVE  /\ Head(s) \in T /\ Tail(s) \in Seq(T)
             /\ ToSet(s) = {Head(s)} \cup ToSet(Tail(s))
  <2>1. /\ Tail(s) \in Seq(T) /\ Len(Tail(s)) = Len(s) - 1 /\ Head(s) = s[1] /\ Head(s) \in T
        /\ \A i \in 1..Len(Tail(s)) : Tail(s)[i] = s[i + 1]
    BY <1>3
  <2>2. DOMAIN Tail(s) = 1..Len(Tail(s)) /\ DOMAIN s = 1..Len(s) /\ Len(s) \in Nat /\ Len(s) # 0
    BY <1>3
  <2>3. \A i \in 1..Len(s) : i = 1 \/ (i - 1 \in 1..Len(Tail(s)) /\ (i - 1) + 1 = i)
    BY <2>1, <2>2
  <2>4. 1 \in 1..Len(s) /\ \A i \in 1..Len(Tail(s)) : i + 1 \in 1..Len(s)
    BY <2>1, <2>2
  <2>5. \A i \in 1..Len(s) : s[i] = Head(s) \/ (i - 1 \in 1..Len(Tail(s)) /\ Tail(s)[i - 1] = s[i])
    BY <2>1, <2>3
  <2>6. ToSet(s) \subseteq {Head(s)} \cup ToSet(Tail(s))
    BY <2>2, <2>5 DEF ToSet
  <2>7. Head(s) \in ToSet(s) /\ ToSet(Tail(s)) \subseteq ToSet(s)
    BY <2>1, <2>2, <2>4 DEF ToSet
  <2> QED
    BY <2>1, <2>6, <2>7
<1> QED
  BY <1>1, <1>2, <1>3

\* A set that a sequence lists is finite.
LEMMA ListedIsFinite ==
  ASSUME NEW T, NEW s \in Seq(T)
  PROVE  IsFiniteSet(ToSet(s))
<1>1. Len(s) \in Nat /\ DOMAIN s = 1..Len(s) /\ s \in [1..Len(s) -> T]
  OBVIOUS
<1>2. IsFiniteSet(1..Len(s))
  <2>1. Len(s) \in Int /\ 1 \in Int
    BY <1>1
  <2> HIDE <1>1
  <2> QED
    BY <2>1, FS_Interval
<1>3. s \in Surjection(1..Len(s), ToSet(s))
  <2> DEFINE n == Len(s)
  <2>1. s \in [1..n -> T] /\ DOMAIN s = 1..n
    BY <1>1
  <2> HIDE DEF n
  <2>2. ToSet(s) = {s[i] : i \in 1..n}
    BY <2>1 DEF ToSet
  <2>3. s \in [1..n -> ToSet(s)] /\ \A x \in ToSet(s) : \E i \in 1..n : s[i] = x
    BY <2>1, <2>2
  <2> QED
    BY <2>3 DEF Surjection, n
<1> QED
  BY <1>2, <1>3, FS_Surjection

\* SetToSeq lists a finite set, each element once.
LEMMA SetIsListed ==
  ASSUME NEW S, IsFiniteSet(S)
  PROVE  /\ SetToSeq(S) \in Seq(S) /\ Len(SetToSeq(S)) = Cardinality(S) /\ Cardinality(S) \in Nat
         /\ \A i, j \in 1..Cardinality(S) : SetToSeq(S)[i] = SetToSeq(S)[j] => i = j
<1> DEFINE n == Cardinality(S)
<1>1. n \in Nat /\ ExistsBijection(1..n, S)
  BY FS_CardinalityType
<1>2. PICK f \in [1..n -> S] : \A i, j \in 1..n : f[i] = f[j] => i = j
  BY <1>1 DEF ExistsBijection, Bijection, Injection, IsInjective
<1>3. \E g \in [1..n -> S] : IsInjective(g)
  BY <1>2 DEF IsInjective
<1>4. SetToSeq(S) \in [1..n -> S] /\ IsInjective(SetToSeq(S))
  BY <1>3 DEF SetToSeq
<1> HIDE DEF n
<1>5. /\ SetToSeq(S) \in Seq(S) /\ Len(SetToSeq(S)) = n
      /\ \A i, j \in 1..n : SetToSeq(S)[i] = SetToSeq(S)[j] => i = j
  BY <1>1, <1>4 DEF IsInjective
<1> QED
  BY <1>1, <1>5 DEF n

===============================================================================
