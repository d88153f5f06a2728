---------------------------- MODULE ListsProofs ----------------------------
(***************************************************************************)
(* What the proofs need to know of Filter: which entries it keeps, how     *)
(* many, and that the first one stays first.                               *)
(***************************************************************************)
EXTENDS Lists, FiniteSetTheorems, TLAPS

LEMMA PositionsFinite ==
  ASSUME NEW n \in Nat, NEW I \in SUBSET (1..n)
  PROVE  /\ IsFiniteSet(I) /\ Cardinality(I) \in 0..n
         /\ \A k \in 1..n : k \notin I => Cardinality(I) < n
<1>1. IsFiniteSet(1..n) /\ Cardinality(1..n) = n
  BY FS_Interval
<1>2. IsFiniteSet(I) /\ Cardinality(I) <= n /\ (Cardinality(I) = n => I = 1..n)
  BY <1>1, FS_Subset
<1>3. Cardinality(I) \in Nat
  BY <1>2, FS_CardinalityType
<1> QED BY <1>2, <1>3

\* The ranks of the positions are the numbers from 1 on, each of one position.
LEMMA RankBijective ==
  ASSUME NEW n \in Nat, NEW I \in SUBSET (1..n)
  PROVE  /\ \A j \in I : Rank(I, j) \in 1..Cardinality(I)
         /\ \A i \in 1..Cardinality(I) : \E j \in I : Rank(I, j) = i
         /\ \A j, k \in I : j < k => Rank(I, j) < Rank(I, k)
<1> DEFINE low(j) == {k \in I : k <= j}
           N == Cardinality(I)
           rank == [j \in I |-> Cardinality(low(j))]
<1>1. IsFiniteSet(I) /\ N \in Nat
  BY PositionsFinite
<1>2. ASSUME NEW j \in I
      PROVE  IsFiniteSet(low(j)) /\ Cardinality(low(j)) \in 1..N
  <2>1. IsFiniteSet(low(j)) /\ Cardinality(low(j)) <= N
    <3>1. low(j) \in SUBSET I
      OBVIOUS
    <3> QED BY <1>1, <3>1, FS_Subset
  <2>2. Cardinality(low(j)) \in Nat
    BY <2>1, FS_CardinalityType
  <2>3. j \in low(j)
    OBVIOUS
  <2>4. Cardinality(low(j)) # 0
    BY <2>1, <2>3, FS_EmptySet
  <2> HIDE DEF low
  <2> QED BY <1>1, <2>1, <2>2, <2>4
<1>3. ASSUME NEW j \in I, NEW k \in I, j < k
      PROVE  Cardinality(low(j)) < Cardinality(low(k))
  <2>0. \A x \in I : x \in Int
    OBVIOUS
  <2>1. low(j) \in SUBSET low(k)
    <3>1. \A x \in I : x <= j => x <= k
      BY <1>3, <2>0
    <3> QED BY <3>1
  <2>2. k \in low(k) /\ k \notin low(j)
    BY <1>3
  <2>3. Cardinality(low(j)) \in Nat /\ Cardinality(low(k)) \in Nat
    BY <1>2
  <2>4. IsFiniteSet(low(k))
    BY <1>2
  <2>5. Cardinality(low(j)) <= Cardinality(low(k))
    BY <2>1, <2>4, FS_Subset
  <2>6. Cardinality(low(j)) # Cardinality(low(k))
    BY <2>1, <2>2, <2>4, FS_Subset
  <2> HIDE DEF low
  <2> QED BY <2>3, <2>5, <2>6
<1>4. rank \in Injection(I, 1..N)
  <2> HIDE DEF low
  <2>1. rank \in [I -> 1..N]
    BY <1>2
  <2>2. ASSUME NEW j \in I, NEW k \in I, rank[j] = rank[k] PROVE j = k
    <3>1. j \in 1..n /\ k \in 1..n
      OBVIOUS
    <3>2. Cardinality(low(j)) = Cardinality(low(k)) /\ Cardinality(low(j)) \in Int
      BY <1>2, <2>2
    <3>3. ~(j < k) /\ ~(k < j)
      BY <1>3, <3>2
    <3> QED BY <3>1, <3>3
  <2> HIDE DEF rank
  <2> QED BY <2>1, <2>2 DEF Injection, IsInjective
<1>5. IsFiniteSet(1..N) /\ Cardinality(1..N) = N
  BY <1>1, FS_Interval
<1>6. rank \in Surjection(I, 1..N)
  <2> HIDE DEF rank, N
  <2> QED BY <1>4, <1>5, FS_Injection DEF N
<1>7. \A i \in 1..N : \E j \in I : rank[j] = i
  <2> HIDE DEF rank, N
  <2> QED BY <1>6 DEF Surjection
<1> HIDE DEF low
<1> QED BY <1>2, <1>3, <1>7 DEF Rank, low

\* The position that has the i-th place
LEMMA RankChosen ==
  ASSUME NEW n \in Nat, NEW I \in SUBSET (1..n), NEW i \in 1..Cardinality(I)
  PROVE  LET p == CHOOSE j \in I : Rank(I, j) = i
         IN  p \in I /\ Rank(I, p) = i
BY RankBijective

\* Filter keeps the entries at the positions, as a list of their number ...
LEMMA FilterType ==
  ASSUME NEW S, NEW s \in Seq(S), NEW I \in SUBSET (1..Len(s))
  PROVE  /\ Filter(s, I) \in Seq(S)
         /\ Len(Filter(s, I)) = Cardinality(I) /\ Len(Filter(s, I)) <= Len(s)
         /\ \A k \in 1..Len(s) : k \notin I => Len(Filter(s, I)) < Len(s)
<1> DEFINE N == Cardinality(I)
           at(i) == CHOOSE j \in I : Rank(I, j) = i
           list == [i \in 1..N |-> s[at(i)]]
<1>0. Len(s) \in Nat
  OBVIOUS
<1>1. N \in Nat /\ N <= Len(s) /\ \A k \in 1..Len(s) : k \notin I => N < Len(s)
  BY <1>0, PositionsFinite
<1>2. ASSUME NEW i \in 1..N PROVE at(i) \in I
  BY <1>0, RankChosen
<1>3. \A i \in 1..N : s[at(i)] \in S
  <2>1. \A j \in I : s[j] \in S
    BY <1>0
  <2> HIDE DEF at
  <2> QED BY <1>2, <2>1
<1>4. list \in Seq(S) /\ Len(list) = N
  <2> HIDE DEF at, N
  <2> QED BY <1>1, <1>3
<1>5. Filter(s, I) = list
  BY DEF Filter
<1> HIDE DEF list, N
<1> QED BY <1>1, <1>4, <1>5 DEF N

\* ... no other ones, and all of them ...
LEMMA FilterEntries ==
  ASSUME NEW S, NEW s \in Seq(S), NEW I \in SUBSET (1..Len(s))
  PROVE  /\ \A i \in 1..Len(Filter(s, I)) : \E j \in I : Filter(s, I)[i] = s[j]
         /\ \A j \in I : \E i \in 1..Len(Filter(s, I)) : Filter(s, I)[i] = s[j]
<1> DEFINE N == Cardinality(I)
           at(i) == CHOOSE j \in I : Rank(I, j) = i
<1>0. Len(s) \in Nat
  OBVIOUS
<1>1. Len(Filter(s, I)) = N
  BY FilterType
<1>2. ASSUME NEW i \in 1..N PROVE at(i) \in I /\ Rank(I, at(i)) = i
  BY <1>0, RankChosen
<1>3. \A i \in 1..N : Filter(s, I)[i] = s[at(i)]
  BY DEF Filter
<1>4. ASSUME NEW j \in I PROVE \E i \in 1..N : Filter(s, I)[i] = s[j]
  <2>1. Rank(I, j) \in 1..N
    BY <1>0, RankBijective
  <2>2. at(Rank(I, j)) \in I /\ Rank(I, at(Rank(I, j))) = Rank(I, j)
    BY <1>2, <2>1
  <2>3. at(Rank(I, j)) = j
    <3> DEFINE k == at(Rank(I, j))
    <3> HIDE DEF at
    <3>1. \A a, b \in I : a < b => Rank(I, a) < Rank(I, b)
      BY <1>0, RankBijective
    <3>2. k \in I /\ Rank(I, k) = Rank(I, j)
      BY <2>2
    <3>3. Rank(I, j) \in Int /\ \A a \in I : a \in Int
      <4>1. N \in Int
        BY <1>0, PositionsFinite
      <4> QED BY <2>1, <4>1
    <3> HIDE DEF k
    <3>4. ~(j < k) /\ ~(k < j)
      BY <3>1, <3>2, <3>3
    <3>5. j = k
      BY <3>2, <3>3, <3>4
    <3> QED BY <3>5 DEF k
  <2> HIDE DEF at
  <2> QED BY <1>3, <2>1, <2>3
<1> HIDE DEF at, N
<1> QED BY <1>1, <1>2, <1>3, <1>4

\* ... and the first entry, when it stays, stays the first.
LEMMA FilterFirst ==
  ASSUME NEW S, NEW s \in Seq(S), NEW I \in SUBSET (1..Len(s)), 1 \in I
  PROVE  Len(Filter(s, I)) > 0 /\ Filter(s, I)[1] = s[1]
<1>0. Len(s) \in Nat
  OBVIOUS
<1>1. IsFiniteSet(I) /\ Cardinality(I) \in Nat /\ Cardinality(I) # 0
  BY <1>0, PositionsFinite, FS_EmptySet
<1>2. {k \in I : k <= 1} = {1}
  <2>1. \A k \in I : k \in Int /\ k >= 1
    BY <1>0
  <2>2. \A k \in I : k <= 1 <=> k = 1
    BY <2>1
  <2> QED BY <2>2
<1>3. Rank(I, 1) = 1
  BY <1>2, FS_Singleton DEF Rank
<1>4. \A j, k \in I : j < k => Rank(I, j) < Rank(I, k)
  BY <1>0, RankBijective
<1> DEFINE p == CHOOSE j \in I : Rank(I, j) = 1
<1>5. p \in I /\ Rank(I, p) = 1
  BY <1>3
<1> HIDE DEF p
<1>6. p = 1
  <2>1. ~(1 < p)
    BY <1>3, <1>4, <1>5
  <2> QED BY <1>5, <2>1
<1>7. Filter(s, I)[1] = s[p]
  BY <1>1 DEF Filter, p
<1> QED BY <1>1, <1>6, <1>7, FilterType

\* A set of positions has a first one.
LEMMA FirstPosition ==
  ASSUME NEW n \in Nat, NEW I \in SUBSET (1..n), I # {}
  PROVE  \E j \in I : \A k \in I : j <= k
<1>1. IsFiniteSet(I) /\ Cardinality(I) \in Nat /\ Cardinality(I) # 0
  <2>1. IsFiniteSet(I) /\ Cardinality(I) \in Nat
    BY PositionsFinite
  <2> QED BY <2>1, FS_EmptySet
<1>2. PICK j \in I : Rank(I, j) = 1
  <2>1. 1 \in 1..Cardinality(I)
    BY <1>1
  <2> QED BY <2>1, RankBijective
<1>3. ASSUME NEW k \in I, ~(j <= k) PROVE FALSE
  <2>1. j < k \/ k < j
    BY <1>3
  <2>2. Rank(I, k) \in 1..Cardinality(I)
    BY RankBijective
  <2>3. \A a, b \in I : a < b => Rank(I, a) < Rank(I, b)
    BY RankBijective
  <2>4. Rank(I, k) < Rank(I, j)
    BY <1>3, <2>3
  <2> QED BY <1>1, <1>2, <2>2, <2>4
<1> QED BY <1>3
=============================================================================
