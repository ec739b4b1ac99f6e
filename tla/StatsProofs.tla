----------------------------- MODULE StatsProofs -----------------------------
(***************************************************************************)
(* What holds of the ranks of Stats for every number of samples and every  *)
(* percentile; the runs only see a few samples.                            *)
(***************************************************************************)
EXTENDS Stats, FiniteSetTheorems, FunctionTheorems, SequenceTheorems, TLAPS

\* The rank that percentile computes is one of the samples, so the clamp
\* idx.min(ms.len() - 1) of the code never bites (common lib.rs:204).
THEOREM RankInRange ==
  \A len \in Nat \ {0}, p \in 0..100 : Rank0(len, p) \in 0..(len - 1)
<1> SUFFICES ASSUME NEW len \in Nat \ {0}, NEW p \in 0..100
             PROVE  Rank0(len, p) \in 0..(len - 1)
  OBVIOUS
<1>1. p * (len - 1) \in Nat /\ p * (len - 1) <= 100 * (len - 1)
  OBVIOUS
<1> QED
  BY <1>1, SMT DEF Rank0

\* "Uses nearest-rank" (common lib.rs:195) is right to within one rank, above
\* or below, however many samples there are.
THEOREM WithinOneRank ==
  \A len \in Nat \ {0}, p \in 0..100 :
     /\ Rank0(len, p) + 1 <= NearestRank(len, p) + 1
     /\ NearestRank(len, p) <= Rank0(len, p) + 2
<1> SUFFICES ASSUME NEW len \in Nat \ {0}, NEW p \in 0..100
             PROVE  /\ Rank0(len, p) + 1 <= NearestRank(len, p) + 1
                    /\ NearestRank(len, p) <= Rank0(len, p) + 2
  OBVIOUS
<1> DEFINE k == p * (len - 1)
<1>1. k \in Nat
  OBVIOUS
<1>2. 2 * p * (len - 1) = 2 * k /\ p * len = k + p
  OBVIOUS
<1> HIDE DEF k
<1>3. (2 * k + 100) \div 200 <= (k + p + 99) \div 100
  BY <1>1, SMT
<1>4. (k + p + 99) \div 100 <= (2 * k + 100) \div 200 + 2
  BY <1>1, SMT
<1> QED
  BY <1>1, <1>2, <1>3, <1>4, SMT DEF Rank0, NearestRank

\* The median that a report gives is the nearest rank or the one above it,
\* never a smaller sample.
THEOREM UpperMedian ==
  \A len \in Nat \ {0} : Rank0(len, 50) + 1 \in NearestRank(len, 50)..(NearestRank(len, 50) + 1)
  BY SMT DEF Rank0, NearestRank

\* Python's rounding, half to even, never gives Spark a higher rank than the
\* one that the Rust side uses for its own phases.
THEOREM SparkRankIsNoHigher ==
  \A len \in Nat \ {0}, p \in 0..100 : round(p * (len - 1), 100) <= Rank0(len, p)
<1> SUFFICES ASSUME NEW len \in Nat \ {0}, NEW p \in 0..100
             PROVE  round(p * (len - 1), 100) <= Rank0(len, p)
  OBVIOUS
<1> DEFINE k == p * (len - 1)
<1>1. k \in Nat
  OBVIOUS
<1>2. 2 * p * (len - 1) = 2 * k
  OBVIOUS
<1> HIDE DEF k
<1>3. round(k, 100) <= (2 * k + 100) \div 200
  BY <1>1, SMT DEF round
<1> QED
  BY <1>3, <1>2 DEF Rank0, k

-----------------------------------------------------------------------------
(* What a sort does.                                                       *)

Place(samples, j) == Cardinality(Ahead(samples, j))

\* The samples up to a given one in the order are some of them, it among them.
LEMMA PlaceType ==
  ASSUME NEW n \in Nat, NEW s \in [1..n -> Nat], NEW j \in 1..n
  PROVE  /\ IsFiniteSet(Ahead(s, j)) /\ Ahead(s, j) \subseteq 1..n /\ j \in Ahead(s, j)
         /\ Place(s, j) \in 1..n
  <1>1. IsFiniteSet(1..n) /\ Cardinality(1..n) = n
    BY FS_Interval
  <1>2. Ahead(s, j) \in SUBSET (1..n) /\ j \in Ahead(s, j)
    BY DEF Ahead
  <1>3. IsFiniteSet(Ahead(s, j)) /\ Place(s, j) \in Nat /\ Place(s, j) <= n
    BY <1>1, <1>2, FS_Subset, FS_CardinalityType DEF Place
  <1>4. Place(s, j) # 0
    BY <1>2, <1>3, FS_EmptySet DEF Place
  <1>. QED
    BY <1>2, <1>3, <1>4

\* Of two samples, one comes before the other, and gets the lower place.
LEMMA PlacesDiffer ==
  ASSUME NEW n \in Nat, NEW s \in [1..n -> Nat], NEW j \in 1..n, NEW k \in 1..n,
         s[j] < s[k] \/ (s[j] = s[k] /\ j < k)
  PROVE  Place(s, j) < Place(s, k)
  <1>1. Ahead(s, j) \subseteq Ahead(s, k)
    <2>. SUFFICES ASSUME NEW m \in 1..n, s[m] < s[j] \/ (s[m] = s[j] /\ m <= j)
                  PROVE  s[m] < s[k] \/ (s[m] = s[k] /\ m <= k)
      BY DEF Ahead
    <2>1. s[m] \in Nat /\ s[j] \in Nat /\ s[k] \in Nat
      OBVIOUS
    <2>. QED
      BY <2>1
  <1>2. k \notin Ahead(s, j) /\ k \in Ahead(s, k)
    <2>1. s[j] \in Nat /\ s[k] \in Nat
      OBVIOUS
    <2>. QED
      BY <2>1, PlaceType DEF Ahead
  <1>3. IsFiniteSet(Ahead(s, k)) /\ Ahead(s, j) \in SUBSET Ahead(s, k)
    BY <1>1, PlaceType
  <1>4. /\ Cardinality(Ahead(s, j)) <= Cardinality(Ahead(s, k))
        /\ Cardinality(Ahead(s, k)) = Cardinality(Ahead(s, j)) => Ahead(s, k) = Ahead(s, j)
    BY <1>3, FS_Subset
  <1>5. Place(s, j) \in Nat /\ Place(s, k) \in Nat
    <2>1. Place(s, j) \in 1..n /\ Place(s, k) \in 1..n
      BY PlaceType, Zenon
    <2>. QED
      BY <2>1
  <1>. QED
    BY <1>2, <1>4, <1>5 DEF Place

\* Each place is taken.
LEMMA PlacesTaken ==
  ASSUME NEW n \in Nat, NEW s \in [1..n -> Nat], NEW i \in 1..n
  PROVE  \E j \in 1..n : Place(s, j) = i
  <1>. DEFINE h == [j \in 1..n |-> Place(s, j)]
  <1>1. h \in [1..n -> 1..n]
    BY PlaceType
  <1>2. ASSUME NEW j \in 1..n, NEW k \in 1..n, h[j] = h[k] PROVE j = k
    <2>1. s[j] \in Nat /\ s[k] \in Nat /\ Place(s, j) = Place(s, k) /\ Place(s, j) \in Nat
      BY <1>2, PlaceType
    <2>2. ASSUME s[j] < s[k] \/ (s[j] = s[k] /\ j < k) PROVE FALSE
      <3>1. Place(s, j) < Place(s, k)
        BY <2>2, PlacesDiffer, Zenon
      <3>. QED
        BY <2>1, <3>1
    <2>3. ASSUME s[k] < s[j] \/ (s[k] = s[j] /\ k < j) PROVE FALSE
      <3>1. Place(s, k) < Place(s, j)
        BY <2>3, PlacesDiffer, Zenon
      <3>. QED
        BY <2>1, <3>1
    <2>. QED
      BY <2>1, <2>2, <2>3
  <1>3. \A j \in 1..n : h[j] = Place(s, j)
    OBVIOUS
  <1>. HIDE DEF h
  <1>4. h \in Injection(1..n, 1..n)
    BY <1>1, <1>2 DEF Injection, IsInjective
  <1>5. IsFiniteSet(1..n)
    BY FS_Interval
  <1>6. h \in Surjection(1..n, 1..n)
    BY <1>4, <1>5, FS_Injection
  <1>7. \E j \in 1..n : h[j] = i
    BY <1>6 DEF Surjection
  <1>. QED
    BY <1>3, <1>7

\* What a sorted sequence holds at i is the sample that has the place i.
LEMMA SortedAt ==
  ASSUME NEW n \in Nat, NEW s \in [1..n -> Nat], NEW i \in 1..n
  PROVE  \E j \in 1..n : Place(s, j) = i /\ sorted(s)[i] = s[j]
  <1>1. \E j \in DOMAIN s : Cardinality(Ahead(s, j)) = i
    BY PlacesTaken DEF Place
  <1>. DEFINE c == CHOOSE j \in DOMAIN s : Cardinality(Ahead(s, j)) = i
  <1>2. c \in DOMAIN s /\ Cardinality(Ahead(s, c)) = i
    BY <1>1
  <1>3. sorted(s)[i] = s[c]
    BY DEF sorted
  <1>. HIDE DEF c
  <1>. QED
    BY <1>2, <1>3 DEF Place

\* The durations that a report sorts come out in order.
THEOREM SortedIsInOrder ==
  ASSUME NEW n \in Nat, NEW s \in [1..n -> Nat], NEW i \in 1..n, NEW k \in 1..n, i <= k
  PROVE  sorted(s)[i] \in Nat /\ sorted(s)[i] <= sorted(s)[k]
  <1>1. PICK x \in 1..n : Place(s, x) = i /\ sorted(s)[i] = s[x]
    BY SortedAt
  <1>2. PICK y \in 1..n : Place(s, y) = k /\ sorted(s)[k] = s[y]
    BY SortedAt
  <1>3. s[x] \in Nat /\ s[y] \in Nat
    OBVIOUS
  <1>4. ~(s[y] < s[x])
    <2>1. s[y] < s[x] => Place(s, y) < Place(s, x)
      BY PlacesDiffer, Zenon
    <2>. QED
      BY <1>1, <1>2, <2>1
  <1>. QED
    BY <1>1, <1>2, <1>3, <1>4

\* What stands at i of the sorted durations has the rank i among the recorded
\* ones.
THEOREM SortedHasRank ==
  ASSUME NEW n \in Nat, NEW s \in [1..n -> Nat], NEW i \in 1..n
  PROVE  HasRank(s, sorted(s)[i], i)
  <1>1. PICK j \in 1..n : Place(s, j) = i /\ sorted(s)[i] = s[j]
    BY SortedAt
  <1>. DEFINE L == {k \in DOMAIN s : s[k] < s[j]}
              U == {k \in DOMAIN s : s[k] <= s[j]}
  <1>2. IsFiniteSet(Ahead(s, j)) /\ Cardinality(Ahead(s, j)) = i /\ j \in Ahead(s, j)
    BY <1>1, PlaceType DEF Place
  <1>3. L \in SUBSET Ahead(s, j) /\ j \notin L
    BY DEF Ahead
  <1>4. IsFiniteSet(U) /\ Ahead(s, j) \in SUBSET U
    <2>1. U \in SUBSET (1..n) /\ IsFiniteSet(1..n)
      BY FS_Interval
    <2>2. \A k \in 1..n : s[k] \in Nat
      OBVIOUS
    <2>3. Ahead(s, j) \in SUBSET U
      BY <2>2 DEF Ahead
    <2>. QED
      BY <2>1, <2>3, FS_Subset
  <1>. HIDE DEF L, U
  <1>5. IsFiniteSet(L) /\ Cardinality(L) \in Nat /\ Cardinality(L) <= i /\ Cardinality(L) # i
    BY <1>2, <1>3, FS_Subset, FS_CardinalityType
  <1>6. Cardinality(U) \in Nat /\ i <= Cardinality(U)
    BY <1>2, <1>4, FS_Subset, FS_CardinalityType
  <1>. QED
    BY <1>1, <1>5, <1>6 DEF HasRank, L, U

\* However many durations there are and whatever they are, a percentile of
\* theirs is the nearest-rank one or a neighbour of it in the order.
THEOREM PercentileIsNearest ==
  ASSUME NEW n \in Nat \ {0}, NEW s \in [1..n -> Nat], NEW p \in 0..100
  PROVE  \E r \in {NearestRank(n, p) - 1, NearestRank(n, p), NearestRank(n, p) + 1} :
            HasRank(s, percentile(s, p), r)
  <1>1. Len(s) = n /\ s # << >>
    <2>1. s \in Seq(Nat) /\ DOMAIN s = 1..n /\ 1 \in 1..n
      BY SeqDef
    <2>. QED
      BY <2>1, LenProperties, EmptySeq
  <1>2. Rank0(n, p) \in 0..(n - 1) /\ Rank0(n, p) + 1 \in 1..n
    <2>1. Rank0(n, p) \in 0..(n - 1)
      BY RankInRange, Zenon
    <2>. QED
      BY <2>1
  <1>3. HasRank(s, percentile(s, p), Rank0(n, p) + 1)
    BY <1>1, <1>2, SortedHasRank DEF percentile
  <1>4. NearestRank(n, p) \in Nat
    BY DEF NearestRank
  <1>5. Rank0(n, p) + 1 \in {NearestRank(n, p) - 1, NearestRank(n, p), NearestRank(n, p) + 1}
    <2>1. /\ Rank0(n, p) + 1 <= NearestRank(n, p) + 1
          /\ NearestRank(n, p) <= Rank0(n, p) + 2
      BY WithinOneRank, Zenon
    <2>2. \A a, b \in Nat : a + 1 <= b + 1 /\ b <= a + 2 => a + 1 \in {b - 1, b, b + 1}
      OBVIOUS
    <2>3. Rank0(n, p) \in Nat
      BY <1>2
    <2>. QED
      BY <1>4, <2>1, <2>2, <2>3, Zenon
  <1>. QED
    BY <1>3, <1>5

\* For the same durations, the median and the percentiles that are computed for
\* Spark are no higher than those of the other phases.
THEOREM SparkFiguresAreNoHigher ==
  ASSUME NEW n \in Nat \ {0}, NEW s \in [1..n -> Nat]
  PROVE  /\ TwiceMedian(s) <= 2 * percentile(s, 50)
         /\ \A p \in 0..100 : pct(s, p) <= percentile(s, p)
  <1>1. Len(s) = n /\ s # << >>
    <2>1. s \in Seq(Nat) /\ DOMAIN s = 1..n /\ 1 \in 1..n
      BY SeqDef
    <2>. QED
      BY <2>1, LenProperties, EmptySeq
  <1>2. \A p \in 0..100 : Rank0(n, p) + 1 \in 1..n /\ percentile(s, p) = sorted(s)[Rank0(n, p) + 1]
    <2>. SUFFICES ASSUME NEW p \in 0..100
                  PROVE  /\ Rank0(n, p) + 1 \in 1..n
                         /\ percentile(s, p) = sorted(s)[Rank0(n, p) + 1]
      OBVIOUS
    <2>1. Rank0(n, p) \in 0..(n - 1)
      BY RankInRange, Zenon
    <2>2. Rank0(n, p) + 1 \in 1..n
      BY <2>1
    <2>3. percentile(s, p) = sorted(s)[Rank0(n, p) + 1]
      BY <1>1 DEF percentile
    <2>. QED
      BY <2>2, <2>3
  <1>3. TwiceMedian(s) <= 2 * percentile(s, 50)
    <2>. DEFINE a == (n + 1) \div 2
                b == n \div 2 + 1
                r == Rank0(n, 50) + 1
    <2>1. a \in 1..n /\ a <= r /\ r \in 1..n /\ b = r
      <3>1. Rank0(n, 50) = (100 * (n - 1) + 100) \div 200
        BY DEF Rank0
      <3>2. (100 * (n - 1) + 100) \div 200 = n \div 2
        OBVIOUS
      <3>3. (n + 1) \div 2 \in 1..n /\ (n + 1) \div 2 <= n \div 2 + 1
        OBVIOUS
      <3>4. Rank0(n, 50) + 1 \in 1..n
        BY <1>2
      <3>. QED
        BY <3>1, <3>2, <3>3, <3>4
    <2>2. TwiceMedian(s) = sorted(s)[a] + sorted(s)[b]
      BY <1>1 DEF TwiceMedian
    <2>3. sorted(s)[a] \in Nat /\ sorted(s)[r] \in Nat /\ sorted(s)[a] <= sorted(s)[r]
      BY <2>1, SortedIsInOrder
    <2>4. percentile(s, 50) = sorted(s)[r]
      BY <1>2
    <2>. HIDE DEF a, b, r
    <2>. QED
      BY <2>1, <2>2, <2>3, <2>4
  <1>4. ASSUME NEW p \in 0..100 PROVE pct(s, p) <= percentile(s, p)
    <2>. DEFINE q == round(p * (n - 1), 100) + 1
                r == Rank0(n, p) + 1
    <2>1. p * (n - 1) \in Nat
      OBVIOUS
    <2>2. q \in Nat \ {0}
      BY <2>1 DEF round
    <2>3. q <= r /\ r \in 1..n
      <3>1. round(p * (n - 1), 100) <= Rank0(n, p)
        BY SparkRankIsNoHigher, Zenon
      <3>2. round(p * (n - 1), 100) \in Nat
        BY <2>1 DEF round
      <3>3. Rank0(n, p) \in 0..(n - 1)
        BY RankInRange, Zenon
      <3>. QED
        BY <3>1, <3>2, <3>3
    <2>4. pct(s, p) = sorted(s)[q] /\ percentile(s, p) = sorted(s)[r]
      BY <1>1, <1>2 DEF pct
    <2>. HIDE DEF q, r
    <2>. QED
      BY <2>2, <2>3, <2>4, SortedIsInOrder
  <1>. QED
    BY <1>3, <1>4
=============================================================================
