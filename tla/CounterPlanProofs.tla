-------------------------- MODULE CounterPlanProofs -------------------------
(***************************************************************************)
(* Lemmas on the operators of BenchmarkRunner._SetupIbmPerf (CounterPlan): *)
(* for every catalog and counter limit: the slices of the non-free list    *)
(* stay in the list, and each position of the list falls in exactly one    *)
(* slice.  BenchmarkRunnerProofs and CounterGroupsProofs cite them.        *)
(***************************************************************************)
EXTENDS CounterPlan, TLAPS, SequenceTheorems, FiniteSetTheorems

(* NumChunks(n), the number of slices range(0, n, max_counters) yields, is *)
(* a natural number, and at least 1 for a non-empty list.                  *)
LEMMA NumChunksType ==
  ASSUME NEW n \in Nat
  PROVE  /\ NumChunks(n) \in Nat
         /\ n > 0 => NumChunks(n) >= 1
BY CounterAssumption DEF NumChunks

(* Each slice nonfree[i:i + max_counters] holds elements of the list only. *)
LEMMA ChunkInRange ==
  ASSUME NEW S, NEW o \in Seq(S), NEW j \in Nat \ {0}
  PROVE  Chunk(o, j) \subseteq S
<1> DEFINE a == (j - 1) * MaxCounters + 1
           b == MinOf(j * MaxCounters, Len(o))
<1>1. a \in Int /\ b \in Int /\ a >= 1 /\ b <= Len(o)
  BY CounterAssumption, LenProperties DEF MinOf
<1>2. \A k \in a .. b : o[k] \in S
  BY <1>1, ElementOfSeq
<1>3. SubSeq(o, a, b) \in Seq(S)
  BY <1>1, <1>2, SubSeqProperties
<1>. QED
  BY <1>3, RangeOfSeq DEF Chunk

(* The groups of any order of the metrics are a non-empty list of sets of  *)
(* metrics, as the iteration multiplier and _StartIbmPerf need.           *)
LEMMA GroupsOfType ==
  ASSUME NEW o \in Seq(AllMetrics)
  PROVE  /\ GroupsOf(o) \in Seq(SUBSET AllMetrics)
         /\ Len(GroupsOf(o)) >= 1
<1>1. CASE Len(o) > 0
  <2> DEFINE K == NumChunks(Len(o))
             g == [j \in 1 .. K |-> Chunk(o, j) \cup FreeMetrics]
  <2>1. K \in Nat /\ K >= 1
    BY <1>1, NumChunksType, LenProperties
  <2>2. \A j \in 1 .. K : Chunk(o, j) \cup FreeMetrics \in SUBSET AllMetrics
    BY <2>1, ChunkInRange, CounterAssumption
  <2>3. g \in Seq(SUBSET AllMetrics) /\ Len(g) = K
    BY <2>1, <2>2, SeqDef
  <2>. QED
    BY <1>1, <2>1, <2>3 DEF GroupsOf
<1>2. CASE ~(Len(o) > 0)
  BY <1>2, CounterAssumption DEF GroupsOf
<1>. QED
  BY <1>1, <1>2

(* Every enumeration of a set of metrics is a sequence of metrics.         *)
LEMMA OrdersType ==
  ASSUME NEW S \in SUBSET AllMetrics, NEW o \in Orders(S)
  PROVE  o \in Seq(AllMetrics)
<1>1. IsFiniteSet(S)
  BY CounterAssumption, FS_Subset
<1>2. Cardinality(S) \in Nat
  BY <1>1, FS_CardinalityType
<1>3. o \in [1 .. Cardinality(S) -> AllMetrics]
  BY DEF Orders, Bijection, Injection
<1>. QED
  BY <1>2, <1>3, SeqDef

(* The group _StartIbmPerf picks for iteration it lies in the list.        *)
LEMMA GroupOfType ==
  ASSUME NEW g \in Seq(SUBSET AllMetrics), Len(g) >= 1, NEW it \in Nat
  PROVE  g[(it % Len(g)) + 1] \in SUBSET AllMetrics
<1>1. (it % Len(g)) + 1 \in 1 .. Len(g)
  BY LenProperties
<1>. QED
  BY <1>1, ElementOfSeq

-----------------------------------------------------------------------------
(* Position k of the non-free list (1-based) lies in slice                 *)
(* (k - 1) \div max_counters + 1 of range(0, n, max_counters).             *)
LEMMA SliceOfPosition ==
  ASSUME NEW n \in Nat, NEW k \in 1 .. n
  PROVE  LET j == (k - 1) \div MaxCounters + 1 IN
           /\ j \in 1 .. NumChunks(n)
           /\ (j - 1) * MaxCounters + 1 <= k
           /\ k <= MinOf(j * MaxCounters, n)
           /\ k <= j * MaxCounters
<1> DEFINE M == MaxCounters
           q == (k - 1) \div M
<1>1. M \in Nat \ {0}
  BY CounterAssumption
<1>2. q \in Nat /\ q * M <= k - 1 /\ k - 1 < (q + 1) * M
  BY <1>1
<1>3. q + 1 <= NumChunks(n)
  BY <1>1, <1>2 DEF NumChunks
<1>. QED
  BY <1>1, <1>2, <1>3 DEF MinOf

(* No position lies in two slices.                                         *)
LEMMA SliceUnique ==
  ASSUME NEW k \in Int, NEW j1 \in Nat \ {0}, NEW j2 \in Nat \ {0},
         (j1 - 1) * MaxCounters + 1 <= k, k <= j1 * MaxCounters,
         (j2 - 1) * MaxCounters + 1 <= k, k <= j2 * MaxCounters
  PROVE  j1 = j2
<1> DEFINE M == MaxCounters
<1>1. M \in Nat \ {0}
  BY CounterAssumption
<1>2. \A a, b \in Nat : a <= b => a * M <= b * M
  BY <1>1
<1>3. ~(j1 < j2)
  BY <1>1, <1>2
<1>4. ~(j2 < j1)
  BY <1>1, <1>2
<1>. QED
  BY <1>3, <1>4

(* A counter is in slice j exactly when it is at a position of the list   *)
(* that the slice covers.                                                  *)
LEMMA ChunkMember ==
  ASSUME NEW S, NEW o \in Seq(S), NEW j \in Nat \ {0}, NEW m
  PROVE  m \in Chunk(o, j) <=>
           \E k \in (j - 1) * MaxCounters + 1 .. MinOf(j * MaxCounters, Len(o)) :
              o[k] = m
<1> DEFINE a == (j - 1) * MaxCounters + 1
           b == MinOf(j * MaxCounters, Len(o))
           sub == SubSeq(o, a, b)
<1>1. a \in Nat /\ b \in Int /\ a >= 1 /\ b <= Len(o)
  BY CounterAssumption, LenProperties DEF MinOf
<1>2. DOMAIN sub = 1 .. (1 + b - a) /\ \A t \in 1 .. (1 + b - a) : sub[t] = o[t + a - 1]
  BY <1>1
<1>3. Chunk(o, j) = {sub[t] : t \in DOMAIN sub}
  BY DEF Chunk, Range
<1>4. ASSUME NEW t \in 1 .. (1 + b - a), sub[t] = m
      PROVE  \E k \in a .. b : o[k] = m
  <2>1. t + a - 1 \in a .. b
    BY <1>1
  <2>. QED
    BY <1>2, <1>4, <2>1
<1>5. ASSUME NEW k \in a .. b, o[k] = m
      PROVE  \E t \in 1 .. (1 + b - a) : sub[t] = m
  <2>1. k - a + 1 \in 1 .. (1 + b - a) /\ (k - a + 1) + a - 1 = k
    BY <1>1
  <2>. QED
    BY <1>2, <1>5, <2>1
<1>. QED
  BY <1>2, <1>3, <1>4, <1>5

(* An enumeration o of a set S of non-free counters is a list of length   *)
(* |S| that holds every counter of S at exactly one position.             *)
LEMMA OrderFacts ==
  ASSUME NEW S \in SUBSET NonFreeMetrics, NEW o \in Orders(S)
  PROVE  /\ o \in Seq(S)
         /\ Len(o) = Cardinality(S)
         /\ \A m \in S : \E k \in 1 .. Len(o) : o[k] = m
         /\ \A k1, k2 \in 1 .. Len(o) : o[k1] = o[k2] => k1 = k2
<1>1. IsFiniteSet(S)
  BY CounterAssumption, FS_Subset
<1>2. Cardinality(S) \in Nat
  BY <1>1, FS_CardinalityType
<1>3. o \in [1 .. Cardinality(S) -> S]
  BY DEF Orders, Bijection, Injection
<1>4. o \in Seq(S) /\ Len(o) = Cardinality(S)
  BY <1>2, <1>3, SeqDef
<1>5. \A m \in S : \E k \in 1 .. Cardinality(S) : o[k] = m
  BY DEF Orders, Bijection, Surjection
<1>6. \A k1, k2 \in 1 .. Cardinality(S) : o[k1] = o[k2] => k1 = k2
  BY DEF Orders, Bijection, Injection, IsInjective
<1>. QED
  BY <1>4, <1>5, <1>6

(* The groups _SetupIbmPerf builds from any enumeration of the non-free    *)
(* counters of the run: at least one; each holds the free counters and    *)
(* only counters of the run; each non-free counter lies in exactly one.   *)
LEMMA GroupsOfPartition ==
  ASSUME NEW S \in SUBSET NonFreeMetrics, NEW o \in Orders(S)
  PROVE  /\ Len(GroupsOf(o)) >= 1
         /\ \A j \in 1 .. Len(GroupsOf(o)) :
               /\ FreeMetrics \subseteq GroupsOf(o)[j]
               /\ GroupsOf(o)[j] \subseteq S \cup FreeMetrics
         /\ \A m \in S : \E j \in 1 .. Len(GroupsOf(o)) :
               /\ m \in GroupsOf(o)[j]
               /\ \A k \in 1 .. Len(GroupsOf(o)) \ {j} : m \notin GroupsOf(o)[k]
<1> DEFINE n == Len(o)
           K == NumChunks(n)
           g == [j \in 1 .. K |-> Chunk(o, j) \cup FreeMetrics]
<1>1. /\ o \in Seq(S) /\ n = Cardinality(S) /\ n \in Nat
      /\ \A m \in S : \E k \in 1 .. n : o[k] = m
      /\ \A k1, k2 \in 1 .. n : o[k1] = o[k2] => k1 = k2
  BY OrderFacts, LenProperties
<1>2. CASE n = 0
  <2>1. S = {}
    BY <1>1, <1>2
  <2>2. GroupsOf(o) = <<FreeMetrics>>
    BY <1>2 DEF GroupsOf
  <2>. QED
    BY <2>1, <2>2
<1>3. CASE n > 0
  <2>1. GroupsOf(o) = g
    BY <1>3 DEF GroupsOf
  <2>2. K \in Nat /\ K >= 1 /\ Len(g) = K
    BY <1>1, <1>3, NumChunksType
  <2>3. \A j \in 1 .. K : Chunk(o, j) \subseteq S
    BY <1>1, ChunkInRange
  <2>4. ASSUME NEW m \in S
        PROVE  \E j \in 1 .. K : m \in g[j] /\ \A j2 \in 1 .. K \ {j} : m \notin g[j2]
    <3>1. PICK k \in 1 .. n : o[k] = m
      BY <1>1
    <3> DEFINE j0 == (k - 1) \div MaxCounters + 1
    <3>2. /\ j0 \in 1 .. K
          /\ (j0 - 1) * MaxCounters + 1 <= k
          /\ k <= MinOf(j0 * MaxCounters, n)
          /\ k <= j0 * MaxCounters
      BY <1>1, SliceOfPosition
    <3>3. m \in Chunk(o, j0)
      BY <1>1, <3>1, <3>2, ChunkMember
    <3>4. m \notin FreeMetrics
      BY CounterAssumption
    <3>5. ASSUME NEW j2 \in 1 .. K \ {j0}, m \in g[j2] PROVE FALSE
      <4>1. m \in Chunk(o, j2)
        BY <3>4, <3>5
      <4>2. PICK k2 \in (j2 - 1) * MaxCounters + 1 .. MinOf(j2 * MaxCounters, n) :
              o[k2] = m
        BY <1>1, <4>1, ChunkMember
      <4>3. k2 \in 1 .. n /\ k2 <= j2 * MaxCounters
        BY CounterAssumption DEF MinOf
      <4>4. k2 = k
        BY <1>1, <3>1, <4>2, <4>3
      <4>. QED
        BY <3>2, <3>5, <4>2, <4>3, <4>4, SliceUnique
    <3>. QED
      BY <3>2, <3>3, <3>5
  <2>. QED
    BY <2>1, <2>2, <2>3, <2>4
<1>. QED
  BY <1>1, <1>2, <1>3

(* Every slice but the last ends at its full length: j * max_counters is  *)
(* within the list for j below the number of slices.                       *)
LEMMA SliceFull ==
  ASSUME NEW n \in Nat, n > 0, NEW j \in 1 .. NumChunks(n) - 1
  PROVE  j * MaxCounters <= n
<1> DEFINE M == MaxCounters
           K == NumChunks(n)
<1>1. M \in Nat \ {0}
  BY CounterAssumption
<1>2. K \in Nat /\ K * M <= n + M - 1
  BY <1>1 DEF NumChunks
<1>3. \A a, b \in Nat : a <= b => a * M <= b * M
  BY <1>1
<1>4. j * M <= (K - 1) * M
  BY <1>1, <1>2, <1>3
<1>. QED
  BY <1>1, <1>2, <1>4

(* A full slice of an enumeration holds max_counters distinct counters.   *)
LEMMA FullChunkSize ==
  ASSUME NEW S \in SUBSET NonFreeMetrics, NEW o \in Orders(S),
         NEW j \in Nat \ {0}, j * MaxCounters <= Len(o)
  PROVE  Cardinality(Chunk(o, j)) = MaxCounters
<1> DEFINE a == (j - 1) * MaxCounters + 1
           b == j * MaxCounters
           f == [k \in a .. b |-> o[k]]
<1>1. /\ o \in Seq(S)
      /\ \A k1, k2 \in 1 .. Len(o) : o[k1] = o[k2] => k1 = k2
  BY OrderFacts
<1>2. a \in Nat /\ b \in Nat /\ a >= 1 /\ b - a + 1 = MaxCounters
      /\ MinOf(j * MaxCounters, Len(o)) = b
  BY CounterAssumption DEF MinOf
<1>3. ASSUME NEW m
      PROVE  m \in Chunk(o, j) <=> \E k \in a .. b : o[k] = m
  <2>1. m \in Chunk(o, j) <=>
          \E k \in (j - 1) * MaxCounters + 1 .. MinOf(j * MaxCounters, Len(o)) :
             o[k] = m
    BY <1>1, ChunkMember
  <2>. QED
    BY <1>2, <2>1
<1>4. f \in [a .. b -> Chunk(o, j)]
  BY <1>3
<1>5. f \in Surjection(a .. b, Chunk(o, j))
  BY <1>3, <1>4 DEF Surjection
<1>6. a .. b \subseteq 1 .. Len(o)
  <2>1. Len(o) \in Nat /\ b <= Len(o)
    BY <1>1, LenProperties
  <2> HIDE DEF a, b
  <2>. QED
    BY <1>2, <2>1
<1>7. f \in Injection(a .. b, Chunk(o, j))
  BY <1>1, <1>4, <1>6 DEF Injection, IsInjective
<1>8. IsFiniteSet(a .. b) /\ Cardinality(a .. b) = MaxCounters
  BY <1>2, CounterAssumption, FS_Interval
<1>. QED
  BY <1>5, <1>7, <1>8, FS_Surjection

(* The groups _SetupIbmPerf builds are as few as max_counters allows:      *)
(* every group but the last carries max_counters non-free counters.       *)
LEMMA GroupsOfMinimal ==
  ASSUME NEW S \in SUBSET NonFreeMetrics, NEW o \in Orders(S)
  PROVE  \A j \in 1 .. Len(GroupsOf(o)) - 1 :
            Cardinality(GroupsOf(o)[j] \ FreeMetrics) = MaxCounters
<1> DEFINE n == Len(o)
           K == NumChunks(n)
<1>1. o \in Seq(S) /\ n \in Nat
  BY OrderFacts
<1>2. CASE n = 0
  BY <1>2 DEF GroupsOf
<1>3. CASE n > 0
  <2>1. GroupsOf(o) = [j \in 1 .. K |-> Chunk(o, j) \cup FreeMetrics]
        /\ K \in Nat
    BY <1>1, <1>3, NumChunksType DEF GroupsOf
  <2>2. SUFFICES ASSUME NEW j \in 1 .. K - 1
                 PROVE  Cardinality((Chunk(o, j) \cup FreeMetrics) \ FreeMetrics)
                          = MaxCounters
    BY <2>1
  <2>3. Chunk(o, j) \subseteq S
    BY <1>1, ChunkInRange
  <2>4. (Chunk(o, j) \cup FreeMetrics) \ FreeMetrics = Chunk(o, j)
    BY <2>3, CounterAssumption
  <2>5. j * MaxCounters <= n
    BY <1>1, <1>3, SliceFull
  <2>6. j \in Nat \ {0}
    OBVIOUS
  <2>7. Cardinality(Chunk(o, j)) = MaxCounters
    BY <2>5, <2>6, FullChunkSize
  <2>. QED
    BY <2>4, <2>7
<1>4. n = 0 \/ n > 0
  BY <1>1
<1>. QED
  BY <1>2, <1>3, <1>4, Zenon

=============================================================================
