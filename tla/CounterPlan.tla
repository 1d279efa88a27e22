--------------------------- MODULE CounterPlan -----------------------------
(***************************************************************************)
(* The counter catalog of the hardware performance counter service and the *)
(* operators of BenchmarkRunner._SetupIbmPerf (runner.py) that split the   *)
(* requested counters into groups.  Used by CounterGroups.tla (the planner *)
(* alone) and BenchmarkRunner.tla (the runner that cycles the groups).     *)
(***************************************************************************)
EXTENDS Integers, FiniteSets, Sequences, Functions

CONSTANTS
  AllMetrics,      \* hpc.metrics.keys(): the catalog of the counter service
  FreeMetrics,     \* hpc.free_metrics: always sampled, CYCLES among them
  NonFreeMetrics,  \* hpc.non_free_metrics
  MaxCounters      \* hpc.max_counters

ASSUME CounterAssumption ==
  /\ IsFiniteSet(AllMetrics)
  /\ FreeMetrics \subseteq AllMetrics
  /\ NonFreeMetrics \subseteq AllMetrics
  /\ FreeMetrics \cap NonFreeMetrics = {}
  /\ MaxCounters \in Nat \ {0}

(* The metric set of the run: every metric if none was requested, always   *)
(* with the free metrics added (metrics.update(hpc.free_metrics)).         *)
MetricsOf(requested) ==
  (IF requested = {} THEN AllMetrics ELSE requested) \cup FreeMetrics

(* list(metrics.intersection(hpc.non_free_metrics)): the order of a list   *)
(* made from a set is the set's iteration order, which the code does not   *)
(* fix, so every enumeration of the set is a possible outcome.             *)
Orders(S) == Bijection(1 .. Cardinality(S), S)

MinOf(a, b) == IF a <= b THEN a ELSE b

(* Number of slices range(0, len(nonfree), hpc.max_counters) produces.     *)
NumChunks(n) == (n + MaxCounters - 1) \div MaxCounters

(* Mutant: each slice starts one element late.                             *)
ChunkSkipFirst(order, j) ==
  Range(SubSeq(order, (j - 1) * MaxCounters + 2,
                      MinOf(j * MaxCounters, Len(order))))

(* The j-th slice nonfree[i:i + max_counters], i = (j-1) * max_counters.   *)
Chunk(order, j) ==
  Range(SubSeq(order, (j - 1) * MaxCounters + 1,
                      MinOf(j * MaxCounters, Len(order))))

(* Mutant: the slicing ignores max_counters and puts each counter in a     *)
(* group of its own.                                                       *)
GroupsOneEach(order) ==
  IF Len(order) > 0
    THEN [j \in 1 .. Len(order) |-> {order[j]} \cup FreeMetrics]
    ELSE <<FreeMetrics>>

(* The groups: each slice unioned with the free metrics, or the free       *)
(* metrics alone when no non-free metric was requested.                    *)
GroupsOf(order) ==
  IF Len(order) > 0
    THEN [j \in 1 .. NumChunks(Len(order)) |-> Chunk(order, j) \cup FreeMetrics]
    ELSE <<FreeMetrics>>

=============================================================================
