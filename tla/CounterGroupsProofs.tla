------------------------- MODULE CounterGroupsProofs -------------------------
(***************************************************************************)
(* Proofs about CounterGroups.tla for every catalog, request and counter   *)
(* limit: the groups _SetupIbmPerf plans partition the non-free counters   *)
(* of the run, and every group but the last is full.                       *)
(***************************************************************************)
EXTENDS CounterGroups, CounterPlanProofs

(* The strengthening of GroupsPartition and GroupsMinimal: once planned,   *)
(* the metric set is the one of the request and the groups are those of   *)
(* some enumeration of its non-free counters.                              *)
PlanInv ==
  /\ TypeOK
  /\ Planned =>
       /\ metrics = MetricsOf(requested)
       /\ \E o \in Orders(metrics \cap NonFreeMetrics) : groups = GroupsOf(o)

LEMMA InitPlanInv == Init => PlanInv
<1> SUFFICES ASSUME Init PROVE PlanInv
  OBVIOUS
<1>1. <<>> \in Seq(SUBSET AllMetrics)
  BY EmptySeq
<1>. QED
  BY <1>1 DEF Init, PlanInv, TypeOK, Planned

(* _SetupIbmPerf runs once, from the unset state, and plans the groups of  *)
(* the metric set it computes.                                             *)
LEMMA NextPlanInv == PlanInv /\ [Next]_vars => PlanInv'
<1> SUFFICES ASSUME PlanInv, [Next]_vars PROVE PlanInv'
  OBVIOUS
<1>1. CASE SetupIbmPerf /\ ~ibmperfRun
  BY <1>1 DEF SetupIbmPerf, PlanInv, TypeOK, Planned
<1>2. CASE SetupIbmPerf /\ ibmperfRun
  <2>1. PICK o \in Orders(MetricsOf(requested) \cap NonFreeMetrics) :
          groups' = GroupsOf(o)
    BY <1>2 DEF SetupIbmPerf
  <2>2. /\ ibmperf' = "Hpc" /\ metrics' = MetricsOf(requested)
        /\ UNCHANGED <<ibmperfRun, requested>>
    BY <1>2 DEF SetupIbmPerf
  <2>3. MetricsOf(requested) \in SUBSET AllMetrics
    BY CounterAssumption DEF PlanInv, TypeOK, MetricsOf
  <2>4. o \in Seq(AllMetrics)
    BY <2>3, OrdersType
  <2>5. groups' \in Seq(SUBSET AllMetrics)
    BY <2>1, <2>4, GroupsOfType
  <2>. QED
    BY <2>1, <2>2, <2>3, <2>5 DEF PlanInv, TypeOK, Planned
<1>3. CASE UNCHANGED vars
  BY <1>3 DEF vars, PlanInv, TypeOK, Planned
<1>. QED
  BY <1>1, <1>2, <1>3 DEF Next, SetupIbmPerf

THEOREM PlanInvariant == Spec => []PlanInv
BY InitPlanInv, NextPlanInv, PTL DEF Spec

(* GroupsPartition of CounterGroups.tla, checked by the runs, for every    *)
(* catalog, request and counter limit and whatever order the set of        *)
(* non-free metrics is listed in: every group of _SetupIbmPerf holds the   *)
(* free counters and only counters of the run, and each non-free counter   *)
(* of the run is sampled in exactly one group.                             *)
THEOREM GroupsPartitionHolds == Spec => []GroupsPartition
<1>1. PlanInv => GroupsPartition
  <2> SUFFICES ASSUME PlanInv, Planned PROVE GroupsPartition
    BY DEF GroupsPartition
  <2>1. PICK o \in Orders(metrics \cap NonFreeMetrics) : groups = GroupsOf(o)
    BY DEF PlanInv
  <2>2. FreeMetrics \subseteq metrics
    BY DEF PlanInv, MetricsOf
  <2>3. metrics \cap NonFreeMetrics \in SUBSET NonFreeMetrics
    OBVIOUS
  <2>4. /\ Len(GroupsOf(o)) >= 1
        /\ \A j \in 1 .. Len(GroupsOf(o)) :
              /\ FreeMetrics \subseteq GroupsOf(o)[j]
              /\ GroupsOf(o)[j] \subseteq (metrics \cap NonFreeMetrics) \cup FreeMetrics
        /\ \A m \in metrics \cap NonFreeMetrics : \E j \in 1 .. Len(GroupsOf(o)) :
              /\ m \in GroupsOf(o)[j]
              /\ \A k \in 1 .. Len(GroupsOf(o)) \ {j} : m \notin GroupsOf(o)[k]
    BY <2>3, GroupsOfPartition
  <2>5. (metrics \cap NonFreeMetrics) \cup FreeMetrics \subseteq metrics
    BY <2>2
  <2>. QED
    BY <2>1, <2>4, <2>5 DEF GroupsPartition
<1>. QED
  BY <1>1, PlanInvariant, PTL

(* GroupsMinimal of CounterGroups.tla, checked by the runs, for every      *)
(* catalog, request and counter limit: the slices of _SetupIbmPerf leave   *)
(* no group short but the last, so the iteration count the runner          *)
(* multiplies by the number of groups is never larger than it must be.     *)
THEOREM GroupsMinimalHolds == Spec => []GroupsMinimal
<1>1. PlanInv => GroupsMinimal
  <2> SUFFICES ASSUME PlanInv, Planned PROVE GroupsMinimal
    BY DEF GroupsMinimal
  <2>1. PICK o \in Orders(metrics \cap NonFreeMetrics) : groups = GroupsOf(o)
    BY DEF PlanInv
  <2>2. metrics \cap NonFreeMetrics \in SUBSET NonFreeMetrics
    OBVIOUS
  <2>. QED
    BY <2>1, <2>2, GroupsOfMinimal DEF GroupsMinimal
<1>. QED
  BY <1>1, PlanInvariant, PTL

=============================================================================
