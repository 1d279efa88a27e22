--------------------------- MODULE CounterGroups ---------------------------
(***************************************************************************)
(* The hardware-counter group planner: BenchmarkRunner._SetupIbmPerf in    *)
(* src/syzygy/scripts/benchmark/runner.py.  Given the metrics requested on *)
(* the command line it splits the non-free ones into groups that are       *)
(* sampled in separate iterations, each group extended with the free       *)
(* metrics.  The constructor runs it once; the runner then multiplies the  *)
(* iteration count by the number of groups (see BenchmarkRunner.tla).      *)
(***************************************************************************)
EXTENDS CounterPlan

(* The planner as a one-step system: the inputs of the constructor are     *)
(* chosen in Init, _SetupIbmPerf runs once.                                *)

VARIABLES
  ibmperfRun,      \* the ibmperf_run argument
  requested,       \* set(ibmperf_metrics)
  ibmperf,         \* self._ibmperf: "None" or the counter handle "Hpc"; "Unset" before
  metrics,         \* self._ibmperf_metrics
  groups           \* self._ibmperf_groups

vars == <<ibmperfRun, requested, ibmperf, metrics, groups>>

Init ==
  /\ ibmperfRun \in BOOLEAN
  /\ requested \in SUBSET AllMetrics
  /\ ibmperf = "Unset"
  /\ metrics = {}
  /\ groups = <<>>

(* _SetupIbmPerf: returns at once when counters are not wanted; otherwise  *)
(* computes the metric set and its groups.                                 *)
SetupIbmPerf ==
  /\ ibmperf = "Unset"
  /\ \/ /\ ~ibmperfRun
        /\ ibmperf' = "None"
        /\ UNCHANGED <<metrics, groups>>
     \/ /\ ibmperfRun
        /\ ibmperf' = "Hpc"
        /\ metrics' = MetricsOf(requested)
        /\ \E order \in Orders(MetricsOf(requested) \cap NonFreeMetrics) :
              groups' = GroupsOf(order)
  /\ UNCHANGED <<ibmperfRun, requested>>

Next == SetupIbmPerf

Spec == Init /\ [][Next]_vars

-----------------------------------------------------------------------------
TypeOK ==
  /\ ibmperfRun \in BOOLEAN
  /\ requested \in SUBSET AllMetrics
  /\ ibmperf \in {"Unset", "None", "Hpc"}
  /\ metrics \in SUBSET AllMetrics
  /\ groups \in Seq(SUBSET AllMetrics)

Planned == ibmperf = "Hpc"

(* Every group holds the free metrics (CYCLES, which                       *)
(* _ProcessIbmPerfResults reads in every iteration), only metrics of the   *)
(* run, and every non-free metric of the run lies in exactly one group:    *)
(* the slices of _SetupIbmPerf neither drop nor repeat a counter.          *)
GroupsPartition ==
  Planned =>
    /\ Len(groups) >= 1
    /\ \A j \in 1 .. Len(groups) :
          FreeMetrics \subseteq groups[j] /\ groups[j] \subseteq metrics
    /\ \A m \in metrics \cap NonFreeMetrics :
          \E j \in 1 .. Len(groups) :
             /\ m \in groups[j]
             /\ \A k \in 1 .. Len(groups) \ {j} : m \notin groups[k]

(* The number of groups is the least that the limit allows: every group    *)
(* but the last carries max_counters non-free metrics.  The iteration      *)
(* count is multiplied by it, so a needless group costs whole iterations.  *)
GroupsMinimal ==
  Planned =>
    \A j \in 1 .. Len(groups) - 1 :
       Cardinality(groups[j] \ FreeMetrics) = MaxCounters

(* The spec (section 4.1) bounds every group, free metrics included, by    *)
(* the number of counters the hardware samples at once.                    *)
GroupWithinLimit ==
  Planned => \A j \in 1 .. Len(groups) : Cardinality(groups[j]) <= MaxCounters

=============================================================================
