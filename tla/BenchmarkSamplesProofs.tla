---------------------- MODULE BenchmarkSamplesProofs ----------------------
(***************************************************************************)
(* Proof of SamplesComplete of BenchmarkRunner.tla for every value of the  *)
(* constants: the iteration multiplier of BenchmarkRunner.Run, the cycling *)
(* of groups in _StartIbmPerf (group i % len(groups)) and the plan of      *)
(* _SetupIbmPerf give each counter its number of samples.                  *)
(***************************************************************************)
EXTENDS BenchmarkRunnerProofs

(* The catalog of the counter service splits into free and non-free       *)
(* counters (hpc.free_metrics, hpc.non_free_metrics).                      *)
CatalogSplit == AllMetrics = FreeMetrics \cup NonFreeMetrics

(* The samples n whole iterations give: one working-set sample per         *)
(* iteration; with counters, one sample per iteration of a free counter,   *)
(* and of a non-free counter of group j the iterations it < n with         *)
(* it % len(groups) = j - 1; none of a counter in no group.                *)
SampleCountsOf(r, ib, g, n) ==
  /\ r["WorkingSet"] = n
  /\ \A m \in AllMetrics :
       (~ib \/ \A j \in 1 .. Len(g) : m \notin g[j]) => r[m] = 0
  /\ ib => \A m \in FreeMetrics : r[m] = n
  /\ ib => \A j \in 1 .. Len(g) : \A m \in g[j] \ FreeMetrics :
             r[m] = (n + Len(g) - j) \div Len(g)

SampleCounts(n) == SampleCountsOf(results, ibmperf, groups, n)

(* The groups are a plan of _SetupIbmPerf for the metrics of the run.     *)
PlannedGroups ==
  ibmperf => \E o \in Orders(Metrics \cap NonFreeMetrics) : groups = GroupsOf(o)

(* Steps of an iteration before its samples are taken.                     *)
BeforeDoPCs == {"Pre", "Launch", "Wait", "Do"}

(* Run has multiplied the iteration count by the number of groups.        *)
IterationsMultiplied ==
  pc # "Run" =>
    iterations = IF ibmperf THEN Iterations * Len(groups) ELSE Iterations

(* An exception propagates in the except of Run; none when the loop        *)
(* reaches _PostIteration(i, True).                                        *)
RaisedAt == (pc = "Except" => raised) /\ (pc = "Post" => ~raised)

(* During iteration i the counters sample the group of iteration i.        *)
SampledGroup == pc \in {"Launch", "Wait", "Do"} /\ ibmperf => perf = GroupOf(i)

(* The samples so far are those of the whole iterations done, counting the *)
(* current one once _DoIteration has returned normally.  Chrome is         *)
(* running when _DoIteration samples.                                      *)
CountsSoFar ==
  /\ pc = "Do" => chrome = "Running"
  /\ pc \in SetUpPCs \cup BeforeDoPCs => SampleCounts(i)
  /\ pc \in {"ShutDown", "Post"} /\ ~raised => SampleCounts(i + 1)
  /\ pc = "Results" => SampleCounts(iterations)
  /\ pc \in {"TearDown", "Done"} /\ ~raised => SampleCounts(iterations)

(* The strengthening of SamplesComplete: while Chrome has not exited on    *)
(* its own, the samples are those of the iterations done.                  *)
SamplesInv ==
  /\ PrefetchInv
  /\ PlannedGroups
  /\ IterationsMultiplied
  /\ RaisedAt
  /\ SampledGroup
  /\ exits = 0 => CountsSoFar

(* Integer division by L is fixed by the bounds of the remainder.          *)
LEMMA DivisionUniqueness ==
  ASSUME NEW L \in Nat \ {0}, NEW q \in Int, NEW t \in 0 .. 2 * L - 1
  PROVE  (q * L + t) \div L = IF t < L THEN q ELSE q + 1
<1>1. CASE t < L
  BY <1>1, Z3
<1>2. CASE t >= L
  <2>1. q * L + t = (q + 1) * L + (t - L) /\ t - L \in 0 .. L - 1
    BY <1>2
  <2> QED
    BY <1>2, <2>1, Z3
<1> QED
  BY <1>1, <1>2

(* The arithmetic of cycling through L groups: no iteration has sampled    *)
(* group j before the first, iteration n samples group j exactly when      *)
(* n % L = j - 1, and L * k iterations sample every group k times.         *)
LEMMA CycleCount ==
  ASSUME NEW L \in Nat \ {0}, NEW j \in 1 .. L, NEW n \in Nat, NEW k \in Nat
  PROVE  /\ (0 + L - j) \div L = 0
         /\ (n + 1 + L - j) \div L =
              (n + L - j) \div L + (IF (n % L) + 1 = j THEN 1 ELSE 0)
         /\ (k * L + L - j) \div L = k
<1>1. (0 + L - j) \div L = 0
  BY Z3
<1>2. (n + 1 + L - j) \div L =
        (n + L - j) \div L + (IF (n % L) + 1 = j THEN 1 ELSE 0)
  <2> DEFINE q == n \div L
             r == n % L
  <2>1. q \in Nat /\ r \in 0 .. L - 1 /\ n = q * L + r
    BY Z3
  <2>2. q \in Int /\ r + L - j \in 0 .. 2 * L - 1 /\ r + 1 + L - j \in 0 .. 2 * L - 1
    BY <2>1
  <2>3. (q * L + (r + L - j)) \div L = IF r + L - j < L THEN q ELSE q + 1
    BY <2>2, DivisionUniqueness
  <2>4. (q * L + (r + 1 + L - j)) \div L = IF r + 1 + L - j < L THEN q ELSE q + 1
    BY <2>2, DivisionUniqueness
  <2>5. n + L - j = q * L + (r + L - j) /\ n + 1 + L - j = q * L + (r + 1 + L - j)
    BY <2>1
  <2> HIDE DEF q, r
  <2>6. (n + L - j) \div L = IF r + L - j < L THEN q ELSE q + 1
    BY <2>3, <2>5
  <2>7. (n + 1 + L - j) \div L = IF r + 1 + L - j < L THEN q ELSE q + 1
    BY <2>4, <2>5
  <2> QED
    BY <2>1, <2>6, <2>7 DEF r
<1>3. (k * L + L - j) \div L = k
  BY Z3
<1> QED
  BY <1>1, <1>2, <1>3


(* What the sampling needs of a plan: at least one group, each holding the *)
(* free metrics and only metrics of the run, every requested non-free      *)
(* metric in a group, and no non-free metric in two groups.                *)
LEMMA GroupFacts ==
  ASSUME PlannedGroups, ibmperf
  PROVE  /\ groups \in Seq(SUBSET AllMetrics)
         /\ Len(groups) \in Nat \ {0}
         /\ \A j \in 1 .. Len(groups) :
              FreeMetrics \subseteq groups[j] /\ groups[j] \subseteq Metrics
         /\ \A m \in Metrics \cap NonFreeMetrics :
              \E j \in 1 .. Len(groups) : m \in groups[j]
         /\ \A j, k \in 1 .. Len(groups) : \A m \in groups[j] \ FreeMetrics :
              m \in groups[k] => k = j
<1> DEFINE S == Metrics \cap NonFreeMetrics
<1>1. PICK o \in Orders(S) : groups = GroupsOf(o)
  BY DEF PlannedGroups
<1>2. S \in SUBSET NonFreeMetrics /\ S \in SUBSET AllMetrics
  BY CounterAssumption
<1>3. groups \in Seq(SUBSET AllMetrics) /\ Len(groups) \in Nat \ {0}
  <2>1. o \in Seq(AllMetrics)
    BY <1>2, OrdersType
  <2> QED
    BY <1>1, <2>1, GroupsOfType, LenProperties
<1>4. /\ \A j \in 1 .. Len(groups) :
           FreeMetrics \subseteq groups[j] /\ groups[j] \subseteq S \cup FreeMetrics
      /\ \A m \in S : \E j \in 1 .. Len(groups) :
           /\ m \in groups[j]
           /\ \A k \in 1 .. Len(groups) \ {j} : m \notin groups[k]
  BY <1>1, <1>2, GroupsOfPartition
<1>5. S \cup FreeMetrics \subseteq Metrics
  BY DEF Metrics, MetricsOf
<1>6. ASSUME NEW j \in 1 .. Len(groups), NEW k \in 1 .. Len(groups),
             NEW m \in groups[j] \ FreeMetrics, m \in groups[k]
      PROVE  k = j
  <2>1. m \in S
    BY <1>4, <1>6
  <2>2. PICK j0 \in 1 .. Len(groups) :
          m \in groups[j0] /\ \A k0 \in 1 .. Len(groups) \ {j0} : m \notin groups[k0]
    BY <1>4, <2>1
  <2> QED
    BY <1>6, <2>2
<1> QED
  BY <1>3, <1>4, <1>5, <1>6


(* A metric is never a working-set or log key.                             *)
LEMMA MetricNotLogKey ==
  ASSUME NEW m \in AllMetrics
  PROVE  m \notin LogKeys
BY KeyAssumption

(* The samples of one whole iteration n: _DoIteration adds one sample of   *)
(* each counter of group n % len(groups) and one working-set sample.       *)
LEMMA SampleStep ==
  ASSUME NEW n \in Nat, TypeOK, PlannedGroups, SampleCounts(n),
         results' = AddResults((IF ibmperf THEN GroupOf(n) ELSE {}) \cup {"WorkingSet"})
  PROVE  SampleCountsOf(results', ibmperf, groups, n + 1)
<1> DEFINE K == (IF ibmperf THEN GroupOf(n) ELSE {}) \cup {"WorkingSet"}
<1>1. results'["WorkingSet"] = n + 1
  BY DEF AddResults, ResultKeys, LogKeys, TypeOK, SampleCounts, SampleCountsOf
<1>2. \A m \in AllMetrics :
        results'[m] = IF m \in K THEN results[m] + 1 ELSE results[m]
  BY DEF AddResults, ResultKeys
<1>3. \A m \in AllMetrics : m \in K <=> ibmperf /\ m \in GroupOf(n)
  BY MetricNotLogKey DEF LogKeys
<1>4. CASE ~ibmperf
  <2>1. \A m \in AllMetrics : results'[m] = 0
    BY <1>2, <1>3, <1>4 DEF SampleCounts, SampleCountsOf
  <2> QED
    BY <1>1, <1>4, <2>1 DEF SampleCounts, SampleCountsOf
<1>5. CASE ibmperf
  <2> DEFINE L == Len(groups)
             c == (n % L) + 1
  <2>1. L \in Nat \ {0} /\ c \in 1 .. L /\ GroupOf(n) = groups[c]
    BY <1>5, GroupFacts DEF GroupOf
  <2>2. ASSUME NEW m \in AllMetrics, \A j \in 1 .. L : m \notin groups[j]
        PROVE  results'[m] = 0
    BY <1>2, <1>3, <2>1, <2>2 DEF SampleCounts, SampleCountsOf
  <2>3. ASSUME NEW m \in FreeMetrics
        PROVE  results'[m] = n + 1
    <3>1. m \in AllMetrics /\ m \in groups[c]
      BY <1>5, <2>1, GroupFacts, CounterAssumption
    <3> QED
      BY <1>2, <1>3, <1>5, <2>1, <3>1 DEF SampleCounts, SampleCountsOf
  <2>4. ASSUME NEW j \in 1 .. L, NEW m \in groups[j] \ FreeMetrics
        PROVE  results'[m] = (n + 1 + L - j) \div L
    <3>1. m \in AllMetrics
      BY <1>5, GroupFacts, ElementOfSeq
    <3>2. m \in GroupOf(n) <=> c = j
      BY <1>5, <2>1, GroupFacts
    <3>3. results[m] = (n + L - j) \div L
      BY <1>5 DEF SampleCounts, SampleCountsOf
    <3>4. m \in K <=> c = j
      BY <1>3, <1>5, <3>1, <3>2
    <3>5. results'[m] = IF m \in K THEN results[m] + 1 ELSE results[m]
      BY <1>2, <3>1
    <3>6. results[m] \in Nat
      BY <3>1 DEF TypeOK, ResultKeys
    <3>7. results'[m] = results[m] + (IF c = j THEN 1 ELSE 0)
      BY <3>4, <3>5, <3>6
    <3>8. (n + 1 + L - j) \div L = (n + L - j) \div L + (IF c = j THEN 1 ELSE 0)
      BY <2>1, CycleCount
    <3> QED
      BY <3>3, <3>7, <3>8
  <2> QED
    BY <1>1, <1>5, <2>2, <2>3, <2>4 DEF SampleCounts, SampleCountsOf
<1> QED
  BY <1>4, <1>5

(* _PostIteration and the except of Run add only log results.              *)
LEMMA LogStep ==
  ASSUME NEW n, SampleCounts(n), TypeOK, PlannedGroups,
         NEW K \in SUBSET {"MessageLoopStartTime", "RendererLaunchTime"},
         results' = results \/ results' = AddResults(K)
  PROVE  SampleCountsOf(results', ibmperf, groups, n)
<1>1. /\ results'["WorkingSet"] = results["WorkingSet"]
      /\ \A m \in AllMetrics : results'[m] = results[m]
  <2>1. CASE results' = results
    BY <2>1
  <2>2. CASE results' = AddResults(K)
    <3>1. "WorkingSet" \notin K /\ \A m \in AllMetrics : m \notin K
      BY MetricNotLogKey DEF LogKeys
    <3> QED
      BY <2>2, <3>1 DEF AddResults, ResultKeys, LogKeys
  <2> QED
    BY <2>1, <2>2
<1>2. ASSUME ibmperf, NEW j \in 1 .. Len(groups)
      PROVE  groups[j] \subseteq AllMetrics
  BY <1>2, GroupFacts, ElementOfSeq
<1>3. results'["WorkingSet"] = n
  BY <1>1 DEF SampleCounts, SampleCountsOf
<1>4. \A m \in AllMetrics :
        (~ibmperf \/ \A j \in 1 .. Len(groups) : m \notin groups[j]) => results'[m] = 0
  BY <1>1 DEF SampleCounts, SampleCountsOf
<1>5. ibmperf => \A m \in FreeMetrics : results'[m] = n
  BY <1>1, CounterAssumption DEF SampleCounts, SampleCountsOf
<1>6. ASSUME ibmperf, NEW j \in 1 .. Len(groups), NEW m \in groups[j] \ FreeMetrics
      PROVE  results'[m] = (n + Len(groups) - j) \div Len(groups)
  <2>1. m \in AllMetrics
    BY <1>2, <1>6
  <2>2. results[m] = (n + Len(groups) - j) \div Len(groups)
    BY <1>6 DEF SampleCounts, SampleCountsOf
  <2> QED
    BY <1>1, <2>1, <2>2
<1> QED
  BY <1>3, <1>4, <1>5, <1>6 DEF SampleCountsOf

(* No iteration has run when Run starts: every count is zero.              *)
LEMMA InitSamplesInv == Init => SamplesInv
<1> SUFFICES ASSUME Init PROVE SamplesInv
  OBVIOUS
<1>1. PrefetchInv
  BY InitPrefetchInv
<1>2. PlannedGroups
  BY DEF Init, PlannedGroups
<1>3. SampleCounts(0)
  <2>1. results["WorkingSet"] = 0 /\ \A m \in AllMetrics : results[m] = 0
    BY DEF Init, ResultKeys, LogKeys
  <2>2. ASSUME ibmperf, NEW j \in 1 .. Len(groups)
        PROVE  (0 + Len(groups) - j) \div Len(groups) = 0
    BY <1>2, <2>2, GroupFacts, CycleCount
  <2>3. ASSUME ibmperf, NEW j \in 1 .. Len(groups), NEW m \in groups[j] \ FreeMetrics
        PROVE  m \in AllMetrics
    BY <1>2, <2>3, GroupFacts, ElementOfSeq
  <2> QED
    BY <2>1, <2>2, <2>3, CounterAssumption DEF SampleCounts, SampleCountsOf
<1> QED
  BY <1>1, <1>2, <1>3 DEF Init, SamplesInv, IterationsMultiplied, RaisedAt,
     SampledGroup, CountsSoFar, SetUpPCs


(* Every step keeps the samples in step with the iterations done.          *)
LEMMA NextSamplesInv == SamplesInv /\ [Next]_vars => SamplesInv'
<1> SUFFICES ASSUME SamplesInv, [Next]_vars PROVE SamplesInv'
  OBVIOUS
<1>0. TypeOK /\ PlannedGroups /\ IterationsMultiplied /\ RaisedAt /\ SampledGroup
      /\ (exits = 0 => CountsSoFar) /\ i \in Nat /\ exits \in Nat
  BY DEF SamplesInv, PrefetchInv, TypeOK
<1>1. PrefetchInv'
  BY NextPrefetchInv DEF SamplesInv
<1>2. ibmperf' = ibmperf /\ groups' = groups
  BY DEF Next, Runner, Run, SetUpProfile, WaitTillChromeRunning, InitShutDown,
     SetUpBench, PreIteration, LaunchChrome, DoIteration, ShutDownChrome,
     PostIteration, RunExcept, ProcessResults, TearDown, ChromeReady,
     ChromeExit, vars
<1>3. PlannedGroups'
  BY <1>0, <1>2 DEF PlannedGroups
<1>4. SUFFICES /\ IterationsMultiplied' /\ RaisedAt' /\ SampledGroup'
               /\ (exits' = 0 => CountsSoFar')
  BY <1>1, <1>3 DEF SamplesInv
<1> USE DEF IterationsMultiplied, RaisedAt, SampledGroup, CountsSoFar,
           SetUpPCs, BeforeDoPCs
<1>5. CASE Run
  BY <1>0, <1>2, <1>5 DEF Run, SampleCounts
<1>6. CASE SetUpProfile
  <2>1. IterationsMultiplied'
    BY <1>0, <1>2, <1>6 DEF SetUpProfile
  <2>2. RaisedAt'
    BY <1>0, <1>6 DEF SetUpProfile
  <2>3. SampledGroup'
    BY <1>0, <1>2, <1>6 DEF SetUpProfile, GroupOf
  <2>4. exits' = 0 => CountsSoFar'
    BY <1>0, <1>2, <1>6 DEF SetUpProfile, SampleCounts
  <2> QED
    BY <2>1, <2>2, <2>3, <2>4
<1>7. CASE WaitTillChromeRunning
  <2>1. IterationsMultiplied'
    BY <1>0, <1>2, <1>7 DEF WaitTillChromeRunning
  <2>2. RaisedAt'
    BY <1>0, <1>7 DEF WaitTillChromeRunning
  <2>3. SampledGroup'
    BY <1>0, <1>2, <1>7 DEF WaitTillChromeRunning, GroupOf
  <2>4. exits' = 0 => CountsSoFar'
    BY <1>0, <1>2, <1>7 DEF WaitTillChromeRunning, SampleCounts
  <2> QED
    BY <2>1, <2>2, <2>3, <2>4
<1>8. CASE InitShutDown
  <2>1. IterationsMultiplied'
    BY <1>0, <1>2, <1>8 DEF InitShutDown
  <2>2. RaisedAt'
    BY <1>0, <1>8 DEF InitShutDown
  <2>3. SampledGroup'
    BY <1>0, <1>2, <1>8 DEF InitShutDown, GroupOf
  <2>4. exits' = 0 => CountsSoFar'
    BY <1>0, <1>2, <1>8 DEF InitShutDown, SampleCounts
  <2> QED
    BY <2>1, <2>2, <2>3, <2>4
<1>9. CASE SetUpBench
  <2>0. i = 0
    BY <1>9 DEF SetUpBench, SamplesInv, PrefetchInv
  <2>1. IterationsMultiplied'
    BY <1>0, <1>2, <1>9 DEF SetUpBench
  <2>2. RaisedAt' /\ SampledGroup'
    BY <1>0, <1>9 DEF SetUpBench
  <2>3. ASSUME exits' = 0 PROVE CountsSoFar'
    <3>1. SampleCounts(i) /\ exits = 0
      BY <1>0, <1>9, <2>3 DEF SetUpBench
    <3>2. CASE pc' = "Results"
      <4>1. iterations = 0 /\ iterations' = iterations
        BY <1>0, <1>9, <3>2 DEF SetUpBench, TypeOK
      <4> QED
        BY <1>2, <1>9, <2>0, <3>1, <3>2, <4>1 DEF SetUpBench, SampleCounts
    <3>3. CASE pc' # "Results"
      BY <1>2, <1>9, <3>1, <3>3 DEF SetUpBench, SampleCounts
    <3> QED
      BY <3>2, <3>3
  <2> QED
    BY <2>1, <2>2, <2>3
<1>10. CASE PreIteration
  <2>1. IterationsMultiplied'
    BY <1>0, <1>2, <1>10 DEF PreIteration, StartIbmPerf
  <2>2. RaisedAt'
    BY <1>0, <1>10 DEF PreIteration, StartIbmPerf
  <2>3. SampledGroup'
    BY <1>0, <1>2, <1>10 DEF PreIteration, StartIbmPerf, GroupOf
  <2>4. exits' = 0 => CountsSoFar'
    BY <1>0, <1>2, <1>10 DEF PreIteration, StartIbmPerf, SampleCounts
  <2> QED
    BY <2>1, <2>2, <2>3, <2>4
<1>11. CASE LaunchChrome
  <2>1. IterationsMultiplied'
    BY <1>0, <1>2, <1>11 DEF LaunchChrome
  <2>2. RaisedAt'
    BY <1>0, <1>11 DEF LaunchChrome
  <2>3. SampledGroup'
    BY <1>0, <1>2, <1>11 DEF LaunchChrome, GroupOf
  <2>4. exits' = 0 => CountsSoFar'
    BY <1>0, <1>2, <1>11 DEF LaunchChrome, SampleCounts
  <2> QED
    BY <2>1, <2>2, <2>3, <2>4
<1>12. CASE DoIteration
  <2>1. CASE raised' = FALSE /\ exits = 0
    <3>1. chrome = "Running" /\ (ibmperf => perf = GroupOf(i))
      BY <1>0, <1>12, <2>1 DEF DoIteration
    <3>2. results' = AddResults((IF ibmperf THEN GroupOf(i) ELSE {}) \cup {"WorkingSet"})
      BY <1>12, <2>1, <3>1 DEF DoIteration, IbmPerfKeys, WorkingSetKeys
    <3>3. SampleCounts(i)
      BY <1>0, <1>12, <2>1 DEF DoIteration
    <3>4. SampleCountsOf(results', ibmperf, groups, i + 1)
      BY <1>0, <3>2, <3>3, SampleStep
    <3> QED
      BY <1>0, <1>2, <1>12, <2>1, <3>4 DEF DoIteration, SampleCounts
  <2>2. CASE ~(raised' = FALSE /\ exits = 0)
    <3>1. raised' = TRUE \/ exits # 0
      BY <1>12, <2>2 DEF DoIteration
    <3> QED
      BY <1>0, <1>2, <1>12, <3>1 DEF DoIteration, GroupOf
  <2> QED
    BY <2>1, <2>2
<1>13. CASE ShutDownChrome
  <2>1. IterationsMultiplied'
    BY <1>0, <1>2, <1>13 DEF ShutDownChrome
  <2>2. RaisedAt'
    BY <1>0, <1>13 DEF ShutDownChrome
  <2>3. SampledGroup'
    BY <1>0, <1>2, <1>13 DEF ShutDownChrome, GroupOf
  <2>4. exits' = 0 => CountsSoFar'
    BY <1>0, <1>2, <1>13 DEF ShutDownChrome, SampleCounts
  <2> QED
    BY <2>1, <2>2, <2>3, <2>4
<1>14. CASE PostIteration
  <2>1. PICK failAt \in PostCalls : PostIterationSteps(TRUE, failAt)
                                     /\ raised' = (failAt # "none")
    BY <1>14 DEF PostIteration
  <2>2. PICK loops \in 0 .. 1, launches \in 0 .. 2 :
          PostIterationBody(TRUE, failAt, loops, launches)
    BY <2>1 DEF PostIterationSteps
  <2>3. CASE failAt # "none"
    BY <1>0, <1>14, <2>1, <2>3 DEF PostIteration
  <2>4. CASE failAt = "none" /\ exits = 0
    <3>1. SampleCounts(i + 1) /\ i + 1 <= iterations
      BY <1>0, <1>14, <2>4 DEF PostIteration, SamplesInv, PrefetchInv, TypeOK, IterPCs
    <3>2. ProcessLogsKeys(loops, launches)
            \in SUBSET {"MessageLoopStartTime", "RendererLaunchTime"}
      BY DEF ProcessLogsKeys
    <3>3. \/ results' = results
          \/ results' = AddResults(ProcessLogsKeys(loops, launches))
      BY <2>2 DEF PostIterationBody
    <3>4. SampleCountsOf(results', ibmperf, groups, i + 1)
      BY <1>0, <3>1, <3>2, <3>3, LogStep
    <3>5. CASE i + 1 < iterations
      BY <1>0, <1>2, <1>14, <2>1, <2>4, <3>4, <3>5 DEF PostIteration, SampleCounts
    <3>6. CASE ~(i + 1 < iterations)
      <4>1. i + 1 = iterations
        BY <3>1, <3>6 DEF SamplesInv, PrefetchInv, TypeOK
      <4> QED
        BY <1>0, <1>2, <1>14, <2>1, <2>4, <3>4, <3>6, <4>1 DEF PostIteration, SampleCounts
    <3> QED
      BY <3>5, <3>6
  <2>5. CASE failAt = "none" /\ exits # 0
    BY <1>0, <1>14, <2>1, <2>5 DEF PostIteration
  <2> QED
    BY <2>3, <2>4, <2>5
<1>15. CASE RunExcept
  BY <1>0, <1>15 DEF RunExcept
<1>16. CASE ProcessResults
  <2>1. IterationsMultiplied'
    BY <1>0, <1>2, <1>16 DEF ProcessResults
  <2>2. RaisedAt'
    BY <1>0, <1>16 DEF ProcessResults
  <2>3. SampledGroup'
    BY <1>0, <1>2, <1>16 DEF ProcessResults, GroupOf
  <2>4. exits' = 0 => CountsSoFar'
    BY <1>0, <1>2, <1>16 DEF ProcessResults, SampleCounts
  <2> QED
    BY <2>1, <2>2, <2>3, <2>4
<1>17. CASE TearDown
  <2>1. IterationsMultiplied'
    BY <1>0, <1>2, <1>17 DEF TearDown
  <2>2. RaisedAt'
    BY <1>0, <1>17 DEF TearDown
  <2>3. SampledGroup'
    BY <1>0, <1>2, <1>17 DEF TearDown, GroupOf
  <2>4. exits' = 0 => CountsSoFar'
    BY <1>0, <1>2, <1>17 DEF TearDown, SampleCounts
  <2> QED
    BY <2>1, <2>2, <2>3, <2>4
<1>18. CASE ChromeReady
  <2>1. IterationsMultiplied'
    BY <1>0, <1>2, <1>18 DEF ChromeReady
  <2>2. RaisedAt'
    BY <1>0, <1>18 DEF ChromeReady
  <2>3. SampledGroup'
    BY <1>0, <1>2, <1>18 DEF ChromeReady, GroupOf
  <2>4. exits' = 0 => CountsSoFar'
    BY <1>0, <1>2, <1>18 DEF ChromeReady, SampleCounts
  <2> QED
    BY <2>1, <2>2, <2>3, <2>4
<1>19. CASE ChromeExit
  <2>1. IterationsMultiplied'
    BY <1>0, <1>2, <1>19 DEF ChromeExit
  <2>2. RaisedAt'
    BY <1>0, <1>19 DEF ChromeExit
  <2>3. SampledGroup'
    BY <1>0, <1>2, <1>19 DEF ChromeExit, GroupOf
  <2>4. exits' = 0 => CountsSoFar'
    BY <1>0, <1>2, <1>19 DEF ChromeExit, SampleCounts
  <2> QED
    BY <2>1, <2>2, <2>3, <2>4
<1>20. CASE UNCHANGED vars
  BY <1>0, <1>20 DEF vars, SampleCounts, GroupOf
<1> QED
  BY <1>5, <1>6, <1>7, <1>8, <1>9, <1>10, <1>11, <1>12, <1>13, <1>14, <1>15,
     <1>16, <1>17, <1>18, <1>19, <1>20 DEF Next, Runner


(* A run that returned normally without Chrome exiting on its own has the  *)
(* samples SamplesComplete asks for, when the catalog splits into free and *)
(* non-free counters: a non-free counter of group j is sampled in the      *)
(* Iterations * len(groups) iterations exactly Iterations times.           *)
LEMMA SamplesInvComplete == CatalogSplit /\ SamplesInv => SamplesComplete
<1> SUFFICES ASSUME CatalogSplit, SamplesInv, Succeeded, exits = 0
             PROVE  /\ results["WorkingSet"] = iterations
                    /\ \A m \in AllMetrics :
                         results[m] = IF ~ibmperf \/ m \notin Metrics THEN 0
                                      ELSE IF m \in FreeMetrics THEN iterations
                                      ELSE Iterations
  BY DEF SamplesComplete
<1>1. SampleCountsOf(results, ibmperf, groups, iterations)
  BY DEF SamplesInv, CountsSoFar, Succeeded, SampleCounts
<1>2. PlannedGroups /\ iterations \in Nat
      /\ iterations = IF ibmperf THEN Iterations * Len(groups) ELSE Iterations
  BY DEF SamplesInv, IterationsMultiplied, Succeeded, PrefetchInv, TypeOK
<1>3. FreeMetrics \subseteq Metrics
  BY DEF Metrics, MetricsOf
<1>4. ASSUME NEW m \in AllMetrics
      PROVE  results[m] = IF ~ibmperf \/ m \notin Metrics THEN 0
                          ELSE IF m \in FreeMetrics THEN iterations
                          ELSE Iterations
  <2>1. CASE ~ibmperf
    BY <1>1, <2>1 DEF SampleCountsOf
  <2>2. CASE ibmperf /\ m \notin Metrics
    <3>1. \A j \in 1 .. Len(groups) : m \notin groups[j]
      BY <1>2, <2>2, GroupFacts
    <3> QED
      BY <1>1, <2>2, <3>1 DEF SampleCountsOf
  <2>3. CASE ibmperf /\ m \in FreeMetrics
    BY <1>1, <1>3, <2>3 DEF SampleCountsOf
  <2>4. CASE ibmperf /\ m \in Metrics /\ m \notin FreeMetrics
    <3>1. m \in Metrics \cap NonFreeMetrics
      BY <2>4 DEF CatalogSplit
    <3>2. PICK j \in 1 .. Len(groups) : m \in groups[j]
      BY <1>2, <2>4, <3>1, GroupFacts
    <3>3. Len(groups) \in Nat \ {0} /\ iterations = Iterations * Len(groups)
      BY <1>2, <2>4, GroupFacts
    <3>4. results[m] = (iterations + Len(groups) - j) \div Len(groups)
      BY <1>1, <2>4, <3>2 DEF SampleCountsOf
    <3>5. (Iterations * Len(groups) + Len(groups) - j) \div Len(groups) = Iterations
      BY <3>3, CycleCount, RunnerAssumption
    <3> QED
      BY <2>4, <3>3, <3>4, <3>5
  <2> QED
    BY <2>1, <2>2, <2>3, <2>4
<1> QED
  BY <1>1, <1>4 DEF SampleCountsOf

(* SamplesComplete of BenchmarkRunner.tla, checked by the runs, for every  *)
(* catalog, counter limit, request and iteration count: the iteration      *)
(* multiplier of BenchmarkRunner.Run and the cycling of groups in          *)
(* _StartIbmPerf give every requested non-free counter exactly Iterations  *)
(* samples and every free counter and the working set one per iteration,  *)
(* in a run that returns normally and in which Chrome never went away on   *)
(* its own.                                                                *)
THEOREM SamplesCompleteHolds == CatalogSplit => (Spec => []SamplesComplete)
<1> SUFFICES ASSUME CatalogSplit PROVE Spec => []SamplesComplete
  OBVIOUS
<1>1. Init => SamplesInv
  BY InitSamplesInv
<1>2. SamplesInv /\ [Next]_vars => SamplesInv'
  BY NextSamplesInv
<1>3. SamplesInv => SamplesComplete
  BY SamplesInvComplete
<1>4. QED
  BY <1>1, <1>2, <1>3, PTL DEF Spec

=============================================================================
