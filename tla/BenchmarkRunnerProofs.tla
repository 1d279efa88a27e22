----------------------- MODULE BenchmarkRunnerProofs -----------------------
(***************************************************************************)
(* Proofs about BenchmarkRunner.tla for every value of the constants: the  *)
(* type invariant, and that _TearDown runs exactly once on every way out   *)
(* of Run once _SetUp has returned.                                        *)
(***************************************************************************)
EXTENDS BenchmarkRunner, CounterPlanProofs

(***************************************************************************)
(* Type correctness.                                                       *)
(***************************************************************************)

(* The constructor's state is well typed: in particular the groups it     *)
(* plans form a non-empty list whenever counters are sampled.              *)
LEMMA InitTypeOK == Init => TypeOK
<1> SUFFICES ASSUME Init PROVE TypeOK
  OBVIOUS
<1>1. ibmperf => groups \in Seq(SUBSET AllMetrics) /\ Len(groups) >= 1
  <2> SUFFICES ASSUME ibmperf
               PROVE  groups \in Seq(SUBSET AllMetrics) /\ Len(groups) >= 1
    OBVIOUS
  <2>1. PICK o \in Orders(Metrics \cap NonFreeMetrics) : groups = GroupsOf(o)
    BY DEF Init
  <2>2. o \in Seq(AllMetrics)
    <3>1. Metrics \cap NonFreeMetrics \in SUBSET AllMetrics
      BY CounterAssumption
    <3>. QED
      BY <3>1, <2>1, OrdersType
  <2>. QED
    BY <2>1, <2>2, GroupsOfType
<1>2. ~ibmperf => groups \in Seq(SUBSET AllMetrics)
  BY EmptySeq DEF Init
<1>3. results \in [ResultKeys -> Nat]
  BY DEF Init
<1>4. profileDir \in BOOLEAN
  BY RunnerAssumption DEF Init
<1>5. ibmperf \in BOOLEAN /\ prefetch \in PrefetchModes /\ polls = 0
  BY Zenon DEF Init
<1>6. pc = "Run" /\ i = 0 /\ iterations = 0 /\ raised = FALSE
      /\ chrome \in {"None", "Running"} /\ etw = FALSE /\ perf = {}
      /\ preload \in PreloadValues /\ oldPreload = preload
      /\ tempDir = FALSE /\ prefetchDeletes = 0 /\ stops = {}
      /\ preload0 = preload /\ setUp = FALSE /\ tearDowns = 0 /\ exits = 0
  BY Zenon DEF Init
<1>7. /\ groups \in Seq(SUBSET AllMetrics)
      /\ ibmperf => Len(groups) >= 1
      /\ prefetch \in Prefetch
      /\ polls \in 0 .. WaitPolls
  BY <1>1, <1>2, <1>5, RunnerAssumption
<1>. QED
  BY <1>3, <1>4, <1>5, <1>6, <1>7 DEF TypeOK, PCs

(* The helpers of the iteration hooks keep their variables in type.        *)
LEMMA AddResultsType ==
  ASSUME TypeOK, NEW ks
  PROVE  AddResults(ks) \in [ResultKeys -> Nat]
BY DEF TypeOK, AddResults

(* Every step of the runner thread or of Chrome keeps the state in type.   *)
LEMMA NextTypeOK == TypeOK /\ [Next]_vars => TypeOK'
<1> SUFFICES ASSUME TypeOK, [Next]_vars PROVE TypeOK'
  OBVIOUS
<1>0. ibmperf => GroupOf(i) \in SUBSET AllMetrics
  BY GroupOfType DEF TypeOK, GroupOf
<1>1. CASE Run /\ stops' = {}
  BY <1>1, RunnerAssumption DEF Run, TypeOK, PCs
<1>2. CASE SetUpProfile /\ stops' = {}
  <2>1. CASE pc' = "Done"
    BY <1>2, <2>1 DEF SetUpProfile, TypeOK, PCs
  <2>2. CASE /\ chrome' = "Starting" /\ profileDir' = FALSE /\ polls' = 0
             /\ pc' = "InitWait" /\ UNCHANGED raised
    <3>1. polls' \in 0 .. WaitPolls
      BY <2>2, RunnerAssumption
    <3>. QED
      BY <1>2, <2>2, <3>1 DEF SetUpProfile, TypeOK, PCs
  <2>3. CASE pc' = "SetUpBench"
    BY <1>2, <2>3 DEF SetUpProfile, TypeOK, PCs
  <2>. QED
    BY <1>2, <2>1, <2>2, <2>3, Zenon DEF SetUpProfile
<1>3. CASE WaitTillChromeRunning /\ stops' = {}
  <2>1. CASE polls < WaitPolls /\ polls' = polls + 1 /\ UNCHANGED <<pc, raised>>
    BY <1>3, <2>1, RunnerAssumption DEF WaitTillChromeRunning, TypeOK, PCs
  <2>2. CASE polls' = polls
    BY <1>3, <2>2 DEF WaitTillChromeRunning, TypeOK, PCs
  <2>. QED
    BY <1>3, <2>1, <2>2, Zenon DEF WaitTillChromeRunning
<1>4. CASE InitShutDown /\ stops' = {}
  BY <1>4 DEF InitShutDown, TypeOK, PCs
<1>5. CASE SetUpBench /\ stops' = {}
  BY <1>5, RunnerAssumption DEF SetUpBench, TypeOK, PCs
<1>6. CASE PreIteration /\ stops' = {}
  BY <1>6, <1>0 DEF PreIteration, StartLoggingEtw, StartIbmPerf,
                    DeletePrefetch, TypeOK, PCs
<1>7. CASE LaunchChrome /\ stops' = {}
  <2>1. CASE pc' = "Except"
    BY <1>7, <2>1 DEF LaunchChrome, TypeOK, PCs
  <2>2. CASE pc' = "Wait"
    BY <1>7, <2>2, RunnerAssumption DEF LaunchChrome, TypeOK, PCs
  <2>. QED
    BY <1>7, <2>1, <2>2 DEF LaunchChrome
<1>8. CASE DoIteration /\ stops' = {}
  BY <1>8, AddResultsType DEF DoIteration, TypeOK, PCs
<1>9. CASE ShutDownChrome /\ stops' = {}
  BY <1>9 DEF ShutDownChrome, TypeOK, PCs
<1>10. CASE PostIteration
  <2>1. PICK failAt \in PostCalls : PostIterationSteps(TRUE, failAt)
                                     /\ raised' = (failAt # "none")
    BY <1>10 DEF PostIteration
  <2>2. PICK loops \in 0 .. 1, launches \in 0 .. 2 :
          PostIterationBody(TRUE, failAt, loops, launches)
    BY <2>1 DEF PostIterationSteps
  <2>. QED
    BY <1>10, <2>2, AddResultsType
    DEF PostIteration, PostIterationBody, StopIbmPerf, StopLoggingEtw,
        DeletePrefetch, TypeOK, PCs
<1>11. CASE RunExcept
  <2>1. CASE iterations = 0
    BY <1>11, <2>1 DEF RunExcept, TypeOK, PCs
  <2>2. CASE iterations > 0
    <3>1. PICK failAt \in PostCalls : PostIterationSteps(FALSE, failAt)
      <4>1. iterations # 0
        BY <2>2 DEF TypeOK
      <4>. QED
        BY <1>11, <4>1, Zenon DEF RunExcept
    <3>2. PICK loops \in 0 .. 1, launches \in 0 .. 2 :
            PostIterationBody(FALSE, failAt, loops, launches)
      BY <3>1 DEF PostIterationSteps
    <3>. QED
      BY <1>11, <3>2, AddResultsType
      DEF RunExcept, PostIterationBody, StopIbmPerf, StopLoggingEtw,
          DeletePrefetch, TypeOK, PCs
  <2>. QED
    BY <2>1, <2>2 DEF TypeOK
<1>12. CASE ProcessResults /\ stops' = {}
  BY <1>12 DEF ProcessResults, TypeOK, PCs
<1>13. CASE TearDown /\ stops' = {}
  <2>1. CASE raised' = TRUE /\ UNCHANGED <<preload, tempDir, profileDir>>
    BY <1>13, <2>1 DEF TearDown, TypeOK, PCs
  <2>2. CASE /\ preload' = oldPreload
             /\ tempDir' = (tempDir /\ KeepTempDirs)
             /\ profileDir' = (profileDir /\ ~ProfileIsTemp)
             /\ UNCHANGED raised
    BY <1>13, <2>2, RunnerAssumption DEF TearDown, TypeOK, PCs
  <2>. QED
    BY <1>13, <2>1, <2>2, Zenon DEF TearDown
<1>14. CASE ChromeReady /\ stops' = {}
  BY <1>14 DEF ChromeReady, TypeOK
<1>15. CASE ChromeExit /\ stops' = {}
  BY <1>15 DEF ChromeExit, TypeOK
<1>16. CASE UNCHANGED vars
  BY <1>16 DEF vars, TypeOK
<1>. QED
  BY <1>1, <1>2, <1>3, <1>4, <1>5, <1>6, <1>7, <1>8, <1>9, <1>10, <1>11,
     <1>12, <1>13, <1>14, <1>15, <1>16 DEF Next, Runner

(* TypeOK of BenchmarkRunner.tla, checked by the runs, holds in every      *)
(* reachable state of ChromeRunner.Run for all constants: the pc is one of *)
(* the code's control points, the wait never sleeps more than its bound,  *)
(* and the counters sampled are always a group of the plan.                *)
THEOREM TypeCorrect == Spec => []TypeOK
BY InitTypeOK, NextTypeOK, PTL DEF Spec

(***************************************************************************)
(* _TearDown runs exactly once once _SetUp has returned.                   *)
(***************************************************************************)

(* The control points before the try of ChromeRunner.Run (in _SetUp) and  *)
(* inside its try, except or finally.                                      *)
SetUpPCs == {"Run", "SetUp", "InitWait", "InitShutDown", "SetUpBench"}
TryPCs == PCs \ (SetUpPCs \cup {"Done"})

(* The strengthening of TearDownOnce: _SetUp has returned exactly when the *)
(* thread is past it, and _TearDown has run only once Run has left its     *)
(* finally, which it reaches only from inside the try.                     *)
TearDownInv ==
  /\ TypeOK
  /\ pc \in SetUpPCs => ~setUp /\ tearDowns = 0
  /\ pc \in TryPCs => setUp /\ tearDowns = 0
  /\ pc = "Done" => tearDowns = IF setUp THEN 1 ELSE 0

LEMMA InitTearDownInv == Init => TearDownInv
BY InitTypeOK DEF Init, TearDownInv, SetUpPCs, TryPCs

(* Every step keeps the control point and the two history variables in    *)
(* step: _SetUp returns only into the try, _TearDown runs only from it.   *)
LEMMA NextTearDownInv == TearDownInv /\ [Next]_vars => TearDownInv'
<1> SUFFICES ASSUME TearDownInv, [Next]_vars PROVE TearDownInv'
  OBVIOUS
<1> USE DEF TearDownInv, SetUpPCs, TryPCs, PCs
<1>1. TypeOK'
  BY NextTypeOK
<1>2. CASE Run
  BY <1>1, <1>2 DEF Run
<1>3. CASE SetUpProfile
  BY <1>1, <1>3 DEF SetUpProfile
<1>4. CASE WaitTillChromeRunning
  BY <1>1, <1>4 DEF WaitTillChromeRunning
<1>5. CASE InitShutDown
  BY <1>1, <1>5 DEF InitShutDown
<1>6. CASE SetUpBench
  BY <1>1, <1>6 DEF SetUpBench
<1>7. CASE PreIteration
  BY <1>1, <1>7 DEF PreIteration
<1>8. CASE LaunchChrome
  BY <1>1, <1>8 DEF LaunchChrome
<1>9. CASE DoIteration
  BY <1>1, <1>9 DEF DoIteration
<1>10. CASE ShutDownChrome
  BY <1>1, <1>10 DEF ShutDownChrome
<1>11. CASE PostIteration
  BY <1>1, <1>11 DEF PostIteration
<1>12. CASE RunExcept
  BY <1>1, <1>12 DEF RunExcept
<1>13. CASE ProcessResults
  BY <1>1, <1>13 DEF ProcessResults
<1>14. CASE TearDown
  BY <1>1, <1>14 DEF TearDown
<1>15. CASE ChromeReady \/ ChromeExit
  BY <1>1, <1>15 DEF ChromeReady, ChromeExit
<1>16. CASE UNCHANGED vars
  BY <1>1, <1>16 DEF vars
<1>. QED
  BY <1>2, <1>3, <1>4, <1>5, <1>6, <1>7, <1>8, <1>9, <1>10, <1>11, <1>12,
     <1>13, <1>14, <1>15, <1>16 DEF Next, Runner

(* TearDownOnce of BenchmarkRunner.tla, checked by the runs, for all      *)
(* constants: on every way out of ChromeRunner.Run after _SetUp returned   *)
(* (all iterations done, an iteration, _PostIteration or the report        *)
(* failed, the except handler itself raised) _TearDown has run exactly     *)
(* once, and it never runs twice.                                          *)
THEOREM TearDownOnceHolds == Spec => []TearDownOnce
<1>1. TearDownInv => TearDownOnce
  BY DEF TearDownInv, TearDownOnce, SetUpPCs, TryPCs, TypeOK, PCs
<1>. QED
  BY <1>1, InitTearDownInv, NextTearDownInv, PTL DEF Spec

-----------------------------------------------------------------------------
(***************************************************************************)
(* The prefetch policy: how often _DeletePrefetch runs in a successful run.*)
(***************************************************************************)

(* The calls of _DeletePrefetch the policy makes in n whole iterations:    *)
(* DISABLED deletes before and after each, RESET_PRIOR_TO_FIRST_LAUNCH     *)
(* before the first only, ENABLED never.                                   *)
ExpectedDeletes(n) ==
  CASE prefetch = "DISABLED" -> 2 * n
    [] prefetch = "RESET_PRIOR_TO_FIRST_LAUNCH" -> IF n > 0 THEN 1 ELSE 0
    [] OTHER -> 0

(* The call _PreIteration(n) makes before iteration n starts.              *)
DeletesBefore(n) == IF DeletesPrefetchBefore(n) THEN 1 ELSE 0

(* Inside an iteration, between _PreIteration and _PostIteration.          *)
IterPCs == {"Launch", "Wait", "Do", "ShutDown", "Post"}

(* The strengthening of PrefetchPolicy: before iteration i the whole       *)
(* iterations 0 .. i-1 have made their deletions, inside it the deletion   *)
(* before it too, and once the loop has ended all iterations have, unless *)
(* an exception is propagating.                                            *)
PrefetchInv ==
  /\ TypeOK
  /\ pc \in SetUpPCs => i = 0
  /\ pc \in SetUpPCs \cup {"Pre"} => prefetchDeletes = ExpectedDeletes(i)
  /\ pc \in {"Pre"} \cup IterPCs => i < iterations
  /\ pc \in IterPCs => prefetchDeletes = ExpectedDeletes(i) + DeletesBefore(i)
  /\ pc = "Results" => prefetchDeletes = ExpectedDeletes(iterations)
  /\ pc \in {"TearDown", "Done"} /\ ~raised =>
       prefetchDeletes = ExpectedDeletes(iterations)

(* One whole iteration adds the deletion before it and, under DISABLED,   *)
(* the one after it.                                                       *)
LEMMA ExpectedDeletesStep ==
  ASSUME NEW n \in Nat, prefetch \in Prefetch
  PROVE  /\ ExpectedDeletes(0) = 0
         /\ ExpectedDeletes(n) + DeletesBefore(n)
              + (IF prefetch = "DISABLED" THEN 1 ELSE 0)
              = ExpectedDeletes(n + 1)
<1>1. CASE prefetch = "DISABLED"
  BY <1>1 DEF ExpectedDeletes, DeletesBefore, DeletesPrefetchBefore
<1>2. CASE prefetch = "RESET_PRIOR_TO_FIRST_LAUNCH"
  BY <1>2 DEF ExpectedDeletes, DeletesBefore, DeletesPrefetchBefore
<1>3. CASE prefetch = "ENABLED"
  BY <1>3 DEF ExpectedDeletes, DeletesBefore, DeletesPrefetchBefore
<1>4. QED
  BY <1>1, <1>2, <1>3 DEF Prefetch

LEMMA InitPrefetchInv == Init => PrefetchInv
BY InitTypeOK, ExpectedDeletesStep DEF Init, PrefetchInv, SetUpPCs, IterPCs,
   TypeOK

(* Every step keeps the count of deletions in step with the iterations    *)
(* done: the loop calls _PreIteration before and _PostIteration after each *)
(* iteration, and a raise leaves the count unconstrained.                  *)
LEMMA NextPrefetchInv == PrefetchInv /\ [Next]_vars => PrefetchInv'
<1> SUFFICES ASSUME PrefetchInv, [Next]_vars PROVE PrefetchInv'
  OBVIOUS
<1> USE DEF PrefetchInv, SetUpPCs, IterPCs, ExpectedDeletes, DeletesBefore,
           DeletesPrefetchBefore
<1>1. TypeOK'
  BY NextTypeOK
<1>2. CASE Run
  BY <1>1, <1>2 DEF Run
<1>3. CASE SetUpProfile
  BY <1>1, <1>3 DEF SetUpProfile
<1>4. CASE WaitTillChromeRunning
  BY <1>1, <1>4 DEF WaitTillChromeRunning
<1>5. CASE InitShutDown
  BY <1>1, <1>5 DEF InitShutDown
<1>6. CASE SetUpBench
  <2>1. i = 0 /\ prefetchDeletes = ExpectedDeletes(0)
    BY <1>6 DEF SetUpBench
  <2>2. iterations \in Nat /\ prefetch \in Prefetch
    BY DEF TypeOK
  <2>3. CASE iterations = 0
    BY <1>1, <1>6, <2>1, <2>3 DEF SetUpBench
  <2>4. CASE iterations > 0
    BY <1>1, <1>6, <2>1, <2>4 DEF SetUpBench
  <2> QED
    BY <2>2, <2>3, <2>4
<1>7. CASE PreIteration
  <2>1. PICK failAt \in {"EtwStart", "DeletePrefetch", "PerfStart", "none"} :
          /\ DeletePrefetch(failAt \in {"PerfStart", "none"}
                            /\ DeletesPrefetchBefore(i))
          /\ raised' = (failAt # "none")
          /\ pc' = IF failAt = "none" THEN "Launch" ELSE "Except"
    BY <1>7 DEF PreIteration
  <2>2. CASE failAt = "none"
    <3>0. DeletePrefetch(DeletesPrefetchBefore(i))
      BY <2>1, <2>2, Zenon
    <3>1. prefetchDeletes' = prefetchDeletes + DeletesBefore(i)
      BY <3>0 DEF DeletePrefetch, TypeOK
    <3> QED
      BY <1>1, <1>7, <2>1, <2>2, <3>1 DEF PreIteration
  <2>3. CASE failAt # "none"
    BY <1>1, <1>7, <2>1, <2>3 DEF PreIteration
  <2> QED
    BY <2>2, <2>3
<1>8. CASE LaunchChrome
  BY <1>1, <1>8 DEF LaunchChrome
<1>9. CASE DoIteration
  BY <1>1, <1>9 DEF DoIteration
<1>10. CASE ShutDownChrome
  BY <1>1, <1>10 DEF ShutDownChrome
<1>11. CASE PostIteration
  <2>1. PICK failAt \in PostCalls : PostIterationSteps(TRUE, failAt)
                                     /\ raised' = (failAt # "none")
    BY <1>11 DEF PostIteration
  <2>2. PICK loops \in 0 .. 1, launches \in 0 .. 2 :
          PostIterationBody(TRUE, failAt, loops, launches)
    BY <2>1 DEF PostIterationSteps
  <2>3. CASE failAt # "none"
    BY <1>1, <1>11, <2>1, <2>3 DEF PostIteration
  <2>4. CASE failAt = "none"
    <3>0. DeletePrefetch(prefetch = "DISABLED")
      BY <2>2, <2>4, Zenon DEF PostIterationBody
    <3>1. prefetchDeletes' =
            prefetchDeletes + (IF prefetch = "DISABLED" THEN 1 ELSE 0)
      BY <3>0 DEF DeletePrefetch, TypeOK
    <3>2. i \in Nat /\ prefetch \in Prefetch /\ i < iterations
          /\ prefetchDeletes = ExpectedDeletes(i) + DeletesBefore(i)
      BY <1>11 DEF PostIteration, TypeOK
    <3>3. prefetchDeletes' = ExpectedDeletes(i + 1)
      BY <3>1, <3>2, ExpectedDeletesStep
    <3>4. CASE i + 1 < iterations
      BY <1>1, <1>11, <2>1, <2>4, <3>3, <3>4 DEF PostIteration
    <3>5. CASE ~(i + 1 < iterations)
      <4>1. i + 1 = iterations
        BY <3>2, <3>5 DEF TypeOK
      <4> QED
        BY <1>1, <1>11, <2>1, <2>4, <3>3, <3>5, <4>1 DEF PostIteration
    <3> QED
      BY <3>4, <3>5
  <2> QED
    BY <2>3, <2>4
<1>12. CASE RunExcept
  BY <1>1, <1>12 DEF RunExcept
<1>13. CASE ProcessResults
  BY <1>1, <1>13 DEF ProcessResults
<1>14. CASE TearDown
  BY <1>1, <1>14 DEF TearDown
<1>15. CASE ChromeReady \/ ChromeExit
  BY <1>1, <1>15 DEF ChromeReady, ChromeExit
<1>16. CASE UNCHANGED vars
  BY <1>1, <1>16 DEF vars
<1>. QED
  BY <1>2, <1>3, <1>4, <1>5, <1>6, <1>7, <1>8, <1>9, <1>10, <1>11, <1>12,
     <1>13, <1>14, <1>15, <1>16 DEF Next, Runner

(* PrefetchPolicy of BenchmarkRunner.tla, checked by the runs, for all     *)
(* constants: a run of ChromeRunner.Run that returns normally has called   *)
(* _DeletePrefetch twice per iteration under DISABLED (in _PreIteration    *)
(* and in _PostIteration), once in all under RESET_PRIOR_TO_FIRST_LAUNCH   *)
(* (before iteration 0), and never under ENABLED.                          *)
THEOREM PrefetchPolicyHolds == Spec => []PrefetchPolicy
<1>1. PrefetchInv => PrefetchPolicy
  BY DEF PrefetchInv, PrefetchPolicy, Succeeded, ExpectedDeletes
<1>. QED
  BY <1>1, InitPrefetchInv, NextPrefetchInv, PTL DEF Spec

=============================================================================
