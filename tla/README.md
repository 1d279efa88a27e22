# TLA+ models of the Syzygy benchmark runner

This directory holds TLA+ models of the benchmark harness in
`src/syzygy/scripts/benchmark/runner.py`, TLC configurations that check them, and
TLAPS proofs about them. The harness launches Chrome over and over, drives each
launch through a fixed lifecycle, and collects ETW trace timings,
hardware-counter samples and working-set statistics.

## 1. The system (inventory)

| Part | Source | What it does | Status |
|---|---|---|---|
| Counter group planner | `runner.py` `_SetupIbmPerf` (591-625) | Picks the metric set. Slices the non-free metrics by `max_counters` and adds the free metrics to every slice. | modelled (`CounterPlan`, `CounterGroups`) |
| Iteration state machine | `runner.py` `ChromeRunner.Run`, `_SetUp`, `_RunOneIteration`, `_InitializeProfileDir`, `_WaitTillChromeRunning`, `_TearDown` (257-392) | Runs `_PreIteration`, launch, wait, `_DoIteration`, ShutDown and `_PostIteration`. Cleans up on failure. | modelled (`BenchmarkRunner`) |
| Benchmark runner hooks | `runner.py` `BenchmarkRunner` (407-704) | Multiplies the iterations. Saves and restores the preload setting. Owns the temp dir. Starts and stops ETW and the counters, applies the prefetch policy and collects results. | modelled (`BenchmarkRunner`) |
| Metric sink | `runner.py` `_AddResult`, `_ProcessResults` (570-589) | Appends samples per key and prints the report. | partly: samples per key are counted; the report text is not modelled |
| RPC call-trace service handle | `runner.py` `StartLoggingRpc`/`StopLoggingRpc`/`_DumpCallTraceLog` (181-255), `profile.py` | Starts the service, polls it 5 times, then stops it with a command and dumps its log. | modelled (`ProfileRunner`, abstract contract `ServiceHandle`); `ChromeFrameProfileRunner` not modelled, see §6 |
| Instrumentation driver | `instrument.py` | Calls the instrumenter once per file. | not modelled: sequential, no state |
| Test harness | `py/test_utils/testing.py`, `tests/run_all_tests.py`, `tests/build_all.py` | Runs tests and skips a test whose executable is older than its success file. | partly (`TestHarness`): one configuration; output and AppVerifier logs abstracted to a verdict |
| Trace generation | `test_data/generate_traces.py` | Starts the service, sleeps 1 s, runs the binaries, stops the service and counts trace files. | not modelled yet (planned) |
| Dashboard | `dashboard/main.py`, `dashboard/handler/product.py`, `dashboard/handler/datum.py`, `dashboard/model/*.py` | App Engine handlers over a datastore of products, clients, metrics and data. | partly (`Dashboard`): the client and metric handlers and the product and datum models are not in the repository |
| ETW descriptors | `etw/descriptors/event.py` | Decodes event records. | not modelled: an opaque decoder; only the event counts it yields are modelled |
| Build utilities | `tools/run_all_tests.py`, `build/*.py` | Wrap compiler and doxygen exit codes. | not modelled: out of scope |

### How the parts interact

A single Python thread runs `BenchmarkRunner.Run`. It talks to several external
parties through blocking calls:

- the Chrome process, which becomes ready or exits on its own schedule;
- the ETW control executable;
- the hardware-counter service;
- the OS preload setting, the prefetch files, and the temp and profile directories.

Every such call may raise. Where control goes after a raise is fixed by
Python's `try/except/finally` structure:

- `_SetUp` is called before the `try` of `Run`.
- In `_RunOneIteration`, the wait for Chrome comes before the `try/finally` that shuts Chrome down.
- The `except` of `Run` calls `_PostIteration(i, False)` and re-raises.
- The `finally` of `Run` calls `_TearDown`.

### Hazards

The hazards are listed in `PROJECT.json`, each at its source line. They are:

- the wait timeout raising before the shutdown `try`;
- a stop command for a service that was never started;
- a second `_PostIteration` after the first one raised;
- the `NameError` on `i` when there are zero iterations;
- `_SetUp` running outside the `try`;
- a raise in `_TearDown` skipping the deletion of the temp dir;
- Chrome exiting between readiness and sampling, which loses the iteration's samples without an error (modelled; no checked property states it, and `SamplesComplete` is stated only for runs where Chrome never exits on its own);
- grouping that depends on set iteration order;
- a group size above the counter limit;
- group cycling with `%`;
- the prefetch policy;
- the RPC service dying after its five liveness polls, a stop failing before its log is dumped, and `wait()` blocking on the service;
- `zip(None)` in `_CaptureWorkingSetMetrics`;
- the one-second sleep in `generate_traces`;
- the strict `>` between modification times in `_NeedToRun`, and `Test.Run` refreshing the success file;
- `os.listdir` order of a suite's children, and a failing child among passing ones;
- the dashboard's routes, which never give `ProductHandler.post` an empty product id;
- two dashboard requests interleaving their datastore calls (a GET reading data while a POST puts), and a product deleted between the lookups of one request;
- `ProductHandler.delete` removing the product but not its clients, metrics and data.

## 2. Modules

- **`CounterPlan.tla`**: the counter catalog as constants (`AllMetrics`, `FreeMetrics`,
  `NonFreeMetrics`, `MaxCounters`) and the operators of `_SetupIbmPerf`:
  - `MetricsOf`: use every metric when the request is empty, then add the free metrics.
  - `Orders`: `list(set)` may come out in any order, so every bijection `1..n -> S` is allowed.
  - `NumChunks` and `Chunk`: `nonfree[i:i+max_counters]` over `range(0, n, max_counters)`.
  - `GroupsOf`.
  - No recursion, so TLAPS can reason about it.
- **`CounterGroups.tla`**: the planner as a one-step system. `Init` chooses the constructor's
  arguments and `SetupIbmPerf` runs `_SetupIbmPerf` once.
- **`BenchmarkRunner.tla`**: one call of `BenchmarkRunner.Run`.
  - `pc` is the runner thread's control point.
  - Each action is one code step with everything it calls:
    - `Run`: the iteration multiplier.
    - `SetUpProfile`, `WaitTillChromeRunning` (shared by `_InitializeProfileDir` and `_RunOneIteration`), `InitShutDown`: `ChromeRunner._SetUp`.
    - `SetUpBench`: the rest of `BenchmarkRunner._SetUp`.
    - `PreIteration`, `LaunchChrome`, `DoIteration`.
    - `ShutDownChrome`: the `finally` of `_RunOneIteration`.
    - `PostIteration`: `_PostIteration(i, True)` and the loop step.
    - `RunExcept`: the `except` of `Run`.
    - `ProcessResults`, `TearDown`.
  - Helpers model the external calls they make: `StartLoggingEtw`, `StartIbmPerf`, `DeletePrefetch`, `StopIbmPerf`, `StopLoggingEtw`, `IbmPerfKeys`, `WorkingSetKeys`, `ProcessLogsKeys`.
  - The raising call is chosen with `\E failAt` among the calls of the hook. The calls before it take effect and the ones after it do not.
  - A call named in the constant `MayFail` may raise.
  - `ChromeReady` and `ChromeExit` are Chrome's own steps.
  - History variables (`preload0`, `setUp`, `tearDowns`, `exits`, and `stops`, the stop commands of the last step) exist only for the properties.
  - Results are counted as samples per key. The values, names and report text are formatting and are left out.
- **`MCCounterGroups.tla`, `MCBenchmarkRunner.tla`**: model values for the catalog and the preload values, and the `MayFail` sets of the runs.
- **`CounterPlanProofs.tla`**: lemmas about the planner's operators (`Chunk`, `GroupsOf`, `Orders`), shared by the two proof modules below (§5).
- **`CounterGroupsProofs.tla`**: the TLAPS proofs of `GroupsPartition` and `GroupsMinimal` (§5).
- **`BenchmarkRunnerProofs.tla`**: the TLAPS proofs for the runner (§5).
- **`BenchmarkSamplesProofs.tla`**: the TLAPS proof of the runner's `SamplesComplete` (§5).

- **`ServiceHandle.tla`**: what a service handle promises (spec §4.2), abstractly.
  - `hstate` is `Idle`, `Checking`, `Started` or `Released`, and `logShown` counts the surfaced logs.
  - Its actions are `Start`, `Confirm`, `StartFail` (log surfaced, handle released) and `Stop` (log surfaced, handle released).
- **`ProfileRunner.tla`**: one `ChromeProfileRunner.Run` from `profile.py`: `ChromeRunner.Run` with the RPC hooks.
  - Runner variables: `pc` and `i`, `polls` (the liveness loop counter), and `raised` (an exception is propagating).
  - Handle variables: `handle` (`_call_trace_service`), `logFile` and `logPath` (the temp log file), and `dumps` (`_DumpCallTraceLog` calls).
  - Service variables: `svc` (`None`, `Running`, `Stopping`, `Exited`) and `status` (the exit code).
  - The runner's actions:
    - `SetUpChrome`: `ChromeRunner._SetUp`.
    - `StartService`: `mkstemp`, `open` and `Popen`.
    - `PollService`: one round of the 5-poll loop, which dumps and raises if the service has exited.
    - `Iteration` and `RunExcept`.
    - `ProcessResults`: `_ProcessResults`, which calls `StopLoggingRpc` first.
    - `StopCommand`: the stop command and its status check.
    - `WaitService`: `wait`, then the dump.
  - The service's own steps are `ServiceCrash` (it dies while running) and `ServiceShutDown` (it exits, with a status, after the stop command).
  - Chrome is abstracted to an iteration that succeeds or raises. `BenchmarkRunner` models the Chrome lifecycle in detail.
  - `HState` maps the runner onto `ServiceHandle`, and `HandleImplemented` is `ServiceHandle`'s spec under that mapping.
- **`TestHarness.tla`**: `testing.py`'s `Test.Run` for the suite built by `run_all_tests.py`, in one configuration.
  - Developer's world:
    - `clock`: the file-system time.
    - `lastWrite`: the last write time.
    - `src`: the source versions.
    - `exeVer` and `exeTime`: the built executable and its mtime.
    - `verdict`: whether a test passes on a given version.
  - Success files:
    - `stamp`: each success file's mtime. It is 0 while the file is absent.
    - `passedVer`: the version each test last passed on. This is a history variable.
  - Run state: `pc`, `order` (the `os.listdir` order of the children, any bijection), `k`, `force` and `suiteOk`.
  - `StartRun`: `Test.Run` up to `_Run`, which may skip. A suite with no children goes straight to its success file, as the empty loop of `TestSuite._Run` does.
  - `RunChild`: one child of `TestSuite._Run`.
    - `RunBuildAll`: a build that may rebuild only part of what is stale, and fails then.
    - `RunExecutable`: runs the test and writes its success file if it passes.
  - `FinishRun`: the suite's success file.
  - `Edit`, `ExternalBuild` and `Tick` are the developer's steps between runs.
  - `FineClock = FALSE` would let a rebuild share the timestamp of the success file before it. Every run sets `FineClock = TRUE`; the proof assumes it.
- **`ProfileRunnerProofs.tla`**: the TLAPS proofs for `ProfileRunner` (§5).
- **`TestHarnessProofs.tla`**: the TLAPS proofs of `TypeOK` and `StampSound` (§5).
- **`Dashboard.tla`**: the App Engine dashboard, with concurrent request workers.
  - Datastore: `products`, `clients` (key paths `<<p, c>>`), `metrics` (`<<p, c, m>>`), `data` (records of an id and a metric path) and `nextId`, the id the datastore allocates next.
  - Workers: `wpc[w]` is the handler step worker `w` is at, `wreq[w]` its request, `wstatus[w]` its response status and `wseen[w]` the ids its GET answered with.
  - A request is its method, its URL path as a sequence of segments, the `product_id` of a POST body, and whether a datum's parameters parse.
  - `Route` and `FirstStep` are the routes of `main.py`. `Receive` hands a worker a request.
  - Each datastore call of a handler is one action, so two requests interleave call by call:
    - `ProductGet` then `ProductClients` (`ProductHandler.get`);
    - `ProductPost`, one step (see below);
    - `ProductDelete` then `ProductDeleteEntity`;
    - `DatumGetLookup` (three lookups) then `DatumGetQuery` (`DatumHandler.get`);
    - `DatumPost`, `DatumPostLookup` (three lookups) and `DatumPut` (`DatumHandler.post`).
  - `ProductPost`'s lookup and put are one step. Only its first 400 branch is reachable through the routes, so splitting it would add no behaviour.
  - `Admin` puts the products, clients and metrics that the missing client and metric handlers would create.
  - History variables: `acked` (data whose POST was answered), `wacked0[w]` (`acked` when `w` took its request) and `wexisted[w]`.
  - `NoId` stands for the empty string of a missing id or body. `Requests` is the union of three kinds: `GetRequests` (a GET of any URL), `ProductWrites` (a POST to `/` or a DELETE of a product) and `DatumPosts`.
  - `FirstStep` gives each route and method exactly one first step: the `webapp` router dispatches a request to one handler method.
- **`DashboardProofs.tla`**: the TLAPS proofs of `TypeOK` and `ReadAfterAck` (§5).

## 3. Runs

| Run | cfg | Checks | Result |
|---|---|---|---|
| planner | `MCCounterGroups.cfg` | `GroupsPartition`: every group holds the free metrics and only metrics of the run, and each non-free metric lies in exactly one group. `GroupsMinimal`: every group but the last is full. | pass, 159 states |
| planner_limit | `MCCounterGroupsLimit.cfg` | `GroupWithinLimit`: no group exceeds `max_counters` (spec §4.1) | **violation** |
| runner | `MCBenchmarkRunner.cfg` | `TypeOK`, `TearDownOnce`, `PrefetchPolicy`, `SamplesComplete`, `RunTerminates` | pass, about 1.09M states, about 1 min |
| runner_preload | `MCRunnerPreload.cfg` | `PreloadRestored` (spec §4.4a) | **violation** |
| runner_orphan | `MCRunnerOrphan.cfg` | `NoOrphanChrome` (spec §4.3) | **violation** |
| runner_stop | `MCRunnerStop.cfg` | `StopOnlyAfterStart` (spec §4.2) | **violation** |
| profile | `MCProfileRunner.cfg` | `TypeOK`; `SucceededCleanly`: a run that returns normally stopped the service with status 0, dumped the log once and released handle and file; `RunTerminates`; `HandleImplemented`: the refinement to `ServiceHandle` | pass, 158 states |
| profile_log | `MCProfileLog.cfg` | `LogSurfaced`: once a service was started, its log is dumped by the time `Run` ends (spec §4.2) | **violation** |
| harness | `MCTestHarness.cfg` | `TypeOK`; `StampSound`: whenever a test's success file is at least as new as its executable, that executable's version passed | pass, about 0.9M states |
| harness_suite | `MCHarnessSuite.cfg` | `SuiteStampSound` with `build_all` in the suite | **violation** |
| dashboard | `MCDashboard.cfg` | `TypeOK`: every response has a status the code sets, so no handler raises; `ReadAfterAck`: a GET of a metric's data that answers 200 lists every datum whose POST was answered before the GET arrived | pass, 29,416 states |
| dashboard_create | `MCDashboardCreate.cfg` | `ProductPostCreates`: a POST naming a new product creates it with 201 (the docstring of `ProductHandler.post`) | **violation** |

### Findings

Each violation run shows a place where the code does not do what spec.md says:

1. **Groups exceed the limit** (`runner.py:615`). The free metrics are added after slicing by `max_counters`, so a group can hold `max_counters + |free|` counters.
2. **Preload left changed** (`runner.py:455`). `mkdtemp` raising after `SetPreload` in `_SetUp`, which is outside the `try`, leaves the preload setting changed.
3. **Chrome left running** (`runner.py:314`). `_RunOneIteration` waits for Chrome outside its `try/finally`, so a timeout leaves the launched Chrome running. The run takes a temporary profile with `InitializeProfile = FALSE`, so no profile initialization happens and the trace is the iteration's own launch: `LaunchChrome`, the polls of `WaitTillChromeRunning`, the raise into `RunExcept`, `_TearDown`, and `Run` returning with Chrome still starting. The wait in `_InitializeProfileDir` (`runner.py:364`) has the same gap.
4. **Stop without start** (`runner.py:280`). `_PostIteration(i, False)` stops the ETW session when `StartLoggingEtw` failed. It also stops the services a second time after `_PostIteration(i, True)` raised.
5. **Service log lost** (`runner.py:233`). A non-zero stop-command status raises before `wait()` and `_DumpCallTraceLog`. This happens after the service crashed or when the RPC fails. The log is not dumped, the log file stays open, and a service that did not get the command keeps running.
6. **Suite stamp over untested binaries** (`run_all_tests.py:39`). Children run in `os.listdir` order. When `build_all` comes after a test, it rebuilds that test's executable, and the suite then writes a success file that is newer than a binary no test ran.
7. **No product can be created** (`dashboard/main.py:33`). The route `^/([^/]+)/?$` always passes a non-empty `product_id`, and `ProductHandler.post` answers 400 whenever `product_id` is non-empty (`product.py:77`). Its docstring says that a POST with a `product_id` in the body creates the product. The listing branch of `get` is unreachable for the same reason.

Two hazards are known without a run, since the project is at its limit of runs:

- `SetPreload` raising in `_TearDown` skips the deletion of the temp directory (`runner.py:459`). `TearDownOnce` is checked, but no run states the deletion.
- `_NeedToRun` compares mtimes with a strict `>` (`testing.py:344`). With coarse timestamps (`FineClock = FALSE`), an executable rebuilt in the same tick as its success file is skipped, and `StampSound` fails. The runs and the proof assume fine timestamps.

### Bounds and why they are enough

- **Planner:**
  - The catalog has 1 free and 4 non-free metrics, with `MaxCounters = 2`.
  - Requests range over all 32 subsets, and every order of the non-free list is tried.
  - That gives a full group, a partial last group, the free-only group and the empty request.
- **Runner:**
  - `Iterations = 2` and `MaxCounters = 1` with 2 non-free metrics, so 2 groups and 4 real iterations. Every group is used twice and iteration 0 differs from the rest for `RESET_PRIOR_TO_FIRST_LAUNCH`.
  - All three prefetch modes are tried.
  - Chrome may already run at start.
  - The profile may exist or not.
  - Every one of the 14 external calls may raise.
  - `WaitPolls = 1` stands for the 300 polls. Each poll does the same thing, so one poll plus the timeout covers every outcome of the loop.
  - The violation runs use `WaitPolls = 2` and a single failing call each, so their counterexamples stay short.

- **Profile runner:**
  - `Iterations = 10` is the default of `profile.py`, and `RpcPolls = 5` is the code's own loop.
  - Every call may fail and the service may crash at any point, so every path of the handle is reached.
- **Test harness:**
  - There are two tests, at most one edit and two runs. `MaxTime = 6` bounds the clock.
  - Two runs are enough for a stale success file from run 1 to be trusted in run 2.
  - Two tests are enough for a test to run before or after `build_all` or another test.
- **Dashboard:**
  - There is one product, client and metric, two workers, four requests, two datum ids and three admin puts.
  - Three admin puts create the full key path, so a datum POST can succeed.
  - Two workers let a GET's query run before, between or after the calls of a POST. Four requests allow two POSTs and a GET, or a delete between them.
  - Every path has the same structure, so more products, clients or metrics would only repeat the same interleavings.

### Fairness

`Spec` has `WF_vars(Runner)`: the one Python thread keeps running. Chrome's
steps get no fairness: Chrome may never become ready, and the wait's timeout
has to handle that. `RunTerminates` holds because every loop of the code is
bounded: the wait has at most `WaitPolls` polls and the iteration loop at most
`iterations` rounds.

`ProfileRunner`'s `Spec` has `WF_vars(Runner)` and `WF_vars(ServiceShutDown)`.
The second says that a service which accepted the stop command (status 0 from
`StopLoggingRpc`'s command) eventually exits. `wait()` blocks on exactly that,
and the command is the service's own shutdown RPC. A crash gets no fairness.
`TestHarness` and `Dashboard` check safety only, so they have no fairness.

### Mutants

Each property of a passing run has a mutant, defined just before the definition it replaces:

| Mutant | Bug it stands for | Property it breaks |
|---|---|---|
| `ChunkSkipFirst` | a slice starts one element late | `GroupsPartition` |
| `GroupsOneEach` | the slicing ignores `max_counters` | `GroupsMinimal` |
| `WaitTillChromeRunningOffByOne` | the poll loop runs one time too many | `TypeOK` |
| `RunExceptNoFinally` | the handler escapes the `finally` | `TearDownOnce` |
| `DeletesPrefetchBeforeEveryTime` | the `i == 0` test is dropped | `PrefetchPolicy` |
| `RunUnmultiplied` | no multiplier override | `SamplesComplete` |
| `WaitTillChromeRunningForever` | the wait loop never counts | `RunTerminates` |
| `PollServiceOffByOne` | the liveness loop polls one time too many | `TypeOK` (profile) |
| `WaitServiceIgnoreStatus` | the exit status after `wait()` is not checked | `SucceededCleanly` |
| `PollServiceForever` | the liveness loop never counts | `RunTerminates` (profile) |
| `PollServiceNoReset` | a failed start dumps the log but keeps the handle | `HandleImplemented` |
| `RunChildPastEnd` | the suite loop runs one child too many | `TypeOK` (harness) |
| `RunExecutableNoVerdict` | the success file is written whatever the test's result | `StampSound` |
| `ProductGetNoReturn` | the `return` after the 404 is dropped, so the query of a `None` product raises | `TypeOK` (dashboard) |
| `DatumPostLookupAckEarly` | the datum is acknowledged before its `put` | `ReadAfterAck` |

## 4. Plan

1. **Done:**
   - the planner and the runner core;
   - the RPC service handle, composed with the Chrome runner in `ProfileRunner`, with its refinement of `ServiceHandle`;
   - the test harness;
   - the dashboard's product and datum handlers;
   - the proofs listed in §5.
2. **Next:**
   - `GenerateTraces.tla`: `generate_traces.py`, covering the one-second race of the service start and the trace-file count check;
   - the tolerance of `TestHarness` to crashes between writing the executable and the success file.
3. **Proofs still to do:** every invariant and action property that a passing run checks is now proved. Liveness stays with TLC (see "Left to TLC").

## 5. What is proved

`BenchmarkRunnerProofs.tla` is checked by `tlapm` with no unproved step. It proves these results for every value of the constants that satisfies `CounterAssumption` and `RunnerAssumption`:

- **`TypeCorrect`**: `Spec => []TypeOK`.
  - It rests on lemmas about the planner's operators, in `CounterPlanProofs.tla`:
    - `NumChunksType`: at least one slice for a non-empty list.
    - `ChunkInRange`: a slice holds only elements of the list.
    - `GroupsOfType`: the groups are a non-empty sequence of metric sets.
    - `OrdersType`: every enumeration of a finite set of metrics is a sequence.
    - `GroupOfType`: `i % len(groups)` picks a group of the list.
  - It uses the library facts `SeqDef`, `LenProperties`, `SubSeqProperties`, `RangeOfSeq`, `FS_Subset` and `FS_CardinalityType`.
  - The proof of the step has one case per action. Actions with several outcomes are split one level further, one case per outcome.
- **`TearDownOnceHolds`**: `Spec => []TearDownOnce`.
  - `TearDownOnce` is not inductive as it stands. A step from the except handler to `TearDown` needs to know that `_TearDown` has not run yet and that `_SetUp` has returned.
  - The strengthening `TearDownInv` says three things:
    - before the `try`, `setUp` is false and `tearDowns = 0`;
    - inside the `try`, `except` or `finally`, `setUp` is true and `tearDowns = 0`;
    - at `Done`, `tearDowns` is 1 exactly when `setUp` is true.
  - TLC checked `TearDownInv` on both passing runner configurations before it was proved. The proof is `Init => TearDownInv`, `TearDownInv /\ [Next]_vars => TearDownInv'` and `TearDownInv => TearDownOnce`, combined with PTL.

- **`PrefetchPolicyHolds`**: `Spec => []PrefetchPolicy`.
  - `PrefetchPolicy` speaks only of the state after `Run` returns. The count at that point depends on every iteration before it, so it is not inductive.
  - The strengthening `PrefetchInv` gives the number of deletions so far at each control point as a function of the loop index `i`: `ExpectedDeletes(i)` before an iteration, plus one for the deletion of `_PreIteration` (`DeletesBefore(i)`) inside it, and `ExpectedDeletes(iterations)` once the loop is left normally.
  - The lemma `ExpectedDeletesStep` is the arithmetic of one loop step: `ExpectedDeletes(0) = 0`, and the deletions before and after iteration `i` take `ExpectedDeletes(i)` to `ExpectedDeletes(i + 1)`.
  - TLC checked `PrefetchInv` on the `runner` configuration before it was proved.

`BenchmarkSamplesProofs.tla` is checked with no unproved step. It proves **`SamplesCompleteHolds`**: `CatalogSplit => (Spec => []SamplesComplete)`. The result holds for every constant that satisfies `CounterAssumption`, `RunnerAssumption` and `KeyAssumption`.

- **`CatalogSplit`** says the counter service's catalog is the union of its free and non-free counters (spec §Hardware counter service). It is stated as a hypothesis because a counter that is neither would be requested and never sampled.
- **`KeyAssumption`** says no counter is a log or working-set result key. It holds because `_ProcessIbmPerfResults` keys counters as `IbmPerf[<metric>][<i>]`.
- `SamplesComplete` speaks only of the end of the run, so it is not inductive. The strengthening `SamplesInv` adds the following to `PrefetchInv`:
  - the groups are a plan of `_SetupIbmPerf` (`PlannedGroups`);
  - `iterations` is `Iterations * len(groups)` after `Run` (`IterationsMultiplied`);
  - an exception propagates in the `except` handler, and none propagates at `_PostIteration(i, True)` (`RaisedAt`);
  - the counters sample group `i % len(groups)` during iteration `i` (`SampledGroup`);
  - while Chrome has not exited on its own, the counts are those of the iterations done (`CountsSoFar`).
- The counts are `SampleCounts(n)`, given in closed form:
  - one working-set sample per iteration;
  - `n` samples of each free counter;
  - `(n + L - j) \div L` samples of a non-free counter of group `j`, where `L` is the number of groups.
- The lemmas:
  - `CycleCount` (with `DivisionUniqueness`) is the arithmetic of cycling through `L` groups: one more iteration adds a sample to group `j` exactly when `n % L = j - 1`, and `k * L` iterations give every group `k` samples.
  - `GroupFacts` takes from `GroupsOfPartition` that no non-free counter lies in two groups.
  - `SampleStep` is one `_DoIteration`.
  - `LogStep` is `_PostIteration`, which adds only log keys.
- TLC checked `SamplesInv` on the `runner` configuration, and on a variant with one requested counter and three iterations, before it was proved.
- While proving, it turned out that the arms of the `CASE` in `SamplesComplete` overlapped when counters were off: a free counter matched both the first and the second arm. The property is now an `IF` chain with the same first-match meaning. TLC's results are unchanged.

`CounterGroupsProofs.tla` is checked with no unproved step. Its results hold for every catalog of metrics and every `MaxCounters > 0` (`CounterAssumption`):

- **`GroupsPartitionHolds`** and **`GroupsMinimalHolds`**: `Spec => []GroupsPartition` and `Spec => []GroupsMinimal`.
  - The inductive invariant `PlanInv` says that once the plan is made, `metrics` is `MetricsOf` of the request and `groups` is `GroupsOf(o)` for some enumeration `o` of the run's non-free metrics. It is needed because the properties speak of `groups`, but the planner's step fixes `o` by a choice that the next state does not record.
  - The properties then follow from lemmas of `CounterPlanProofs.tla` that hold for every enumeration:
    - `SliceOfPosition` and `SliceUnique`: position `k` of the list lies in slice `(k - 1) \div MaxCounters + 1` and in no other.
    - `ChunkMember`: a metric is in slice `j` exactly when it sits at a position of that slice.
    - `OrderFacts`: an enumeration of a set is a sequence of its size, onto the set and injective.
    - `GroupsOfPartition`: what `GroupsPartition` says, for `GroupsOf(o)`.
    - `SliceFull` and `FullChunkSize`: a slice before the last has `MaxCounters` positions, and since the enumeration is injective, `MaxCounters` metrics. `GroupsOfMinimal` follows.
  - TLC checked `PlanInv` on the `planner` configuration before it was proved.

`DashboardProofs.tla` is checked with no unproved step. Its results hold for every finite set of workers, products, clients and metrics and every bound (`DashboardAssumption`):

- **`DInvariant`**: `Spec => []DInv`, where the inductive invariant `DInv` says:
  - `TypeOK`;
  - every worker is `Dispatched`: its step is one that the handler of its request reaches (`Reaches`), so a worker in a datum GET step holds a GET of a datum URL;
  - every acknowledged datum is stored (`acked \subseteq data`), and every snapshot `wacked0[w]` is acknowledged;
  - `ReadAfterAck` itself.
- **`TypeCorrect`** (`Spec => []TypeOK`) and **`ReadAfterAckHolds`** (`Spec => []ReadAfterAck`) follow from it.
- `ReadAfterAck` alone is not inductive. The query of `DatumGetQuery` lists the data stored at that moment, and the proof needs to know that the snapshot the worker took is among them: the snapshot is acknowledged, and acknowledged data are stored and never deleted.
- The step proof has one case per action. Lemmas shared by the handler steps keep each case small:
  - `WorkerStep`: a step of worker `w` that only moves its step, status and seen set keeps `DInv`, when the new step is one its request reaches;
  - `RespondStep`, `RespondError` and `GotoStep`: responding with a status, with an error status, and moving to the next step of the handler;
  - `RequestShape` and `FirstStepReaches`: a request's shape, and the first step of its route.
- TLC checked `DInv` on the `dashboard` configuration before it was proved.

`ProfileRunnerProofs.tla` is also checked with no unproved step. Its results hold for every `Iterations`, `RpcPolls > 0` and set `MayFail` of failing calls (`ProfileAssumption`):

- **`ServiceInvariant`**: `Spec => []ServiceInv`. `ServiceInv` is the inductive strengthening.
  - It says what holds at each control point:
    - before the service starts, there is no service, no handle and no dump;
    - while the handle is held, the log file is open and nothing has been dumped;
    - in the liveness loop, `polls < RpcPolls`;
    - a service in `Stopping` means the runner is in `wait()`;
    - a run that returns normally has stopped the service cleanly.
  - TLC checked it before it was proved. The step proof has one case per action and, under it, one case per outcome of the action.
- **`TypeCorrect`** (`Spec => []TypeOK`) and **`SucceededCleanlyHolds`** (`Spec => []SucceededCleanly`) follow from `ServiceInvariant`.
- **`HandleRefinement`**: `Spec => HandleImplemented`.
  - `InitRefines` shows that `Init` maps to `ServiceHandle`'s `HInit`.
  - `NextRefines` shows that each step maps to one of four handle steps or to a stutter:
    - `StartService` maps to `Start`;
    - the last poll maps to `Confirm`;
    - a poll that finds the service gone maps to `StartFail`;
    - `WaitService` maps to `Stop`.
  - The argument rests on `ServiceInv`, because `dumps = 0` while the handle is held.

`TestHarnessProofs.tla` is checked with no unproved step. It proves **`TypeCorrect`** (`Spec => []TypeOK`, through `TypeInv`, which adds that the child index stays within the suite while a child runs) and **`StampSoundHolds`**: `FineClock => (Spec => []StampSound)`, for every set of tests, every suite and every clock bound (`HarnessAssumption`).

- `StampSound` is not inductive: a write could make a stale success file look new.
- The strengthening `StampInv` adds that every success file and every executable was written no later than `lastWrite`, and `lastWrite <= clock`.
- Under `FineClock`, a write happens only when `clock > lastWrite`. So a new success file is newer than every executable, and a new executable is newer than every success file.
- `RunExecutableInv` covers a test that runs (writing its success file only after it passed) or is skipped (its success file already certified it). `RunBuildAllInv` covers a full or a partial build.
- TLC checked `StampInv` on the `harness` configuration before it was proved.

### Left to TLC

These results are checked by TLC only:

- **Liveness:** `RunTerminates` depends on fairness and `ENABLED`, which `tlapm` does not handle.
- **Zero iterations:** no run takes the `NameError` path of zero iterations. `TearDownOnceHolds` and `PrefetchPolicyHolds` cover it for every `Iterations`.
- **A suite without `build_all`:** the real `syzygy/tests` always contains `build_all`, so `SuiteStampSound` is only checked in the violation run `harness_suite`.
- **Recursion:** none of the modules uses it.

## 6. Not modelled

- **`ChromeFrameProfileRunner`:** it derives from `runner.ChromeFrameRunner`, which `runner.py` does not define, so importing `profile.py` raises `AttributeError` and neither profile runner can run as written. `ProfileRunner` models `ChromeProfileRunner` as if the import worked.
- **Multiple configurations:** the harness's `Main` loop over configurations and its `-c` handling are left out, since each configuration has its own success files and builds.
- **Defects that are not about state:**
  - `TestSuite.AddTests` calls `extend(self, tests)`, which is a `NameError`.
  - `Test.Run` returns `None` when `_CanRun` is false, and callers count that as a failure. No subclass overrides `_CanRun`.
- **Dashboard:**
  - `main.py` imports `handler.client`, `handler.metric`, `model.product` and `model.datum`, which are not in the repository, so the application cannot start as written. `Dashboard` models the handlers that are present, as if the imports worked. `Admin` stands for the missing handlers.
  - The HTML and JSON layout of responses is formatting and is left out; a response is its status and the ids it lists.
- **`generate_traces.py`:** not modelled yet. Its one-second sleep before the binaries run is a race with the service start (hazard at line 233).
- **ETW descriptors (`event.py`):** a decoder of event records with no state of its own beyond a class registry filled at import.

