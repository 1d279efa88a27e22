-------------------------- MODULE BenchmarkRunner --------------------------
(***************************************************************************)
(* One benchmark run: ChromeRunner.Run of runner.py with the hooks         *)
(* BenchmarkRunner overrides (SetUp, PreIteration, DoIteration,            *)
(* PostIteration, ProcessResults, TearDown).  The single runner thread     *)
(* drives external parties that this module models as state: the Chrome   *)
(* process (which becomes ready or exits on its own), the ETW logging      *)
(* session, the hardware counters, the OS preload setting, the temporary   *)
(* and profile directories and the OS prefetch files.                      *)
(*                                                                         *)
(* Every external call may raise when its name is in MayFail.  A raise     *)
(* moves pc to where Python transfers control: the finally of              *)
(* _RunOneIteration ("ShutDown"), the except of Run ("Except"), its        *)
(* finally ("TearDown"), or out of Run ("Done") for a raise in _SetUp,     *)
(* which Run calls before its try.                                         *)
(***************************************************************************)
EXTENDS CounterPlan

CONSTANTS
  Iterations,        \* the iterations argument of Run
  PrefetchModes,     \* the prefetch argument: a subset of Prefetch below
  PreloadValues,     \* the values chrome_control.GetPreload can return
  Preload,           \* the preload argument
  RequestedMetrics,  \* the ibmperf_metrics argument, as a set
  InitializeProfile, \* the initialize_profile argument
  ProfileIsTemp,     \* self._profile_dir_is_temp (profile_dir was None)
  KeepTempDirs,      \* the keep_temp_dirs argument
  WaitPolls,         \* polls of _WaitTillChromeRunning before it times out
  MayFail            \* the external calls that may raise in this model

(* The Prefetch enumeration.                                               *)
Prefetch == {"ENABLED", "DISABLED", "RESET_PRIOR_TO_FIRST_LAUNCH"}

(* The external calls, by the name MayFail uses.                           *)
Calls == {"ShutDown", "Launch", "SetPreload", "MkdTemp", "EtwStart",
          "DeletePrefetch", "PerfStart", "Query", "WsDump", "PerfStop",
          "EtwStop", "ProcessLogs", "Report", "RestorePreload"}

ASSUME RunnerAssumption ==
  /\ Iterations \in Nat
  /\ PrefetchModes \subseteq Prefetch /\ PrefetchModes # {}
  /\ Preload \in PreloadValues
  /\ RequestedMetrics \subseteq AllMetrics
  /\ FreeMetrics # {}
  /\ InitializeProfile \in BOOLEAN
  /\ ProfileIsTemp \in BOOLEAN
  /\ KeepTempDirs \in BOOLEAN
  /\ WaitPolls \in Nat \ {0}
  /\ MayFail \subseteq Calls

(* Result keys besides the counters: MessageLoopStartTime and              *)
(* RendererLaunchTime from the logs, and the working-set metrics.          *)
LogKeys == {"MessageLoopStartTime", "RendererLaunchTime", "WorkingSet"}
ResultKeys == AllMetrics \cup LogKeys

(* _ProcessIbmPerfResults keys a counter's samples 'IbmPerf[<metric>][<i>]', *)
(* so no counter shares a result key with the log and working-set results. *)
ASSUME KeyAssumption == AllMetrics \cap LogKeys = {}

Metrics == MetricsOf(RequestedMetrics)

VARIABLES
  pc,             \* where the runner thread is
  ibmperf,        \* self._ibmperf is not None
  groups,         \* self._ibmperf_groups
  prefetch,       \* self._prefetch
  iterations,     \* the iteration count Run hands to ChromeRunner.Run
  i,              \* the loop index of ChromeRunner.Run
  polls,          \* sleeps done by the current _WaitTillChromeRunning
  raised,         \* an exception is propagating
  chrome,         \* Chrome in the profile: "None", "Starting" or "Running"
  etw,            \* the ETW logging session is running
  perf,           \* the counters being sampled; {} when stopped
  preload,        \* the OS preload setting
  oldPreload,     \* self._old_preload
  tempDir,        \* self._temp_dir exists
  profileDir,     \* the profile directory exists
  prefetchDeletes,\* calls of _DeletePrefetch so far
  results,        \* number of samples _AddResult appended per key
  stops,          \* the stop commands the last step issued
  preload0,       \* history: the preload setting before the run
  setUp,          \* history: _SetUp returned
  tearDowns,      \* history: calls of _TearDown
  exits           \* history: times Chrome exited on its own

vars == <<pc, ibmperf, groups, prefetch, iterations, i, polls, raised,
          chrome, etw, perf, preload, oldPreload, tempDir, profileDir,
          prefetchDeletes, results, stops, preload0, setUp, tearDowns, exits>>

(* A raise is possible from call c.                                        *)
Fails(c) == c \in MayFail

(* Mutant: the RESET_PRIOR_TO_FIRST_LAUNCH test without i == 0.            *)
DeletesPrefetchBeforeEveryTime(it) ==
  prefetch \in {"DISABLED", "RESET_PRIOR_TO_FIRST_LAUNCH"}

(* _PreIteration deletes the prefetch files before iteration it.           *)
DeletesPrefetchBefore(it) ==
  \/ prefetch = "DISABLED"
  \/ it = 0 /\ prefetch = "RESET_PRIOR_TO_FIRST_LAUNCH"

(* The group _StartIbmPerf samples in iteration it.                        *)
GroupOf(it) == groups[(it % Len(groups)) + 1]

(* _AddResult for each key of ks.                                          *)
AddResults(ks) == [k \in ResultKeys |-> IF k \in ks THEN results[k] + 1
                                                     ELSE results[k]]

-----------------------------------------------------------------------------
(* The constructor: _SetupIbmPerf plans the counter groups; Chrome may     *)
(* already be running in the profile.                                      *)
Init ==
  /\ pc = "Run"
  /\ \/ ibmperf = FALSE /\ groups = <<>>
     \/ /\ ibmperf = TRUE
        /\ groups \in {GroupsOf(o) : o \in Orders(Metrics \cap NonFreeMetrics)}
  /\ prefetch \in PrefetchModes
  /\ iterations = 0
  /\ i = 0
  /\ polls = 0
  /\ raised = FALSE
  /\ chrome \in {"None", "Running"}
  /\ etw = FALSE
  /\ perf = {}
  /\ preload \in PreloadValues
  /\ oldPreload = preload
  /\ tempDir = FALSE
  /\ profileDir \in IF ProfileIsTemp THEN {TRUE} ELSE BOOLEAN
  /\ prefetchDeletes = 0
  /\ results = [k \in ResultKeys |-> 0]
  /\ stops = {}
  /\ preload0 = preload
  /\ setUp = FALSE
  /\ tearDowns = 0
  /\ exits = 0

(* Mutant: Run without the override that multiplies the iterations.       *)
RunUnmultiplied ==
  /\ pc = "Run"
  /\ iterations' = Iterations
  /\ pc' = "SetUp"
  /\ UNCHANGED <<ibmperf, groups, prefetch, i, polls, raised, chrome, etw,
                 perf, preload, oldPreload, tempDir, profileDir,
                 prefetchDeletes, results, preload0, setUp,
                 tearDowns, exits>>

(* BenchmarkRunner.Run: one iteration per counter group and requested      *)
(* iteration, then ChromeRunner.Run, which starts with _SetUp.             *)
Run ==
  /\ pc = "Run"
  /\ iterations' = IF ibmperf THEN Iterations * Len(groups) ELSE Iterations
  /\ pc' = "SetUp"
  /\ UNCHANGED <<ibmperf, groups, prefetch, i, polls, raised, chrome, etw,
                 perf, preload, oldPreload, tempDir, profileDir,
                 prefetchDeletes, results, preload0, setUp,
                 tearDowns, exits>>

(* ChromeRunner._SetUp: shut down a Chrome already running in the profile, *)
(* erase the profile if asked to, and launch Chrome with --no-first-run    *)
(* to initialize a missing profile (_InitializeProfileDir).                *)
SetUpProfile ==
  LET needInit == InitializeProfile \/ ~profileDir
  IN
  /\ pc = "SetUp"
  /\ \/ /\ chrome = "Running" /\ Fails("ShutDown")
        /\ pc' = "Done" /\ raised' = TRUE
        /\ UNCHANGED <<chrome, profileDir, polls>>
     \/ /\ needInit /\ Fails("Launch")
        /\ chrome' = "None" /\ profileDir' = FALSE
        /\ pc' = "Done" /\ raised' = TRUE
        /\ UNCHANGED polls
     \/ /\ needInit
        /\ chrome' = "Starting" /\ profileDir' = FALSE /\ polls' = 0
        /\ pc' = "InitWait"
        /\ UNCHANGED raised
     \/ /\ ~needInit
        /\ chrome' = "None"
        /\ pc' = "SetUpBench"
        /\ UNCHANGED <<profileDir, polls, raised>>
  /\ UNCHANGED <<ibmperf, groups, prefetch, iterations, i, etw, perf, preload,
                 oldPreload, tempDir, prefetchDeletes, results,
                 preload0, setUp, tearDowns, exits>>

(* Mutant: one sleep more than the loop bound allows.                     *)
WaitTillChromeRunningOffByOne ==
  LET onRaise == IF pc = "InitWait" THEN "Done" ELSE "Except"
      onReturn == IF pc = "InitWait" THEN "InitShutDown" ELSE "Do"
  IN
  /\ pc \in {"InitWait", "Wait"}
  /\ \/ /\ polls < WaitPolls /\ chrome = "Running"
        /\ pc' = onReturn
        /\ UNCHANGED <<polls, raised>>
     \/ /\ polls < WaitPolls /\ chrome = "None"
        /\ pc' = onRaise /\ raised' = TRUE
        /\ UNCHANGED polls
     \/ /\ polls <= WaitPolls /\ chrome = "Starting"
        /\ polls' = polls + 1
        /\ UNCHANGED <<pc, raised>>
     \/ /\ polls = WaitPolls
        /\ pc' = onRaise /\ raised' = TRUE
        /\ UNCHANGED polls
  /\ UNCHANGED <<ibmperf, groups, prefetch, iterations, i, chrome, etw, perf,
                 preload, oldPreload, tempDir, profileDir, prefetchDeletes,
                 results, preload0, setUp, tearDowns, exits>>

(* Mutant: a wait loop that never counts its sleeps.                      *)
WaitTillChromeRunningForever ==
  LET onRaise == IF pc = "InitWait" THEN "Done" ELSE "Except"
      onReturn == IF pc = "InitWait" THEN "InitShutDown" ELSE "Do"
  IN
  /\ pc \in {"InitWait", "Wait"}
  /\ \/ /\ polls < WaitPolls /\ chrome = "Running"
        /\ pc' = onReturn
        /\ UNCHANGED <<polls, raised>>
     \/ /\ polls < WaitPolls /\ chrome = "None"
        /\ pc' = onRaise /\ raised' = TRUE
        /\ UNCHANGED polls
     \/ /\ polls < WaitPolls /\ chrome = "Starting"
        /\ UNCHANGED <<pc, raised, polls>>
     \/ /\ polls = WaitPolls
        /\ pc' = onRaise /\ raised' = TRUE
        /\ UNCHANGED polls
  /\ UNCHANGED <<ibmperf, groups, prefetch, iterations, i, chrome, etw, perf,
                 preload, oldPreload, tempDir, profileDir, prefetchDeletes,
                 results, preload0, setUp, tearDowns, exits>>

(* One round of the loop of _WaitTillChromeRunning: return when Chrome     *)
(* runs in the profile, raise when the process has exited or after         *)
(* WaitPolls sleeps.  A raise while initializing the profile leaves Run;   *)
(* in an iteration it reaches the except of Run, for the wait comes before *)
(* the try of _RunOneIteration.                                            *)
WaitTillChromeRunning ==
  LET onRaise == IF pc = "InitWait" THEN "Done" ELSE "Except"
      onReturn == IF pc = "InitWait" THEN "InitShutDown" ELSE "Do"
  IN
  /\ pc \in {"InitWait", "Wait"}
  /\ \/ /\ polls < WaitPolls /\ chrome = "Running"
        /\ pc' = onReturn
        /\ UNCHANGED <<polls, raised>>
     \/ /\ polls < WaitPolls /\ chrome = "None"
        /\ pc' = onRaise /\ raised' = TRUE
        /\ UNCHANGED polls
     \/ /\ polls < WaitPolls /\ chrome = "Starting"
        /\ polls' = polls + 1
        /\ UNCHANGED <<pc, raised>>
     \/ /\ polls = WaitPolls
        /\ pc' = onRaise /\ raised' = TRUE
        /\ UNCHANGED polls
  /\ UNCHANGED <<ibmperf, groups, prefetch, iterations, i, chrome, etw, perf,
                 preload, oldPreload, tempDir, profileDir, prefetchDeletes,
                 results, preload0, setUp, tearDowns, exits>>

(* The end of _InitializeProfileDir: shut the initializing Chrome down.    *)
InitShutDown ==
  /\ pc = "InitShutDown"
  /\ \/ /\ Fails("ShutDown")
        /\ pc' = "Done" /\ raised' = TRUE
        /\ UNCHANGED <<chrome, profileDir>>
     \/ /\ chrome' = "None" /\ profileDir' = TRUE
        /\ pc' = "SetUpBench"
        /\ UNCHANGED raised
  /\ UNCHANGED <<ibmperf, groups, prefetch, iterations, i, polls, etw, perf,
                 preload, oldPreload, tempDir, prefetchDeletes, results,
                 preload0, setUp, tearDowns, exits>>

(* The rest of BenchmarkRunner._SetUp: remember the preload setting, set   *)
(* the requested one, create the temporary directory.  Still outside the   *)
(* try of Run: a raise here skips _TearDown.                               *)
SetUpBench ==
  /\ pc = "SetUpBench"
  /\ oldPreload' = preload
  /\ \/ /\ Fails("SetPreload")
        /\ pc' = "Done" /\ raised' = TRUE
        /\ UNCHANGED <<preload, tempDir, setUp>>
     \/ /\ Fails("MkdTemp")
        /\ preload' = Preload
        /\ pc' = "Done" /\ raised' = TRUE
        /\ UNCHANGED <<tempDir, setUp>>
     \/ /\ preload' = Preload /\ tempDir' = TRUE /\ setUp' = TRUE
        /\ pc' = IF iterations > 0 THEN "Pre" ELSE "Results"
        /\ UNCHANGED raised
  /\ UNCHANGED <<ibmperf, groups, prefetch, iterations, i, polls, chrome, etw,
                 perf, profileDir, prefetchDeletes, results, preload0,
                 tearDowns, exits>>

(* ChromeRunner.StartLoggingEtw: a best-effort stop of any session, then  *)
(* the start command; the session runs iff the start returned 0.           *)
StartLoggingEtw(ok) == etw' = ok

(* _StartIbmPerf(it): sample the group of iteration it.                    *)
StartIbmPerf(it, ok) == perf' = IF ok /\ ibmperf THEN GroupOf(it) ELSE {}

(* _DeletePrefetch, when it is called.                                     *)
DeletePrefetch(called) ==
  prefetchDeletes' = IF called THEN prefetchDeletes + 1 ELSE prefetchDeletes

(* BenchmarkRunner._PreIteration(i): _StartLogging, _DeletePrefetch when   *)
(* the policy says so, _StartIbmPerf.  failAt is the call that raises      *)
(* ("none": none does); the calls before it took effect.                   *)
PreIteration ==
  /\ pc = "Pre"
  /\ \E failAt \in {"EtwStart", "DeletePrefetch", "PerfStart", "none"} :
       /\ failAt = "none" \/ Fails(failAt)
       /\ failAt = "DeletePrefetch" => DeletesPrefetchBefore(i)
       /\ failAt = "PerfStart" => ibmperf
       /\ StartLoggingEtw(failAt # "EtwStart")
       /\ DeletePrefetch(failAt \in {"PerfStart", "none"} /\ DeletesPrefetchBefore(i))
       /\ StartIbmPerf(i, failAt = "none")
       /\ raised' = (failAt # "none")
       /\ pc' = IF failAt = "none" THEN "Launch" ELSE "Except"
  /\ UNCHANGED <<ibmperf, groups, prefetch, iterations, i, polls, chrome,
                 preload, oldPreload, tempDir, profileDir, results,
                 preload0, setUp, tearDowns, exits>>

(* BenchmarkRunner._LaunchChrome: Popen of Chrome in the profile.          *)
LaunchChrome ==
  /\ pc = "Launch"
  /\ \/ /\ Fails("Launch")
        /\ pc' = "Except" /\ raised' = TRUE
        /\ UNCHANGED <<chrome, polls>>
     \/ /\ chrome' = "Starting" /\ polls' = 0
        /\ pc' = "Wait"
        /\ UNCHANGED raised
  /\ UNCHANGED <<ibmperf, groups, prefetch, iterations, i, etw, perf, preload,
                 oldPreload, tempDir, profileDir, prefetchDeletes, results,
                 preload0, setUp, tearDowns, exits>>

(* _ProcessIbmPerfResults: one sample per sampled counter for each Chrome  *)
(* process; with Chrome gone the query finds no process and adds nothing.  *)
IbmPerfKeys == IF ibmperf /\ chrome # "None" THEN perf ELSE {}

(* _CaptureWorkingSetMetrics: the working-set samples of each Chrome        *)
(* process wsdump reports, none with Chrome gone.                          *)
WorkingSetKeys == IF chrome = "None" THEN {} ELSE {"WorkingSet"}

(* BenchmarkRunner._DoIteration: settle, then _ProcessIbmPerfResults and   *)
(* _CaptureWorkingSetMetrics, either of which may raise.                   *)
DoIteration ==
  /\ pc = "Do"
  /\ \/ /\ ibmperf /\ Fails("Query")
        /\ raised' = TRUE
        /\ UNCHANGED results
     \/ /\ Fails("WsDump")
        /\ raised' = TRUE
        /\ results' = AddResults(IbmPerfKeys)
     \/ /\ raised' = FALSE
        /\ results' = AddResults(IbmPerfKeys \cup WorkingSetKeys)
  /\ pc' = "ShutDown"
  /\ UNCHANGED <<ibmperf, groups, prefetch, iterations, i, polls, chrome, etw,
                 perf, preload, oldPreload, tempDir, profileDir,
                 prefetchDeletes, preload0, setUp, tearDowns, exits>>

(* The finally of _RunOneIteration: chrome_control.ShutDown.  Its raise    *)
(* replaces the one in flight.  Shutting down a Chrome that has already    *)
(* gone may succeed or raise.                                              *)
ShutDownChrome ==
  /\ pc = "ShutDown"
  /\ \/ /\ Fails("ShutDown") \/ chrome = "None"
        /\ raised' = TRUE
        /\ UNCHANGED chrome
     \/ /\ chrome' = "None"
        /\ UNCHANGED raised
  /\ pc' = IF raised' THEN "Except" ELSE "Post"
  /\ UNCHANGED <<ibmperf, groups, prefetch, iterations, i, polls, etw, perf,
                 preload, oldPreload, tempDir, profileDir, prefetchDeletes,
                 results, preload0, setUp, tearDowns, exits>>

(* _StopIbmPerf and StopLoggingEtw, when they are called and return.       *)
StopIbmPerf(done) == perf' = IF done THEN {} ELSE perf

StopLoggingEtw(done) == etw' = (etw /\ ~done)

(* A stop command raises when the service fails to stop, or possibly when  *)
(* the service is not running: the code cannot know the outcome then.     *)
StopRaises(c, running) == Fails(c) \/ ~running

(* The keys _ProcessLogs adds, from loops message-loop-begin events and    *)
(* launches process-launch events decoded from the logs.                   *)
ProcessLogsKeys(loops, launches) ==
  {k \in {"MessageLoopStartTime", "RendererLaunchTime"} :
     \/ k = "MessageLoopStartTime" /\ loops >= 1 /\ launches >= 1
     \/ k = "RendererLaunchTime" /\ launches >= 2}

(* BenchmarkRunner._PostIteration(i, success): _StopIbmPerf, _StopLogging *)
(* and, on success only, _ProcessLogs and the DISABLED-policy prefetch     *)
(* deletion.  failAt is the call that raises ("none": none does); loops    *)
(* and launches are the event counts the log decoder returns.              *)
PostCalls == {"PerfStop", "EtwStop", "ProcessLogs", "DeletePrefetch", "none"}

PostIterationBody(success, failAt, loops, launches) ==
  LET reached(c) ==
        \/ c = "PerfStop" /\ ibmperf
        \/ c = "EtwStop" /\ failAt # "PerfStop"
        \/ c = "ProcessLogs" /\ success /\ failAt \notin {"PerfStop", "EtwStop"}
        \/ /\ c = "DeletePrefetch" /\ success /\ prefetch = "DISABLED"
           /\ failAt \in {"DeletePrefetch", "none"}
      done(c) == reached(c) /\ failAt # c
  IN
  /\ failAt # "none" => reached(failAt)
  /\ failAt = "PerfStop" => StopRaises("PerfStop", perf # {})
  /\ failAt = "EtwStop" => StopRaises("EtwStop", etw)
  /\ failAt \in {"ProcessLogs", "DeletePrefetch"} => Fails(failAt)
  /\ (loops + launches > 0) => done("ProcessLogs")
  /\ StopIbmPerf(done("PerfStop"))
  /\ StopLoggingEtw(done("EtwStop"))
  /\ results' = IF done("ProcessLogs")
                  THEN AddResults(ProcessLogsKeys(loops, launches))
                  ELSE results
  /\ DeletePrefetch(done("DeletePrefetch"))
  /\ stops' = {c \in {"PerfStop", "EtwStop"} : reached(c)}

PostIterationSteps(success, failAt) ==
  \E loops \in 0 .. 1, launches \in 0 .. 2 :
    PostIterationBody(success, failAt, loops, launches)

(* The loop of ChromeRunner.Run calls _PostIteration(i, True) after a      *)
(* successful iteration, then moves to the next one or to                  *)
(* _ProcessResults.                                                        *)
PostIteration ==
  /\ pc = "Post"
  /\ \E failAt \in PostCalls :
       /\ PostIterationSteps(TRUE, failAt)
       /\ raised' = (failAt # "none")
  /\ pc' = IF raised' THEN "Except"
           ELSE IF i + 1 < iterations THEN "Pre" ELSE "Results"
  /\ i' = IF ~raised' /\ i + 1 < iterations THEN i + 1 ELSE i
  /\ UNCHANGED <<ibmperf, groups, prefetch, iterations, polls, chrome, preload,
                 oldPreload, tempDir, profileDir, preload0, setUp, tearDowns,
                 exits>>

(* Mutant: the handler re-raises past the finally of Run.                 *)
RunExceptNoFinally ==
  /\ pc = "Except"
  /\ \/ /\ iterations = 0
        /\ stops' = {}
        /\ UNCHANGED <<etw, perf, results, prefetchDeletes>>
     \/ /\ iterations > 0
        /\ \E failAt \in PostCalls : PostIterationSteps(FALSE, failAt)
  /\ pc' = "Done"
  /\ raised' = TRUE
  /\ UNCHANGED <<ibmperf, groups, prefetch, iterations, i, polls, chrome,
                 preload, oldPreload, tempDir, profileDir, preload0, setUp,
                 tearDowns, exits>>

(* The except of ChromeRunner.Run: _PostIteration(i, False), then the      *)
(* exception propagates through the finally.  With no iteration run, i is *)
(* unbound and the handler itself raises NameError first.                  *)
RunExcept ==
  /\ pc = "Except"
  /\ \/ /\ iterations = 0
        /\ stops' = {}
        /\ UNCHANGED <<etw, perf, results, prefetchDeletes>>
     \/ /\ iterations > 0
        /\ \E failAt \in PostCalls : PostIterationSteps(FALSE, failAt)
  /\ pc' = "TearDown"
  /\ raised' = TRUE
  /\ UNCHANGED <<ibmperf, groups, prefetch, iterations, i, polls, chrome,
                 preload, oldPreload, tempDir, profileDir, preload0, setUp,
                 tearDowns, exits>>

(* BenchmarkRunner._ProcessResults: print the report.                      *)
ProcessResults ==
  /\ pc = "Results"
  /\ \/ /\ Fails("Report")
        /\ pc' = "Except" /\ raised' = TRUE
     \/ /\ pc' = "TearDown"
        /\ UNCHANGED raised
  /\ UNCHANGED <<ibmperf, groups, prefetch, iterations, i, polls, chrome, etw,
                 perf, preload, oldPreload, tempDir, profileDir,
                 prefetchDeletes, results, preload0, setUp, tearDowns,
                 exits>>

(* The finally of ChromeRunner.Run: BenchmarkRunner._TearDown restores     *)
(* the preload setting, then removes the temporary directory unless kept,  *)
(* then ChromeRunner._TearDown removes a temporary profile.  A raise of    *)
(* the restore skips the rest and replaces the exception in flight.        *)
TearDown ==
  /\ pc = "TearDown"
  /\ tearDowns' = tearDowns + 1
  /\ \/ /\ Fails("RestorePreload")
        /\ raised' = TRUE
        /\ UNCHANGED <<preload, tempDir, profileDir>>
     \/ /\ preload' = oldPreload
        /\ tempDir' = (tempDir /\ KeepTempDirs)
        /\ profileDir' = (profileDir /\ ~ProfileIsTemp)
        /\ UNCHANGED raised
  /\ pc' = "Done"
  /\ UNCHANGED <<ibmperf, groups, prefetch, iterations, i, polls, chrome, etw,
                 perf, oldPreload, prefetchDeletes, results, preload0,
                 setUp, exits>>

(* The Chrome process on its own: it comes up in the profile, or it exits *)
(* (a crash, or a launch that fails inside Chrome).                        *)
ChromeReady ==
  /\ chrome = "Starting"
  /\ chrome' = "Running"
  /\ UNCHANGED <<pc, ibmperf, groups, prefetch, iterations, i, polls, raised,
                 etw, perf, preload, oldPreload, tempDir, profileDir,
                 prefetchDeletes, results, preload0, setUp, tearDowns,
                 exits>>

ChromeExit ==
  /\ chrome \in {"Starting", "Running"}
  /\ chrome' = "None"
  /\ exits' = exits + 1
  /\ UNCHANGED <<pc, ibmperf, groups, prefetch, iterations, i, polls, raised,
                 etw, perf, preload, oldPreload, tempDir, profileDir,
                 prefetchDeletes, results, preload0, setUp, tearDowns>>

(* The steps of the runner thread.  stops records the stop commands of    *)
(* _PostIteration; every other step issues none.                           *)
Runner ==
  \/ PostIteration \/ RunExcept
  \/ /\ \/ Run \/ SetUpProfile \/ WaitTillChromeRunning \/ InitShutDown
        \/ SetUpBench \/ PreIteration \/ LaunchChrome \/ DoIteration
        \/ ShutDownChrome \/ ProcessResults \/ TearDown
     /\ stops' = {}

Next == Runner \/ ((ChromeReady \/ ChromeExit) /\ stops' = {})

(* Run is executed by a thread the OS keeps scheduling; Chrome is owed     *)
(* nothing.                                                                *)
Spec == Init /\ [][Next]_vars /\ WF_vars(Runner)

-----------------------------------------------------------------------------
(***************************************************************************)
(* Properties.                                                             *)
(***************************************************************************)
PCs == {"Run", "SetUp", "InitWait", "InitShutDown", "SetUpBench", "Pre",
        "Launch", "Wait", "Do", "ShutDown", "Post", "Except", "Results",
        "TearDown", "Done"}

TypeOK ==
  /\ pc \in PCs
  /\ ibmperf \in BOOLEAN
  /\ groups \in Seq(SUBSET AllMetrics)
  /\ ibmperf => Len(groups) >= 1
  /\ prefetch \in Prefetch
  /\ iterations \in Nat
  /\ i \in Nat
  /\ polls \in 0 .. WaitPolls
  /\ raised \in BOOLEAN
  /\ chrome \in {"None", "Starting", "Running"}
  /\ etw \in BOOLEAN
  /\ perf \in SUBSET AllMetrics
  /\ preload \in PreloadValues
  /\ oldPreload \in PreloadValues
  /\ tempDir \in BOOLEAN
  /\ profileDir \in BOOLEAN
  /\ prefetchDeletes \in Nat
  /\ results \in [ResultKeys -> Nat]
  /\ stops \in SUBSET {"PerfStop", "EtwStop"}
  /\ preload0 \in PreloadValues
  /\ setUp \in BOOLEAN
  /\ tearDowns \in Nat
  /\ exits \in Nat

(* The run returned normally: every iteration and the report succeeded.   *)
Succeeded == pc = "Done" /\ ~raised

(* Once _SetUp has returned, _TearDown runs exactly once on every way out  *)
(* of Run: after all iterations, after a failed iteration, after a failed  *)
(* _PostIteration or report, and after a raise inside the except handler.  *)
TearDownOnce ==
  /\ tearDowns <= 1
  /\ (pc = "Done" /\ setUp) => tearDowns = 1

(* The prefetch policy of _PreIteration and _PostIteration: a successful   *)
(* run with DISABLED deletes the prefetch files before and after every     *)
(* iteration, with RESET_PRIOR_TO_FIRST_LAUNCH once before the first, with *)
(* ENABLED never (spec section 8).                                         *)
PrefetchPolicy ==
  Succeeded =>
    prefetchDeletes =
      CASE prefetch = "DISABLED" -> 2 * iterations
        [] prefetch = "RESET_PRIOR_TO_FIRST_LAUNCH" ->
             IF iterations > 0 THEN 1 ELSE 0
        [] OTHER -> 0

(* The iteration multiplier of Run, the cycling of groups in               *)
(* _StartIbmPerf and the planner together give every non-free counter the *)
(* requested number of samples and every free counter one per iteration,  *)
(* in a successful run in which Chrome never went away on its own.         *)
SamplesComplete ==
  (Succeeded /\ exits = 0) =>
    /\ results["WorkingSet"] = iterations
    /\ \A m \in AllMetrics :
         results[m] = IF ~ibmperf \/ m \notin Metrics THEN 0
                      ELSE IF m \in FreeMetrics THEN iterations
                      ELSE Iterations

(* Run returns: every wait for Chrome is bounded.                          *)
RunTerminates == <>(pc = "Done")

(* The spec (section 4.4): the run restores the preload setting it changed *)
(* however it ends, so that a failure does not leave the OS altered.       *)
PreloadRestored == pc = "Done" => preload = preload0

(* The spec (section 4.3): the target is shut down on every path once it   *)
(* has been launched; no Chrome is left running when Run returns.          *)
NoOrphanChrome == pc = "Done" => chrome = "None"

(* The spec (section 4.2): a service is stopped only after it was started: *)
(* _PostIteration never stops an ETW session or counters not running.      *)
StopOnlyAfterStart ==
  [][/\ "EtwStop" \in stops' => etw
     /\ "PerfStop" \in stops' => perf # {}]_vars

=============================================================================
