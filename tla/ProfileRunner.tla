--------------------------- MODULE ProfileRunner ---------------------------
(***************************************************************************)
(* One profiling run: ProfileChrome of profile.py runs ChromeProfileRunner *)
(* for some iterations.  ChromeProfileRunner is ChromeRunner.Run of        *)
(* runner.py with hooks that only sleep, a _SetUp that ends with           *)
(* StartLoggingRpc and a _TearDown that begins with StopLoggingRpc: the    *)
(* call-trace service is a separate process, started once per run, that    *)
(* lives through all iterations and is stopped by an RPC stop command.     *)
(*                                                                         *)
(* The runner thread and the service process interleave: the service may  *)
(* crash at any time, and it shuts down on its own schedule after it       *)
(* accepted the stop command.  Chrome itself is abstracted to an          *)
(* iteration that succeeds or raises (BenchmarkRunner.tla models it).      *)
(***************************************************************************)
EXTENDS Naturals

CONSTANTS
  Iterations,  \* the iterations argument of ProfileChrome
  RpcPolls,    \* xrange(5): liveness polls of StartLoggingRpc
  MayFail      \* the calls and events that may fail in this model

(* The calls that may fail, by the name MayFail uses.  ServiceCrash: the  *)
(* service process dies on its own; ServiceError: it exits with a non-zero *)
(* status after a stop.                                                    *)
Calls == {"ChromeSetUp", "OpenLog", "Popen", "Iteration", "StopCmd",
          "ServiceCrash", "ServiceError"}

ASSUME ProfileAssumption ==
  /\ Iterations \in Nat
  /\ RpcPolls \in Nat \ {0}
  /\ MayFail \subseteq Calls

VARIABLES
  pc,        \* where the runner thread is
  i,         \* the loop index of ChromeRunner.Run
  polls,     \* polls done by the liveness loop of StartLoggingRpc
  raised,    \* an exception is propagating
  svc,       \* the service process: "None", "Running", "Stopping", "Exited"
  status,    \* its exit status once "Exited"
  handle,    \* self._call_trace_service is not None
  logFile,   \* self._call_trace_log_file is an open file
  logPath,   \* self._call_trace_log_path is not None
  dumps      \* history: calls of _DumpCallTraceLog

vars == <<pc, i, polls, raised, svc, status, handle, logFile, logPath, dumps>>

Fails(c) == c \in MayFail

(* ProfileChrome creates the output directory and a ChromeProfileRunner    *)
(* with initialize_profile=True; the constructor clears the three fields   *)
(* of the service handle.                                                  *)
Init ==
  /\ pc = "SetUp"
  /\ i = 0
  /\ polls = 0
  /\ raised = FALSE
  /\ svc = "None"
  /\ status = 0
  /\ handle = FALSE
  /\ logFile = FALSE
  /\ logPath = FALSE
  /\ dumps = 0

(* _DumpCallTraceLog: close the log file, clear it, read the log, clear    *)
(* its path.                                                               *)
DumpCallTraceLog ==
  /\ logFile' = FALSE
  /\ logPath' = FALSE
  /\ dumps' = dumps + 1

(* ChromeRunner._SetUp, the first half of ChromeProfileRunner._SetUp:      *)
(* shut down a Chrome running in the profile, erase the profile and        *)
(* initialize it by launching Chrome once.  It runs before the try of Run. *)
SetUpChrome ==
  /\ pc = "SetUp"
  /\ \/ Fails("ChromeSetUp") /\ pc' = "Done" /\ raised' = TRUE
     \/ pc' = "RpcStart" /\ UNCHANGED raised
  /\ UNCHANGED <<i, polls, svc, status, handle, logFile, logPath, dumps>>

(* StartLoggingRpc up to the liveness loop: set the log path, open the log *)
(* file, launch the service with its output captured in the file.  open   *)
(* or Popen may raise, out of _SetUp and out of Run.                       *)
StartService ==
  /\ pc = "RpcStart"
  /\ logPath' = TRUE
  /\ \/ /\ Fails("OpenLog")
        /\ pc' = "Done" /\ raised' = TRUE
        /\ UNCHANGED <<svc, handle, logFile, polls>>
     \/ /\ Fails("Popen")
        /\ logFile' = TRUE
        /\ pc' = "Done" /\ raised' = TRUE
        /\ UNCHANGED <<svc, handle, polls>>
     \/ /\ logFile' = TRUE /\ svc' = "Running" /\ handle' = TRUE
        /\ polls' = 0
        /\ pc' = "RpcPoll"
        /\ UNCHANGED raised
  /\ UNCHANGED <<i, status, dumps>>

(* After the liveness loop: the try of Run, with the first iteration or    *)
(* straight to _ProcessResults.                                            *)
AfterSetUp == IF Iterations > 0 THEN "Iter" ELSE "Results"

(* Mutant: one poll more than xrange(5) allows.                            *)
PollServiceOffByOne ==
  /\ pc = "RpcPoll"
  /\ \/ /\ svc = "Exited"
        /\ DumpCallTraceLog
        /\ handle' = FALSE
        /\ pc' = "Done" /\ raised' = TRUE
        /\ UNCHANGED polls
     \/ /\ svc # "Exited"
        /\ polls' = polls + 1
        /\ pc' = IF polls + 1 = RpcPolls + 1 THEN AfterSetUp ELSE "RpcPoll"
        /\ UNCHANGED <<raised, handle, logFile, logPath, dumps>>
  /\ UNCHANGED <<i, svc, status>>

(* Mutant: the loop never counts its polls.                                *)
PollServiceForever ==
  /\ pc = "RpcPoll"
  /\ \/ /\ svc = "Exited"
        /\ DumpCallTraceLog
        /\ handle' = FALSE
        /\ pc' = "Done" /\ raised' = TRUE
        /\ UNCHANGED polls
     \/ /\ svc # "Exited"
        /\ UNCHANGED <<pc, polls, raised, handle, logFile, logPath, dumps>>
  /\ UNCHANGED <<i, svc, status>>

(* Mutant: the failed check dumps the log but keeps the handle.            *)
PollServiceNoReset ==
  /\ pc = "RpcPoll"
  /\ \/ /\ svc = "Exited"
        /\ DumpCallTraceLog
        /\ pc' = "Done" /\ raised' = TRUE
        /\ UNCHANGED <<polls, handle>>
     \/ /\ svc # "Exited"
        /\ polls' = polls + 1
        /\ pc' = IF polls + 1 = RpcPolls THEN AfterSetUp ELSE "RpcPoll"
        /\ UNCHANGED <<raised, handle, logFile, logPath, dumps>>
  /\ UNCHANGED <<i, svc, status>>

(* One round of the liveness loop of StartLoggingRpc: sleep, poll.  A     *)
(* service that has exited has its log dumped, the handle and the path    *)
(* cleared, and StartLoggingRpc raises; after RpcPolls rounds it returns,  *)
(* and so does _SetUp.                                                     *)
PollService ==
  /\ pc = "RpcPoll"
  /\ \/ /\ svc = "Exited"
        /\ DumpCallTraceLog
        /\ handle' = FALSE
        /\ pc' = "Done" /\ raised' = TRUE
        /\ UNCHANGED polls
     \/ /\ svc # "Exited"
        /\ polls' = polls + 1
        /\ pc' = IF polls + 1 = RpcPolls THEN AfterSetUp ELSE "RpcPoll"
        /\ UNCHANGED <<raised, handle, logFile, logPath, dumps>>
  /\ UNCHANGED <<i, svc, status>>

(* One pass of the loop of ChromeRunner.Run with the hooks of              *)
(* ChromeProfileRunner: _PreIteration does nothing, _RunOneIteration       *)
(* launches Chrome, waits for it, sleeps and shuts it down, any of which   *)
(* may raise, _PostIteration does nothing.                                 *)
Iteration ==
  /\ pc = "Iter"
  /\ \/ Fails("Iteration") /\ pc' = "Except" /\ raised' = TRUE /\ UNCHANGED i
     \/ /\ pc' = IF i + 1 < Iterations THEN "Iter" ELSE "Results"
        /\ i' = IF i + 1 < Iterations THEN i + 1 ELSE i
        /\ UNCHANGED raised
  /\ UNCHANGED <<polls, svc, status, handle, logFile, logPath, dumps>>

(* The except of Run: _PostIteration(i, False) does nothing, the           *)
(* exception goes on to the finally.                                       *)
RunExcept ==
  /\ pc = "Except"
  /\ pc' = "StopRpc"
  /\ UNCHANGED <<i, polls, raised, svc, status, handle, logFile, logPath,
                 dumps>>

(* ChromeProfileRunner._ProcessResults: glob the trace files; then the     *)
(* finally of Run.                                                         *)
ProcessResults ==
  /\ pc = "Results"
  /\ pc' = "StopRpc"
  /\ UNCHANGED <<i, polls, raised, svc, status, handle, logFile, logPath,
                 dumps>>

(* StopLoggingRpc, the first call of _TearDown: the stop command.  It      *)
(* reaches a running service, which then shuts down; it returns non-zero  *)
(* when it fails or no service runs, and the raise leaves _TearDown and    *)
(* Run with the handle and the log file as they are.                      *)
StopCommand ==
  /\ pc = "StopRpc"
  /\ \/ /\ svc = "Running"
        /\ svc' = "Stopping"
        /\ pc' = "RpcWait"
        /\ UNCHANGED raised
     \/ /\ svc # "Running" \/ Fails("StopCmd")
        /\ pc' = "Done" /\ raised' = TRUE
        /\ UNCHANGED svc
  /\ UNCHANGED <<i, polls, status, handle, logFile, logPath, dumps>>

(* Mutant: a non-zero exit status of the service is not reported.          *)
WaitServiceIgnoreStatus ==
  /\ pc = "RpcWait"
  /\ svc = "Exited"
  /\ DumpCallTraceLog
  /\ handle' = FALSE
  /\ pc' = "Done"
  /\ UNCHANGED <<i, polls, raised, svc, status>>

(* The rest of StopLoggingRpc: wait() blocks until the service has exited, *)
(* the log is dumped, the handle cleared, and a non-zero status raises;    *)
(* otherwise ChromeRunner._TearDown has nothing to delete (the profile is *)
(* in the output directory) and the finally ends.                          *)
WaitService ==
  /\ pc = "RpcWait"
  /\ svc = "Exited"
  /\ DumpCallTraceLog
  /\ handle' = FALSE
  /\ raised' = (raised \/ status # 0)
  /\ pc' = "Done"
  /\ UNCHANGED <<i, polls, svc, status>>

(* The service process on its own: it may die while running, and it exits *)
(* after the stop command, possibly with an error status.                  *)
ServiceCrash ==
  /\ svc = "Running" /\ Fails("ServiceCrash")
  /\ svc' = "Exited" /\ status' = 1
  /\ UNCHANGED <<pc, i, polls, raised, handle, logFile, logPath, dumps>>

ServiceShutDown ==
  /\ svc = "Stopping"
  /\ svc' = "Exited"
  /\ status' \in IF Fails("ServiceError") THEN {0, 1} ELSE {0}
  /\ UNCHANGED <<pc, i, polls, raised, handle, logFile, logPath, dumps>>

Runner ==
  \/ SetUpChrome \/ StartService \/ PollService \/ Iteration \/ RunExcept
  \/ ProcessResults \/ StopCommand \/ WaitService

Next == Runner \/ ServiceCrash \/ ServiceShutDown

(* The OS keeps scheduling the runner thread, and a service that accepted *)
(* the stop command (it returned 0 over RPC) goes on to exit.  A crash is  *)
(* never owed.                                                             *)
Spec == Init /\ [][Next]_vars /\ WF_vars(Runner) /\ WF_vars(ServiceShutDown)

-----------------------------------------------------------------------------
(***************************************************************************)
(* Properties.                                                             *)
(***************************************************************************)
PCs == {"SetUp", "RpcStart", "RpcPoll", "Iter", "Except", "Results",
        "StopRpc", "RpcWait", "Done"}

TypeOK ==
  /\ pc \in PCs
  /\ i \in Nat
  /\ polls \in 0 .. RpcPolls
  /\ raised \in BOOLEAN
  /\ svc \in {"None", "Running", "Stopping", "Exited"}
  /\ status \in {0, 1}
  /\ handle \in BOOLEAN
  /\ logFile \in BOOLEAN
  /\ logPath \in BOOLEAN
  /\ dumps \in Nat

(* The run returned normally.                                              *)
Succeeded == pc = "Done" /\ ~raised

(* A profiling run that returns normally had a call-trace service that     *)
(* lived from the liveness check to the stop command and then exited with *)
(* status 0, and StopLoggingRpc dumped its log once and released the       *)
(* handle and the log file: a crash of the service during the iterations, *)
(* which loses trace data, always fails the run.                           *)
SucceededCleanly ==
  Succeeded =>
    /\ svc = "Exited" /\ status = 0
    /\ dumps = 1
    /\ ~handle /\ ~logFile /\ ~logPath

(* Run returns: the liveness loop is bounded, and the wait() of            *)
(* StopLoggingRpc ends because a service that accepted the stop exits.     *)
RunTerminates == <>(pc = "Done")

(* The handle of ChromeRunner as the abstract service handle: checking     *)
(* while the liveness loop runs, started once it has passed, released once *)
(* the log has been dumped.                                                *)
HState ==
  IF handle THEN (IF pc = "RpcPoll" THEN "Checking" ELSE "Started")
  ELSE IF dumps > 0 THEN "Released" ELSE "Idle"

SH == INSTANCE ServiceHandle WITH hstate <- HState, logShown <- dumps

(* StartLoggingRpc and StopLoggingRpc implement the service handle: the    *)
(* handle is set only by a start, the log is dumped exactly when the       *)
(* handle is released, once, and only a confirmed service is stopped       *)
(* through the handle.                                                     *)
HandleImplemented == SH!HSpec

(* The spec (section 4.2): whatever the outcome of the stop, the captured  *)
(* log of a service that was launched is surfaced before Run returns.      *)
LogSurfaced == (pc = "Done" /\ svc # "None") => dumps = 1

=============================================================================
