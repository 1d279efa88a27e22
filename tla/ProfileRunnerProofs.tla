------------------------ MODULE ProfileRunnerProofs -------------------------
(***************************************************************************)
(* Proofs about ProfileRunner for every iteration count, poll bound and    *)
(* set of failing calls: the type invariant, and that a run which returns  *)
(* normally stopped its call-trace service cleanly.                        *)
(***************************************************************************)
EXTENDS ProfileRunner, TLAPS

(* Where the handle is set and the log file open: from the launch of the   *)
(* service to the dump in StopLoggingRpc.                                  *)
HeldPCs == {"RpcPoll", "Iter", "Except", "Results", "StopRpc", "RpcWait"}

(* The inductive invariant.  Before the launch nothing of the service      *)
(* exists; while the handle is held the log is open and not yet dumped,    *)
(* the liveness loop has polls left,                                       *)
(* the service is stopping only during the wait of StopLoggingRpc, and     *)
(* a normal return of Run comes only from that wait.                       *)
ServiceInv ==
  /\ TypeOK
  /\ pc \in {"SetUp", "RpcStart"} =>
       svc = "None" /\ ~handle /\ dumps = 0 /\ ~raised
  /\ pc \in HeldPCs => handle /\ logFile /\ logPath /\ dumps = 0
  /\ pc \in HeldPCs \ {"RpcWait"} => svc \in {"Running", "Exited"}
  /\ pc = "RpcPoll" => polls < RpcPolls
  /\ pc = "RpcWait" => svc \in {"Stopping", "Exited"}
  /\ svc = "Stopping" => pc = "RpcWait"
  /\ pc \in {"RpcPoll", "Iter", "Results"} => ~raised
  /\ (pc = "Done" /\ ~raised) =>
       /\ svc = "Exited" /\ status = 0 /\ dumps = 1
       /\ ~handle /\ ~logFile /\ ~logPath

USE ProfileAssumption DEF ServiceInv, TypeOK, HeldPCs, PCs

(* The initial state satisfies the invariant.                              *)
LEMMA InitInv == Init => ServiceInv
<1> SUFFICES ASSUME Init PROVE ServiceInv
  OBVIOUS
<1>1. /\ pc = "SetUp" /\ i = 0 /\ polls = 0 /\ raised = FALSE
      /\ svc = "None" /\ status = 0 /\ handle = FALSE /\ logFile = FALSE
      /\ logPath = FALSE /\ dumps = 0
  BY Zenon DEF Init
<1>2. i \in Nat /\ polls \in 0 .. RpcPolls /\ status \in {0, 1} /\ dumps \in Nat
  BY <1>1
<1>3. QED
  BY <1>1, <1>2, Zenon

(* Every step of the runner thread and of the service preserves it.        *)
LEMMA NextInv == ServiceInv /\ [Next]_vars => ServiceInv'
<1> SUFFICES ASSUME ServiceInv, [Next]_vars PROVE ServiceInv'
  OBVIOUS
<1>1. CASE SetUpChrome
  <2>0. /\ pc = "SetUp"
        /\ UNCHANGED <<i, polls, svc, status, handle, logFile, logPath, dumps>>
    BY <1>1 DEF SetUpChrome
  <2>1. CASE Fails("ChromeSetUp") /\ pc' = "Done" /\ raised' = TRUE
    BY <2>1, <2>0
  <2>2. CASE pc' = "RpcStart" /\ UNCHANGED raised
    BY <2>2, <2>0, <1>1 DEF SetUpChrome
  <2>3. QED
    BY <1>1, <2>1, <2>2, Zenon DEF SetUpChrome
<1>2. CASE StartService
  <2>0. pc = "RpcStart" /\ logPath' = TRUE /\ UNCHANGED <<i, status, dumps>>
    BY <1>2 DEF StartService
  <2>1. CASE /\ Fails("OpenLog")
             /\ pc' = "Done" /\ raised' = TRUE
             /\ UNCHANGED <<svc, handle, logFile, polls>>
    BY <2>1, <2>0
  <2>2. CASE /\ Fails("Popen")
             /\ logFile' = TRUE
             /\ pc' = "Done" /\ raised' = TRUE
             /\ UNCHANGED <<svc, handle, polls>>
    BY <2>2, <2>0
  <2>3. CASE /\ logFile' = TRUE /\ svc' = "Running" /\ handle' = TRUE
             /\ polls' = 0
             /\ pc' = "RpcPoll"
             /\ UNCHANGED raised
    BY <2>3, <2>0
  <2>4. QED
    BY <1>2, <2>1, <2>2, <2>3, Zenon DEF StartService
<1>3. CASE PollService
  <2>0. pc = "RpcPoll" /\ UNCHANGED <<i, svc, status>>
    BY <1>3 DEF PollService
  <2>1. CASE /\ svc = "Exited"
             /\ DumpCallTraceLog
             /\ handle' = FALSE
             /\ pc' = "Done" /\ raised' = TRUE
             /\ UNCHANGED polls
    <3>1. dumps' = 1 /\ logFile' = FALSE /\ logPath' = FALSE
      BY <2>1, <2>0 DEF DumpCallTraceLog
    <3>2. TypeOK'
      BY <2>1, <2>0, <3>1
    <3>3. QED
      BY <2>1, <2>0, <3>1, <3>2
  <2>2. CASE /\ svc # "Exited"
             /\ polls' = polls + 1
             /\ pc' = IF polls + 1 = RpcPolls THEN AfterSetUp ELSE "RpcPoll"
             /\ UNCHANGED <<raised, handle, logFile, logPath, dumps>>
    <3>1. polls + 1 <= RpcPolls
      BY <2>2, <2>0
    <3>2. pc' \in {"RpcPoll", "Iter", "Results"}
      BY <2>2, <2>0 DEF AfterSetUp
    <3>3. TypeOK'
      BY <2>2, <2>0, <3>1, <3>2
    <3>4. pc' = "RpcPoll" => polls' < RpcPolls
      BY <2>2, <2>0, <3>1 DEF AfterSetUp
    <3>5. QED
      BY <2>2, <2>0, <3>2, <3>3, <3>4
  <2>3. QED
    BY <1>3, <2>1, <2>2, Zenon DEF PollService
<1>4. CASE Iteration
  <2>0. pc = "Iter"
    BY <1>4 DEF Iteration
  <2>1. CASE Fails("Iteration") /\ pc' = "Except" /\ raised' = TRUE /\ UNCHANGED i
          /\ UNCHANGED <<polls, svc, status, handle, logFile, logPath, dumps>>
    <3>1. TypeOK'
      BY <2>1
    <3>2. ServiceInv'
      BY <2>0, <2>1, <3>1
    <3>3. QED BY <3>2
  <2>2. CASE /\ pc' = IF i + 1 < Iterations THEN "Iter" ELSE "Results"
             /\ i' = IF i + 1 < Iterations THEN i + 1 ELSE i
             /\ UNCHANGED raised
             /\ UNCHANGED <<polls, svc, status, handle, logFile, logPath, dumps>>
    BY <2>0, <2>2
  <2>3. QED
    BY <1>4, <2>1, <2>2, Zenon DEF Iteration
<1>5. CASE RunExcept
  BY <1>5 DEF RunExcept
<1>6. CASE ProcessResults
  BY <1>6 DEF ProcessResults
<1>7. CASE StopCommand
  BY <1>7 DEF StopCommand
<1>8. CASE WaitService
  <2>1. /\ pc = "RpcWait" /\ svc = "Exited" /\ pc' = "Done"
        /\ logFile' = FALSE /\ logPath' = FALSE /\ handle' = FALSE
        /\ raised' = (raised \/ status # 0)
        /\ UNCHANGED <<i, polls, svc, status>>
    BY <1>8, Zenon DEF WaitService, DumpCallTraceLog
  <2>2. dumps' = 1
    BY <1>8, <2>1 DEF WaitService, DumpCallTraceLog
  <2>3. raised' \in BOOLEAN
    BY <2>1, Zenon
  <2>4. TypeOK'
    BY <2>1, <2>2, <2>3
  <2>5. QED
    BY <2>1, <2>2, <2>4, Zenon
<1>9. CASE ServiceCrash
  BY <1>9 DEF ServiceCrash
<1>10. CASE ServiceShutDown
  BY <1>10 DEF ServiceShutDown
<1>11. CASE UNCHANGED vars
  BY <1>11 DEF vars
<1>12. QED
  BY <1>1, <1>2, <1>3, <1>4, <1>5, <1>6, <1>7, <1>8, <1>9, <1>10, <1>11
     DEF Next, Runner

(* The invariant holds in every reachable state.                           *)
THEOREM ServiceInvariant == Spec => []ServiceInv
BY InitInv, NextInv, PTL DEF Spec

(* Every variable of ProfileRunner keeps its type (TypeOK of the runs).    *)
THEOREM TypeCorrect == Spec => []TypeOK
BY ServiceInvariant, PTL

(* For every iteration count, poll bound and set of failing calls, a run   *)
(* of ChromeProfileRunner that returns normally stopped its call-trace    *)
(* service with status 0 and dumped its log once (SucceededCleanly).       *)
THEOREM SucceededCleanlyHolds == Spec => []SucceededCleanly
<1>1. ServiceInv => SucceededCleanly
  BY DEF SucceededCleanly, Succeeded
<1>2. QED
  BY <1>1, ServiceInvariant, PTL

-----------------------------------------------------------------------------
(* The initial state is an initial state of the service handle.           *)
LEMMA InitRefines == Init => SH!HInit
<1> SUFFICES ASSUME Init PROVE SH!HInit
  OBVIOUS
<1>1. handle = FALSE /\ dumps = 0
  BY Zenon DEF Init
<1>2. QED
  BY <1>1 DEF SH!HInit, HState

(* Each step is a step of the service handle or leaves it unchanged.       *)
LEMMA NextRefines == ServiceInv /\ [Next]_vars => [SH!HNext]_SH!hvars
<1> SUFFICES ASSUME ServiceInv, [Next]_vars PROVE [SH!HNext]_SH!hvars
  OBVIOUS
<1> USE DEF SH!hvars
<1>1. CASE SetUpChrome
  BY <1>1 DEF SetUpChrome, HState
<1>2. CASE StartService
  <2>1. CASE pc' = "Done"
    BY <1>2, <2>1 DEF StartService, HState
  <2>2. CASE pc' # "Done"
    <3>0. /\ pc = "RpcStart" /\ dumps' = dumps
          /\ pc' = "RpcPoll" /\ handle' = TRUE
      BY <1>2, <2>2, Zenon DEF StartService
    <3>1. /\ pc' = "RpcPoll" /\ handle' = TRUE /\ handle = FALSE
          /\ dumps = 0 /\ dumps' = dumps
      BY <3>0
    <3>2. SH!Start
      BY <3>1 DEF SH!Start, HState
    <3>3. QED
      BY <3>2 DEF SH!HNext
  <2>3. QED
    BY <2>1, <2>2
<1>3. CASE PollService
  <2>1. CASE svc = "Exited"
    <3>1. /\ handle /\ pc = "RpcPoll" /\ dumps = 0
          /\ handle' = FALSE /\ dumps' = 1
      BY <1>3, <2>1 DEF PollService, DumpCallTraceLog
    <3>2. SH!StartFail
      BY <3>1 DEF SH!StartFail, HState
    <3>3. QED
      BY <3>2 DEF SH!HNext
  <2>2. CASE svc # "Exited" /\ pc' = "RpcPoll"
    BY <1>3, <2>2 DEF PollService, HState
  <2>3. CASE svc # "Exited" /\ pc' # "RpcPoll"
    <3>1. handle /\ pc = "RpcPoll" /\ handle' = handle /\ dumps' = dumps
      BY <1>3, <2>3 DEF PollService
    <3>2. SH!Confirm
      BY <2>3, <3>1 DEF SH!Confirm, HState
    <3>3. QED
      BY <3>2 DEF SH!HNext
  <2>4. QED
    BY <2>1, <2>2, <2>3
<1>4. CASE Iteration
  BY <1>4 DEF Iteration, HState
<1>5. CASE RunExcept
  BY <1>5 DEF RunExcept, HState
<1>6. CASE ProcessResults
  BY <1>6 DEF ProcessResults, HState
<1>7. CASE StopCommand
  BY <1>7 DEF StopCommand, HState
<1>8. CASE WaitService
  <2>1. /\ handle /\ pc = "RpcWait" /\ dumps = 0
        /\ handle' = FALSE /\ dumps' = 1
    BY <1>8 DEF WaitService, DumpCallTraceLog
  <2>2. SH!Stop
    BY <2>1 DEF SH!Stop, HState
  <2>3. QED
    BY <2>2 DEF SH!HNext
<1>9. CASE ServiceCrash
  BY <1>9 DEF ServiceCrash, HState
<1>10. CASE ServiceShutDown
  BY <1>10 DEF ServiceShutDown, HState
<1>11. CASE UNCHANGED vars
  BY <1>11 DEF vars, HState
<1>12. QED
  BY <1>1, <1>2, <1>3, <1>4, <1>5, <1>6, <1>7, <1>8, <1>9, <1>10, <1>11
     DEF Next, Runner

(* StartLoggingRpc and StopLoggingRpc implement the service handle for     *)
(* every iteration count, poll bound and set of failing calls            *)
(* (HandleImplemented): the log is dumped exactly when the handle is       *)
(* released, and only a confirmed service is stopped through the handle.   *)
THEOREM HandleRefinement == Spec => HandleImplemented
<1>1. Init => SH!HInit
  BY InitRefines
<1>2. ServiceInv /\ [Next]_vars => [SH!HNext]_SH!hvars
  BY NextRefines
<1>3. QED
  BY <1>1, <1>2, ServiceInvariant, PTL DEF Spec, HandleImplemented, SH!HSpec

=============================================================================
