--------------------------- MODULE TestHarness -----------------------------
(***************************************************************************)
(* The incremental unit-test harness of py/test_utils/testing.py, as       *)
(* tests/run_all_tests.py assembles it: a TestSuite "ALL" whose children   *)
(* are the BuildAll test of tests/build_all.py and ExecutableTests, run in *)
(* one configuration.  A test leaves a success file behind when it         *)
(* passes; an ExecutableTest is skipped next time when its executable is   *)
(* not newer than that file.  Between and during runs the developer edits  *)
(* sources, and builds rebuild the executables whose sources changed.      *)
(*                                                                         *)
(* Times are file timestamps.  With FineClock, every file written gets a   *)
(* timestamp later than every file written before it; without, two writes  *)
(* may fall in the same timestamp tick.                                    *)
(***************************************************************************)
EXTENDS Integers, FiniteSets, Sequences, Functions

CONSTANTS
  ExeTests,     \* the ExecutableTest children, by name
  HasBuildAll,  \* the suite holds the BuildAll test
  MaxEdits,     \* bound on the source edits of each test
  MaxRuns,      \* bound on the runs of the suite
  MaxTime,      \* bound on the clock
  FineClock     \* timestamps of successive writes always differ

BuildAll == "build_all"
Suite == "ALL"

ASSUME HarnessAssumption ==
  /\ IsFiniteSet(ExeTests)
  /\ BuildAll \notin ExeTests /\ Suite \notin ExeTests
  /\ HasBuildAll \in BOOLEAN
  /\ MaxEdits \in Nat /\ MaxRuns \in Nat /\ MaxTime \in Nat \ {0}
  /\ FineClock \in BOOLEAN

Children == ExeTests \cup (IF HasBuildAll THEN {BuildAll} ELSE {})
Versions == 0 .. MaxEdits

VARIABLES
  clock,      \* the current timestamp
  lastWrite,  \* timestamp of the last file written
  src,        \* src[t]: version of the sources of test t
  exeVer,     \* exeVer[t]: version the executable of t was built from
  exeTime,    \* exeTime[t]: st_mtime of the executable of t
  verdict,    \* verdict[t][v]: the executable of t built from v passes
  stamp,      \* stamp[t]: st_mtime of the success file of t; 0: none
  pc,         \* "Idle", "Child" (running order[k]) or "End"
  order,      \* the children in the order os.listdir gave them
  k,          \* the child being run
  force,      \* the --force option of this run
  suiteOk,    \* the success variable of TestSuite._Run
  runs,       \* runs of the suite so far
  passedVer   \* history: passedVer[t], version last seen passing; -1: none

vars == <<clock, lastWrite, src, exeVer, exeTime, verdict, stamp, pc, order,
          k, force, suiteOk, runs, passedVer>>

(* A file written now gets a timestamp of its own.                         *)
CanWrite == FineClock => clock > lastWrite

(* Test.LastRunTime: the st_mtime of the success file, 0 when absent.      *)
LastRunTime(t) == stamp[t]

(* ExecutableTest._NeedToRun: the executable is newer than the success     *)
(* file.                                                                   *)
NeedToRun(t) == exeTime[t] > LastRunTime(t)

(* TestSuite._NeedToRun: some child needs to run; BuildAll does not        *)
(* override the stub, which always says so.                                *)
SuiteNeedToRun == HasBuildAll \/ \E t \in ExeTests : NeedToRun(t)

(* Test._MakeSuccessFile of test t.                                        *)
MakeSuccessFile(t) == stamp' = [stamp EXCEPT ![t] = clock]

(* The build of build_project.BuildProjectConfig: the stale executables in *)
(* rebuilt are relinked now; the build fails unless that is all of them.   *)
Stale == {t \in ExeTests : exeVer[t] # src[t]}

Build(rebuilt) ==
  /\ exeVer' = [t \in ExeTests |-> IF t \in rebuilt THEN src[t] ELSE exeVer[t]]
  /\ exeTime' = [t \in ExeTests |-> IF t \in rebuilt THEN clock ELSE exeTime[t]]

(* The test executables are built once before the first run, at time 1.   *)
Init ==
  /\ clock = 1
  /\ lastWrite = 1
  /\ src = [t \in ExeTests |-> 0]
  /\ exeVer = [t \in ExeTests |-> 0]
  /\ exeTime = [t \in ExeTests |-> 1]
  /\ verdict \in [ExeTests -> [Versions -> BOOLEAN]]
  /\ stamp = [t \in Children \cup {Suite} |-> 0]
  /\ pc = "Idle"
  /\ order = <<>>
  /\ k = 0
  /\ force = FALSE
  /\ suiteOk = TRUE
  /\ runs = 0
  /\ passedVer = [t \in ExeTests |-> -1]

-----------------------------------------------------------------------------
(* Test.Main of the suite, then Test.Run of the suite up to its _Run:      *)
(* MakeTest lists the tests, _CanRun says yes, _NeedToRun asks every      *)
(* child.  With nothing to run and no --force the suite only writes its    *)
(* success file.  The loop of _Run over no children ends at once.          *)
StartRun ==
  /\ pc = "Idle" /\ runs < MaxRuns
  /\ runs' = runs + 1
  /\ \E f \in BOOLEAN, o \in Bijection(1 .. Cardinality(Children), Children) :
       /\ force' = f
       /\ order' = o
       /\ IF SuiteNeedToRun \/ f
            THEN /\ IF Children = {} THEN pc' = "End" /\ UNCHANGED k
                                       ELSE pc' = "Child" /\ k' = 1
                 /\ suiteOk' = TRUE
                 /\ UNCHANGED <<stamp, lastWrite>>
            ELSE /\ CanWrite
                 /\ MakeSuccessFile(Suite) /\ lastWrite' = clock
                 /\ UNCHANGED <<pc, k, suiteOk>>
  /\ UNCHANGED <<clock, src, exeVer, exeTime, verdict, passedVer>>

(* BuildAll.Run: its _NeedToRun stub always says yes, _Run builds; a       *)
(* BuildFailure becomes a TestFailure that Run catches and reports as      *)
(* False; success writes the success file of build_all.                    *)
RunBuildAll ==
  \E rebuilt \in SUBSET Stale :
    /\ rebuilt # {} => CanWrite
    /\ Build(rebuilt)
    /\ IF rebuilt = Stale
         THEN /\ CanWrite
              /\ MakeSuccessFile(BuildAll) /\ lastWrite' = clock
              /\ UNCHANGED suiteOk
         ELSE /\ suiteOk' = FALSE /\ UNCHANGED stamp
              /\ lastWrite' = IF rebuilt # {} THEN clock ELSE lastWrite
    /\ UNCHANGED passedVer

(* Mutant: the exit code of the test is not checked.                       *)
RunExecutableNoVerdict(t) ==
  /\ CanWrite
  /\ MakeSuccessFile(t) /\ lastWrite' = clock
  /\ passedVer' = IF (NeedToRun(t) \/ force) /\ verdict[t][exeVer[t]]
                    THEN [passedVer EXCEPT ![t] = exeVer[t]] ELSE passedVer
  /\ UNCHANGED <<suiteOk, exeVer, exeTime>>

(* Test.Run of ExecutableTest t: run it when its executable is newer than  *)
(* its success file or --force is given; a non-zero exit code raises a     *)
(* TestFailure, which Run catches and reports as False.  Otherwise, run    *)
(* or not, it writes the success file.                                     *)
RunExecutable(t) ==
  /\ IF NeedToRun(t) \/ force
       THEN IF verdict[t][exeVer[t]]
              THEN /\ CanWrite
                   /\ MakeSuccessFile(t) /\ lastWrite' = clock
                   /\ passedVer' = [passedVer EXCEPT ![t] = exeVer[t]]
                   /\ UNCHANGED suiteOk
              ELSE suiteOk' = FALSE /\ UNCHANGED <<stamp, lastWrite, passedVer>>
       ELSE /\ CanWrite
            /\ MakeSuccessFile(t) /\ lastWrite' = clock
            /\ UNCHANGED <<suiteOk, passedVer>>
  /\ UNCHANGED <<exeVer, exeTime>>

(* Mutant: the loop index moves past the last child.                       *)
RunChildPastEnd ==
  /\ pc = "Child"
  /\ IF order[k] = BuildAll THEN RunBuildAll ELSE RunExecutable(order[k])
  /\ k' = k + 1
  /\ pc' = IF k < Len(order) THEN pc ELSE "End"
  /\ UNCHANGED <<clock, src, verdict, order, force, runs>>

(* One pass of the loop of TestSuite._Run: run the next child, remember a  *)
(* failure and go on with the others.                                      *)
RunChild ==
  /\ pc = "Child"
  /\ IF order[k] = BuildAll THEN RunBuildAll ELSE RunExecutable(order[k])
  /\ IF k < Len(order) THEN k' = k + 1 /\ UNCHANGED pc
                       ELSE pc' = "End" /\ UNCHANGED k
  /\ UNCHANGED <<clock, src, verdict, order, force, runs>>

(* The end of Test.Run of the suite: _Run returned suiteOk; True gives the *)
(* suite its success file, False a TestFailure that Run catches.           *)
FinishRun ==
  /\ pc = "End"
  /\ \/ suiteOk /\ CanWrite /\ MakeSuccessFile(Suite) /\ lastWrite' = clock
     \/ ~suiteOk /\ UNCHANGED <<stamp, lastWrite>>
  /\ pc' = "Idle"
  /\ UNCHANGED <<clock, src, exeVer, exeTime, verdict, order, k, force,
                 suiteOk, runs, passedVer>>

(* The developer edits the sources of a test, at any time.                 *)
Edit(t) ==
  /\ src[t] < MaxEdits
  /\ src' = [src EXCEPT ![t] = src[t] + 1]
  /\ UNCHANGED <<clock, lastWrite, exeVer, exeTime, verdict, stamp, pc, order,
                 k, force, suiteOk, runs, passedVer>>

(* The developer builds between runs, outside the harness.                 *)
ExternalBuild ==
  /\ pc = "Idle" /\ Stale # {} /\ CanWrite
  /\ Build(Stale) /\ lastWrite' = clock
  /\ UNCHANGED <<clock, src, verdict, stamp, pc, order, k, force, suiteOk,
                 runs, passedVer>>

(* Time passes.                                                            *)
Tick ==
  /\ clock < MaxTime
  /\ clock' = clock + 1
  /\ UNCHANGED <<lastWrite, src, exeVer, exeTime, verdict, stamp, pc, order,
                 k, force, suiteOk, runs, passedVer>>

Next ==
  \/ StartRun \/ RunChild \/ FinishRun \/ ExternalBuild \/ Tick
  \/ \E t \in ExeTests : Edit(t)

Spec == Init /\ [][Next]_vars

-----------------------------------------------------------------------------
(***************************************************************************)
(* Properties.                                                             *)
(***************************************************************************)
TypeOK ==
  /\ clock \in 1 .. MaxTime
  /\ lastWrite \in 1 .. clock
  /\ src \in [ExeTests -> Versions]
  /\ exeVer \in [ExeTests -> Versions]
  /\ exeTime \in [ExeTests -> 1 .. MaxTime]
  /\ verdict \in [ExeTests -> [Versions -> BOOLEAN]]
  /\ stamp \in [Children \cup {Suite} -> 0 .. MaxTime]
  /\ pc \in {"Idle", "Child", "End"}
  /\ order \in Seq(Children)
  /\ k \in 0 .. Cardinality(Children)
  /\ force \in BOOLEAN
  /\ suiteOk \in BOOLEAN
  /\ runs \in 0 .. MaxRuns
  /\ passedVer \in [ExeTests -> -1 .. MaxEdits]

(* The skip of _NeedToRun is sound: whenever the success file of an        *)
(* ExecutableTest is at least as new as its executable, so that the next   *)
(* run skips it, the executable it would skip has passed.  Violating it    *)
(* takes a run, an edit, a build and another run, in some order.           *)
StampSound ==
  \A t \in ExeTests :
    stamp[t] >= exeTime[t] => passedVer[t] = exeVer[t]

(* The catch-all success file of the suite certifies the executables it is *)
(* newer than: each of them has passed as built.                           *)
SuiteStampSound ==
  (\A t \in ExeTests : stamp[Suite] >= exeTime[t]) =>
    \A t \in ExeTests : passedVer[t] = exeVer[t]

=============================================================================
