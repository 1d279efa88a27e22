------------------------- MODULE TestHarnessProofs -------------------------
(***************************************************************************)
(* Proofs about TestHarness: the skip of ExecutableTest._NeedToRun is      *)
(* sound for every number of tests, edits, runs and every bound on the     *)
(* clock, as long as distinct writes get distinct timestamps (FineClock).  *)
(***************************************************************************)
EXTENDS TestHarness, TLAPS, SequenceTheorems, FiniteSetTheorems

(* The inductive invariant behind StampSound: every success file and every *)
(* executable was written no later than the last write, so a file written  *)
(* now (later than the last write, under FineClock) is newer than all.     *)
StampInv ==
  /\ clock \in Nat /\ lastWrite \in Nat /\ lastWrite <= clock
  /\ stamp \in [Children \cup {Suite} -> Nat]
  /\ exeTime \in [ExeTests -> Nat]
  /\ exeVer \in [ExeTests -> Nat] /\ src \in [ExeTests -> Nat]
  /\ passedVer \in [ExeTests -> Int]
  /\ \A t \in ExeTests : stamp[t] <= lastWrite /\ exeTime[t] <= lastWrite
  /\ StampSound

(* The inductive invariant behind TypeOK: while the suite runs its         *)
(* children, order lists them all and k points into it, so that order[k]   *)
(* is a child and the loop stops at the last one.                          *)
TypeInv ==
  /\ TypeOK
  /\ pc = "Child" => Len(order) = Cardinality(Children) /\ k \in 1 .. Len(order)

USE HarnessAssumption DEF StampInv, StampSound, Children

LEMMA InitStampInv == Init => StampInv
BY DEF Init, Versions

(* The writes of a success file keep StampInv: the file written is t's own *)
(* and certifies the version that passed or had passed.                    *)
LEMMA RunExecutableInv ==
  ASSUME StampInv, FineClock, NEW c, RunExecutable(c),
         UNCHANGED <<clock, src>>
  PROVE  StampInv'
<1> DEFINE Ran == NeedToRun(c) \/ force
<1>1. CASE Ran /\ verdict[c][exeVer[c]]
  BY <1>1 DEF RunExecutable, MakeSuccessFile, CanWrite, NeedToRun, LastRunTime
<1>2. CASE Ran /\ ~verdict[c][exeVer[c]]
  BY <1>2 DEF RunExecutable
<1>3. CASE ~Ran
  <2>1. c \in ExeTests => stamp[c] >= exeTime[c]
    BY <1>3 DEF NeedToRun, LastRunTime
  <2>2. QED
    BY <1>3, <2>1 DEF RunExecutable, MakeSuccessFile, CanWrite
<1>4. QED
  BY <1>1, <1>2, <1>3

(* A build in the suite: what it relinks is newer than every success file. *)
LEMMA RunBuildAllInv ==
  ASSUME StampInv, FineClock, RunBuildAll, UNCHANGED <<clock, src>>
  PROVE  StampInv'
<1>1. PICK rebuilt \in SUBSET Stale :
        /\ rebuilt # {} => CanWrite
        /\ Build(rebuilt)
        /\ IF rebuilt = Stale
             THEN /\ CanWrite
                  /\ MakeSuccessFile(BuildAll) /\ lastWrite' = clock
                  /\ UNCHANGED suiteOk
             ELSE /\ suiteOk' = FALSE /\ UNCHANGED stamp
                  /\ lastWrite' = IF rebuilt # {} THEN clock ELSE lastWrite
        /\ UNCHANGED passedVer
  BY DEF RunBuildAll
<1>2. rebuilt \subseteq ExeTests
  BY <1>1 DEF Stale
<1>3. CASE rebuilt = Stale
  BY <1>1, <1>2, <1>3 DEF Build, MakeSuccessFile, CanWrite
<1>4. CASE rebuilt # Stale
  BY <1>1, <1>2, <1>4 DEF Build, CanWrite
<1>5. QED
  BY <1>3, <1>4

LEMMA NextStampInv == FineClock /\ StampInv /\ [Next]_vars => StampInv'
<1> SUFFICES ASSUME FineClock, StampInv, [Next]_vars PROVE StampInv'
  OBVIOUS
<1>1. CASE StartRun
  <2>1. PICK f \in BOOLEAN, o \in Bijection(1 .. Cardinality(Children), Children) :
          IF SuiteNeedToRun \/ f
            THEN /\ IF Children = {} THEN pc' = "End" /\ UNCHANGED k
                                       ELSE pc' = "Child" /\ k' = 1
                 /\ suiteOk' = TRUE
                 /\ UNCHANGED <<stamp, lastWrite>>
            ELSE /\ CanWrite
                 /\ MakeSuccessFile(Suite) /\ lastWrite' = clock
                 /\ UNCHANGED <<pc, k, suiteOk>>
    BY <1>1, Zenon DEF StartRun
  <2>2. UNCHANGED <<clock, src, exeVer, exeTime, verdict, passedVer>>
    BY <1>1 DEF StartRun
  <2>3. CASE SuiteNeedToRun \/ f
    BY <2>1, <2>2, <2>3
  <2>4. CASE ~(SuiteNeedToRun \/ f)
    <3>1. stamp' = [stamp EXCEPT ![Suite] = clock] /\ lastWrite' = clock
          /\ clock > lastWrite
      BY <2>1, <2>4 DEF MakeSuccessFile, CanWrite
    <3>2. \A t \in ExeTests : stamp'[t] = stamp[t]
      BY <3>1
    <3>3. stamp' \in [Children \cup {Suite} -> Nat]
      BY <3>1
    <3>4. QED
      BY <3>1, <3>2, <3>3, <2>2
  <2>5. QED
    BY <2>3, <2>4
<1>2. CASE RunChild
  <2>1. CASE order[k] = BuildAll
    BY <1>2, <2>1, RunBuildAllInv DEF RunChild
  <2>2. CASE order[k] # BuildAll
    BY <1>2, <2>2, RunExecutableInv DEF RunChild
  <2>3. QED
    BY <2>1, <2>2
<1>3. CASE FinishRun
  BY <1>3 DEF FinishRun, MakeSuccessFile, CanWrite
<1>4. CASE ExternalBuild
  BY <1>4 DEF ExternalBuild, Build, Stale, CanWrite
<1>5. CASE Tick
  BY <1>5 DEF Tick
<1>6. CASE \E t \in ExeTests : Edit(t)
  BY <1>6 DEF Edit
<1>7. CASE UNCHANGED vars
  BY <1>7 DEF vars
<1>8. QED
  BY <1>1, <1>2, <1>3, <1>4, <1>5, <1>6, <1>7 DEF Next

-----------------------------------------------------------------------------
HIDE DEF Children

(* The children of the suite are finitely many, and none only when there   *)
(* is no test at all.                                                      *)
LEMMA ChildrenCard ==
  /\ IsFiniteSet(Children) /\ Cardinality(Children) \in Nat
  /\ Children # {} => Cardinality(Children) >= 1
<1>1. IsFiniteSet(IF HasBuildAll THEN {BuildAll} ELSE {})
  BY FS_Singleton, FS_EmptySet
<1>2. IsFiniteSet(Children)
  BY <1>1, FS_Union DEF Children
<1>3. Cardinality(Children) \in Nat
  BY <1>2, FS_CardinalityType
<1>4. Children # {} => Cardinality(Children) # 0
  BY <1>2, FS_EmptySet
<1>5. QED
  BY <1>2, <1>3, <1>4

(* An os.listdir order of the children is a sequence of all of them.       *)
LEMMA OrderType ==
  ASSUME NEW o \in Bijection(1 .. Cardinality(Children), Children)
  PROVE  o \in Seq(Children) /\ Len(o) = Cardinality(Children)
<1>1. o \in [1 .. Cardinality(Children) -> Children]
  BY DEF Bijection, Injection
<1>2. o \in Seq(Children)
  <2>1. o \in UNION {[1 .. n -> Children] : n \in Nat}
    BY <1>1, ChildrenCard
  <2>2. QED
    BY <2>1, SeqDef
<1>3. QED
  BY <1>1, <1>2, ChildrenCard, LenProperties

LEMMA InitTypeInv == Init => TypeInv
<1> SUFFICES ASSUME Init PROVE TypeInv
  OBVIOUS
<1>1. order \in Seq(Children)
  <2>1. <<>> \in Seq(Children)
    BY EmptySeq
  <2>2. QED
    BY <2>1 DEF Init
<1>2. k \in 0 .. Cardinality(Children)
  BY ChildrenCard DEF Init
<1>3. /\ clock \in 1 .. MaxTime /\ lastWrite \in 1 .. clock
      /\ src \in [ExeTests -> Versions] /\ exeVer \in [ExeTests -> Versions]
      /\ exeTime \in [ExeTests -> 1 .. MaxTime]
      /\ verdict \in [ExeTests -> [Versions -> BOOLEAN]]
      /\ passedVer \in [ExeTests -> -1 .. MaxEdits]
  BY DEF Init, Versions
<1>4. stamp \in [Children \cup {Suite} -> 0 .. MaxTime]
  BY DEF Init
<1>5. pc = "Idle" /\ force \in BOOLEAN /\ suiteOk \in BOOLEAN
  BY Zenon DEF Init
<1>7. runs \in 0 .. MaxRuns
  BY DEF Init
<1>6. QED
  BY <1>1, <1>2, <1>3, <1>4, <1>5, <1>7 DEF TypeInv, TypeOK

(* The suite's own step: order is any enumeration of the children, and the *)
(* loop starts at the first one, if any.                                   *)
LEMMA StartRunTypeInv ==
  ASSUME TypeInv, StartRun PROVE TypeInv'
<1>1. PICK f \in BOOLEAN, o \in Bijection(1 .. Cardinality(Children), Children) :
        /\ force' = f /\ order' = o
        /\ IF SuiteNeedToRun \/ f
             THEN /\ IF Children = {} THEN pc' = "End" /\ UNCHANGED k
                                       ELSE pc' = "Child" /\ k' = 1
                  /\ suiteOk' = TRUE
                  /\ UNCHANGED <<stamp, lastWrite>>
             ELSE /\ CanWrite
                  /\ MakeSuccessFile(Suite) /\ lastWrite' = clock
                  /\ UNCHANGED <<pc, k, suiteOk>>
  BY Zenon DEF StartRun
<1>2. o \in Seq(Children) /\ Len(o) = Cardinality(Children)
  BY OrderType
<1>3. /\ runs' = runs + 1 /\ runs < MaxRuns
      /\ UNCHANGED <<clock, src, exeVer, exeTime, verdict, passedVer>>
  BY DEF StartRun
<1>4. CASE (SuiteNeedToRun \/ f) /\ Children = {}
  <2>1. pc' = "End" /\ k' = k /\ suiteOk' = TRUE /\ UNCHANGED <<stamp, lastWrite>>
    BY <1>1, <1>4, Zenon
  <2>2. force' = f /\ order' = o
    BY <1>1
  <2>3. QED
    BY <1>2, <1>3, <2>1, <2>2 DEF TypeInv, TypeOK
<1>5. CASE (SuiteNeedToRun \/ f) /\ Children # {}
  <2>1. pc' = "Child" /\ k' = 1 /\ suiteOk' = TRUE /\ UNCHANGED <<stamp, lastWrite>>
    BY <1>1, <1>5, Zenon
  <2>2. force' = f /\ order' = o
    BY <1>1
  <2>3. Cardinality(Children) >= 1
    BY <1>5, ChildrenCard
  <2>4. QED
    BY <1>2, <1>3, <2>1, <2>2, <2>3, ChildrenCard DEF TypeInv, TypeOK
<1>6. CASE ~(SuiteNeedToRun \/ f)
  BY <1>1, <1>2, <1>3, <1>6, ChildrenCard DEF TypeInv, TypeOK, MakeSuccessFile
<1>7. QED
  BY <1>4, <1>5, <1>6

(* The files a child of the suite writes, and what it records.            *)
ChildDataOK ==
  /\ lastWrite \in 1 .. clock
  /\ exeVer \in [ExeTests -> Versions]
  /\ exeTime \in [ExeTests -> 1 .. MaxTime]
  /\ stamp \in [Children \cup {Suite} -> 0 .. MaxTime]
  /\ suiteOk \in BOOLEAN
  /\ passedVer \in [ExeTests -> -1 .. MaxEdits]

(* A build relinks stale executables from their sources, now.              *)
LEMMA RunBuildAllType ==
  ASSUME TypeOK, RunBuildAll, UNCHANGED <<clock, src>>, BuildAll \in Children
  PROVE  ChildDataOK'
<1>1. PICK rebuilt \in SUBSET Stale :
        /\ Build(rebuilt)
        /\ IF rebuilt = Stale
             THEN /\ MakeSuccessFile(BuildAll) /\ lastWrite' = clock
                  /\ UNCHANGED suiteOk
             ELSE /\ suiteOk' = FALSE /\ UNCHANGED stamp
                  /\ lastWrite' = IF rebuilt # {} THEN clock ELSE lastWrite
        /\ UNCHANGED passedVer
  BY Zenon DEF RunBuildAll
<1>2. rebuilt \subseteq ExeTests
  BY DEF Stale
<1>3. exeVer' \in [ExeTests -> Versions] /\ exeTime' \in [ExeTests -> 1 .. MaxTime]
  BY <1>1, <1>2 DEF Build, TypeOK
<1>4. clock' = clock /\ passedVer' = passedVer
  BY <1>1
<1>5. CASE rebuilt = Stale
  <2>1. stamp' = [stamp EXCEPT ![BuildAll] = clock] /\ lastWrite' = clock
        /\ suiteOk' = suiteOk
    BY <1>1, <1>5 DEF MakeSuccessFile
  <2>2. stamp' \in [Children \cup {Suite} -> 0 .. MaxTime]
    BY <2>1 DEF TypeOK
  <2>3. QED
    BY <1>3, <1>4, <2>1, <2>2 DEF TypeOK, ChildDataOK
<1>6. CASE rebuilt # Stale
  <2>1. suiteOk' = FALSE /\ stamp' = stamp
        /\ lastWrite' = IF rebuilt # {} THEN clock ELSE lastWrite
    BY <1>1, <1>6
  <2>2. lastWrite' \in 1 .. clock'
    BY <1>4, <2>1 DEF TypeOK
  <2>3. QED
    BY <1>3, <1>4, <2>1, <2>2, Zenon DEF TypeOK, ChildDataOK
<1>7. QED
  BY <1>5, <1>6

(* An executable test writes its success file, or records its failure.     *)
LEMMA RunExecutableType ==
  ASSUME TypeOK, NEW c \in ExeTests, RunExecutable(c), UNCHANGED clock
  PROVE  ChildDataOK'
<1>1. exeVer' = exeVer /\ exeTime' = exeTime /\ clock' = clock
  BY DEF RunExecutable
<1>2. [stamp EXCEPT ![c] = clock] \in [Children \cup {Suite} -> 0 .. MaxTime]
  BY DEF TypeOK, Children
<1>3. CASE (NeedToRun(c) \/ force) /\ verdict[c][exeVer[c]]
  <2>1. /\ stamp' = [stamp EXCEPT ![c] = clock] /\ lastWrite' = clock
        /\ passedVer' = [passedVer EXCEPT ![c] = exeVer[c]]
        /\ suiteOk' = suiteOk
    BY <1>3 DEF RunExecutable, MakeSuccessFile
  <2>2. passedVer' \in [ExeTests -> -1 .. MaxEdits]
    BY <2>1 DEF TypeOK, Versions
  <2>3. QED
    BY <1>1, <1>2, <2>1, <2>2 DEF TypeOK, ChildDataOK
<1>4. CASE (NeedToRun(c) \/ force) /\ ~verdict[c][exeVer[c]]
  <2>1. suiteOk' = FALSE /\ UNCHANGED <<stamp, lastWrite, passedVer>>
    BY <1>4 DEF RunExecutable
  <2>2. QED
    BY <1>1, <2>1 DEF TypeOK, ChildDataOK
<1>5. CASE ~(NeedToRun(c) \/ force)
  <2>1. /\ stamp' = [stamp EXCEPT ![c] = clock] /\ lastWrite' = clock
        /\ UNCHANGED <<suiteOk, passedVer>>
    BY <1>5 DEF RunExecutable, MakeSuccessFile
  <2>2. QED
    BY <1>1, <1>2, <2>1 DEF TypeOK, ChildDataOK
<1>6. QED
  BY <1>3, <1>4, <1>5

(* One pass of the loop of TestSuite._Run.                                 *)
LEMMA RunChildTypeInv ==
  ASSUME TypeInv, RunChild PROVE TypeInv'
<1> DEFINE c == order[k]
<1>1. pc = "Child" /\ k \in 1 .. Len(order) /\ order \in Seq(Children)
      /\ Len(order) = Cardinality(Children)
  BY DEF RunChild, TypeInv, TypeOK
<1>2. c \in Children
  BY <1>1, ElementOfSeq
<1>3. /\ IF c = BuildAll THEN RunBuildAll ELSE RunExecutable(c)
      /\ IF k < Len(order) THEN k' = k + 1 /\ UNCHANGED pc
                           ELSE pc' = "End" /\ UNCHANGED k
      /\ UNCHANGED <<clock, src, verdict, order, force, runs>>
  BY DEF RunChild
<1>4. ChildDataOK'
  <2>1. CASE c = BuildAll
    BY <1>2, <1>3, <2>1, RunBuildAllType DEF TypeInv
  <2>2. CASE c # BuildAll
    <3>1. c \in ExeTests
      BY <1>2, <2>2 DEF Children
    <3>2. QED
      BY <1>3, <2>2, <3>1, RunExecutableType DEF TypeInv
  <2>3. QED
    BY <2>1, <2>2
<1>5. /\ pc' \in {"Idle", "Child", "End"}
      /\ k' \in 0 .. Cardinality(Children)
      /\ pc' = "Child" => Len(order') = Cardinality(Children) /\ k' \in 1 .. Len(order')
  BY <1>1, <1>3, ChildrenCard
<1>6. QED
  BY <1>3, <1>4, <1>5 DEF TypeInv, TypeOK, ChildDataOK

LEMMA NextTypeInv == TypeInv /\ [Next]_vars => TypeInv'
<1> SUFFICES ASSUME TypeInv, [Next]_vars PROVE TypeInv'
  OBVIOUS
<1>1. CASE StartRun
  BY <1>1, StartRunTypeInv
<1>2. CASE RunChild
  BY <1>2, RunChildTypeInv
<1>3. CASE FinishRun
  <2>1. [stamp EXCEPT ![Suite] = clock] \in [Children \cup {Suite} -> 0 .. MaxTime]
    BY DEF TypeInv, TypeOK
  <2>2. QED
    BY <1>3, <2>1 DEF FinishRun, MakeSuccessFile, TypeInv, TypeOK
<1>4. CASE ExternalBuild
  <2>1. Stale \subseteq ExeTests
    BY DEF Stale
  <2>2. QED
    BY <1>4, <2>1 DEF ExternalBuild, Build, TypeInv, TypeOK
<1>5. CASE Tick
  BY <1>5 DEF Tick, TypeInv, TypeOK
<1>6. CASE \E t \in ExeTests : Edit(t)
  BY <1>6 DEF Edit, TypeInv, TypeOK, Versions
<1>7. CASE UNCHANGED vars
  BY <1>7 DEF vars, TypeInv, TypeOK
<1>8. QED
  BY <1>1, <1>2, <1>3, <1>4, <1>5, <1>6, <1>7 DEF Next

(* The harness keeps its variables in their ranges, whatever the tests,    *)
(* the clock and whether timestamps are fine: the loop of TestSuite._Run   *)
(* only runs the children os.listdir gave and stops after the last.        *)
THEOREM TypeCorrect == Spec => []TypeOK
<1>1. Init => TypeInv
  BY InitTypeInv
<1>2. TypeInv /\ [Next]_vars => TypeInv'
  BY NextTypeInv
<1>3. TypeInv => TypeOK
  BY DEF TypeInv
<1>4. QED
  BY <1>1, <1>2, <1>3, PTL DEF Spec

(* The skip of ExecutableTest._NeedToRun is sound: under FineClock, in     *)
(* every state of every behaviour, a success file at least as new as its   *)
(* executable means that executable, as built, has passed.                 *)
THEOREM StampSoundHolds == FineClock => (Spec => []StampSound)
<1> SUFFICES ASSUME FineClock PROVE Spec => []StampSound
  OBVIOUS
<1>1. Init => StampInv
  BY InitStampInv
<1>2. StampInv /\ [Next]_vars => StampInv'
  BY NextStampInv
<1>3. StampInv => StampSound
  OBVIOUS
<1>4. QED
  BY <1>1, <1>2, <1>3, PTL DEF Spec
=============================================================================
