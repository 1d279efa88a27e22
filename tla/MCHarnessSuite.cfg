CONSTANTS
  T1 = T1
  T2 = T2
  ExeTests <- MCExeTests
  HasBuildAll = TRUE
  MaxEdits = 1
  MaxRuns = 2
  MaxTime = 6
  FineClock = TRUE
SPECIFICATION Spec
INVARIANT SuiteStampSound
\* The developer stops editing and running tests once the bounds are spent.
CHECK_DEADLOCK FALSE
