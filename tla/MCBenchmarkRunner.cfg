CONSTANTS
  Cycles = Cycles
  CacheMisses = CacheMisses
  BranchMisses = BranchMisses
  On = On
  Off = Off
  AllMetrics <- MCAllMetrics
  FreeMetrics <- MCFreeMetrics
  NonFreeMetrics <- MCNonFreeMetrics
  MaxCounters = 1
  Iterations = 2
  PrefetchModes = {"ENABLED", "DISABLED", "RESET_PRIOR_TO_FIRST_LAUNCH"}
  PreloadValues <- MCPreloadValues
  Preload = On
  RequestedMetrics = {}
  InitializeProfile = TRUE
  ProfileIsTemp = FALSE
  KeepTempDirs = FALSE
  WaitPolls = 1
  MayFail <- MCAllCalls
SPECIFICATION Spec
INVARIANT TypeOK
INVARIANT TearDownOnce
INVARIANT PrefetchPolicy
INVARIANT SamplesComplete
PROPERTY RunTerminates
\* Run returns; the runner thread then stops.
CHECK_DEADLOCK FALSE
