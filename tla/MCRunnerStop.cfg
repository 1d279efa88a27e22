CONSTANTS
  Cycles = Cycles
  CacheMisses = CacheMisses
  BranchMisses = BranchMisses
  On = On
  Off = Off
  AllMetrics <- MCAllMetrics
  FreeMetrics <- MCFreeMetrics
  NonFreeMetrics <- MCNonFreeMetrics
  MaxCounters = 1
  Iterations = 2
  PrefetchModes = {"ENABLED", "DISABLED", "RESET_PRIOR_TO_FIRST_LAUNCH"}
  PreloadValues <- MCPreloadValues
  Preload = On
  RequestedMetrics = {}
  InitializeProfile = TRUE
  ProfileIsTemp = FALSE
  KeepTempDirs = FALSE
  WaitPolls = 2
  MayFail <- MCEtwStartFails
SPECIFICATION Spec
PROPERTY StopOnlyAfterStart
CHECK_DEADLOCK FALSE
