CONSTANTS
  Cycles = Cycles
  InstrRetired = InstrRetired
  CacheMisses = CacheMisses
  BranchMisses = BranchMisses
  TlbMisses = TlbMisses
  AllMetrics <- MCAllMetrics
  FreeMetrics <- MCFreeMetrics
  NonFreeMetrics <- MCNonFreeMetrics
  MaxCounters = 2
SPECIFICATION Spec
INVARIANT GroupsPartition
INVARIANT GroupsMinimal
\* _SetupIbmPerf runs once, in the constructor; the planner then stops.
CHECK_DEADLOCK FALSE
