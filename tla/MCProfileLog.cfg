CONSTANTS
  Iterations = 2
  RpcPolls = 5
  MayFail <- MCAllCalls
SPECIFICATION Spec
INVARIANT LogSurfaced
CHECK_DEADLOCK FALSE
