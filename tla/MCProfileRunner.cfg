CONSTANTS
  Iterations = 10
  RpcPolls = 5
  MayFail <- MCAllCalls
SPECIFICATION Spec
INVARIANT TypeOK
INVARIANT SucceededCleanly
PROPERTY RunTerminates
PROPERTY HandleImplemented
\* Run returns; the runner thread then stops.
CHECK_DEADLOCK FALSE
