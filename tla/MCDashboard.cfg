CONSTANTS
  P1 = P1
  C1 = C1
  M1 = M1
  W1 = W1
  W2 = W2
  NoId = NoId
  Products <- MCProducts
  Clients <- MCClients
  Metrics <- MCMetrics
  Workers <- MCWorkers
  MaxRequests = 4
  MaxData = 2
  MaxAdmin = 3
SPECIFICATION Spec
INVARIANT TypeOK
INVARIANT ReadAfterAck
\* Requests stop once MaxRequests have been served.
CHECK_DEADLOCK FALSE
