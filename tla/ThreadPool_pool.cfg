SPECIFICATION FairPoolSpec
CONSTANTS
  w1 = w1
  w2 = w2
  owner = owner
  client = client
  m1 = m1
  NoMessage = NoMessage
  NoClient = NoClient
  Threads <- TwoClients
  Workers <- TwoWorkers
  Messages <- OneMessage
  Priority <- OnePriority
  Delays = {1}
  MaxMessageInQueue = 1
  MaxTime = 1
  MaxNest = 1
  Calls <- PoolCalls
  HandlerCalls <- Meddling
PROPERTIES
  PoolEndsClean
  ShutdownEndsPool
  AwaitingCallsReturn
