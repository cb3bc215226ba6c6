SPECIFICATION Spec
CONSTANTS
  worker = worker
  helper = helper
  poster = poster
  owner = owner
  m1 = m1
  m2 = m2
  m3 = m3
  NoMessage = NoMessage
  Threads <- Trio
  Messages <- TwoMessages
  Priority <- TwoPriorities
  Delays = {0, 1}
  MaxMessageInQueue = 1
  MaxTime = 1
  MaxNest = 1
  Calls <- EveryCall
  HandlerCalls <- BusyHandlers
PROPERTIES
  AwaitedLoopsHaveReturned
