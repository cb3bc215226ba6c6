SPECIFICATION PartSpec
CONSTANTS
  worker = worker
  helper = helper
  poster = poster
  owner = owner
  m1 = m1
  m2 = m2
  m3 = m3
  NoMessage = NoMessage
  Threads <- Trio
  Messages <- ThreeMessages
  Priority <- SamePriority
  Delays = {0}
  MaxMessageInQueue = 1
  MaxTime = 0
  MaxNest = 2
  Calls <- PostingCalls
  HandlerCalls <- BusyHandlers
  MaxLength = 5
  DueTimes = {0, 1, 2}
  Priorities = {0, 1}
  Items <- ThreeItems
  Objects <- TwoObjects
  NoObject = NoObject
  Tags <- OneTag
  NoTag = NoTag
  PoolCapacity = 2
INVARIANTS
  LooperNeverAwaitsRoom
  InsertionIsStable
  MessagesAreRecycled
