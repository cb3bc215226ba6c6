SPECIFICATION Spec
CONSTANTS
  e1 = e1
  e2 = e2
  o1 = o1
  o2 = o2
  g1 = g1
  g2 = g2
  w1 = w1
  w2 = w2
  tg = tg
  tw = tw
  t1 = t1
  t2 = t2
  Engines <- TwoEngines
  NoEngine = NoEngine
  Objects <- TwoObjects
  NoObject = NoObject
  HomeOf <- Homes
  Globals <- GlobalSet
  Weaks <- WeakSet
  TempGlobal = tg
  TempWeak = tw
  PyThreads <- TwoThreads
  NoThread = NoThread
  PyDepth = 4
  QjsThreads <- TwoThreads
  QjsLoopers <- OneThread
  QjsDepth = 3
  QjsMaxJobs = 3
  str = str
  num = num
  Values <- ScriptValues
  Strings <- ScriptStrings
  Nil = Nil
  Array = Array
  Handler = Handler
  MaxSlots = 5
  MaxLocals = 2
  MaxScopes = 3
  WasmGlobals <- PlainGlobals
  WasmWeaks <- PlainWeaks
  WasmValues <- ScriptValues
  NoEntry = NoEntry
  MaxKeys = 3
  i1 = i1
  i2 = i2
  c1 = c1
  c2 = c2
  ScriptObjects <- TwoObjects
  Instances <- TwoInstances
  Classes <- TwoClasses
  NoInstance = NoInstance
  NoClass = NoClass
  V8Workers <- TwoWorkers
  b1 = b1
  b2 = b2
  BufferLocals <- PlainGlobals
  JsBuffers <- TwoBuffers
  NoBuffer = NoBuffer
  Memories <- TwoMemories
  NoMemory = NoMemory
  Contents <- TwoContents
INVARIANTS
  TypesOK
  ReferencesAreListed
  PyStatesSurvive
  TicksAreDue
  LocalsDesignate
  GlobalsHaveEntries
  InstancesDeletedOnce
  TasksGoWithTheirEngine
  BuffersAgree
PROPERTY JobsRun
CHECK_DEADLOCK FALSE
