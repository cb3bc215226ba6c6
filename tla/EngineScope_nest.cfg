SPECIFICATION Spec
CONSTANTS
  t1 = t1
  t2 = t2
  e1 = e1
  e2 = e2
  e3 = e3
  NoEngine = NoEngine
  Threads <- TwoThreads
  Engines <- ThreeEngines
  Backends = {"Lua", "QuickJs", "JavaScriptCore", "V8"}
  IsolateOf <- Isolates
  MaxDepth = 4
SYMMETRY Symmetry
INVARIANTS
  CurrentEngineIsLocked
  LocksBalanced
  ExitFreesTheEngine
  ExitsPreviousFirst
CHECK_DEADLOCK FALSE
