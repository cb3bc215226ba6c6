SPECIFICATION EvalSpec
CONSTANTS
  Engines = {}
  NoEngine = NoEngine
  NoThread = NoThread
  Troubles = {"shadowing"}
  EvalDepth = 2
INVARIANT NamesAgree
CHECK_DEADLOCK FALSE
