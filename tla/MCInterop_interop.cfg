SPECIFICATION Spec
CONSTANTS
  Engines = {}
  NoEngine = NoEngine
  NoThread = NoThread
  a = a
  b = b
  o = o
  st = st
  x1 = x1
  x2 = x2
  m1 = m1
  m2 = m2
  Root = Root
  Nothing = Nothing
  Counted <- CountedValues
  CountedStrings <- OneString
  CountedBytes <- OneBuffer
  CountedArrays <- OneArray
  MaxLocals = 2
  MaxCalls = 1
  MaxCount = 4
  MaxLost = 1
  BindDepth = 7
  Slots <- TwoSlots
  Texts <- TwoTexts
  Lost = Lost
  NoText = NoText
  MaxValues = 4
  Defines <- FourDefines
  NoDefine = NoDefine
  MaxMade = 3
  Troubles = {}
  EvalDepth = 2
INVARIANTS
  InteropTypesOK
  CallsAreAnswered
  ExceptionsArrive
  ValuesAreRead
  CountsAgree
PROPERTIES
  RegistryHolds
  ProgramsAreAnswered
  ActsAsContainers
  AddKeepsElements
CHECK_DEADLOCK FALSE
