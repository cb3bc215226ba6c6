SPECIFICATION WasmCallsSpec
CONSTANTS
  Values = {a, b}
  Undefined = Undefined
  Foreign = Foreign
  Troubles = {}
  MaxSlots = 6
  MaxFrames = 3
INVARIANT CallsTypeOK
PROPERTY CallsAreKept
