SPECIFICATION WasmCallsSpec
CONSTANTS
  Values = {a, b}
  Undefined = Undefined
  Foreign = Foreign
  Troubles = {"earlierResult"}
  MaxSlots = 5
  MaxFrames = 4
PROPERTY CallsArrive
