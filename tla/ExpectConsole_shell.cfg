SPECIFICATION Spec
CONSTANTS
  Fault = {"noise"}
  MaxCalls = 2
  MaxNoise = 1
INVARIANTS
  OwnResult
PROPERTIES
  InStep
  CallsReturn
CHECK_DEADLOCK FALSE
