SPECIFICATION Spec
CONSTANTS
  HalfBase = 16
  MaxCalls = 1
  Bodies <- ParamAndLocal
INVARIANTS
  SlotsInFrame
CHECK_DEADLOCK FALSE
