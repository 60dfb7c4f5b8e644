SPECIFICATION Spec
CONSTANTS
  HalfBase = 16
  MaxCalls = 1
  Bodies <- TwoDivisions
INVARIANTS
  DivChecksReachTheirDivision
CHECK_DEADLOCK FALSE
