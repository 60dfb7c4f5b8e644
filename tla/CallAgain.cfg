SPECIFICATION Spec
CONSTANTS
  HalfBase = 16
  MaxCalls = 2
  Bodies <- OneLocal
INVARIANTS
  LocalsAsDeclared
CHECK_DEADLOCK FALSE
