SPECIFICATION Spec
CONSTANTS
  HalfBase = 16
  MaxCalls = 1
  Bodies <- MixedParams
INVARIANTS
  SlotsDisjoint
CHECK_DEADLOCK FALSE
