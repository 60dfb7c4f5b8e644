SPECIFICATION JitSpec
CONSTANTS
  HalfBase = 16
  MaxCalls = 1
  Bodies <- DivideUnsigned
  Buffer = 8192
  WasmStack = 20480
  StackTop = 32768
  HostReturn = 65520
  Junk = {0, 9}
  Fresh <- FreshWord
INVARIANTS
  UnsignedDivisionTrapsOnZero
CHECK_DEADLOCK FALSE
