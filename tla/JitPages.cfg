SPECIFICATION JitPagesSpec
CONSTANTS
  HalfBase = 16
  MaxCalls = 2
  Bodies <- PagedFunctions
  Buffer = 8192
  WasmStack = 20480
  StackTop = 32768
  HostReturn = 65520
  Junk = {0, 9}
  Fresh <- FreshWord
  Pages = 4
  PageBytes = 432
  Lengths <- AnyLength
INVARIANTS
  FetchesOwnPages
  CodePagesOfCall
PROPERTIES
  OthersKept
CHECK_DEADLOCK FALSE
