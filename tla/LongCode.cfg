SPECIFICATION JitPagesSpec
CONSTANTS
  HalfBase = 16
  MaxCalls = 1
  Bodies <- LongFunction
  Buffer = 8192
  WasmStack = 20480
  StackTop = 32768
  HostReturn = 65520
  Junk = {0, 9}
  Fresh <- FreshWord
  Pages = 2
  PageBytes = 4096
  Lengths <- AnyLength
PROPERTIES
  OnlyGarbageCollected
CHECK_DEADLOCK FALSE
