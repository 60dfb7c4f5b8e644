SPECIFICATION JitSpec
CONSTANTS
  HalfBase = 16
  MaxCalls = 2
  Bodies <- RepeatedFunctions
  Buffer = 8192
  WasmStack = 20480
  StackTop = 32768
  HostReturn = 65520
  Junk = {0, 9}
  Fresh <- FreshWord
INVARIANTS
  PcInCode
  HostContextRestored
  ReadsInitialised
PROPERTIES
  StoresInBounds
  KeepsPromise
CHECK_DEADLOCK FALSE
