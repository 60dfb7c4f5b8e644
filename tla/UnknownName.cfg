SPECIFICATION DriverSpec
CONSTANTS
  TestSuites <- Suites
  FileCount = 2
  WordSize = 256
  XWordSize = 65536
  Garbage = {9}
  Modules <- TwoModules
  Answers <- CodeAnswers
  MaxCommands = 4
INVARIANTS
  CallsExported
CHECK_DEADLOCK FALSE
