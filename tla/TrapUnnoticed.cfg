SPECIFICATION SystemSpec
CONSTANTS
  TestSuites <- DivideSuites
  FileCount = 1
  WordSize = 256
  XWordSize = 65536
  Garbage = {299}
  Files <- DivideFiles
  Disk <- DivideDisk
  Modules <- DivideModules
  Answers <- DivideOutcomes
PROPERTIES
  MatchedReturned
CHECK_DEADLOCK FALSE
