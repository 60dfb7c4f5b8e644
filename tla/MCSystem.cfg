SPECIFICATION SystemSpec
CONSTANTS
  TestSuites <- SystemSuites
  FileCount = 7
  WordSize = 256
  XWordSize = 65536
  Garbage = {299}
  Files <- TestFiles
  Disk <- TestDisk
  Modules <- DiskModules
  Answers <- CallOutcomes
INVARIANTS
  VerdictIsRight
PROPERTIES
  AsJudged
  VerdictComes
CHECK_DEADLOCK FALSE
