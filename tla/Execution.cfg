SPECIFICATION FairSpec

CONSTANTS
  MaxRuns = 2
  MaxLines = 1
  Captured = {"stdout", "stderr"}
  LoggerFaults = TRUE

INVARIANTS
  TypeOK
  OutputInOwnFiles
  OutputComplete
  OnlyStdoutLost
  LastFilesAreOwn

PROPERTIES
  StopReturns
  KillReturnsOrStrands

CHECK_DEADLOCK FALSE
