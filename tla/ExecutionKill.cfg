SPECIFICATION FairSpec

CONSTANTS
  MaxRuns = 1
  MaxLines = 1
  Captured = {"stdout"}
  LoggerFaults = FALSE

PROPERTIES
  KillReturns

CHECK_DEADLOCK FALSE
