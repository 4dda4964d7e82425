SPECIFICATION FairSpec

CONSTANTS
  r1 = r1
  r2 = r2
  r3 = r3
  picom = picom
  x0 = x0
  Requests = {r1, r2}
  NoName = NoName
  Headless = Headless
  NoLaunch = NoLaunch
  Name <- MCName
  Display <- MCDisplay
  Hash <- MCHash
  NameDisplayHash <- MCNameDisplayHash
  MaxSubsequentFailures <- MCMaxSubsequentFailures
  Pointers = {p1, p2}
  Launches = {l1, l2}
  MaxId = 2
  MaxCount = 1
  MaxLines = 2
  EagerResume = FALSE
  LoggerFaults = FALSE
  FileFaults = FALSE

INVARIANTS
  UniqueIds
  LimitRespected
  ActiveHasRunner
  NoConflictingTasks
  SettledWhenDeactivated

PROPERTIES
  LedgerSpec
  HistoryKept
  StopTakesEffect

CHECK_DEADLOCK FALSE
