SPECIFICATION Spec

CONSTANTS
  r1 = r1
  r2 = r2
  r3 = r3
  picom = picom
  x0 = x0
  Requests = {r1, r3}
  NoName = NoName
  Headless = Headless
  NoLaunch = NoLaunch
  Name <- MCName
  Display <- MCDisplay
  Hash <- MCHash
  NameDisplayHash <- MCNameDisplayHash
  MaxSubsequentFailures <- MCMaxSubsequentFailures
  Pointers = {p1, p2}
  Launches = {l1, l2}
  MaxId = 2
  MaxCount = 1
  MaxLines = 1
  EagerResume = TRUE
  LoggerFaults = TRUE
  FileFaults = TRUE

SYMMETRY Symmetry

INVARIANTS
  TypeOK
  OneTaskPerId
  LimitRespected

CHECK_DEADLOCK FALSE
