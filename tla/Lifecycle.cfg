SPECIFICATION FairSpec

CONSTANTS
  f1 = f1
  old = old
  new = new
  Servers = {s1, s2}
  Frontends = {f1}
  Builds = {old, new}
  Build <- MCBuild
  Autorun = {f1}
  Nobody = Nobody

INVARIANTS
  TypeOK
  SameBuildOnly
  NoGoroutineSurvives

PROPERTIES
  ShutdownReturns
  RequestEnds

CHECK_DEADLOCK FALSE
