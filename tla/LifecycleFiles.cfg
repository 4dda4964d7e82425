SPECIFICATION Spec

CONSTANTS
  f1 = f1
  old = old
  new = new
  Servers = {s1, s2}
  Frontends = {f1}
  Builds = {old, new}
  Build <- MCBuild
  Autorun = {f1}
  Nobody = Nobody

INVARIANTS
  FilesIntact

CHECK_DEADLOCK FALSE
