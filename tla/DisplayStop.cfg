SPECIFICATION FairSpec

CONSTANTS
  Displays = {x0}
  Tasks = {t1, t2}
  NoTask = NoTask
  Watches = {w1, w2}
  Handlers = {h1}
  Nobody = Nobody

PROPERTIES
  ClosedDisplayStopsTasks
