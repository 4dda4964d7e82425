SPECIFICATION Spec

CONSTANTS
  Frontends = {f1}
  CommandLines <- MCRefreshLines
  OtherCommands <- MCOtherCommands
  Class <- MCClass
  EnvDisplay <- MCEnvDisplay
  NoId = 99
  MaxTasks = 1
  MaxLives <- MCMaxLives
  MaxLines <- MCMaxLines

PROPERTIES
  RefreshReachesAll
