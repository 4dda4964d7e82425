SPECIFICATION FairSpec

CONSTANTS
  Frontends = {f1}
  CommandLines <- MCCommandLines
  OtherCommands <- MCOtherCommands
  Class <- MCClass
  EnvDisplay <- MCEnvDisplay
  NoId = 99
  MaxTasks = 2
  MaxLives <- MCMaxLives
  MaxLines <- MCMaxLines

INVARIANTS
  TypeOK
  PeekShowsContents
  ToldIsLogged

PROPERTIES
  PeekFindsKnown
  PeekStays
  ExitStatusTells
  AnswersTruthful
  PeekEnds
