CONSTANTS
  MaxTime = 3
  TidyOld = 1
  NumFrames = 9
  NumItems = 1
  Item = 0
  CorrelationFrequency = 2
  UseAllTimeOrigins = TRUE
  PrintEverys = {0, 3}
  RestartFiles = {A, B}
  NoFile = NoFile
  MaxRuns = 4
SYMMETRY FilesSymmetry
SPECIFICATION Spec
INVARIANTS
  CountsAreThoseOfTheChain
  CountedAtMostOnce
PROPERTIES
  SomeRestartRemains
CHECK_DEADLOCK FALSE
