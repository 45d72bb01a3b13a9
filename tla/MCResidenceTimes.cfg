SPECIFICATION Spec
CONSTANTS
  Settings <- AllCommands
  MaxTime = 3
  TidyOld = 1
  NumFrames = 8
  NumItems = 1
  Item = 0
INVARIANTS TypeOK SurvivalOfEachOrigin SurvivalOfMembers NewVersionReplacesOld
CHECK_DEADLOCK FALSE
