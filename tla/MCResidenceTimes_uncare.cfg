SPECIFICATION Spec
CONSTANTS
  Settings <- UncareCommands
  MaxTime = 2
  TidyOld = 1
  NumFrames = 4
  NumItems = 1
  Item = 0
INVARIANTS UncaredIsLeftOut
CHECK_DEADLOCK FALSE
