CONSTANTS
  MaxTime = 3
  TidyOld = 0
  NumFrames = 4
  NumItems = 1
  Item = 0
  ConditionLists <- SinglesAndPairs
  Options <- AllOptions
SPECIFICATION OriginSpec
INVARIANTS
  RulesFollowed
  SamplesDecrease
CHECK_DEADLOCK FALSE
