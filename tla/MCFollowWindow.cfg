CONSTANTS
  MaxTime = 4
  TidyOld = 1
  NumFrames = 11
  NumItems = 1
  Item = 0
  CorrelationFrequency = 2
  Sizes = {0, 1, 2, 3}
  Position = 2
SPECIFICATION Spec
INVARIANTS
  WindowsAligned
  CountsWhatIsDue
  SegmentsTile
  JumpsAreDiscrete
CHECK_DEADLOCK FALSE
