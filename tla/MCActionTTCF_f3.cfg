CONSTANTS
  MaxTime = 4
  TidyOld = 2
  NumFrames = 16
  NumItems = 2
  Item = 0
  CorrelationFrequency = 3
  UseAllTimeOrigins = TRUE
  MembersMayLeave = FALSE
SPECIFICATION FairSpec
INVARIANTS
  TypeOK
  CountedExactlyOnce
  LagIsTimeDifference
  FlagsAligned
  FinalCountsExact
  WindowBounded
PROPERTIES
  LedgerSpec
  EveryFrameBecomesOrigin
CHECK_DEADLOCK FALSE
