SPECIFICATION FairSpec
CONSTANTS
  Runs <- FilesAndContinuedRuns
  Settings <- AllSettings
INVARIANTS
  FramesInOrder
  UnwrapFollowsPath
  VelocityIsDisplacement
  ThrowsOnlyWhenSizeChanges
  EvenlySpaced
  FinishesFrameUnderWay
PROPERTIES
  Terminates
  InterruptWritesResults
CHECK_DEADLOCK FALSE
