CONSTANTS
  MaxSize = 3
  MaxDistance = 2
  Resolutions = {14, 150}
SPECIFICATION MatchingSpec
INVARIANTS
  OnePositionEach
  MovementIsReal
  FirstOrSecondBest
  TwoAtomsMoveLeast
CHECK_DEADLOCK FALSE
