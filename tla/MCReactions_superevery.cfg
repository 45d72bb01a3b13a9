SPECIFICATION Spec
CONSTANTS
  a1 = a1
  c1 = c1
  c2 = c2
  Settings <- EverySecondFrame
INVARIANTS BinsAligned
CHECK_DEADLOCK FALSE
