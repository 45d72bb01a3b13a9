SPECIFICATION Spec
CONSTANTS
  Runs <- OverlapRuns
  Settings <- OverlapSettings
INVARIANTS UnwrapFollowsPath
CHECK_DEADLOCK FALSE
