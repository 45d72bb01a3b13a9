SPECIFICATION Spec
CONSTANTS
  a1 = a1
  c1 = c1
  c2 = c2
  Settings <- AtomAndTable
SYMMETRY CentreSymmetry
INVARIANTS ReportsReactions WindowsAveraged GroupFollowsReactions
CHECK_DEADLOCK FALSE
