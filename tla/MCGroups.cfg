CONSTANTS
  Config <- MCConfig
  Ids <- MCIds
  TypeOf <- MCTypeOf
  Distances <- MCDistances
  NumFrames = 3
  NoGroup = "none"
SPECIFICATION Spec
INVARIANTS
  NumbersMatchTables
  AverageSizesTrue
  OxygensClassified
PROPERTIES
  RelationsSpec
CHECK_DEADLOCK FALSE
