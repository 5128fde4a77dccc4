SPECIFICATION Spec
CONSTANTS
  Width = 32
  LinesPerPage = 4
  ScaledIterations = 35
  Regions <- PartialPageRegions
INVARIANT
  FollowsWrittenElements
CHECK_DEADLOCK FALSE
