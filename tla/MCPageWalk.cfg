SPECIFICATION Spec
CONSTANTS
  Width = 32
  LinesPerPage = 4
  ScaledIterations = 35
  Regions <- WholePageRegions
INVARIANTS
  TypeOK
  FollowsWrittenElements
PROPERTIES
  CompletesPageBeforeLeaving
  VisitsAllBeforeRepeat
CHECK_DEADLOCK FALSE
