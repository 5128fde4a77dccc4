SPECIFICATION Spec
CONSTANTS
  Width = 64
  LinesPerPage = 4
  ScaledIterations = 35
  Regions <- WholePageRegions
PROPERTY
  CompletesPageBeforeLeaving
CHECK_DEADLOCK FALSE
