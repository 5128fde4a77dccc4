SPECIFICATION FairCalibrationSpec
CONSTANTS
  MaxThreads = 3
  ThreadLimits = {2, 3}
  DynamicTeams = {FALSE, TRUE}
  Costs <- BoundaryCosts
  Phases <- BoundaryPhases
  CounterWidened = {FALSE, TRUE}
INVARIANTS
  CalibrationTypeOK
  NoOvershoot
  RowsShortOnlyIfDynamic
  RowsComplete
PROPERTY
  EveryTeamMeasuredIfWidened
CHECK_DEADLOCK FALSE
