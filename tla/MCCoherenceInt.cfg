SPECIFICATION FairCalibrationSpec
CONSTANTS
  MaxThreads = 2
  ThreadLimits = {2, 3}
  DynamicTeams = {FALSE}
  Costs <- OneCost
  Phases <- BoundaryPhases
  CounterWidened = {FALSE, TRUE}
PROPERTY
  EveryTeamMeasured
CHECK_DEADLOCK FALSE
