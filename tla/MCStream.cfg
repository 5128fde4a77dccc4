SPECIFICATION FairSpec
CONSTANTS
  Size = 4
  NTIMES = 3
  Threads = {t1, t2, t3}
  Cost <- MCCost
  M = 4
  Gaps <- MCGaps
  FLT_MAX = 1000
INVARIANTS
  TypeOK
  TimesCoverTheKernels
  BestOfLaterIterations
PROPERTIES
  ElementsFollowTheCheck
  SolutionValidates
\* The program ends.
CHECK_DEADLOCK FALSE
