SPECIFICATION FairPipelineSpec
CONSTANTS
  DataVolume = 8
  CacheLine = 4
  MAX_THREADS = 2
  N = 0
  Durations = {1}
  Policies <- MCPolicies
  MaxJobs = 2
INVARIANTS
  NamesTellThePolicy
  RowsAllOrNone
  CleanJobRenewsAll
PROPERTY
  JobsEnd
\* The last job has ended.
CHECK_DEADLOCK FALSE
