SPECIFICATION FairSpec
CONSTANTS
  CACHE_LINE_SIZE = 16
  X = 16
  Trials = 2
  Pages = 3
  pg_size = 4
  Repeats = 1
  L1Sets = 2
  MaxThreads = 3
  N = 7
  num_iterations = 2
INVARIANTS
  TypeOK
  TimesMeanWhatTheySay
PROPERTY
  Terminates
\* The program ends.
CHECK_DEADLOCK FALSE
