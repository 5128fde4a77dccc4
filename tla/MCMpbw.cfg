SPECIFICATION Spec
CONSTANTS
  DataVolume = 25
  CacheLine = 5
  MAX_THREADS = 4
  N = 1
  Durations = {1, 2}
INVARIANTS
  TypeOK
  EveryLineRead
  GSumKeepsASum
  BestOfMeasurements
\* The program ends.
CHECK_DEADLOCK FALSE
