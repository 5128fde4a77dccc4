SPECIFICATION TlbSpec
CONSTANTS
  ElementCount = 6
  Parallelism = 3
  ScaledIterations = 39
  SizeKb = 15
  PageKb = 2
  KbLines = 2
  TlbIterations = 17
INVARIANTS
  TypeOK
  TlbTypeOK
  SingleCycle
  ChainsNeverMerge
  SpreadOverSets
PROPERTIES
  VisitsAllBeforeRepeat
  OneElementPerPage
\* The tests end.
CHECK_DEADLOCK FALSE
