SPECIFICATION Spec
CONSTANTS
  Lines = 5
  WordsPerLine = 3
  ArrayStart = 6
  ScaledIterations = 34
INVARIANT
  TypeOK
PROPERTIES
  VisitsAllBeforeRepeat
  ReturnsAfterEveryLine
CHECK_DEADLOCK FALSE
