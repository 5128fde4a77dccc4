SPECIFICATION FairSpec
CONSTANTS
  DefaultSizes <- SourceSizes
  MlpLevels = 2
  TestTypes = {"c", "tlb", "aop", "asm", "longpattern", "mlp", "stlf", "matched_stlf", "128_stlf", "dword_stlf", "unknown"}
  Maxima = {5, 24, 4096, 4194309}
  SingleSizes = {8, 10241, 4194304, 8388612}
  BaseIterations = {3, 4, 26, 429496730}
  PageEnds = {32, 64, 100, 4096}
  LoadDistances <- SomeLoadDistances
  Memories = {0, 100000, 4000000}
  MaxOptions = 3
  MaxExtra = 1
INVARIANTS
  TypeOK
  OverrunsOnlyOutOfRange
  SweepMeasuresAllowedSizes
  TableShowsItsMeasurements
PROPERTY
  Terminates
CHECK_DEADLOCK FALSE
