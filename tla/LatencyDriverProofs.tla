------------------------ MODULE LatencyDriverProofs ------------------------
(***************************************************************************)
(* Proofs about LatencyDriver for every ascending list of sizes below 4 GB *)
(* and every command line: no test leaves its memory unless the options    *)
(* are out of the range that OverrunsOnlyOutOfRange names; the sweep       *)
(* prints the sizes it should, and the table of the MLP test shows what    *)
(* was measured.                                                           *)
(***************************************************************************)
EXTENDS LatencyDriver, TLAPS

\* What the mapping was made for, and which way the program went from there.
MappingInv ==
  /\ maxTestSizeMb \in Nat
  /\ singleSize \in Nat
  /\ stlf \in Nat
  /\ idx \in Nat \ {0}
  /\ storeOffset \in Nat
  /\ stlfPageEnd \in Int
  /\ stlfLoadDistance \in Int
  /\ mapped # Null => pc \notin {"args", "map"} /\ hugePages /\ mapped = Rounded(MemRequired)
  /\ pc = "map" => hugePages
  /\ pc \in {"align", "stlf"} => stlf > 0
  /\ pc \in {"sweep", "single"} => stlf = 0
  /\ pc = "single" => singleSize # 0
  /\ pc = "sweep" => singleSize = 0
  /\ OverrunsOnlyOutOfRange

\* The sizes are positive and the last one is the largest.
LEMMA SizesFacts ==
  /\ SizeCount \in Nat \ {0}
  /\ \A k \in 1..SizeCount : DefaultSizes[k] \in Nat \ {0} /\ DefaultSizes[k] < FourGB
  /\ \A k \in 1..SizeCount : DefaultSizes[k] <= DefaultSizes[SizeCount]
<1>1. Len(DefaultSizes) \in Nat /\ Len(DefaultSizes) # 0
  BY SizesAssumption
<1> QED
  BY <1>1, SizesAssumption DEF SizeCount, FourGB

\* Rounding to whole huge pages does not make a mapping smaller.
LEMMA RoundedUp ==
  ASSUME NEW kb \in Nat
  PROVE  Rounded(kb) \in Nat /\ Rounded(kb) >= kb
  BY DEF Rounded, HugePageSize

\* Below its modulus a number does not wrap.
LEMMA NoWrap ==
  ASSUME NEW n \in Nat
  PROVE  /\ n < 4096 => n % 4096 = n
         /\ n < 4194304 => n % 4194304 = n
         /\ n % 4096 \in Nat /\ n % 4194304 \in Nat
         /\ n % 4194304 <= n
  BY SMT

\* The maximum that the huge pages are cut to is whole if it is below 4 GB.
LEMMA MaximumFacts ==
  ASSUME maxTestSizeMb \in Nat
  PROVE  /\ MaxTestSize \in Nat
         /\ maxTestSizeMb < 4096 => MaxTestSize = maxTestSizeMb * 1024
<1>1. maxTestSizeMb % 4096 \in Nat /\ (maxTestSizeMb < 4096 => maxTestSizeMb % 4096 = maxTestSizeMb)
  BY NoWrap
<1> QED
  BY <1>1 DEF MaxTestSize

\* A size that the sweep lets through is one that the mapping was cut to.
LEMMA AllowedIsRequired ==
  ASSUME MappingInv, hugePages, SizesInRange, singleSize = 0,
         NEW k \in 1..SizeCount, Allowed(DefaultSizes[k])
  PROVE  MemRequired \in Nat /\ DefaultSizes[k] <= MemRequired
<1>1. /\ DefaultSizes[k] \in Nat /\ DefaultSizes[SizeCount] \in Nat
      /\ DefaultSizes[k] <= DefaultSizes[SizeCount]
  BY SizesFacts
<1>2. maxTestSizeMb \in Nat
  BY DEF MappingInv
<1>3. CASE maxTestSizeMb = 0
  BY <1>1, <1>3 DEF MemRequired
<1>4. CASE maxTestSizeMb > 0
  <2>1. maxTestSizeMb < 4096
    BY <1>4 DEF SizesInRange
  <2>2. maxTestSizeMb % 4194304 = maxTestSizeMb
    BY <1>2, <2>1, NoWrap
  <2>3. MaxTestSize = maxTestSizeMb * 1024 /\ MaxTestSize \in Nat
    BY <1>2, <2>1, MaximumFacts
  <2>4. DefaultSizes[k] <= MaxTestSize
    BY <1>4, <2>2, <2>3 DEF Allowed
  <2> QED
    BY <1>1, <1>4, <2>3, <2>4 DEF MemRequired
<1> QED
  BY <1>2, <1>3, <1>4

\* A single size in range is one that the mapping was made for.
LEMMA SingleIsRequired ==
  ASSUME MappingInv, hugePages, SizesInRange, singleSize # 0
  PROVE  MemRequired \in Nat /\ singleSize <= MemRequired
<1>1. maxTestSizeMb \in Nat /\ singleSize \in Nat
  BY DEF MappingInv
<1>2. maxTestSizeMb > 0 => singleSize <= MaxTestSize /\ MaxTestSize \in Nat
  BY <1>1, MaximumFacts DEF SizesInRange
<1> QED
  BY <1>1, <1>2 DEF MemRequired

\* A size below 4 GB is whole in 32 bits.
LEMMA WholeRegion ==
  ASSUME NEW kb \in Nat \ {0}, kb < FourGB
  PROVE  Region(kb) = kb /\ Reach(kb) = kb
<1>1. Region(kb) = kb
  BY NoWrap DEF Region, FourGB
<1> QED
  BY <1>1 DEF Reach

\* A region below 4 GB is left only if it is larger than the huge pages.
LEMMA OverrunIsLarger ==
  ASSUME NEW kb \in Nat \ {0}, kb < FourGB, NEW next, next # "overran",
         NEW outcome \in AfterTest(kb, next), outcome[1] = "overran"
  PROVE  mapped # Null /\ kb > mapped
<1>1. Region(kb) = kb /\ Reach(kb) = kb
  BY WholeRegion
<1>2. ~(kb \div 4 > IndexedPages)
  BY DEF IndexedPages, FourGB
<1>3. Overruns(kb)
  BY <1>1 DEF AfterTest
<1> QED
  BY <1>1, <1>2, <1>3 DEF Overruns

\* Where main stands after a test.
LEMMA OutcomePlace ==
  ASSUME NEW kb, NEW next, NEW outcome \in AfterTest(kb, next)
  PROVE  outcome[1] \in {next, "faulted", "hung", "overran"}
  BY DEF AfterTest

\* The store forwarding test stays in its memory if its options are in range.
LEMMA StlfStaysInside ==
  ASSUME MappingInv, StlfInRange,
         NEW offset \in 0..63, NEW width \in 0..64
  PROVE  /\ ~Outside(offset, width)
         /\ ~Outside(offset + stlfLoadDistance, width)
  BY DEF MappingInv, StlfInRange, Outside, TestOffset, TestAllocSize

\* The options, once read, and the mapping made for them do not change.
LEMMA MappingKept ==
  ASSUME MappingInv, UNCHANGED <<settings, mapped>>, pc \notin {"args", "map"},
         pc' \notin {"args", "map"}
  PROVE  /\ maxTestSizeMb' \in Nat /\ singleSize' \in Nat /\ stlf' \in Nat
         /\ stlfPageEnd' \in Int /\ stlfLoadDistance' \in Int
         /\ mapped' # Null => hugePages' /\ mapped' = Rounded(MemRequired)'
         /\ stlf' = stlf /\ singleSize' = singleSize
         /\ stlfPageEnd' = stlfPageEnd /\ stlfLoadDistance' = stlfLoadDistance
         /\ hugePages' = hugePages /\ maxTestSizeMb' = maxTestSizeMb
  BY DEF MappingInv, settings, sizeSettings, testSettings, stlfSettings, MemRequired,
         MaxTestSize, Rounded

\* Nothing is mapped at the start.
LEMMA InitMappingInv == Init => MappingInv
  BY SMT DEF Init, MappingInv, OverrunsOnlyOutOfRange, Null

\* Every step keeps the mapping large enough for the sweep: an action a step.
LEMMA NextMappingInv ==
  ASSUME MappingInv, [Next]_vars
  PROVE  MappingInv'
<1> USE DEF MappingInv, OverrunsOnlyOutOfRange
<1>1. CASE ParseOption
  <2>1. mapped' = Null /\ pc' = "args" /\ idx' = idx /\ storeOffset' = storeOffset
    BY <1>1 DEF ParseOption, progress
  <2>2. /\ maxTestSizeMb' \in Nat /\ singleSize' \in Nat /\ stlf' \in Nat
        /\ stlfPageEnd' \in Int /\ stlfLoadDistance' \in Int
    <3> USE DEF sizeSettings, testSettings, stlfSettings
    <3>1. CASE ParseTest
      <4>1. PICK type \in TestTypes : stlf' = ModeOf(type)
        BY <3>1 DEF ParseTest
      <4>2. stlf' \in Nat
        BY <4>1 DEF ModeOf
      <4> QED
        BY <3>1, <4>2 DEF ParseTest
    <3>2. CASE ParseMaxSizeMb
      BY <3>2, OptionsAssumption DEF ParseMaxSizeMb
    <3>3. CASE ParseSizeKb
      BY <3>3, OptionsAssumption DEF ParseSizeKb
    <3>4. CASE ParseIter
      BY <3>4 DEF ParseIter
    <3>5. CASE ParseHugePages
      BY <3>5 DEF ParseHugePages
    <3>6. CASE ParsePageByPage
      BY <3>6 DEF ParsePageByPage
    <3>7. CASE ParseStlfPageEnd
      BY <3>7, StlfAssumption DEF ParseStlfPageEnd
    <3>8. CASE ParseStlfLoadOffset
      BY <3>8, StlfAssumption DEF ParseStlfLoadOffset
    <3> QED
      BY <1>1, <3>1, <3>2, <3>3, <3>4, <3>5, <3>6, <3>7, <3>8 DEF ParseOption
  <2> QED
    BY <2>1, <2>2
<1>2. CASE MissingArgument
  BY <1>2 DEF MissingArgument, settings, sizeSettings, testSettings, stlfSettings, progress
<1>3. CASE EndOfOptions
  BY <1>3 DEF EndOfOptions, settings, sizeSettings, testSettings, stlfSettings, progress
<1>4. CASE MapHugePages
  BY <1>4 DEF MapHugePages, settings, sizeSettings, testSettings, stlfSettings, progress,
              MemRequired, MaxTestSize
<1>5. CASE MapFails
  BY <1>5 DEF MapFails, settings, sizeSettings, testSettings, stlfSettings, progress
<1>6. CASE Dispatch
  BY <1>6, MappingKept DEF Dispatch, progress
<1>7. CASE SweepTest
  <2>1. /\ pc = "sweep" /\ UNCHANGED <<settings, mapped, storeOffset>> /\ idx' = idx + 1
        /\ idx \in 1..SizeCount /\ singleSize = 0 /\ stlf = 0 /\ Allowed(DefaultSizes[idx])
    BY <1>7, SizesFacts DEF SweepTest
  <2>2. DefaultSizes[idx] \in Nat \ {0} /\ DefaultSizes[idx] < FourGB
    BY <2>1, SizesFacts
  <2>3. PICK outcome \in AfterTest(DefaultSizes[idx], "sweep") : pc' = outcome[1]
    BY <1>7 DEF SweepTest, PrintLatency
  <2>4. pc' \in {"sweep", "faulted", "hung", "overran"}
    BY <2>3, OutcomePlace
  <2>5. ASSUME pc' = "overran", SizesInRange PROVE FALSE
    <3>1. mapped # Null /\ DefaultSizes[idx] > mapped
      BY <2>2, <2>3, <2>5, OverrunIsLarger
    <3>2. hugePages /\ mapped = Rounded(MemRequired)
      BY <3>1
    <3>3. MemRequired \in Nat /\ DefaultSizes[idx] <= MemRequired
      BY <2>1, <2>5, <3>2, AllowedIsRequired
    <3> QED
      BY <2>2, <3>1, <3>2, <3>3, RoundedUp
  <2>6. SizesInRange' <=> SizesInRange
    BY <2>1 DEF settings, sizeSettings, SizesInRange
  <2> QED
    BY <2>1, <2>4, <2>5, <2>6, MappingKept
<1>8. CASE SweepSkip
  BY <1>8, MappingKept DEF SweepSkip
<1>9. CASE SweepEnds
  BY <1>9, MappingKept DEF SweepEnds, progress
<1>10. CASE SingleTest
  <2>1. /\ pc = "single" /\ singleSize \in Nat \ {0} /\ stlf = 0
        /\ UNCHANGED <<settings, mapped, idx, storeOffset>>
    BY <1>10 DEF SingleTest
  <2>2. PICK outcome \in AfterTest(singleSize, "done") : pc' = outcome[1]
    BY <1>10 DEF SingleTest, PrintLatency
  <2>3. pc' \in {"done", "faulted", "hung", "overran"}
    BY <2>2, OutcomePlace
  <2>4. ASSUME pc' = "overran", SizesInRange PROVE FALSE
    <3>1. mapped # Null /\ singleSize > mapped
      <4>1. singleSize < FourGB
        BY <2>4 DEF SizesInRange
      <4> QED
        BY <2>1, <2>2, <2>4, <4>1, OverrunIsLarger
    <3>2. hugePages /\ mapped = Rounded(MemRequired)
      BY <3>1
    <3>3. MemRequired \in Nat /\ singleSize <= MemRequired
      BY <2>1, <2>4, <3>2, SingleIsRequired
    <3> QED
      BY <2>1, <3>1, <3>2, <3>3, RoundedUp
  <2>5. SizesInRange' <=> SizesInRange
    BY <2>1 DEF settings, sizeSettings, SizesInRange
  <2> QED
    BY <2>1, <2>3, <2>4, <2>5, MappingKept
<1>11. CASE MlpMeasure
  <2>1. pc = "mlp" /\ UNCHANGED <<pc, settings, mapped, storeOffset>> /\ idx' \in {idx, idx + 1}
    BY <1>11 DEF MlpMeasure
  <2> QED
    BY <2>1, MappingKept
<1>12. CASE MlpMeasured
  BY <1>12, MappingKept DEF MlpMeasured, progress
<1>13. CASE TableRow
  BY <1>13, MappingKept DEF TableRow
<1>14. CASE TableFaults
  BY <1>14, MappingKept DEF TableFaults, progress
<1>15. CASE TableEnds
  BY <1>15, MappingKept DEF TableEnds, progress
<1>16. CASE StlfAllocates
  BY <1>16, MappingKept DEF StlfAllocates, progress
<1>17. CASE StlfAllocationFails
  BY <1>17, MappingKept DEF StlfAllocationFails, progress
<1>18. CASE StlfRow
  <2>1. /\ pc = "stlf" /\ stlf > 0 /\ pc' \in {"stlf", "overran"}
        /\ storeOffset \in 0..63 /\ storeOffset' = storeOffset + 1
        /\ UNCHANGED <<settings, mapped, idx>>
    BY <1>18 DEF StlfRow, Offsets
  <2>2. StoreWidth \in 0..64 /\ LoadWidth \in 0..64
    BY DEF StoreWidth, LoadWidth
  <2>3. ASSUME StlfInRange
        PROVE  pc' = "stlf"
    <3>1. ~Outside(storeOffset, StoreWidth)
      BY <2>1, <2>2, <2>3, StlfStaysInside
    <3>2. \A loadOffset \in 0..63 : ~Outside(loadOffset + stlfLoadDistance, LoadWidth)
      BY <2>2, <2>3, StlfStaysInside
    <3> QED
      BY <1>18, <3>1, <3>2 DEF StlfRow, Offsets
  <2>4. StlfInRange' <=> StlfInRange
    BY <2>1 DEF settings, stlfSettings, StlfInRange
  <2> QED
    BY <2>1, <2>3, <2>4, MappingKept
<1>19. CASE StlfPrints
  BY <1>19, MappingKept DEF StlfPrints, progress
<1>20. CASE UNCHANGED vars
  BY <1>20 DEF vars, progress, settings, sizeSettings, testSettings, stlfSettings,
               MemRequired, MaxTestSize, Rounded, SizesInRange, StlfInRange
<1> HIDE DEF MappingInv, OverrunsOnlyOutOfRange
<1> QED
  BY <1>1, <1>2, <1>3, <1>4, <1>5, <1>6, <1>7, <1>8, <1>9, <1>10, <1>11, <1>12, <1>13,
     <1>14, <1>15, <1>16, <1>17, <1>18, <1>19, <1>20 DEF Next

\* The mapping that lines 241-247 compute holds every region that the loop of
\* lines 366-373 lets through, each test's allocation what the test reaches, and
\* that of lines 803-818 every access of the store forwarding test, unless the
\* options are out of range.
THEOREM TestsStayInTheirMemory == Spec => []OverrunsOnlyOutOfRange
<1>1. MappingInv /\ [Next]_vars => MappingInv'
  BY NextMappingInv
<1>2. MappingInv => OverrunsOnlyOutOfRange
  BY DEF MappingInv
<1> QED
  BY <1>1, <1>2, InitMappingInv, PTL DEF Spec

-----------------------------------------------------------------------------
\* Type correctness, the sweep and the table of the MLP test.

SettingsOK ==
  /\ options \in 0..MaxOptions
  /\ testFunc \in {"RunTest", "RunTlbTest", "RunAopTest", "RunAsmTest"}
  /\ mlpTest \in {0, MlpLevels}
  /\ longpattern \in BOOLEAN /\ pageByPage \in BOOLEAN /\ hugePages \in BOOLEAN
  /\ stlf \in 0..2
  /\ stlfFunc \in {"stlftest", "matchedstlftest", "stlftest128", "stlftest32"}
  /\ stlfPageEnd \in PageEnds \union {0}
  /\ stlfLoadDistance \in LoadDistances \union {0}
  /\ maxTestSizeMb \in Maxima \union {0}
  /\ singleSize \in SingleSizes \union {0}
  /\ ITERATIONS \in BaseIterations \union {100000000}
  /\ memory \in Memories

Beginning == {"args", "map", "dispatch"}

\* Which way the program went from the options, and where it stands there.
RouteInv ==
  /\ pc \in {"args", "map", "dispatch", "mlp", "table", "sweep", "single", "align", "stlf",
             "done", "exited", "hung", "overran", "faulted"}
  /\ mapped \in Nat \union {Null}
  /\ idx \in 1..(SizeCount + 1)
  /\ parallelism \in 0..MlpLevels
  /\ pc = "mlp" => parallelism < MlpLevels
  /\ storeOffset \in 0..Offsets
  /\ pc \in Beginning => idx = 1 /\ parallelism = 0 /\ rows = <<>> /\ table = <<>>
  /\ pc \in {"mlp", "table"} => mlpTest > 0
  /\ pc = "single" => singleSize # 0
  /\ pc \in {"align", "stlf"} => stlf > 0

\* The options are of their kinds at the start.
LEMMA InitSettingsOK == Init => SettingsOK
<1> SUFFICES ASSUME Init PROVE SettingsOK
  OBVIOUS
<1>1. 0 \in 0..MaxOptions
  BY OptionsAssumption
<1>2. /\ options = 0 /\ testFunc = "RunTest" /\ mlpTest = 0
      /\ longpattern = FALSE /\ pageByPage = FALSE /\ hugePages = FALSE
      /\ stlf = 0 /\ stlfFunc = "stlftest" /\ stlfPageEnd = 0 /\ stlfLoadDistance = 0
      /\ maxTestSizeMb = 0 /\ singleSize = 0 /\ memory \in Memories
  BY SMT DEF Init
<1>3. ITERATIONS \in BaseIterations \union {100000000}
  BY SMT DEF Init
<1>4. longpattern \in BOOLEAN /\ pageByPage \in BOOLEAN /\ hugePages \in BOOLEAN
  BY <1>2, Zenon
<1>5. /\ options \in 0..MaxOptions
      /\ testFunc \in {"RunTest", "RunTlbTest", "RunAopTest", "RunAsmTest"}
      /\ mlpTest \in {0, MlpLevels} /\ stlf \in 0..2
      /\ stlfFunc \in {"stlftest", "matchedstlftest", "stlftest128", "stlftest32"}
      /\ stlfPageEnd \in PageEnds \union {0}
      /\ stlfLoadDistance \in LoadDistances \union {0}
      /\ maxTestSizeMb \in Maxima \union {0} /\ singleSize \in SingleSizes \union {0}
      /\ memory \in Memories
  BY <1>1, <1>2
<1> QED
  BY <1>3, <1>4, <1>5, SMT DEF SettingsOK

\* An option replaces a setting by one of its kind.
LEMMA OptionSettingsOK ==
  ASSUME SettingsOK, ParseOption
  PROVE  SettingsOK'
<1> USE DEF SettingsOK, sizeSettings, testSettings, stlfSettings
<1>1. options' \in 0..MaxOptions /\ memory' = memory
  BY OptionsAssumption, SMT DEF ParseOption
<1>2. CASE ParseTest
  <2>1. PICK type \in TestTypes :
          /\ testFunc' = FunctionOf(type) /\ stlf' = ModeOf(type)
          /\ mlpTest' = (IF type = "mlp" THEN MlpLevels ELSE mlpTest)
          /\ longpattern' = (longpattern \/ type = "longpattern")
          /\ stlfFunc' = StlfFunctionOf(type)
          /\ UNCHANGED <<sizeSettings, stlfSettings, pageByPage, ITERATIONS>>
    BY <1>2, SMT DEF ParseTest
  <2>2. testFunc' \in {"RunTest", "RunTlbTest", "RunAopTest", "RunAsmTest"}
    BY <2>1, SMT DEF FunctionOf
  <2>3. stlfFunc' \in {"stlftest", "matchedstlftest", "stlftest128", "stlftest32"}
    BY <2>1, SMT DEF StlfFunctionOf
  <2>4. stlf' \in 0..2 /\ mlpTest' \in {0, MlpLevels}
    BY <2>1, SMT DEF ModeOf
  <2>5. longpattern' \in BOOLEAN
    BY <2>1, SMT
  <2> QED
    BY <1>1, <2>1, <2>2, <2>3, <2>4, <2>5, SMT
<1>3. CASE ParseMaxSizeMb
  BY <1>1, <1>3, SMT DEF ParseMaxSizeMb
<1>4. CASE ParseSizeKb
  BY <1>1, <1>4, SMT DEF ParseSizeKb
<1>5. CASE ParseHugePages
  BY <1>1, <1>5, SMT DEF ParseHugePages
<1>6. CASE ParseIter
  BY <1>1, <1>6, SMT DEF ParseIter
<1>7. CASE ParsePageByPage
  BY <1>1, <1>7, SMT DEF ParsePageByPage
<1>8. CASE ParseStlfPageEnd
  BY <1>1, <1>8, SMT DEF ParseStlfPageEnd
<1>9. CASE ParseStlfLoadOffset
  BY <1>1, <1>9, SMT DEF ParseStlfLoadOffset
<1> HIDE DEF SettingsOK
<1> QED
  BY <1>2, <1>3, <1>4, <1>5, <1>6, <1>7, <1>8, <1>9, Zenon DEF ParseOption

\* The steps after the options have been read.
Step ==
  \/ MissingArgument \/ EndOfOptions \/ MapHugePages \/ MapFails \/ Dispatch
  \/ SweepTest \/ SweepSkip \/ SweepEnds \/ SingleTest
  \/ MlpMeasure \/ MlpMeasured \/ TableRow \/ TableFaults \/ TableEnds
  \/ StlfAllocates \/ StlfAllocationFails \/ StlfRow \/ StlfPrints

\* No step after the options changes a setting.
LEMMA StepKeepsSettings == Step => UNCHANGED <<options, settings>>
  BY DEF Step, MissingArgument, EndOfOptions, MapHugePages, MapFails, Dispatch,
         SweepTest, SweepSkip, SweepEnds, SingleTest, MlpMeasure, MlpMeasured, TableRow,
         TableFaults, TableEnds, StlfAllocates, StlfAllocationFails, StlfRow, StlfPrints

\* The settings stay of their kinds.
LEMMA NextSettingsOK ==
  ASSUME SettingsOK, [Next]_vars
  PROVE  SettingsOK'
<1>1. CASE ParseOption
  BY <1>1, OptionSettingsOK
<1>2. CASE UNCHANGED <<options, settings>>
  BY <1>2, SMT DEF SettingsOK, settings, testSettings, sizeSettings, stlfSettings
<1>3. CASE UNCHANGED vars
  BY <1>2, <1>3 DEF vars
<1> QED
  BY <1>1, <1>2, <1>3, StepKeepsSettings DEF Next, Step

\* The memory to be mapped is a number of KB.
LEMMA MemRequiredType ==
  ASSUME SettingsOK
  PROVE  MemRequired \in Nat
<1>1. DefaultSizes[SizeCount] \in Nat
  BY SizesFacts
<1>2. singleSize \in Nat /\ maxTestSizeMb \in Nat
  BY OptionsAssumption, SMT DEF SettingsOK
<1>3. MaxTestSize \in Nat
  BY <1>2, MaximumFacts
<1> QED
  BY <1>1, <1>2, <1>3 DEF MemRequired

\* Where a test can leave main, and what it can have measured.
LEMMA OutcomeType ==
  ASSUME NEW kb, NEW next, NEW outcome \in AfterTest(kb, next)
  PROVE  /\ outcome[1] \in {next, "faulted", "hung", "overran"}
         /\ outcome[2] \in {"region", "zero", "elsewhere", "nothing"}
  BY DEF AfterTest

\* The program begins with the options, and nothing done.
LEMMA InitRouteInv == Init => RouteInv
  BY SizesFacts, MlpLevelsAssumption DEF Init, RouteInv, Null, Offsets

\* Every step follows the route that the options gave.
LEMMA NextRouteInv ==
  ASSUME SettingsOK, RouteInv, [Next]_vars
  PROVE  RouteInv'
<1> USE SizesFacts, MlpLevelsAssumption
    DEF RouteInv, Beginning, settings, testSettings, sizeSettings, stlfSettings, progress
<1>0. stlf \in Nat /\ mlpTest \in Nat
  BY DEF SettingsOK
<1>1. CASE ParseOption
  <2>1. pc = "args" /\ UNCHANGED <<pc, mapped, progress>>
    BY <1>1 DEF ParseOption
  <2> QED
    BY <2>1
<1>2. CASE MissingArgument
  BY <1>2 DEF MissingArgument
<1>3. CASE EndOfOptions
  BY <1>3 DEF EndOfOptions
<1>4. CASE MapHugePages
  <2>1. mapped' \in Nat
    BY <1>4, MemRequiredType, RoundedUp DEF MapHugePages
  <2> QED
    BY <1>4, <2>1 DEF MapHugePages
<1>5. CASE MapFails
  BY <1>5 DEF MapFails
<1>6. CASE Dispatch
  BY <1>0, <1>6 DEF Dispatch
<1>7. CASE SweepTest
  <2>1. pc' \in {"sweep", "faulted", "hung", "overran"}
    BY <1>7, OutcomeType DEF SweepTest, PrintLatency
  <2>2. /\ UNCHANGED <<mapped, parallelism, storeOffset>> /\ idx' = idx + 1
        /\ idx <= SizeCount
    BY <1>7 DEF SweepTest
  <2> QED
    BY <2>1, <2>2
<1>8. CASE SweepSkip
  BY <1>8 DEF SweepSkip
<1>9. CASE SweepEnds
  BY <1>9 DEF SweepEnds
<1>10. CASE SingleTest
  <2>1. pc' \in {"done", "faulted", "hung", "overran"}
    BY <1>10, OutcomeType DEF SingleTest, PrintLatency
  <2>2. UNCHANGED <<mapped, idx, parallelism, storeOffset>>
    BY <1>10 DEF SingleTest
  <2> QED
    BY <2>1, <2>2
<1>11. CASE MlpMeasure
  BY <1>11 DEF MlpMeasure, MoreLevels
<1>12. CASE MlpMeasured
  BY <1>12 DEF MlpMeasured
<1>13. CASE TableRow
  BY <1>13 DEF TableRow
<1>14. CASE TableFaults
  BY <1>14 DEF TableFaults
<1>15. CASE TableEnds
  BY <1>15 DEF TableEnds
<1>16. CASE StlfAllocates
  BY <1>16 DEF StlfAllocates
<1>17. CASE StlfAllocationFails
  BY <1>17 DEF StlfAllocationFails
<1>18. CASE StlfRow
  <2>1. /\ pc = "stlf" /\ pc' \in {"stlf", "overran"} /\ storeOffset < Offsets
        /\ storeOffset' = storeOffset + 1
        /\ UNCHANGED <<settings, mapped, idx, parallelism>>
    BY <1>18 DEF StlfRow
  <2> QED
    BY <2>1 DEF Offsets
<1>19. CASE StlfPrints
  BY <1>19 DEF StlfPrints
<1>20. CASE UNCHANGED vars
  BY <1>20 DEF vars
<1> HIDE DEF RouteInv
<1> QED
  BY <1>1, <1>2, <1>3, <1>4, <1>5, <1>6, <1>7, <1>8, <1>9, <1>10, <1>11, <1>12, <1>13,
     <1>14, <1>15, <1>16, <1>17, <1>18, <1>19, <1>20 DEF Next

\* The cell of a size and a level is within results, and no other's.
LEMMA CellFacts ==
  ASSUME NEW s \in SizeIndex, NEW p \in 1..MlpLevels
  PROVE  /\ Cell(s - 1, p - 1) \in Cells
         /\ \A r \in SizeIndex, q \in 1..MlpLevels :
              Cell(r - 1, q - 1) = Cell(s - 1, p - 1) => r = s /\ q = p
<1> DEFINE x == s - 1
           y == p - 1
           n == SizeCount
           l == MlpLevels
<1>1. x \in Nat /\ y \in Nat /\ n \in Nat /\ l \in Nat /\ x < n /\ y < l
  BY SizesFacts, MlpLevelsAssumption DEF SizeIndex
<1>2. Cell(s - 1, p - 1) = x * l + y
  BY DEF Cell
<1>3. ASSUME NEW r \in SizeIndex, NEW q \in 1..MlpLevels,
             Cell(r - 1, q - 1) = Cell(s - 1, p - 1)
      PROVE  r = s /\ q = p
  <2> DEFINE u == r - 1
             v == q - 1
  <2>1. u \in Nat /\ v \in Nat /\ v < l
    BY SizesFacts, MlpLevelsAssumption DEF SizeIndex
  <2>2. u * l + v = x * l + y
    BY <1>2, <1>3 DEF Cell
  <2> HIDE DEF u, v, x, y, l, n
  <2>3. u * l \in Nat /\ x * l \in Nat
    BY <1>1, <2>1
  <2>4. u < x => u * l + l <= x * l
    <3> SUFFICES ASSUME u < x PROVE u * l + l <= x * l
      OBVIOUS
    <3>1. u + 1 <= x /\ (u + 1) * l = u * l + l
      BY <1>1, <2>1
    <3>2. (u + 1) * l <= x * l
      BY <1>1, <2>1, <3>1
    <3> QED
      BY <3>1, <3>2
  <2>5. x < u => x * l + l <= u * l
    <3> SUFFICES ASSUME x < u PROVE x * l + l <= u * l
      OBVIOUS
    <3>1. x + 1 <= u /\ (x + 1) * l = x * l + l
      BY <1>1, <2>1
    <3>2. (x + 1) * l <= u * l
      BY <1>1, <2>1, <3>1
    <3> QED
      BY <3>1, <3>2
  <2> DEFINE ul == u * l
             xl == x * l
  <2>6. /\ ul \in Nat /\ xl \in Nat /\ ul + v = xl + y
        /\ u < x => ul + l <= xl
        /\ x < u => xl + l <= ul
    BY <2>2, <2>3, <2>4, <2>5
  <2> HIDE DEF ul, xl
  <2>7. u = x
    BY <1>1, <2>1, <2>6
  <2>8. ul = xl
    BY <2>7 DEF ul, xl
  <2>9. v = y
    BY <1>1, <2>1, <2>6, <2>8
  <2> QED
    BY <2>7, <2>9, SizesFacts, MlpLevelsAssumption DEF u, v, x, y, SizeIndex
<1>4. x * l + y \in 0..(n * l - 1)
  <2> HIDE DEF x, y, n, l
  <2>1. x * l \in Nat /\ n * l \in Nat /\ (x + 1) * l = x * l + l
    BY <1>1
  <2>2. (x + 1) * l <= n * l
    BY <1>1
  <2> DEFINE xl == x * l
             nl == n * l
  <2>3. xl \in Nat /\ nl \in Nat /\ xl + l <= nl
    BY <2>1, <2>2
  <2> HIDE DEF xl, nl
  <2>4. xl + y \in 0..(nl - 1)
    BY <1>1, <2>3
  <2> QED
    BY <2>4 DEF xl, nl
<1> QED
  BY <1>2, <1>3, <1>4 DEF Cells

\* What the cell of a size and a level is to hold.
Measurement(s, p) == IF Refused(DefaultSizes[s]) THEN NoResult ELSE <<DefaultSizes[s], p>>

\* The cells before the one that RunMlpTest has come to are measured, and the
\* table has one row for each level that it has come to.
TableInv ==
  /\ results \in [Cells -> Nat \X Nat]
  /\ table \in Seq(Seq(Nat \X Nat))
  /\ pc \notin {"table", "done", "faulted"} => table = <<>>
  /\ pc = "mlp" =>
       /\ \A s \in SizeIndex, p \in 1..MlpLevels :
            s < idx \/ (s = idx /\ p <= parallelism)
              => results[Cell(s - 1, p - 1)] = Measurement(s, p)
       /\ idx > SizeCount => parallelism = 0
  /\ pc = "table" =>
       /\ Len(table) = parallelism
       /\ \A s \in SizeIndex, p \in 1..MlpLevels :
            results[Cell(s - 1, p - 1)] = Measurement(s, p)
  /\ TableShowsItsMeasurements

\* The table is empty at the start.
LEMMA InitTableInv == Init => TableInv
<1> SUFFICES ASSUME Init PROVE TableInv
  OBVIOUS
<1>1. results \in [Cells -> Nat \X Nat]
  BY DEF Init, NoResult
<1>2. pc = "args" /\ table = <<>>
  BY DEF Init
<1>3. Len(table) = 0 /\ table \in Seq(Seq(Nat \X Nat))
  BY <1>2
<1> QED
  BY <1>1, <1>2, <1>3 DEF TableInv, TableShowsItsMeasurements

\* A measurement goes to its cell and leaves the others.
LEMMA MeasureTableInv ==
  ASSUME RouteInv, TableInv, MlpMeasure
  PROVE  TableInv'
<1>1. /\ pc = "mlp" /\ idx \in SizeIndex /\ pc' = pc /\ table' = table /\ memory' = memory
      /\ parallelism \in Nat /\ parallelism < MlpLevels
  BY SizesFacts, MlpLevelsAssumption DEF MlpMeasure, RouteInv, settings, SizeIndex
<1> DEFINE c == Cell(idx - 1, parallelism)
           v == Measurement(idx, parallelism + 1)
<1>2. results' = [results EXCEPT ![c] = v]
  BY DEF MlpMeasure, Measurement
<1>3. v \in Nat \X Nat
  BY <1>1, SizesFacts DEF Measurement, NoResult, SizeIndex
<1>4. parallelism + 1 \in 1..MlpLevels /\ (parallelism + 1) - 1 = parallelism
  BY <1>1, MlpLevelsAssumption
<1>5. /\ c \in Cells
      /\ \A r \in SizeIndex, q \in 1..MlpLevels :
           Cell(r - 1, q - 1) = c => r = idx /\ q = parallelism + 1
  BY <1>1, <1>4, CellFacts
<1>6. \A s, p : Measurement(s, p)' = Measurement(s, p)
  BY <1>1 DEF Measurement, Refused
<1>7. ASSUME NEW s \in SizeIndex, NEW p \in 1..MlpLevels,
             s < idx' \/ (s = idx' /\ p <= parallelism')
      PROVE  results'[Cell(s - 1, p - 1)] = Measurement(s, p)
  <2> HIDE DEF c, v
  <2>0. Cell(s - 1, p - 1) \in Cells
    BY CellFacts
  <2>1. CASE s = idx /\ p = parallelism + 1
    <3>1. Cell(s - 1, p - 1) = c
      BY <1>4, <2>1 DEF c
    <3>2. Measurement(s, p) = v
      BY <2>1 DEF v
    <3> QED
      BY <1>2, <1>5, <3>1, <3>2 DEF TableInv
  <2>2. CASE ~(s = idx /\ p = parallelism + 1)
    <3>1. Cell(s - 1, p - 1) # c
      BY <1>5, <2>2
    <3>2. s < idx \/ (s = idx /\ p <= parallelism)
      <4>1. CASE parallelism + 1 < MlpLevels
        <5>1. parallelism' = parallelism + 1 /\ idx' = idx
          BY <4>1 DEF MlpMeasure, MoreLevels
        <5> QED
          BY <1>1, <1>7, <2>2, <5>1, SizesFacts DEF SizeIndex
      <4>2. CASE ~(parallelism + 1 < MlpLevels)
        <5>1. parallelism' = 0 /\ idx' = idx + 1
          BY <4>2 DEF MlpMeasure, MoreLevels
        <5>2. parallelism + 1 = MlpLevels
          BY <1>1, <4>2, MlpLevelsAssumption
        <5> QED
          BY <1>1, <1>7, <2>2, <5>1, <5>2, SizesFacts DEF SizeIndex
      <4> QED
        BY <4>1, <4>2
    <3>3. results[Cell(s - 1, p - 1)] = Measurement(s, p)
      BY <1>1, <3>2 DEF TableInv
    <3>4. results'[Cell(s - 1, p - 1)] = results[Cell(s - 1, p - 1)]
      BY <1>2, <2>0, <3>1 DEF TableInv
    <3> QED
      BY <3>3, <3>4
  <2> QED
    BY <2>1, <2>2
<1>8. results' \in [Cells -> Nat \X Nat]
  <2> HIDE DEF c, v
  <2> QED
    BY <1>2, <1>3 DEF TableInv
<1>10. idx' > SizeCount => parallelism' = 0
  BY <1>1, SizesFacts DEF MlpMeasure, SizeIndex
<1>9. TableShowsItsMeasurements'
  BY <1>1, <1>6 DEF TableInv, TableShowsItsMeasurements, Measurement
<1> HIDE DEF c, v
<1> QED
  BY <1>1, <1>6, <1>7, <1>8, <1>9, <1>10 DEF TableInv

\* A row of the table is of the level that it is printed for.
LEMMA RowTableInv ==
  ASSUME RouteInv, TableInv, TableRow
  PROVE  TableInv'
<1>1. /\ pc = "table" /\ parallelism \in Nat /\ parallelism < MlpLevels /\ pc' = pc
      /\ results' = results /\ memory' = memory /\ parallelism' = parallelism + 1
  BY DEF TableRow, RouteInv, settings
<1>2. PICK extra \in 0..MaxExtra :
        table' = Append(table, [s \in 1..(SizeCount + extra) |->
                                 IF s <= SizeCount THEN results[Cell(s - 1, parallelism)]
                                 ELSE NoResult])
  BY DEF TableRow
<1> DEFINE row == [s \in 1..(SizeCount + extra) |->
                    IF s <= SizeCount THEN results[Cell(s - 1, parallelism)] ELSE NoResult]
           q == parallelism + 1
<1>3. q \in 1..MlpLevels /\ q - 1 = parallelism
  BY <1>1, MlpLevelsAssumption
<1>4. \A s \in SizeIndex : results[Cell(s - 1, parallelism)] = Measurement(s, q)
                           /\ Cell(s - 1, parallelism) \in Cells
  <2> TAKE s \in SizeIndex
  <2> HIDE DEF q
  <2>1. results[Cell(s - 1, q - 1)] = Measurement(s, q) /\ Cell(s - 1, q - 1) \in Cells
    BY <1>1, <1>3, CellFacts DEF TableInv
  <2> QED
    BY <1>3, <2>1
<1>5. row \in Seq(Nat \X Nat)
  <2>1. SizeCount + extra \in Nat
    BY <1>2, SizesFacts, OptionsAssumption
  <2>2. \A s \in 1..(SizeCount + extra) : row[s] \in Nat \X Nat
    <3> TAKE s \in 1..(SizeCount + extra)
    <3>1. CASE s <= SizeCount
      <4>1. s \in SizeIndex
        BY <2>1, <3>1, SizesFacts DEF SizeIndex
      <4> QED
        BY <1>4, <3>1, <4>1 DEF TableInv
    <3>2. CASE ~(s <= SizeCount)
      BY <3>2 DEF NoResult
    <3> QED
      BY <3>1, <3>2
  <2>3. row \in [1..(SizeCount + extra) -> Nat \X Nat]
    BY <2>2
  <2> HIDE DEF row
  <2> QED
    BY <2>1, <2>3
<1>6. \A s \in SizeIndex : row[s] = Measurement(s, q)
  <2> TAKE s \in SizeIndex
  <2>1. s \in 1..(SizeCount + extra) /\ s <= SizeCount
    BY <1>2, SizesFacts, OptionsAssumption DEF SizeIndex
  <2> QED
    BY <1>4, <2>1
<1> HIDE DEF row, q
<1>7. /\ table \in Seq(Seq(Nat \X Nat)) /\ Len(table) = parallelism
      /\ table' = Append(table, row)
  BY <1>1, <1>2 DEF TableInv, row
<1>8. /\ table' \in Seq(Seq(Nat \X Nat)) /\ Len(table') = q
      /\ table'[q] = row /\ \A p \in 1..parallelism : table'[p] = table[p]
  <2> DEFINE R == Seq(Nat \X Nat)
  <2>1. table \in Seq(R) /\ row \in R
    BY <1>5, <1>7
  <2> HIDE DEF R
  <2>2. /\ table' \in Seq(R) /\ Len(table') = Len(table) + 1
        /\ table'[Len(table) + 1] = row
        /\ \A p \in 1..Len(table) : table'[p] = table[p]
    BY <1>7, <2>1
  <2> QED
    BY <1>7, <2>2 DEF R, q
<1>9. \A s, p : Measurement(s, p)' = Measurement(s, p)
  BY <1>1 DEF Measurement, Refused
<1>10. ASSUME NEW p \in 1..Len(table'), NEW s \in SizeIndex
       PROVE  table'[p][s] = Measurement(s, p)
  <2>1. CASE p = q
    BY <1>6, <1>8, <2>1
  <2>2. CASE p # q
    <3>1. p \in 1..parallelism
      BY <1>1, <1>8, <2>2 DEF q
    <3>2. table[p][s] = Measurement(s, p)
      BY <1>7, <3>1 DEF TableInv, TableShowsItsMeasurements, Measurement
    <3> QED
      BY <1>8, <3>1, <3>2
  <2> QED
    BY <2>1, <2>2
<1>11. TableShowsItsMeasurements'
  BY <1>9, <1>10 DEF TableShowsItsMeasurements, Measurement
<1> QED
  BY <1>1, <1>8, <1>9, <1>11 DEF TableInv, q

\* Every other step keeps the table, and comes to it only when all the cells
\* have been measured.
LEMMA NextTableInv ==
  ASSUME SettingsOK, RouteInv, TableInv, [Next]_vars
  PROVE  TableInv'
<1>1. CASE MlpMeasure
  BY <1>1, MeasureTableInv
<1>2. CASE TableRow
  BY <1>2, RowTableInv
<1>3. ASSUME UNCHANGED <<results, table, memory>>,
             pc \in Beginning => table = <<>>,
             pc' = "mlp" => pc \in {"mlp", "dispatch"} /\ idx' = idx /\ parallelism' = parallelism,
             pc' = "table" => pc = "table" /\ parallelism' = parallelism,
             pc' \notin {"table", "done", "faulted"} => pc \notin {"table", "done", "faulted"}
      PROVE  TableInv'
  <2>1. \A s, p : Measurement(s, p)' = Measurement(s, p)
    BY <1>3 DEF Measurement, Refused
  <2>2. TableShowsItsMeasurements'
    BY <1>3, <2>1 DEF TableInv, TableShowsItsMeasurements, Measurement
  <2>3. pc' = "mlp" =>
          /\ \A s \in SizeIndex, p \in 1..MlpLevels :
               s < idx' \/ (s = idx' /\ p <= parallelism')
                 => results[Cell(s - 1, p - 1)] = Measurement(s, p)
          /\ idx' > SizeCount => parallelism' = 0
    <3>1. CASE pc = "mlp"
      BY <1>3, <3>1 DEF TableInv
    <3>2. CASE pc = "dispatch"
      BY <1>3, <3>2 DEF RouteInv, Beginning, SizeIndex
    <3> QED
      BY <1>3, <3>1, <3>2
  <2> QED
    BY <1>3, <2>1, <2>2, <2>3 DEF TableInv
<1> USE DEF settings, progress
<1>5. CASE MlpMeasured
  <2>1. /\ pc = "mlp" /\ pc' = "table" /\ idx = SizeCount + 1
        /\ UNCHANGED <<settings, progress>>
    BY <1>5, SizesFacts DEF MlpMeasured, RouteInv
  <2>2. \A s, p : Measurement(s, p)' = Measurement(s, p)
    BY <2>1 DEF Measurement, Refused
  <2>3. table = <<>> /\ parallelism = 0
    BY <2>1, SizesFacts DEF TableInv
  <2>4. \A s \in SizeIndex, p \in 1..MlpLevels :
          results[Cell(s - 1, p - 1)] = Measurement(s, p)
    BY <2>1, SizesFacts DEF TableInv, SizeIndex
  <2> QED
    BY <2>1, <2>2, <2>3, <2>4 DEF TableInv, TableShowsItsMeasurements
<1>6. CASE SweepTest \/ SingleTest
  <2>1. /\ pc \in {"sweep", "single"} /\ UNCHANGED <<results, table, memory>>
        /\ pc' \in {"sweep", "done", "faulted", "hung", "overran"}
    BY <1>6, OutcomeType DEF SweepTest, SingleTest, PrintLatency
  <2> QED
    BY <1>3, <2>1 DEF Beginning
<1>7. CASE ParseOption \/ MissingArgument \/ EndOfOptions \/ MapHugePages \/ MapFails \/ Dispatch
  <2>1. /\ pc \in Beginning /\ UNCHANGED <<results, table, memory, idx, parallelism>>
        /\ pc' \notin {"table", "done"} /\ (pc' = "mlp" => pc = "dispatch")
    BY <1>7
       DEF ParseOption, MissingArgument, EndOfOptions, MapHugePages, MapFails, Dispatch, Beginning
  <2>2. table = <<>>
    BY <2>1 DEF RouteInv
  <2> QED
    BY <1>3, <2>1, <2>2 DEF Beginning
<1>8. CASE SweepSkip \/ SweepEnds \/ StlfAllocates \/ StlfAllocationFails \/ StlfRow \/ StlfPrints
  <2>1. /\ pc \in {"sweep", "align", "stlf"} /\ UNCHANGED <<results, table, memory>>
        /\ pc' \in {"sweep", "done", "stlf", "overran"}
    BY <1>8 DEF SweepSkip, SweepEnds, StlfAllocates, StlfAllocationFails, StlfRow, StlfPrints
  <2> QED
    BY <1>3, <2>1 DEF Beginning
<1>9. CASE TableFaults \/ TableEnds
  <2>1. /\ pc = "table" /\ UNCHANGED <<results, table, memory>>
        /\ pc' \in {"faulted", "done"}
    BY <1>9 DEF TableFaults, TableEnds
  <2> QED
    BY <1>3, <2>1 DEF Beginning
<1>10. CASE UNCHANGED vars
  <2>1. UNCHANGED <<pc, results, table, memory, idx, parallelism>>
    BY <1>10 DEF vars
  <2> QED
    BY <1>3, <2>1 DEF RouteInv, Beginning
<1> QED
  BY <1>1, <1>2, <1>5, <1>6, <1>7, <1>8, <1>9, <1>10 DEF Next

\* A latency is its region's unless the region was refused or there were no
\* iterations, and 0.0 the TLB test's.
RowTells(row) ==
  /\ ~Refused(row[1]) /\ HasIterations(row[1]) => row[2] = "region"
  /\ row[2] = "zero" => testFunc = "RunTlbTest"

\* The sizes before the one that the sweep has come to are printed as far as
\* the maximum allows, which is as far as the rows go.
SweepInv ==
  /\ rows \in Seq(Nat \X {"region", "zero", "elsewhere", "nothing"})
  /\ pc = "sweep" =>
       /\ Len(rows) < idx
       /\ \A s \in 1..(idx - 1) : s <= Len(rows) <=> Allowed(DefaultSizes[s])
       /\ \A n \in 1..Len(rows) : rows[n][1] = DefaultSizes[n] /\ RowTells(rows[n])
  /\ SweepMeasuresAllowedSizes

\* What a test that returned has measured.
LEMMA OutcomeTells ==
  ASSUME SettingsOK, NEW kb \in Nat \ {0}, kb < FourGB, NEW next,
         NEW outcome \in AfterTest(kb, next),
         outcome[1] = next, next \notin {"faulted", "hung", "overran"}
  PROVE  RowTells(<<kb, outcome[2]>>)
<1>0. memory \in Nat
  BY MemoriesAssumption, SMT DEF SettingsOK
<1>1. Region(kb) = kb /\ Reach(kb) = kb
  BY WholeRegion
<1>2. TlbPatternRefused(kb) => Refused(kb)
  <2>1. (kb + 1023) \div 1024 <= kb /\ (kb + 1023) \div 1024 \in Nat
    OBVIOUS
  <2> QED
    BY <1>0, <1>1, <2>1 DEF TlbPatternRefused, Refused
<1>3. ~Refused(kb) /\ HasIterations(kb) => outcome[2] = "region"
  BY <1>1, <1>2 DEF AfterTest
<1>4. outcome[2] = "zero" => testFunc = "RunTlbTest"
  BY DEF AfterTest
<1> QED
  BY <1>3, <1>4 DEF RowTells

\* An allowed size is no less than any before it, so those are allowed too.
LEMMA AllowedIsPrefix ==
  ASSUME SettingsOK, NEW s \in 1..SizeCount, NEW r \in 1..s, Allowed(DefaultSizes[s])
  PROVE  Allowed(DefaultSizes[r])
<1>1. maxTestSizeMb \in Nat
  BY OptionsAssumption, SMT DEF SettingsOK
<1>2. r \in 1..SizeCount /\ r <= s
  BY SizesFacts
<1>3. DefaultSizes[r] <= DefaultSizes[s] /\ DefaultSizes[r] \in Nat /\ DefaultSizes[s] \in Nat
  BY <1>2, SizesFacts, SizesAssumption DEF SizeCount
<1>4. maxTestSizeMb % 4194304 \in Nat
  BY <1>1, NoWrap
<1> QED
  BY <1>3, <1>4 DEF Allowed

\* A size that the loop lets through is within the maximum in whole MB; and of
\* a maximum that does not wrap the loop lets through every size within it.
LEMMA AllowedIsWithin ==
  ASSUME SettingsOK, NEW kb \in Nat
  PROVE  /\ Allowed(kb) => WithinMaximum(kb)
         /\ maxTestSizeMb < 4194304 /\ WithinMaximum(kb) => Allowed(kb)
<1>1. maxTestSizeMb \in Nat
  BY OptionsAssumption, SMT DEF SettingsOK
<1>2. /\ maxTestSizeMb % 4194304 \in Nat /\ maxTestSizeMb % 4194304 <= maxTestSizeMb
      /\ maxTestSizeMb < 4194304 => maxTestSizeMb % 4194304 = maxTestSizeMb
  BY <1>1, NoWrap
<1>3. \A m \in Nat : kb <= m * 1024 <=> (kb + 1023) \div 1024 <= m
  OBVIOUS
<1>4. CASE maxTestSizeMb = 0
  BY <1>4, SMT DEF Allowed, WithinMaximum
<1>5. CASE maxTestSizeMb # 0
  <2>1. Allowed(kb) <=> kb <= (maxTestSizeMb % 4194304) * 1024
    BY <1>5, SMT DEF Allowed
  <2>2. WithinMaximum(kb) <=> (kb + 1023) \div 1024 <= maxTestSizeMb
    BY <1>5, SMT DEF WithinMaximum
  <2>3. Allowed(kb) <=> (kb + 1023) \div 1024 <= maxTestSizeMb % 4194304
    BY <1>2, <1>3, <2>1
  <2>4. (kb + 1023) \div 1024 \in Nat
    OBVIOUS
  <2> DEFINE m == maxTestSizeMb % 4194304
             n == (kb + 1023) \div 1024
  <2>5. m \in Nat /\ m <= maxTestSizeMb /\ n \in Nat
    BY <1>2, <2>4
  <2>6. Allowed(kb) <=> n <= m
    BY <2>3
  <2>7. WithinMaximum(kb) <=> n <= maxTestSizeMb
    BY <2>2
  <2>8. maxTestSizeMb < 4194304 => m = maxTestSizeMb
    BY <1>2
  <2> HIDE DEF m, n
  <2> QED
    BY <1>1, <2>5, <2>6, <2>7, <2>8
<1> QED
  BY <1>4, <1>5

\* Appending a latency leaves those before it.
LEMMA AppendRow ==
  ASSUME NEW R, NEW s \in Seq(R), NEW r \in R
  PROVE  /\ Append(s, r) \in Seq(R) /\ Len(Append(s, r)) = Len(s) + 1
         /\ Append(s, r)[Len(s) + 1] = r
         /\ \A n \in 1..Len(s) : Append(s, r)[n] = s[n]
  OBVIOUS

\* Nothing is printed at the start.
LEMMA InitSweepInv == Init => SweepInv
<1> SUFFICES ASSUME Init PROVE SweepInv
  OBVIOUS
<1>1. rows = <<>> /\ pc = "args"
  BY SMT DEF Init
<1>2. rows \in Seq(Nat \X {"region", "zero", "elsewhere", "nothing"})
  BY <1>1
<1> QED
  BY <1>1, <1>2 DEF SweepInv, SweepMeasuresAllowedSizes

\* A turn of the loop that tests.
LEMMA TestSweepInv ==
  ASSUME SettingsOK, RouteInv, SweepInv, SweepTest
  PROVE  SweepInv'
<1> DEFINE kb == DefaultSizes[idx]
           R == Nat \X {"region", "zero", "elsewhere", "nothing"}
<1>1. /\ pc = "sweep" /\ idx \in 1..SizeCount /\ idx' = idx + 1 /\ Allowed(kb)
      /\ UNCHANGED settings
  BY SizesFacts DEF SweepTest, RouteInv
<1>2. kb \in Nat \ {0} /\ kb < FourGB
  BY <1>1, SizesFacts
<1>3. PICK outcome \in AfterTest(kb, "sweep") :
        /\ pc' = outcome[1]
        /\ rows' = IF outcome[1] = "sweep" THEN Append(rows, <<kb, outcome[2]>>) ELSE rows
  BY DEF SweepTest, PrintLatency
<1>4. /\ outcome[1] \in {"sweep", "faulted", "hung", "overran"}
      /\ outcome[2] \in {"region", "zero", "elsewhere", "nothing"}
  BY OutcomeType
<1>5. UNCHANGED <<memory, testFunc, maxTestSizeMb, ITERATIONS>>
  BY <1>1 DEF settings, testSettings, sizeSettings
<1>6. rows \in Seq(R)
  BY DEF SweepInv
<1>7. CASE outcome[1] # "sweep"
  <2>1. pc' \notin {"sweep", "done"} /\ rows' = rows
    BY <1>3, <1>4, <1>7
  <2> QED
    BY <1>6, <2>1 DEF SweepInv, SweepMeasuresAllowedSizes
<1>8. CASE outcome[1] = "sweep"
  <2> DEFINE row == <<kb, outcome[2]>>
  <2>1. row \in R /\ row[1] = kb
    BY <1>2, <1>4
  <2>2. RowTells(row)
    BY <1>2, <1>8, OutcomeTells
  <2>3. rows' = Append(rows, row) /\ pc' = "sweep"
    BY <1>3, <1>8
  <2>4. Len(rows) \in Nat
    BY <1>6
  <2>5. /\ Len(rows) < idx
        /\ \A s \in 1..(idx - 1) : s <= Len(rows) <=> Allowed(DefaultSizes[s])
        /\ \A n \in 1..Len(rows) : rows[n][1] = DefaultSizes[n] /\ RowTells(rows[n])
    BY <1>1 DEF SweepInv
  <2>6. Len(rows) = idx - 1
    <3>1. CASE idx = 1
      BY <2>4, <2>5, <3>1
    <3>2. CASE idx # 1
      <4>1. idx - 1 \in 1..idx /\ idx - 1 \in 1..(idx - 1)
        BY <1>1, <3>2
      <4>2. Allowed(DefaultSizes[idx - 1])
        BY <1>1, <4>1, AllowedIsPrefix
      <4>3. idx - 1 <= Len(rows)
        BY <2>5, <4>1, <4>2
      <4> QED
        BY <1>1, <2>4, <2>5, <4>3
    <3> QED
      BY <3>1, <3>2
  <2> HIDE DEF row, R
  <2>7. /\ rows' \in Seq(R) /\ Len(rows') = idx /\ rows'[idx] = row
        /\ \A n \in 1..(idx - 1) : rows'[n] = rows[n]
    <3>1. Len(rows) + 1 = idx
      BY <1>1, <2>6
    <3> QED
      BY <1>6, <2>1, <2>3, <2>6, <3>1, AppendRow
  <2>8. \A r : RowTells(r)' <=> RowTells(r)
    BY <1>5, SMT DEF RowTells, Refused, Region, HasIterations, TenTimes
  <2>a. \A x : Allowed(x)' <=> Allowed(x)
    BY <1>5 DEF Allowed
  <2>9. ASSUME NEW n \in 1..Len(rows')
        PROVE  rows'[n][1] = DefaultSizes[n] /\ RowTells(rows'[n])
    <3>1. CASE n = idx
      BY <2>1, <2>2, <2>7, <3>1
    <3>2. CASE n # idx
      <4>1. n \in 1..(idx - 1)
        BY <1>1, <2>7, <3>2
      <4> QED
        BY <2>5, <2>6, <2>7, <4>1
    <3> QED
      BY <3>1, <3>2
  <2>10. ASSUME NEW s \in 1..(idx' - 1)
         PROVE  s <= Len(rows') <=> Allowed(DefaultSizes[s])
    <3>1. s \in 1..idx /\ s <= idx
      BY <1>1
    <3>2. Allowed(DefaultSizes[s])
      BY <1>1, <3>1, AllowedIsPrefix
    <3> QED
      BY <2>7, <3>1, <3>2
  <2>11. pc' # "done" /\ Len(rows') < idx'
    BY <1>1, <2>3, <2>7
  <2>12. SweepMeasuresAllowedSizes'
    BY <2>11 DEF SweepMeasuresAllowedSizes
  <2>13. rows' \in Seq(Nat \X {"region", "zero", "elsewhere", "nothing"})
    BY <2>7 DEF R
  <2>14. \A s \in 1..(idx' - 1) : s <= Len(rows') <=> Allowed(DefaultSizes[s])'
    BY <2>10, <2>a
  <2>15. \A n \in 1..Len(rows') : rows'[n][1] = DefaultSizes[n] /\ RowTells(rows[n])'
    BY <2>9, <1>5, SMT DEF RowTells, Refused, Region, HasIterations, TenTimes
  <2> QED
    BY <2>11, <2>12, <2>13, <2>14, <2>15 DEF SweepInv
<1> QED
  BY <1>7, <1>8

\* A size above the maximum is passed over.
LEMMA SkipSweepInv ==
  ASSUME SettingsOK, RouteInv, SweepInv, SweepSkip
  PROVE  SweepInv'
<1>1. /\ pc = "sweep" /\ idx \in 1..SizeCount /\ idx' = idx + 1 /\ pc' = pc /\ rows' = rows
      /\ ~Allowed(DefaultSizes[idx])
  BY SizesFacts DEF SweepSkip, RouteInv
<1>2. UNCHANGED <<memory, testFunc, maxTestSizeMb, ITERATIONS>>
  BY DEF SweepSkip, settings, testSettings, sizeSettings
<1>3. /\ rows \in Seq(Nat \X {"region", "zero", "elsewhere", "nothing"}) /\ Len(rows) < idx
      /\ \A s \in 1..(idx - 1) : s <= Len(rows) <=> Allowed(DefaultSizes[s])
      /\ \A n \in 1..Len(rows) : rows[n][1] = DefaultSizes[n] /\ RowTells(rows[n])
  BY <1>1 DEF SweepInv
<1>4. Len(rows) \in Nat
  BY <1>3
<1>5. ASSUME NEW s \in 1..(idx' - 1)
      PROVE  s <= Len(rows) <=> Allowed(DefaultSizes[s])
  <2>1. CASE s = idx
    BY <1>1, <1>3, <1>4, <2>1
  <2>2. CASE s # idx
    <3>1. s \in 1..(idx - 1)
      BY <1>1, <2>2
    <3> QED
      BY <1>3, <3>1
  <2> QED
    BY <2>1, <2>2
<1>6. \A x : Allowed(x)' <=> Allowed(x)
  BY <1>2 DEF Allowed
<1>7. \A s \in 1..(idx' - 1) : s <= Len(rows') <=> Allowed(DefaultSizes[s])'
  BY <1>1, <1>5, <1>6
<1>8. \A n \in 1..Len(rows') : rows'[n][1] = DefaultSizes[n] /\ RowTells(rows[n])'
  BY <1>1, <1>2, <1>3, SMT DEF RowTells, Refused, Region, HasIterations, TenTimes
<1>9. Len(rows') < idx'
  BY <1>1, <1>3, <1>4
<1> QED
  BY <1>1, <1>3, <1>7, <1>8, <1>9 DEF SweepInv, SweepMeasuresAllowedSizes

\* When the sweep ends it has come past the last size.
LEMMA EndSweepInv ==
  ASSUME SettingsOK, RouteInv, SweepInv, SweepEnds
  PROVE  SweepInv'
<1>1. pc = "sweep" /\ pc' = "done" /\ idx = SizeCount + 1 /\ rows' = rows
  BY SizesFacts DEF SweepEnds, RouteInv, progress
<1>2. UNCHANGED <<memory, testFunc, maxTestSizeMb, ITERATIONS>>
  BY DEF SweepEnds, settings, testSettings, sizeSettings
<1>3. /\ rows \in Seq(Nat \X {"region", "zero", "elsewhere", "nothing"}) /\ Len(rows) < idx
      /\ \A s \in 1..SizeCount : s <= Len(rows) <=> Allowed(DefaultSizes[s])
      /\ \A n \in 1..Len(rows) : rows[n][1] = DefaultSizes[n] /\ RowTells(rows[n])
  BY <1>1, SizesFacts DEF SweepInv
<1>4. Len(rows) \in 0..SizeCount /\ DOMAIN rows = 1..Len(rows)
  BY <1>1, <1>3, SizesFacts
<1>5. maxTestSizeMb < 4194304 =>
        \A s \in SizeIndex : WithinMaximum(DefaultSizes[s]) => s \in DOMAIN rows
  BY <1>3, <1>4, SizesFacts, AllowedIsWithin DEF SizeIndex
<1>6. ASSUME NEW n \in DOMAIN rows
      PROVE  /\ n \in SizeIndex /\ rows[n][1] = DefaultSizes[n] /\ WithinMaximum(rows[n][1])
             /\ ~Refused(rows[n][1]) /\ HasIterations(rows[n][1]) => rows[n][2] = "region"
             /\ rows[n][2] = "zero" => testFunc = "RunTlbTest"
  <2>1. n \in SizeIndex /\ rows[n][1] = DefaultSizes[n] /\ RowTells(rows[n])
    BY <1>3, <1>4, SizesFacts DEF SizeIndex
  <2>2. Allowed(DefaultSizes[n]) /\ DefaultSizes[n] \in Nat
    BY <1>3, <1>4, <2>1, SizesFacts DEF SizeIndex
  <2>3. WithinMaximum(DefaultSizes[n])
    BY <2>2, AllowedIsWithin
  <2> QED
    BY <2>1, <2>3 DEF RowTells
<1>7. SweepMeasuresAllowedSizes'
  BY <1>1, <1>2, <1>5, <1>6, SMT
     DEF SweepMeasuresAllowedSizes, WithinMaximum, Refused, Region, HasIterations, TenTimes
<1> QED
  BY <1>1, <1>3, <1>7 DEF SweepInv

\* Every step keeps what is said of the rows.
LEMMA NextSweepInv ==
  ASSUME SettingsOK, RouteInv, SweepInv, [Next]_vars
  PROVE  SweepInv'
<1>1. CASE SweepTest
  BY <1>1, TestSweepInv
<1>2. CASE SweepSkip
  BY <1>2, SkipSweepInv
<1>3. CASE SweepEnds
  BY <1>3, EndSweepInv
<1> USE DEF settings, testSettings, sizeSettings, progress
<1>4. CASE SingleTest
  <2>1. pc = "single" /\ singleSize # 0 /\ singleSize' = singleSize
    BY <1>4 DEF SingleTest, RouteInv
  <2>2. singleSize \in Nat
    BY OptionsAssumption, SMT DEF SettingsOK
  <2>3. PICK outcome \in AfterTest(singleSize, "done") :
          /\ pc' = outcome[1]
          /\ rows' = IF outcome[1] = "done" THEN Append(rows, <<singleSize, outcome[2]>>) ELSE rows
    BY <1>4 DEF SingleTest, PrintLatency
  <2>4. /\ outcome[1] \in {"done", "faulted", "hung", "overran"}
        /\ outcome[2] \in {"region", "zero", "elsewhere", "nothing"}
    BY OutcomeType
  <2> DEFINE R == Nat \X {"region", "zero", "elsewhere", "nothing"}
             row == <<singleSize, outcome[2]>>
  <2>5. rows \in Seq(R) /\ row \in R
    BY <2>2, <2>4 DEF SweepInv
  <2>6. rows' = IF outcome[1] = "done" THEN Append(rows, row) ELSE rows
    BY <2>3
  <2> HIDE DEF R, row
  <2>7. rows' \in Seq(R)
    BY <2>5, <2>6, AppendRow
  <2>8. rows' \in Seq(Nat \X {"region", "zero", "elsewhere", "nothing"})
    BY <2>7 DEF R
  <2>9. pc' # "sweep"
    BY <2>3, <2>4
  <2> QED
    BY <2>1, <2>8, <2>9 DEF SweepInv, SweepMeasuresAllowedSizes
<1>5. ASSUME rows' = rows, pc \in Beginning, pc' \in Beginning \union {"mlp", "align", "sweep", "single", "exited", "faulted"},
             idx' = idx
      PROVE  SweepInv'
  <2>1. rows = <<>> /\ idx = 1
    BY <1>5 DEF RouteInv
  <2>2. pc' # "done"
    BY <1>5 DEF Beginning
  <2>3. SweepMeasuresAllowedSizes'
    BY <2>2 DEF SweepMeasuresAllowedSizes
  <2>4. Len(rows) = 0 /\ rows \in Seq(Nat \X {"region", "zero", "elsewhere", "nothing"})
    BY <2>1
  <2> QED
    BY <1>5, <2>1, <2>3, <2>4 DEF SweepInv
<1>6. CASE ParseOption \/ MissingArgument \/ EndOfOptions \/ MapHugePages \/ MapFails \/ Dispatch
  <2>1. /\ pc \in Beginning /\ rows' = rows /\ idx' = idx
        /\ pc' \in Beginning \union {"mlp", "align", "sweep", "single", "exited", "faulted"}
    BY <1>6
       DEF ParseOption, MissingArgument, EndOfOptions, MapHugePages, MapFails, Dispatch, Beginning
  <2> QED
    BY <1>5, <2>1
<1>7. ASSUME rows' = rows, pc' # "sweep", pc' = "done" => mlpTest' > 0 \/ stlf' > 0
      PROVE  SweepInv'
  <2>1. SweepMeasuresAllowedSizes'
    BY <1>7 DEF SweepMeasuresAllowedSizes
  <2> QED
    BY <1>7, <2>1 DEF SweepInv
<1>8. CASE MlpMeasure \/ MlpMeasured \/ TableRow \/ TableFaults \/ TableEnds
  <2>1. /\ pc \in {"mlp", "table"} /\ rows' = rows /\ mlpTest' = mlpTest
        /\ pc' \in {"mlp", "table", "faulted", "done"}
    BY <1>8 DEF MlpMeasure, MlpMeasured, TableRow, TableFaults, TableEnds
  <2> QED
    BY <1>7, <2>1 DEF RouteInv
<1>9. CASE StlfAllocates \/ StlfAllocationFails \/ StlfRow \/ StlfPrints
  <2>1. /\ pc \in {"align", "stlf"} /\ rows' = rows /\ stlf' = stlf
        /\ pc' \in {"stlf", "overran", "done"}
    BY <1>9 DEF StlfAllocates, StlfAllocationFails, StlfRow, StlfPrints
  <2> QED
    BY <1>7, <2>1 DEF RouteInv
<1>10. CASE UNCHANGED vars
  <2>1. UNCHANGED <<pc, idx, rows, memory, testFunc, maxTestSizeMb, mlpTest, stlf, singleSize,
                    ITERATIONS>>
    BY <1>10 DEF vars
  <2>2. SweepMeasuresAllowedSizes'
    BY <2>1, SMT DEF SweepInv, SweepMeasuresAllowedSizes, WithinMaximum, Refused, Region,
                     HasIterations, TenTimes
  <2> QED
    BY <2>1, <2>2, SMT DEF SweepInv, RowTells, Refused, Region, HasIterations, TenTimes, Allowed
<1> QED
  BY <1>1, <1>2, <1>3, <1>4, <1>6, <1>8, <1>9, <1>10 DEF Next

\* The invariant of the driver.
DriverInv == SettingsOK /\ RouteInv /\ TableInv /\ SweepInv

\* Every run keeps it.
LEMMA DriverInvariance == Spec => []DriverInv
<1>1. Init => DriverInv
  BY InitSettingsOK, InitRouteInv, InitTableInv, InitSweepInv DEF DriverInv
<1>2. DriverInv /\ [Next]_vars => DriverInv'
  BY NextSettingsOK, NextRouteInv, NextTableInv, NextSweepInv DEF DriverInv
<1> QED
  BY <1>1, <1>2, PTL DEF Spec

\* RunMlpTest is asked for the levels of parallelism that results has cells
\* for, and every setting and result is of its kind, on every command line.
THEOREM DriverTypeCorrect == Spec => []TypeOK
<1>1. ASSUME DriverInv PROVE TypeOK
  <2>1. parallelism \in 0..(IF pc = "mlp" THEN MlpLevels - 1 ELSE MlpLevels)
    BY <1>1, MlpLevelsAssumption DEF DriverInv, RouteInv
  <2> QED
    BY <1>1, <2>1, SMT DEF DriverInv, SettingsOK, RouteInv, TableInv, SweepInv, TypeOK
<1> QED
  BY <1>1, DriverInvariance, PTL

\* A sweep that ends has printed sizes up to the maximum and none above it, each
\* once, and of each what was measured, for every ascending list of sizes; and
\* every such size, unless the maximum is one that wraps in line 367.
THEOREM SweepPrintsTheAllowed == Spec => []SweepMeasuresAllowedSizes
<1>1. DriverInv => SweepMeasuresAllowedSizes
  BY DEF DriverInv, SweepInv
<1> QED
  BY <1>1, DriverInvariance, PTL

\* The table of the MLP test shows the measurement of its column's size and its
\* row's parallelism, for every number of sizes and levels.
THEOREM TableIsTrue == Spec => []TableShowsItsMeasurements
<1>1. DriverInv => TableShowsItsMeasurements
  BY DEF DriverInv, TableInv
<1> QED
  BY <1>1, DriverInvariance, PTL
=============================================================================
