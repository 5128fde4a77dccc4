--------------------------- MODULE LatencyDriver ---------------------------
(***************************************************************************)
(* main() of src/src/MemoryLatency.c, as it is built without NUMA: the     *)
(* options in the order they are given, the huge pages mapped at start,    *)
(* and the tests that are then run: the sweep over the sizes, a single     *)
(* size, the table of the MLP test, and RunStlfTest's grid of store and    *)
(* load offsets.  A latency test is its region, its allocations and its    *)
(* number of loads here; what the loads do is the subject of PatternWalk,  *)
(* TlbWalk, PageWalk and AsmWalk.                                          *)
(*                                                                         *)
(* Memory is counted in KB, so the 32-bit arithmetic on bytes wraps at     *)
(* 2^22 KB, that is 4194304: of a size in line 513 and its like, and of    *)
(* the maximum, in MB, in lines 246 and 367.  The store forwarding test    *)
(* counts bytes.                                                           *)
(***************************************************************************)
EXTENDS Integers, Sequences

CONSTANTS
  DefaultSizes,   \* default_test_sizes, in KB
  MlpLevels,      \* the levels of parallelism of -test mlp, 32
  TestTypes,      \* the arguments of -test that a command line may hold
  Maxima,         \* of -maxsizemb
  SingleSizes,    \* of -sizekb
  BaseIterations, \* of -iter
  PageEnds,       \* of -stlf_page_end
  LoadDistances,  \* of -stlf_load_offset
  Memories,       \* the KB that an allocation may be refused beyond
  MaxOptions,     \* a bound of the run: the options on a command line
  MaxExtra        \* a bound of the run: columns read past the results

ASSUME SizesAssumption ==
  /\ DefaultSizes \in Seq(Nat \ {0})
  /\ \A k \in 1..Len(DefaultSizes) : DefaultSizes[k] >= k /\ DefaultSizes[k] < 4194304
  /\ \A j, k \in 1..Len(DefaultSizes) : j <= k => DefaultSizes[j] <= DefaultSizes[k]
  /\ DefaultSizes # <<>>
ASSUME MlpLevelsAssumption == MlpLevels \in Nat \ {0}
ASSUME OptionsAssumption ==
  /\ TestTypes \subseteq {"c", "tlb", "aop", "asm", "longpattern", "mlp", "stlf",
                         "matched_stlf", "128_stlf", "dword_stlf", "unknown"}
  /\ Maxima \subseteq Nat /\ SingleSizes \subseteq Nat
  /\ MaxOptions \in Nat /\ MaxExtra \in Nat

\* Whatever atoi makes of an argument, negative numbers included.
ASSUME StlfAssumption == PageEnds \subseteq Int /\ LoadDistances \subseteq Int

ASSUME MemoriesAssumption == Memories \subseteq Nat

\* Ten times the iterations pass 2^32 once at most.
ASSUME IterationsAssumption == BaseIterations \subseteq 0..858993459

VARIABLES
  pc,
  options,     \* how many options have been read
  testFunc,
  mlpTest,     \* levels of parallelism; 0: not the MLP test
  longpattern, \* RunAsmTest's loop is longpatternlatencytest
  pageByPage,  \* RunTest and RunAsmTest fill page by page
  stlf,        \* the mode of the store forwarding test; 0: not that test
  stlfFunc,
  stlfPageEnd,
  stlfLoadDistance,
  maxTestSizeMb,
  singleSize,
  hugePages,
  ITERATIONS,
  memory,      \* the KB beyond which this machine refuses an allocation
  mapped,      \* the KB at hugePagesArr; Null if it is NULL
  idx,         \* size_idx, i: the size under test
  parallelism,
  results,     \* the cells of results: what was measured
  storeOffset, \* RunStlfTest's row
  rows,        \* the latencies printed: the size, and what was measured
  table        \* the rows printed of the MLP test's table

testSettings == <<testFunc, mlpTest, longpattern, stlf, stlfFunc>>
sizeSettings == <<maxTestSizeMb, singleSize, hugePages>>
stlfSettings == <<stlfPageEnd, stlfLoadDistance>>
settings == <<testSettings, sizeSettings, stlfSettings, pageByPage, ITERATIONS, memory>>
progress == <<idx, parallelism, results, storeOffset, rows, table>>
vars == <<pc, options, settings, mapped, progress>>

Null      == -1
NoResult  == <<0, 0>>
SizeCount == Len(DefaultSizes)
SizeIndex == 1..SizeCount
Offsets   == 64    \* the offsets in a line, and a line
Cells     == 0..(SizeCount * MlpLevels - 1)

\* Type correctness; in particular RunMlpTest is only ever asked for a level of
\* parallelism that results has a cell for.
TypeOK ==
  /\ pc \in {"args", "map", "dispatch", "mlp", "table", "sweep", "single", "align", "stlf",
             "done", "exited", "hung", "overran", "faulted"}
  /\ options \in 0..MaxOptions
  /\ testFunc \in {"RunTest", "RunTlbTest", "RunAopTest", "RunAsmTest"}
  /\ mlpTest \in {0, MlpLevels}
  /\ longpattern \in BOOLEAN /\ pageByPage \in BOOLEAN /\ hugePages \in BOOLEAN
  /\ stlf \in 0..2
  /\ stlfFunc \in {"stlftest", "matchedstlftest", "stlftest128", "stlftest32"}
  /\ stlfPageEnd \in PageEnds \union {0}
  /\ stlfLoadDistance \in LoadDistances \union {0}
  /\ maxTestSizeMb \in Maxima \union {0}
  /\ singleSize \in SingleSizes \union {0}
  /\ ITERATIONS \in BaseIterations \union {100000000}
  /\ mapped \in Nat \union {Null}
  /\ idx \in 1..(SizeCount + 1)
  /\ parallelism \in 0..(IF pc = "mlp" THEN MlpLevels - 1 ELSE MlpLevels)
  /\ results \in [Cells -> Nat \X Nat]
  /\ memory \in Memories
  /\ storeOffset \in 0..Offsets
  /\ rows \in Seq(Nat \X {"region", "zero", "elsewhere", "nothing"})
  /\ table \in Seq(Seq(Nat \X Nat))

-----------------------------------------------------------------------------
Init ==
  /\ pc = "args"
  /\ options = 0
  /\ testFunc = "RunTest"
  /\ mlpTest = 0 /\ longpattern = FALSE /\ pageByPage = FALSE /\ hugePages = FALSE
  /\ stlf = 0 /\ stlfFunc = "stlftest" /\ stlfPageEnd = 0 /\ stlfLoadDistance = 0
  /\ maxTestSizeMb = 0 /\ singleSize = 0
  /\ ITERATIONS = 100000000
  /\ mapped = Null
  /\ idx = 1 /\ parallelism = 0
  /\ memory \in Memories
  /\ storeOffset = 0
  /\ results = [k \in Cells |-> NoResult]
  /\ rows = <<>> /\ table = <<>>

-----------------------------------------------------------------------------
\* The options.  A later one of a kind replaces an earlier, but the MLP and
\* the store forwarding test, once asked for, stay.

FunctionOf(type) ==
  CASE type = "c" -> "RunTest"
    [] type = "tlb" -> "RunTlbTest"
    [] type = "aop" -> "RunAopTest"
    [] type \in {"asm", "longpattern"} -> "RunAsmTest"
    [] OTHER -> testFunc

\* The function of a store forwarding test: "-test stlf" leaves what is there.
StlfFunctionOf(type) ==
  CASE type = "matched_stlf" -> "matchedstlftest"
    [] type = "128_stlf" -> "stlftest128"
    [] type = "dword_stlf" -> "stlftest32"
    [] OTHER -> stlfFunc

ModeOf(type) ==
  IF type \in {"stlf", "matched_stlf", "128_stlf"} THEN 1
  ELSE IF type = "dword_stlf" THEN 2
  ELSE stlf

ParseTest ==
  \E type \in TestTypes :
    /\ testFunc' = FunctionOf(type)
    /\ mlpTest' = IF type = "mlp" THEN MlpLevels ELSE mlpTest
    /\ longpattern' = (longpattern \/ type = "longpattern")
    /\ stlf' = ModeOf(type)
    /\ stlfFunc' = StlfFunctionOf(type)
    /\ UNCHANGED <<sizeSettings, stlfSettings, pageByPage, ITERATIONS>>

ParseMaxSizeMb ==
  /\ maxTestSizeMb' \in Maxima
  /\ UNCHANGED <<testSettings, singleSize, hugePages, stlfSettings, pageByPage, ITERATIONS>>

ParseSizeKb ==
  /\ singleSize' \in SingleSizes
  /\ UNCHANGED <<testSettings, maxTestSizeMb, hugePages, stlfSettings, pageByPage, ITERATIONS>>

ParseHugePages ==
  /\ hugePages' = TRUE
  /\ UNCHANGED <<testSettings, maxTestSizeMb, singleSize, stlfSettings, pageByPage, ITERATIONS>>

ParseIter ==
  /\ ITERATIONS' \in BaseIterations
  /\ UNCHANGED <<testSettings, sizeSettings, stlfSettings, pageByPage>>

ParsePageByPage ==
  /\ pageByPage' = TRUE
  /\ UNCHANGED <<testSettings, sizeSettings, stlfSettings, ITERATIONS>>

ParseStlfPageEnd ==
  /\ stlfPageEnd' \in PageEnds
  /\ UNCHANGED <<testSettings, sizeSettings, stlfLoadDistance, pageByPage, ITERATIONS>>

ParseStlfLoadOffset ==
  /\ stlfLoadDistance' \in LoadDistances
  /\ UNCHANGED <<testSettings, sizeSettings, stlfPageEnd, pageByPage, ITERATIONS>>

ParseOption ==
  /\ pc = "args"
  /\ options < MaxOptions
  /\ options' = options + 1
  /\ \/ ParseTest \/ ParseMaxSizeMb \/ ParseSizeKb \/ ParseHugePages
     \/ ParseIter \/ ParsePageByPage \/ ParseStlfPageEnd \/ ParseStlfLoadOffset
  /\ UNCHANGED <<pc, memory, mapped, progress>>

\* The last option is one that takes an argument, and has none: argv[argc].
MissingArgument ==
  /\ pc = "args"
  /\ pc' = "faulted"
  /\ UNCHANGED <<options, settings, mapped, progress>>

EndOfOptions ==
  /\ pc = "args"
  /\ pc' = IF hugePages THEN "map" ELSE "dispatch"
  /\ UNCHANGED <<options, settings, mapped, progress>>

-----------------------------------------------------------------------------
\* The huge pages.

HugePageSize == 2048
FourGB       == 4194304

\* The KB of maxTestSizeMb * 1024 * 1024 bytes, in 32 bits.
MaxTestSize == (maxTestSizeMb % 4096) * 1024

\* Plausible bug: only whole huge pages.
RoundedDown(kb) == (kb \div HugePageSize) * HugePageSize

\* ((kb - 1) / hugePageSize + 1) * hugePageSize; of 0, in 64 bits, it is 0.
Rounded(kb) == ((kb + HugePageSize - 1) \div HugePageSize) * HugePageSize

\* testSizeKb, the size asked for or the largest, unless the maximum is less.
MemRequired ==
  LET testSizeKb == IF singleSize # 0 THEN singleSize ELSE DefaultSizes[SizeCount]
  IN  IF maxTestSizeMb > 0 /\ testSizeKb > MaxTestSize THEN MaxTestSize ELSE testSizeKb

\* mmap or, if that fails, posix_memalign.
MapHugePages ==
  /\ pc = "map"
  /\ mapped' = Rounded(MemRequired)
  /\ pc' = "dispatch"
  /\ UNCHANGED <<options, settings, progress>>

\* Both fail.
MapFails ==
  /\ pc = "map"
  /\ pc' = "exited"
  /\ UNCHANGED <<options, settings, mapped, progress>>

-----------------------------------------------------------------------------
\* The tests.

\* Plausible bug: the base iterations are not multiplied.
NotMultiplied(iterations) == iterations

\* 10 * iterations, in 32 bits.
TenTimes(iterations) ==
  IF iterations < 429496730 THEN 10 * iterations ELSE 10 * (iterations - 429496730) + 4

\* scale_iterations(kb, ITERATIONS) > 0: the fourth root of kb, which is below
\* 256, goes into the iterations at least once.
HasIterations(kb) ==
  LET iterations == TenTimes(ITERATIONS)
  IN  iterations >= 256 \/ iterations ^ 4 >= kb

\* The KB of size_kb * 1024 bytes, in 32 bits: what a test allocates and, but
\* for the TLB test, fills.
Region(kb) == kb % FourGB

\* Every test but the TLB test would go on without its memory: RunAopTest's
\* arrays would be NULL, and posix_memalign leaves its pointer as it was.
Refused(kb) == Region(kb) > memory

\* The pattern of the TLB test, 4 bytes for 4 KB, and of the pointer test, 4
\* and 8 bytes for 64.
TlbPatternRefused(kb) == (kb + 1023) \div 1024 > memory
AopArraysRefused(kb)  == (Region(kb) + 7) \div 8 > memory

\* The pages whose first element an int can index.
IndexedPages == 2097152

\* The TLB test places an element in each page of size_kb itself, not of
\* Region(size_kb), and RunTest loads A[0] even if there is no A.
Reach(kb) ==
  IF testFunc = "RunTlbTest" THEN kb
  ELSE IF testFunc = "RunTest" /\ Region(kb) = 0 THEN 1
  ELSE Region(kb)

Overruns(kb) ==
  \/ Reach(kb) > IF mapped = Null THEN Region(kb) ELSE mapped
  \/ testFunc = "RunTlbTest" /\ kb \div 4 > IndexedPages

\* What a test on a region of kb does to main, and what the latency printed is
\* of: the region, nothing (0.0 without a pattern; 0 / 0 without iterations),
\* or something else: what 32 bits leave of the size, or what the pointer of an
\* allocation that failed happened to point to.
\* preplatencyarr counts up to a length of 0 through all addresses, latencytest
\* down from an iteration count of 0, and the loops of RunAopTest make no turn
\* without an element, unless the compiler takes it that they end.
AfterTest(kb, next) ==
  LET measured == IF ~HasIterations(kb) THEN "nothing"
                  ELSE IF Reach(kb) = kb THEN "region"
                  ELSE "elsewhere"
  IN  IF testFunc = "RunTlbTest" /\ TlbPatternRefused(kb) THEN {<<next, "zero">>}
      ELSE IF testFunc = "RunAopTest" /\ AopArraysRefused(kb) THEN {<<"faulted", "nothing">>}
      ELSE IF mapped = Null /\ Refused(kb)
           THEN {<<"faulted", "nothing">>} \union
                IF testFunc = "RunTlbTest" THEN {} ELSE {<<next, "elsewhere">>}
      ELSE IF testFunc = "RunAsmTest" /\ Region(kb) = 0 THEN {<<"overran", "nothing">>}
      ELSE {IF testFunc = "RunAsmTest" /\ ~HasIterations(kb) THEN <<"hung", "nothing">>
            ELSE <<next, measured>>}
           \union (IF Overruns(kb) THEN {<<"overran", "nothing">>} ELSE {})
           \union (IF testFunc = "RunAopTest" /\ Region(kb) = 0 /\ HasIterations(kb)
                   THEN {<<"hung", "nothing">>} ELSE {})

\* The test is run, and if it returns its latency is printed.
PrintLatency(kb, next) ==
  \E outcome \in AfterTest(kb, next) :
    /\ pc' = outcome[1]
    /\ rows' = IF outcome[1] = next THEN Append(rows, <<kb, outcome[2]>>) ELSE rows

Dispatch ==
  /\ pc = "dispatch"
  /\ pc' = IF mlpTest > 0 THEN "mlp"
           ELSE IF stlf > 0 THEN "align"
           ELSE IF singleSize = 0 THEN "sweep"
           ELSE "single"
  /\ UNCHANGED <<options, settings, mapped, progress>>

\* Plausible bug: the maximum itself is left out.
AllowedBelow(kb) == maxTestSizeMb = 0 \/ kb < (maxTestSizeMb % 4194304) * 1024

\* maxTestSizeMb * 1024, in 32 bits.
Allowed(kb) == maxTestSizeMb = 0 \/ kb <= (maxTestSizeMb % 4194304) * 1024

\* A turn of the loop over the sizes.  The else that would end it belongs to
\* "if (threadId == 0)", and there is no other thread: a size above the
\* maximum is passed over and the loop goes on.
SweepTest ==
  /\ pc = "sweep"
  /\ idx <= SizeCount
  /\ Allowed(DefaultSizes[idx])
  /\ PrintLatency(DefaultSizes[idx], "sweep")
  /\ idx' = idx + 1
  /\ UNCHANGED <<options, settings, mapped, parallelism, results, storeOffset, table>>

SweepSkip ==
  /\ pc = "sweep"
  /\ idx <= SizeCount
  /\ ~Allowed(DefaultSizes[idx])
  /\ idx' = idx + 1
  /\ UNCHANGED <<pc, options, settings, mapped, parallelism, results, storeOffset, rows, table>>

SweepEnds ==
  /\ pc = "sweep"
  /\ idx > SizeCount
  /\ pc' = "done"
  /\ UNCHANGED <<options, settings, mapped, progress>>

\* -sizekb: no maximum is looked at.
SingleTest ==
  /\ pc = "single"
  /\ PrintLatency(singleSize, "done")
  /\ UNCHANGED <<options, settings, mapped, idx, parallelism, results, storeOffset, table>>

\* Plausible bug: the index without its factor.
CellUnscaled(s, p) == s + p

\* size_idx * mlpTest + parallelism
Cell(s, p) == s * MlpLevels + p

\* Plausible bug: parallelism <= mlpTest.
MoreLevelsThanThere(p) == p < MlpLevels

MoreLevels(p) == p + 1 < MlpLevels

\* RunMlpTest of the next level of parallelism, or, after the last, of the
\* next size.  It allocates its own region, and without one returns 0.
MlpMeasure ==
  /\ pc = "mlp"
  /\ idx <= SizeCount
  /\ results' = [results EXCEPT ![Cell(idx - 1, parallelism)] =
                   IF Refused(DefaultSizes[idx]) THEN NoResult
                   ELSE <<DefaultSizes[idx], parallelism + 1>>]
  /\ IF MoreLevels(parallelism)
     THEN parallelism' = parallelism + 1 /\ idx' = idx
     ELSE parallelism' = 0 /\ idx' = idx + 1
  /\ UNCHANGED <<pc, options, settings, mapped, storeOffset, rows, table>>

\* All measured, and the line of the sizes printed: on to the table.
MlpMeasured ==
  /\ pc = "mlp"
  /\ idx > SizeCount
  /\ pc' = "table"
  /\ UNCHANGED <<options, settings, mapped, progress>>

\* A row of the table.  Its loop, "size_idx < default_test_sizes[size_idx]",
\* goes on past the last size as long as the memory there and in results
\* can be read.
TableRow ==
  /\ pc = "table"
  /\ parallelism < MlpLevels
  /\ \E extra \in 0..MaxExtra :
       table' = Append(table, [s \in 1..(SizeCount + extra) |->
                                IF s <= SizeCount THEN results[Cell(s - 1, parallelism)]
                                ELSE NoResult])
  /\ parallelism' = parallelism + 1
  /\ UNCHANGED <<pc, options, settings, mapped, idx, results, storeOffset, rows>>

TableFaults ==
  /\ pc = "table"
  /\ parallelism < MlpLevels
  /\ pc' = "faulted"
  /\ UNCHANGED <<options, settings, mapped, progress>>

TableEnds ==
  /\ pc = "table"
  /\ parallelism = MlpLevels
  /\ pc' = "done"
  /\ UNCHANGED <<options, settings, mapped, progress>>

-----------------------------------------------------------------------------
\* RunStlfTest, in bytes from the start of its allocation.

\* Plausible bug: the page's end without room for the line behind it.
TestAllocSizePage(pageEnd, distance) ==
  IF pageEnd # 0 THEN pageEnd ELSE IF distance # 0 THEN distance + 128 ELSE 128

TestAllocSize(pageEnd, distance) ==
  IF pageEnd # 0 THEN 2 * pageEnd ELSE IF distance # 0 THEN distance + 128 ELSE 128

TestAlignment(pageEnd, distance) ==
  IF pageEnd # 0 THEN pageEnd ELSE IF distance # 0 THEN 4096 ELSE 64

TestOffset(pageEnd) == IF pageEnd # 0 THEN pageEnd - 64 ELSE 0

\* posix_memalign takes a power of two that a pointer's size divides.
CanAlign(alignment) == \E k \in 3..30 : alignment = 2 ^ k

\* The bytes that one store, and one load, of stlfFunc covers.
StoreWidth ==
  IF stlfFunc = "stlftest128" THEN 16 ELSE IF stlfFunc = "stlftest32" THEN 4 ELSE 8
LoadWidth ==
  IF stlfFunc = "stlftest" THEN 4 ELSE IF stlfFunc = "stlftest32" THEN 2 ELSE 8

\* An access of a number of bytes at a distance from arr leaves the allocation;
\* one at a negative distance, in 32 bits, by 4 GB.
Outside(distance, width) ==
  LET first == TestOffset(stlfPageEnd) + distance
  IN  first < 0 \/ first + width > TestAllocSize(stlfPageEnd, stlfLoadDistance)

\* A negative size is one that nothing can provide.
StlfAllocates ==
  /\ pc = "align"
  /\ TestAllocSize(stlfPageEnd, stlfLoadDistance) >= 0
  /\ CanAlign(TestAlignment(stlfPageEnd, stlfLoadDistance))
  /\ pc' = "stlf"
  /\ UNCHANGED <<options, settings, mapped, progress>>

\* "Could not obtain aligned memory": the test returns, and main with it.
StlfAllocationFails ==
  /\ pc = "align"
  /\ pc' = "done"
  /\ UNCHANGED <<options, settings, mapped, progress>>

\* The measurements of a store offset, with every load offset.
StlfRow ==
  LET strays == \/ Outside(storeOffset, StoreWidth)
                \/ \E loadOffset \in 0..(Offsets - 1) :
                     Outside(loadOffset + stlfLoadDistance, LoadWidth)
  IN  /\ pc = "stlf"
      /\ storeOffset < Offsets
      /\ pc' \in IF strays THEN {"stlf", "overran"} ELSE {"stlf"}
      /\ storeOffset' = storeOffset + 1
      /\ UNCHANGED <<options, settings, mapped, idx, parallelism, results, rows, table>>

\* The grid is printed, and the memory freed.
StlfPrints ==
  /\ pc = "stlf"
  /\ storeOffset = Offsets
  /\ pc' = "done"
  /\ UNCHANGED <<options, settings, mapped, progress>>

-----------------------------------------------------------------------------
Next ==
  \/ ParseOption \/ MissingArgument \/ EndOfOptions
  \/ MapHugePages \/ MapFails
  \/ Dispatch
  \/ SweepTest \/ SweepSkip \/ SweepEnds
  \/ SingleTest
  \/ MlpMeasure \/ MlpMeasured \/ TableRow \/ TableFaults \/ TableEnds
  \/ StlfAllocates \/ StlfAllocationFails \/ StlfRow \/ StlfPrints

Spec == Init /\ [][Next]_vars

\* A single process: as long as it can take a step, the system lets it.
FairSpec == Spec /\ WF_vars(Next)

-----------------------------------------------------------------------------
\* The options for which the sizes fit: a single size that does not wrap in 32
\* bits and, if huge pages are cut to the maximum, a maximum that does not wrap
\* in line 246 and is no less than the single size.
SizesInRange ==
  /\ singleSize < FourGB
  /\ hugePages /\ maxTestSizeMb > 0 =>
       maxTestSizeMb < 4096 /\ singleSize <= maxTestSizeMb * 1024

\* "cannot set both pageEnd and loadDistance" (line 791); and a page to push the
\* test to the end of holds a cache line, and loads are pushed ahead.
StlfInRange ==
  \/ stlfPageEnd = 0 /\ stlfLoadDistance >= 0
  \/ stlfPageEnd >= 64 /\ stlfLoadDistance = 0

\* A test leaves the memory it was given only for options out of range, which
\* the code takes without a word.  Within it no sweep does, however the maximum
\* falls between the sizes and the pages are rounded (lines 241-247 and 367
\* compute them apart), no single size, and no store or load of RunStlfTest.
OverrunsOnlyOutOfRange ==
  pc = "overran" => IF stlf > 0 THEN ~StlfInRange ELSE ~SizesInRange

\* A size is no more than the maximum, in whole MB.
WithinMaximum(kb) == maxTestSizeMb = 0 \/ (kb + 1023) \div 1024 <= maxTestSizeMb

\* Although the loop is never left early (lines 367-372), a sweep that ends
\* has printed the first of the default sizes, once and in order, none above
\* the maximum and, of a maximum that does not wrap in line 367, all that are
\* within it.  Each latency is that of its region unless an allocation was
\* refused or there were no iterations; 0.0 is printed by the TLB test alone
\* (line 723).
SweepMeasuresAllowedSizes ==
  pc = "done" /\ mlpTest = 0 /\ stlf = 0 /\ singleSize = 0 =>
    /\ \A k \in DOMAIN rows :
         /\ k \in SizeIndex /\ rows[k][1] = DefaultSizes[k] /\ WithinMaximum(rows[k][1])
         /\ ~Refused(rows[k][1]) /\ HasIterations(rows[k][1]) => rows[k][2] = "region"
         /\ rows[k][2] = "zero" => testFunc = "RunTlbTest"
    /\ maxTestSizeMb < 4194304 =>
         \A s \in SizeIndex : WithinMaximum(DefaultSizes[s]) => s \in DOMAIN rows

\* Each cell of the MLP test's table, up to the last size of its first line,
\* shows the measurement of the size above it and of the row's parallelism, or
\* 0 when the region could not be had: the index into results (lines 268 and
\* 282) never names a cell twice.
TableShowsItsMeasurements ==
  \A p \in 1..Len(table) : \A s \in SizeIndex :
    table[p][s] = IF Refused(DefaultSizes[s]) THEN NoResult ELSE <<DefaultSizes[s], p>>

\* The program ends, unless it is given too few base iterations for a size,
\* fewer than 4 for the default sizes and 26 for any other, or so many that ten
\* times them wrap; or a size of which nothing is left in 32 bits.
Terminates ==
  <>(\/ pc \in {"done", "exited", "overran", "faulted"}
     \/ /\ pc = "hung"
        /\ \/ ITERATIONS < (IF singleSize = 0 THEN 4 ELSE 26) \/ ITERATIONS >= 429496730
           \/ singleSize # 0 /\ Region(singleSize) = 0)
=============================================================================
