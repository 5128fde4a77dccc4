# TLA+ models of the memory microbenchmarks

This directory holds TLA+ modules about the benchmarks in `src/`, the TLC configurations that check
them and the proofs that TLAPS checks. `PROJECT.json` is the index: components, runs, mutants, the
source lines behind each definition, findings, hazards and theorems.

A benchmark has no answer to compare with. If a pointer chase silently runs through half of its
region, or a clock is stopped before the last thread is done, the program prints a plausible number
that is wrong. What is checked here is therefore mostly *that a number is the number of what it
names*: of the whole region, of all the threads, of every update, in the right row.

    tlc -workers 4 -config MCTlbWalk.cfg TlbWalk             # a run
    tlapm PatternWalkProofs.tla                              # the proofs of a module

## 1. The system

The programs are separate executables that share no state while they run; each is started by a
script, prints or writes a table, and the plots read the tables. They meet only in files.

| Part | Source | State | Operations | What makes it correct |
|---|---|---|---|---|
| Pattern tests | `MemoryLatency.c` 387-630 | the pattern array, the position of each chain, loop counters | `FillPatternArr`, `RunTest`, `RunAopTest`, `RunMlpTest`, `scale_iterations` | the pattern is one cycle through the region; a walk visits everything before it repeats; chains never meet |
| Page-by-page fill | `MemoryLatency.c` 394-464 | page order, array | `FillPageByPage`, `FillPageByPage64` | a page is completed before the next; only written elements are followed |
| Assembly test | `MemoryLatency.c` 487-509, 633-705, `MemoryLatency_x86.s` 1-83 | an array of words, the registers | `FillPatternArr64`, `preplatencyarr`, `latencytest`, `longpatternlatencytest` | every word becomes a pointer once; every line (every word) is visited before one is repeated |
| TLB test | `MemoryLatency.c` 707-786 | page order, array, position | `RunTlbTest`, then `RunTest` | one element in each page, each page loaded from before one is again, the elements spread over the sets of the cache |
| Store forwarding test | `MemoryLatency.c` 788-905, `MemoryLatency_x86.s` | the options, the allocation, two offsets | `RunStlfTest` | every store and load of the grid is inside the allocation |
| Latency driver | `MemoryLatency.c` 94-378 | the options, the mapping, the table of results | `main` | no test is larger than its memory; the sweep and the table show what was measured |
| Coherence benchmark | `cache_coherence.cpp`, `mbench-common.h` | number of threads, iterations, elapsed time, the shared value | loops of `OP`, `main` | the measurement reaches its second and does not overshoot; rows name the threads that ran |
| STREAM | `stream.c` | three arrays, times, the count of threads, the scalars of the check | parallel regions, `checktick`, the summary, `checkSTREAMresults` | a time covers all of its kernel; the summary is of the iterations it names; the check replays exactly what was done |
| Multithreaded peak bandwidth | `mpbw.cpp` | `g_sum`, the threads, the best bandwidth | `sum`, `estimate_bandwidth`, `main` | the whole volume is read before the clock stops; the best is of its own configuration |
| Cache control | `cache.hpp` | the line of the probed variable (in the hardware) | `cacheflush`, `clread`, `cldemote` | every line of the range is flushed, and flushed when it returns |
| Cache probes | `basiccache.cpp`, `l1-replacement-strategy.cpp` | heading, trial, the line | trials that prepare the line and time a load, `cache_other_xis` | a time is of the level that its heading names |
| Loaded latency | `latency-vs-bandwidth.cpp` | the team, each thread's segment and counters, the line | `main` | as the probes; the loads stay in their segments; the process ends |
| Single-threaded bandwidth | `naive_pbw.cpp` | none beyond a loop | timed reads | - |
| Load-to-use | `load-use-latency.cpp`, `main.cpp` | statistics | timed loads through routines that are not in the repository | - |
| Experiment pipeline | `run-experiment.sh`, `submit-*.sh` | the files of a directory, which outlive a job | runs under three NUMA policies, renaming | a file holds the result of the policy in its name |
| Plots, builds | `*.py`, `Makefile`, `CMakeLists.txt` | none | - | - |

**How they interact.** Within `MemoryLatency`, `main` passes a size and a number of iterations to a
test through a function pointer and optionally a mapping of huge pages that all of them reuse; the
assembly routines get addresses of the array that C filled. `cache_coherence` and `stream` fork and
join OpenMP teams; `mpbw` creates and joins threads that share `g_sum`; thread 0 of
`latency-vs-bandwidth` ends the process under its team. `run-experiment.sh` runs `mpbw` under three
memory policies and moves `mpbw.csv` after each launch, whether it succeeded or not; what a job
leaves in the directory the next one finds.

**What is hard.** Random patterns (a property of *every* sequence of random numbers, of which a run
shows one); indexes that are scaled, split in pages or half the width they seem; interleavings of
threads between two readings of a clock; a calibration with cut-off milliseconds on both ends;
options that are checked one by one and never together; 32-bit counts; flushes that complete when they
like; jobs that are killed, and launches that fail in a script without `set -e`. `PROJECT.json` lists the
hazards at their lines.

## 2. Modules

| Module | Of | Says |
|---|---|---|
| `FreshRounds` | abstract | what a walk promises: each walker visits all lines before it visits one again; its loads are counted, so that a repeat is not a stutter |
| `PatternShuffle` | `FillPatternArr` 480-483 | the random index and the exchange, shared by every shuffle |
| `PatternWalk` | `RunTest`, `RunMlpTest`, `RunAopTest` | fill, start, loads and end of the three C tests |
| `TlbWalk` | `RunTlbTest` | its own fill and walk, and then `PatternWalk`'s `RunTest` as its reference |
| `PageWalk`, `MCPageWalk` | `FillPageByPage`, `FillPageByPage64` | page order, shuffle and redirection of each page, the walk |
| `AsmWalk` | `RunAsmTest`, `MemoryLatency_x86.s` | three shuffles in one array, the conversion, both assembly loops |
| `LatencyDriver`, `MCLatencyDriver` | `main`, `RunStlfTest` | options, mapping, dispatch, refused allocations, sweep, table, the grid of store and load offsets |
| `CoherenceCalibration`, `MCCoherence` | `cache_coherence.cpp` | check of the team, measurement, calibration, rows |
| `StreamScalar` | `checkSTREAMresults` 442-456 | abstract: each element takes the steps of the check's scalars |
| `StreamKernels`, `MCStream` | `stream.c` `main` | count of threads, `checktick`, regions, barrier, clock, summary, check |
| `Mpbw` | `mpbw.cpp` | threads over segments, `g_sum`, joins, best and rows |
| `ExperimentPipeline`, `MCExperiment` | `run-experiment.sh` | jobs, launches, deaths and kills around the whole of `Mpbw`, and the files |
| `CacheControl` | `cache.hpp` | one line of the cache, its flushes under way, what others may do to it |
| `CacheProbes` | `basiccache.cpp`, `l1-replacement-strategy.cpp`, thread 0 of `latency-vs-bandwidth.cpp` | headings, preparations, timed loads |
| `LoadedLatency` | `latency-vs-bandwidth.cpp` | the team around thread 0's probe; the other two programs are it without a team |
| `ShuffleProofs` | `FillPatternArr` | lemmas about every shuffle, used by the next three modules |
| `PatternWalkProofs`, `PageWalkProofs`, `AsmWalkProofs`, `OpenMPProofs`, `LatencyDriverProofs`, `ExperimentProofs`, `CacheProofs` | | theorems (section 4) |

What composes what: `PatternWalk`, `PageWalk` and `AsmWalk` EXTEND `PatternShuffle` and are compared with
`FreshRounds` (INSTANCE with a refinement mapping); `TlbWalk` EXTENDS `PatternWalk`, whose steps are
steps of its own, and compares its own walk with `FreshRounds` too, with pages for lines. `StreamKernels`
is compared with `StreamScalar`. `ExperimentPipeline` EXTENDS `Mpbw`: each action of the program is a step
of the job that runs it, and any of them may be its last. `LoadedLatency` EXTENDS `CacheProbes`, which
EXTENDS `CacheControl`. `CoherenceCalibration` names its type invariant and specification
`CalibrationTypeOK`, `CalibrationSpec` and so on, so that `OpenMPProofs` can extend it together with
`StreamKernels`. The refinement mappings of the walks count the loads with the code's own counters
(`i`, `j`, `rcx`); everything else is mapped to itself.

### State and actions against the code

**PatternWalk.** A line stands for the 16 words of which only the first is used. `FillStep` is a turn
of `while (iter > 1)`, with any value `rand()` may give; `StartRunTest`, `StartRunMlpTest`,
`StartRunAopTest` are the code between the shuffle and the timed loop (RunTest's first load is before
its loop), `RunTestLoad`, `RunMlpTestLoad`, `RunAopTestLoad` one load each, `StopClock` the end of the
loop. `touched` is history: the lines of each chain's current round.

**PageWalk.** `pc` says which array is in the shuffle: the whole region (two pages or less), the order
of the pages, or a page. `PageFilled` is the end of a page: its redirection, and the numbering of the
next page's elements that opens the next call of `FillPatternArr`. In the 64-bit fill, `Stretch` is what
a page of 64-bit elements does under a shuffle of 32-bit elements. What nobody wrote is `Unwritten`: 0
after RunAsmTest's `memset`, unknown in RunTest.

**AsmWalk.** An address is a count of words. `FillStep` and `NextOffset` are the two nested loops of
`FillPatternArr64`, `preplatencyarr` converts the array at once (it runs alone), `LatencyTestLoad` and
`LongPatternLoad` are one turn of the assembly loops with `r15`, `rax`, `rcx` named as there.

**TlbWalk.** An element is a line. `TlbFillStep` shuffles the pages; `PlaceElements` allocates, poisons and
fills the array (`Placement` is the masked offset of line 754, `Poisoned` the quarter that `memset` really
reaches); `TlbFirstLoad` and `TlbLoopLoad` are the walk; `CallRunTest` frees and calls `RunTest`, whose
steps are `PatternTest`. `caller` tells a test that main() started from RunTlbTest's reference.

**LatencyDriver.** One action per option, for the options in any order; `MapHugePages`/`MapFails`;
`Dispatch`; one action per turn of the loops. A test is its size and its outcomes (`AfterTest`): it returns
the latency of its region; it hangs (the assembly loops count down from 0; RunAopTest's loops make no turn
without elements); on memory that is too small it may crash (`"overran"`); when its memory is refused it prints
0, follows a null pointer, or goes on with whatever its pointer held (`"elsewhere"`). `Region` is what 32 bits
leave of `size_kb * 1024`, and `Reach` what the test touches, which for RunTlbTest and for a region of nothing
is not the same. `Memories` gives the KB beyond which the machine refuses.
`StlfAllocates` is the allocation of RunStlfTest, and `StlfRow` one store offset with all load offsets,
counted in bytes; the loads' and stores' widths are those of the four assembly loops. Bytes elsewhere are
KB; every 32-bit product wraps: of the size (lines 513, 551, 571, 657, 709), of the maximum (lines 246 and 367,
at 4096 MB and 4194304 MB) and of the iterations (line 391). RunTlbTest indexes its array with an `int`, which
reaches the first elements of 2097152 pages and no more.

**CoherenceCalibration.** Iterations in millions, time in microseconds, so cost is picoseconds per
iteration. `SanityCheck` is the first region, `Measure` one measured region with the readings of the
clock around it, `MeasureLonger` and `WriteRow` the two ways on. Constants name what the code cannot
know: the threads of the machine, OMP_DYNAMIC (with it any region may be given fewer threads), the cost, the phase of the clock, and whether the
compiler widened the loops' `int` (overflow is undefined, so either may happen).

**StreamKernels.** `LoadK`/`StoreK` are the two halves of `k++`, which `omp atomic` keeps together; `Checktick`
takes the least of the differences of a clock that may also be set back. A region is `Fork` (the clock is
read, a schedule is chosen), `Update(t)` by each thread through its own share, and `Join` behind the barrier
(the clock is read again). The clock counts the cost of updates, which differs from region to region, so
"this time covers the kernel" and "this is the best of the later iterations" are numbers. `Summarise` is
an iteration of the summary's loop. Integers stand for doubles, which are exact here.

**Mpbw.** `StartClock`, `Spawn` (the call of `sum` itself when there is one thread), `Read(t)`,
`LoadGSum(t)` and `StoreGSum(t)` (the two halves of `g_sum += sum`), `StopClock` behind the joins,
`Compare` (best of N), `WriteRow`; `CloseOutput` is apart from `Measuring` because only closing writes the file.
The data are all 1 in the code, so a sum is a number of reads. `g_sum` is only added to; it is counted
from the start of each measurement.

**ExperimentPipeline.** `Launch` (opening `mpbw.csv` empties it), `LaunchFails`, `Work` and `Close` (steps of
`Mpbw`), `Exit`, `Dies`, `Mv` (with the step to the next policy), `Killed` at any point, `Submit` of the next job
in the same directory. A file is who wrote it and the rows that reached the disk: none before `close`,
because all the rows of the program are fewer bytes than an `ofstream` buffers. `faults` is history.

**CacheControl, CacheProbes, LoadedLatency.** Of the hardware only what the code relies on: a load brings
the line in; `clflushopt` takes effect at any time after it was issued (`FlushDone`), and `mfence` waits for
it; `cldemote` is a hint; others may push the line out at any time (`Pushed`) but never bring it in. A trial
is the steps its heading prescribes (`Prepare`) and `Time`. In `LoadedLatency`, `Fork` may grant a smaller team,
`Refuse` is the exit that answers it, `EnterKernel(t)`/`Load(t)` are the threads of the load, which may
start at any time or never, and `Finish` ends the process under them.

## 3. Runs

Deadlock is not checked: every program here ends. The longest run takes about half a minute.

| Run | Bounds | Shows |
|---|---|---|
| `pattern_walk` | 6 lines, 3 chains, 39 loads; a TLB test of 7 pages of 4 lines, 18 loads | `SingleCycle`, `ChainsNeverMerge`, `VisitsAllBeforeRepeat` for every random sequence. 39 loads are more than six rounds of RunTest and RunAopTest and more than two of each of the three chains, which pass the others' starts and wrap. The TLB test has more pages than a page has lines, so that the mask of the offset is needed, and 18 loads are two rounds and more: `OneElementPerPage`, `SpreadOverSets` |
| `page_walk` | 4 lines a page; 1 page + 1 line, and 2, 3, 4 pages; 35 loads | both branches of the fill: the page order and every page's shuffle, the walk over two rounds and more of the largest region |
| `page_walk_extra` | 3 pages + 1 line | **violated**: the walk follows an element of the page that was never filled |
| `page_walk_64` | as `page_walk`, 64-bit | **violated**: the walk leaves a page before it is complete |
| `asm_walk` | 5 lines of 3 words, 34 loads | 34 loads are two rounds of the 15 words and more; three words are three different shuffles |
| `coherence` | 1-3 threads on machines of 2 and 3, with and without OMP_DYNAMIC, 11 costs, 3 phases | costs lie on both sides of each threshold (0, 10, 100, 334, 1000 ms): no overshoot, complete rows, short ones only with OMP_DYNAMIC, termination where the counter is wide enough |
| `coherence_int` | one cost, 330 ps | **violated**: the second is never reached when the `int` counter wraps |
| `stream` | 4 elements, 3 threads, NTIMES = 3 | every schedule (some threads idle) and interleaving of the count and the kernels; three turns of different speed, the first with the fastest and the slowest kernel of all, so a summary that looked at it would show |
| `latency_driver` | the sizes of the source, 2 levels of parallelism, up to 3 options, 3 sizes of memory | all orders of three options; the memories refuse everything, the largest sizes, or nothing; page ends that cannot be aligned, that lie within a line, that hold one exactly, and that hold many, and a negative distance; maxima that are a size exactly, that lie between two, and that wrap in line 246 and in line 367; single sizes of 4 GB, of which 32 bits leave nothing, and of 8 GB and 4 KB, past what RunTlbTest can index; bases of iterations that are just too few for the default sizes (3), just enough (4), just enough for any size (26) and that wrap |
| `mpbw` | 25 bytes in lines of 5, up to 4 threads, N = 1, two durations | 25 is divided neither by 2 nor by 4: segments begin in the middle of lines and leave a rest, as 16 GB do among 6 threads; one comparison suffices to tell best from worst |
| `experiment` | the 3 policies, 2 jobs, `mpbw` of two lines and up to 2 threads | every step of `mpbw` may be its last, in every line of the script, and a second job finds what the first left. A third job finds nothing new: what a job finds is an `mpbw.csv` or none, and files of any policy |
| `loaded_latency` | lines of 16, teams of up to 3, 2 trials under each heading, 2 rounds of the load | a trial follows one of its own and of the other headings; flushes complete late, lines are pushed out anywhere; segments of 7 elements for 2 and 3 threads |

The properties beyond the type invariants, by what could go wrong:

- *A walk in a part of its region*: `SingleCycle`, `VisitsAllBeforeRepeat`, `ReturnsAfterEveryLine`,
  `CompletesPageBeforeLeaving`, `FollowsWrittenElements`, `OneElementPerPage`, `SpreadOverSets`.
- *Walkers or threads that disturb each other*: `ChainsNeverMerge`, `GSumKeepsASum`, `ElementsFollowTheCheck`,
  and the count of STREAM's threads (in its `TypeOK`).
- *A time that is not of what it names*: `TimesCoverTheKernels`, `EveryLineRead`, `TimesMeanWhatTheySay`,
  `BestOfMeasurements`, `BestOfLaterIterations`, `NoOvershoot`.
- *A number in the wrong place*: `TableShowsItsMeasurements`, `SweepMeasuresAllowedSizes`, `RowsShortOnlyIfDynamic`,
  `RowsComplete`, `NamesTellThePolicy`, `RowsAllOrNone`, `CleanJobRenewsAll`.
- *Options out of range, or that do not go together*: `OverrunsOnlyOutOfRange`.
- *A program that does not end, or not as it should*: `EveryTeamMeasuredIfWidened`, `SolutionValidates`, the two
  `Terminates`, `JobsEnd`.

Three type invariants say more than types: that of `LoadedLatency` keeps the load in disjoint segments and
`cache_other_xis` on addresses of the probed set; `TlbTypeOK` keeps the walk off the poison; that of
`StreamKernels` holds the count of threads. Violated runs check a sentence of the source that the code does
not keep; see *Findings*. In each passing run every property is broken by some mutant of a mapped definition
(`PROJECT.json`, "mutants"; the mutated forms stand beside the originals as "Plausible bug").

**Liveness and fairness.**

- `coherence`, `latency_driver`: single processes between their regions, `WF_vars(Next)` (an operating system
  schedules a lone runnable process).
- `stream`: `WF_vars(Next)` as well: some thread of the program that can run is run, though no particular one need
  be. That is enough, because every region gives each thread a finite share.
- `experiment`: weak fairness of the job's own steps (`JobStep`, those of `mpbw` included): the node runs a job as long
  as it lets it live. Failures, deaths and kills are never required.
- `loaded_latency`: weak fairness of thread 0 and of the completion of each flush. Nothing is asked of the threads
  of the load: `Terminates` says that thread 0 waits for none of them.

The measured regions terminate because their loops do; where the code does not guarantee that (`int` against
`long`, a count of 0) the model has an action that says so. The walks make no claim about termination and
state no fairness.

## 4. Proofs

TLC's runs are small instances; these theorems hold for every value of the constants that the named
assumptions admit. The assumptions are the `ASSUME`s of the modules (TLC evaluates them too); where a
theorem needs more, its hypothesis is named below. Every safety property of the passing runs, the type
invariants included, is stated by a theorem. Each inductive invariant was first checked by TLC on the run of
its module.

**ShuffleProofs** (lemmas). `Shuffled(f, L, D)` is the loop invariant of every shuffle: the pattern `f` is
injective and does not leave `D`, and each of its cycles holds exactly one of the elements `L` that are still
to be exchanged. An exchange with a *strictly* smaller element merges two cycles (`SwapMergesCycles`), and
with one element left there is one cycle (`OneLabelIsOneCycle`). "In its cycle" is stated with sets that
the pattern never leaves, so no induction along a cycle is needed. `D` is the lines of a region, the
pages, or the words at one offset of their lines. The module also has the arithmetic of places: the r-th
line of the k-th page (`PlaceOf`, `IndexIsPlace`).

**PatternWalkProofs.** `SingleCycle` says something only when the shuffle has ended, so it is not inductive.
`IInv` adds to it *ShuffleInv* (`Shuffled`); *RoundsLeadOn*: in RunTest and RunMlpTest, the lines of a round
lead, except for the last, back into the round; were the next line in it, the round would be closed, and so be
everything; *AopRound*: RunAopTest's round is what the pointers passed point to; *ChainsApart*: the positions of
chains that have and have not moved in this turn are different, because the pattern is injective. From it
`TypeCorrect`, `ShuffleMakesOneCycle`, `MlpChainsNeverMerge`, and `WalksImplementFreshRounds`, where
`CountsLoad` ties each load to one step of the loops' counters. Assumed: a region of at least a line, and
no more chains than lines.

The TLB test: every step of it is one of `PatternWalk` or leaves its variables alone
(`TlbImplementsPatternWalk`), so those theorems hold of its reference (`ReferenceIsOneCycle`,
`ReferenceVisitsAll`). Its own walk has `TlbInv`: the pages are `Shuffled`, each page has one element, at its
masked offset, that leads to the element of the next page (`ElementsPlaced`), and the elements of a round lead on.
From it `TlbTypeCorrect` (the poison is never followed), `TlbWalkImplementsFreshRounds` and
`TlbElementsSpread` (any two sets have equally many elements, or one more).

**PageWalkProofs.** `PageTypeCorrect` is for both widths and all regions: no fill writes an index outside the
region. It rests on `FillTypes`, which says what the current page holds (its own places, as far as it was
numbered) and that later pages are untouched. The other theorems are about the regions that the fill covers:
up to two pages, or whole pages of 32-bit elements (`FilledWhole`; the two violated runs show why not the
others). `FillInv`: the order of the pages, and within each finished page the *places* that its elements lead
to, are one cycle. The redirection keeps every place, because a page begins with the place 0 that the
redirected element held (`RedirectedPlaces`). So a set of lines that the pattern never leaves holds the
beginning of one page, hence of all in the order's cycle, hence every page (`FilledIsOneCycle`). `WalkInv`
adds to the usual "the round leads on" that whatever leads within its page to a visited line was visited
before it: a page is entered at its beginning only. From it `PageWalkImplementsFreshRounds`,
`PageCompletedBeforeLeaving` and `PageWalkFollowsWritten` (the last for Width = 32, as in its run).

**AsmWalkProofs.** A column is the words at one offset of their lines. `FillInv`: the column that is being
shuffled is `Shuffled`, and those before it are one cycle each, which the shuffles of the others and the
conversion to addresses leave alone. `WalkInv` follows the walk as `Follower` does: along its column, and
where the column's cycle would come back to the first line, into the next offset; `NextIndex` is one cycle of
the offsets. From it `AsmTypeCorrect` (`r15` stays in the array), `AsmWalksImplementFreshRounds` for
both routines, and `LongPatternReturnsLast`.

**OpenMPProofs**, STREAM. `StreamInv` has six parts. *ArraysInv* (no element is updated between regions)
carries the refinement `KernelsImplementTheCheck`: an update is one assignment to that element's scalars,
everything else a stutter. *ClockInv*: within a region the clock is its start plus the cost of the updated
elements, and the barrier waits for `Size` of them (`KernelTimesAreWhole`). *CountInv*: `k` is the number of
threads that have counted, because `omp atomic` lets one at a time between its two halves. *RegionInv* are the
types of a region. *BoundInv*: no time reaches FLT_MAX, so the first iteration summed replaces it as minimum.
*SummaryInv*: after each turn the three results are those of the iterations so far, without the first
(`SummaryOfLaterIterations`). For any size, team, schedule and costs. `ReplayInv`: after each region every element
is where the replay of the check is at that point. The replay is unfolded from the recursive function
`ExpectedAfter` by an induction over the set of the numbers that it is right for, so no induction theorem with an
operator parameter is needed (`CheckNeverFails`, the safety half of `SolutionValidates`).

**OpenMPProofs**, calibration. The elapsed time is cut to milliseconds; `CalibrationInv` keeps the work itself, up
to a millisecond more, and each factor times that is below two seconds (`CalibrationNeverOvershoots`).
Each turn at least doubles a count of millions that stays below two million, so there are at most 21 of them and
`num_iterations` does not overflow (`CalibrationIsBounded`, a variant in place of the liveness).
`LoopInv` and `TeamInv` say that a number that passed the check is not above the machine's limit, so that the
region that is measured gets it too, unless OpenMP chooses a smaller team for it: then the row is of fewer
threads than it names and nothing notices (`RowsNameTheirTeam`), and the program may end before the machine's
limit, with its rows so far in order (`OutputIsComplete`).

**LatencyDriverProofs.** `MappingInv`: what is mapped is the rounded requirement of the options, which are fixed
by then; a size let through by line 367 is no larger than that if the options are in range (`AllowedIsRequired`;
`SingleIsRequired` for a single size), a size below 4 GB is all of its region (`WholeRegion`), and in the store
forwarding test an offset below 64, or that and the distance, and 16 bytes more fit the allocation
(`StlfStaysInside`). `TestsStayInTheirMemory` is for every command line: it assumes only that the default sizes
ascend and are below 4 GB, and the options it excepts are those that `OverrunsOnlyOutOfRange` names. `DriverInv`
is for every command line too. *RouteInv* says which loops a state can be in.
*TableInv*: the cells before the present one hold their own measurement, because no two cells have the same index
(`TableIsTrue`). *SweepInv*: as the sizes ascend, those let through are the first ones, so the n-th row
is of the n-th size; those that line 367 lets through are within the maximum, and the other way round unless the
maximum wraps there (`AllowedIsWithin`, `SweepPrintsTheAllowed`).

**ExperimentProofs**, `mpbw`. `MpbwInv`. *ReadsInv*: every thread reads as often as any other, from the beginning
of its segment. *SumInv*: `g_sum` is at least one thread's reads once one has returned, and at most those of
all that have (`GSumIsSomeThreadsSum`: updates may be lost, but never the last). *BestInv* and *RowsInv* give
`RowsShowTheBest`. `MeasurementReadsEveryLine`: segments of equal length follow one another without a gap, so
every line has been read behind the joins but those of the rest that the division leaves.

**ExperimentProofs**, jobs. *NamesInv* says what `mpbw.csv` may hold at each point of the script: while `mpbw`
runs, its own policy; before a launch, nothing, or what a killed job left if this is the first line; before
`mv`, nothing, the policy of the line, or the killed job's file if the first launch failed. `mv` then gives it
either the right name or the one wrong name the property admits (`FilesTellThePolicy`). *CleanInv* joins it to
`MpbwInv`: rows reach the disk only in `close`, when `MpbwInv` has all of them in order (`FilesAreWhole`); and a
job in which nothing fails has renewed the files of the lines it has passed (`CleanJobRenews`). For any list of
distinct policies, number of jobs and size of `mpbw`.

**CacheProofs.** `FlushCoversTheRange`: the lines `cacheflush` steps on, with the last byte's, are all the lines of
its range and no others, for every address, length and size of a line (`NextLine`: a step of one line's
length lands on the next line). `TimesAreOfTheirLevel` by *LineInv*: flushes are under way only between the
second and third step of `cacheflush`; between them the line is in memory or its flush is under way, behind the
fence it is in memory; and otherwise it is in memory only if something else moved it. `LoadedTypeCorrect` by
*ProbeInv* and *LoadInv*: the load stays in disjoint segments, `cache_other_xis` on the probed set.

**Only model-checked.** Liveness (`Terminates` twice, `JobsEnd`, `EveryTeamMeasuredIfWidened`), which like ENABLED
is outside the prover's reach, and of `SolutionValidates` the half that says the check is reached; that it does
not fail once it is reached is proved (`CheckNeverFails`).

## 5. Findings

1. `MemoryLatency.c:411`: the extra page of a size that is not whole pages is visited but never filled, against
   line 405 (`page_walk_extra`). The default size 24567 KB is such a size.
2. `MemoryLatency.c:450`: the 64-bit page-by-page fill shuffles 32-bit halves; a page is left early, against line
   430 (`page_walk_64`).
3. `cache_coherence.cpp:12`: an `int` counts to a `long`; fast loops need more than INT_MAX iterations for the
   second that line 180 promises (`coherence_int`).

Other disagreements are part of what the passing runs check. `OverrunsOnlyOutOfRange` names the options that the
code accepts and that leave a test's memory: `-sizekb` above `-maxsizemb` with huge pages (against line 201), or a
maximum of 4096 MB and more with them; a size of 4 GB and more; and offsets of the store forwarding test
that are both given (against line 791), negative, or within a line. `SweepMeasuresAllowedSizes` excepts the maxima
of 4194304 MB and more, of which line 367 keeps the lower 32 bits, and `RowsShortOnlyIfDynamic` the short rows
under OMP_DYNAMIC, which the check of lines 166-178 cannot see. And line 480 draws one
short of Sattolo's algorithm, which line 466 names: the result is still always one cycle
(`ShuffleMakesOneCycle`), though most of the (n-1)! cycles never come out; nothing in the program depends on it.

## 6. Not modelled

- `LatencyDriver`: what a write through an uninitialised pointer does to the rest of the process (it is left open
  whether the test faults or measures other memory); `-affinity`; the NUMA branch (no build defines NUMA, and
  its `return`s in a parallel region do not compile with OpenMP); ten times the iterations wrap at most once;
  how far the table's loop reads past its arrays (bounded by `MaxExtra`).
- `CoherenceCalibration`: the values of the shared double (the loops race on purpose), and `main` without OP, a
  straight sequence of six fixed measurements.
- `StreamKernels`: rounding of doubles, and so the tolerance of the check.
- `Mpbw`: the effect of prefetching, which is none on the state.
- `ExperimentPipeline`: two jobs at once in one directory; the other scripts, which are loops over one command.
- `LoadedLatency`: the values of the arrays. The second `memset` (line 91) is of `b` again, so `a` is never
  initialised; no comment or test says what it should hold. Nothing orders the load before the measurement, so
  no property claims that a latency was measured under load. An argument that is 0 or no number is left out.
- The replacement policy and prefetchers of the hardware, which the probes are there to find out.
- `load-use-latency.cpp`, `main.cpp`: `start_time`, `end_time` and `mjb_workhorse` are not in the
  repository. `naive_pbw.cpp`: one sequential loop of timed reads. Other architectures' assembly; plots; builds.

## 7. Plan

Done, in the order of their importance: the pattern tests with their abstract specification; the
fills by pages; the assembly test; the calibration and STREAM; the driver with the store forwarding test and
refused allocations; the TLB test; `mpbw` and the jobs around it; the cache probes and the loaded latency;
and the theorems of section 4 about each of them.

Next:

1. Variants for the other liveness properties, as for the calibration: what of `Terminates` (`Mpbw`,
   `LoadedLatency`) and `JobsEnd` a safety theorem can say, by a count of steps that are left.
2. `PageWalk`, a region beyond two pages that is not whole pages (finding 1): which of the promises the
   walk through its whole pages still keeps.
