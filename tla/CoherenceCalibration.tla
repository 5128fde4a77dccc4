------------------------ MODULE CoherenceCalibration ------------------------
(***************************************************************************)
(* main() of src/src/cache_coherence.cpp, compiled with OP: for every      *)
(* number of threads, a check that OpenMP grants that many, and then       *)
(* measurements of a parallel region with more and more iterations until   *)
(* one takes a second.                                                     *)
(*                                                                         *)
(* Time is in microseconds and iterations are counted in millions, so that *)
(* num_its million iterations of cost picoseconds take num_its * cost      *)
(* microseconds.  get_wtime() is the clock in whole milliseconds.          *)
(***************************************************************************)
EXTENDS Integers, Sequences

CONSTANTS
  MaxThreads,       \* the last number of threads, 112
  ThreadLimits,     \* the threads that the machine and OpenMP's settings may
                    \* provide, for each machine considered
  DynamicTeams,     \* OMP_DYNAMIC, for each setting considered: whether OpenMP
                    \* may grant a region fewer threads than it could
  Costs,            \* picoseconds per iteration, of the slowest thread
  Phases,           \* where in its millisecond a measurement may begin
  CounterWidened    \* whether the compiler gave "int i" the width of
                    \* num_iterations, for each build considered

ASSUME MaxThreadsAssumption == MaxThreads \in Nat \ {0} /\ ThreadLimits \subseteq Nat \ {0}
ASSUME DynamicAssumption == DynamicTeams \subseteq BOOLEAN
ASSUME CostsAssumption   == Costs \subseteq Nat \ {0}
ASSUME PhasesAssumption  == Phases \subseteq 0..999
ASSUME CounterAssumption == CounterWidened \subseteq BOOLEAN

VARIABLES
  pc,            \* "check", "measure", "adjust", "hung", "exited", "done"
  num_threads,
  num_its,       \* in millions
  elapsed,       \* end - start, in milliseconds
  team,          \* the threads of the region that was last measured
  cost,          \* cost per iteration with num_threads threads
  widened,       \* the build's choice for the loops' counter
  limit,         \* the threads this machine provides
  dynamic,       \* whether they are granted to each region anew
  rows           \* the lines written to the output: [threads, team, elapsed]

calibrationVars == <<pc, num_threads, num_its, elapsed, team, cost, widened, limit, dynamic, rows>>

\* Type correctness; in particular the loop over the threads ends with
\* num_threads one above the last, and never beyond.
CalibrationTypeOK ==
  /\ pc \in {"check", "measure", "adjust", "hung", "exited", "done"}
  /\ num_threads \in 1..(MaxThreads + 1)
  /\ num_its \in Nat \ {0}
  /\ elapsed \in Nat
  /\ team \in 1..MaxThreads
  /\ cost \in Costs
  /\ widened \in CounterWidened
  /\ limit \in ThreadLimits
  /\ dynamic \in DynamicTeams
  /\ rows \in Seq([threads : 1..MaxThreads, team : 1..MaxThreads, elapsed : Nat])

-----------------------------------------------------------------------------
CalibrationInit ==
  /\ pc = "check"
  /\ num_threads = 1
  /\ num_its = 1
  /\ elapsed = 0
  /\ team = 1
  /\ cost \in Costs
  /\ widened \in CounterWidened
  /\ limit \in ThreadLimits
  /\ dynamic \in DynamicTeams
  /\ rows = <<>>

\* What a parallel region that asks for n threads may be given.
Teams(n) ==
  LET most == IF n <= limit THEN n ELSE limit
  IN  IF dynamic THEN 1..most ELSE {most}

\* Plausible bug: the sanity check is left out.
TeamAcceptedAlways(n, t) == TRUE

\* num_threads == omp_get_num_threads(), as thread 0 of the region sees it.
TeamAccepted(n, t) == n = t

\* The sanity check's region; the process exits when it is given fewer threads.
SanityCheck ==
  /\ pc = "check"
  /\ num_threads <= MaxThreads
  /\ \E t \in Teams(num_threads) :
       pc' = IF TeamAccepted(num_threads, t) THEN "measure" ELSE "exited"
  /\ num_its' = 1
  /\ cost' \in Costs
  /\ UNCHANGED <<num_threads, elapsed, team, widened, limit, dynamic, rows>>

\* The largest count that an int loop counter reaches, in whole millions.
IntMax == 2147

\* The loops of OP count an int up to num_iterations, a long.  Past INT_MAX
\* the increment is undefined: a counter the compiler has widened goes on, one
\* that wraps never reaches num_iterations.
LoopsEnd == widened \/ num_its <= IntMax

\* One measurement: start, the parallel region up to its closing barrier, end.
Measure ==
  /\ pc = "measure"
  /\ LoopsEnd
  /\ team' \in Teams(num_threads)
  /\ \E phase \in Phases : elapsed' = (phase + num_its * cost) \div 1000
  /\ pc' = "adjust"
  /\ UNCHANGED <<num_threads, num_its, cost, widened, limit, dynamic, rows>>

MeasureNeverEnds ==
  /\ pc = "measure"
  /\ ~LoopsEnd
  /\ pc' = "hung"
  /\ UNCHANGED <<num_threads, num_its, elapsed, team, cost, widened, limit, dynamic, rows>>

\* Plausible bugs: no growth from a measurement of 0 ms; the factors of two
\* of the ranges exchanged.
FactorStuck(e) == IF e = 0 THEN 1 ELSE 2
FactorSwapped(e) ==
  IF e = 0 THEN 1000 ELSE IF e < 10 THEN 10 ELSE IF e < 100 THEN 100
  ELSE IF e < 334 THEN 3 ELSE 2

\* By how much num_its grows after a measurement of e < 1000 milliseconds.
Factor(e) ==
  IF e = 0 THEN 1000
  ELSE IF e < 10 THEN 100
  ELSE IF e < 100 THEN 10
  ELSE IF e < 334 THEN 3
  ELSE 2

\* Too short: measure again with more iterations.
MeasureLonger ==
  /\ pc = "adjust"
  /\ elapsed < 1000
  /\ num_its' = num_its * Factor(elapsed)
  /\ pc' = "measure"
  /\ UNCHANGED <<num_threads, elapsed, team, cost, widened, limit, dynamic, rows>>

\* Plausible bugs: the count of threads goes up twice, or not at all.
NextThreadsTwice(n) == n + 2
NextThreadsStays(n) == n

NextThreads(n) == n + 1

\* Long enough: write the row and go on to the next number of threads.
WriteRow ==
  /\ pc = "adjust"
  /\ elapsed >= 1000
  /\ rows' = Append(rows, [threads |-> num_threads, team |-> team, elapsed |-> elapsed])
  /\ num_threads' = NextThreads(num_threads)
  /\ pc' = "check"
  /\ UNCHANGED <<num_its, elapsed, team, cost, widened, limit, dynamic>>

AllMeasured ==
  /\ pc = "check"
  /\ num_threads > MaxThreads
  /\ pc' = "done"
  /\ UNCHANGED <<num_threads, num_its, elapsed, team, cost, widened, limit, dynamic, rows>>

CalibrationNext ==
  \/ SanityCheck
  \/ Measure \/ MeasureNeverEnds \/ MeasureLonger
  \/ WriteRow \/ AllMeasured

CalibrationSpec == CalibrationInit /\ [][CalibrationNext]_calibrationVars

\* One sequential process between its parallel regions: as long as it can take
\* a step, the operating system lets it.
FairCalibrationSpec == CalibrationSpec /\ WF_calibrationVars(CalibrationNext)

-----------------------------------------------------------------------------
\* The calibration finds its second without overshooting it: a measurement
\* that follows another takes at most two seconds, however the milliseconds
\* are cut off (lines 191-197).  The factors leave no gap and no overlap that
\* would multiply an already long measurement.
NoOvershoot == pc = "adjust" => num_its = 1 \/ elapsed <= 2000

\* The check of the threads is made once, in a region of its own (lines
\* 166-178), and not of the regions that are measured.  A row is of the threads
\* it names, unless OpenMP adjusts its teams, which nothing in the code prevents:
\* then it can be of fewer, and the check does not see it.
RowsShortOnlyIfDynamic ==
  \A k \in 1..Len(rows) :
    \/ rows[k].team = rows[k].threads
    \/ dynamic /\ rows[k].team < rows[k].threads

\* A number of threads that cannot be had ends the program with the rows of all
\* smaller numbers written, each once and in order: the first number that the
\* machine cannot provide or, if OpenMP adjusts its teams, maybe one before.
RowsComplete ==
  /\ \A k \in 1..Len(rows) : rows[k].threads = k
  /\ pc = "exited" => Len(rows) = num_threads - 1 /\ (Len(rows) >= limit \/ dynamic)
  /\ pc = "done" => Len(rows) = MaxThreads

\* Line 180, "increase num_its until at least 1000 ms": the loop gets there,
\* for every number of threads, unless the threads cannot be had.
EveryTeamMeasured == <>(pc \in {"done", "exited"})

\* The same of the builds that widen the counter of the loops.
EveryTeamMeasuredIfWidened == widened ~> pc \in {"done", "exited"}
=============================================================================
