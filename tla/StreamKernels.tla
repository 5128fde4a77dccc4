--------------------------- MODULE StreamKernels ---------------------------
(***************************************************************************)
(* main(), checktick and checkSTREAMresults of src/src/stream.c.  The      *)
(* threads count themselves, and then the program is a sequence of "omp    *)
(* parallel for" regions: the initialisation, the timing check, and NTIMES *)
(* times the kernels Copy, Scale, Add and Triad.  In a region each thread  *)
(* works through the elements that the schedule gives it, in any order     *)
(* with the other threads; the region ends with a barrier and only then    *)
(* does the master read the clock again.  A summary of the times, and a    *)
(* check of the arrays, end the program.                                   *)
(*                                                                         *)
(* The elements are integers (the code's doubles are exact on them).  The  *)
(* clock advances with the updates of elements, whose cost may change from *)
(* region to region: a kernel may run slower or faster the next time.      *)
(***************************************************************************)
EXTENDS Integers, FiniteSets

CONSTANTS
  Size,      \* STREAM_ARRAY_SIZE
  NTIMES,
  Threads,   \* the OpenMP team
  Cost,      \* Cost[s]: the time an update takes in the region after s others
  M,         \* the clock values that checktick collects, 20
  Gaps,      \* the differences there may be between two of them
  FLT_MAX    \* what mintime holds at the start

ASSUME SizeAssumption    == Size \in Nat \ {0}
ASSUME NTimesAssumption  == NTIMES \in Nat \ {0, 1}
ASSUME ThreadsAssumption == Threads # {}
ASSUME CostAssumption    == Cost \in [0..(1 + 4 * NTIMES) -> Nat \ {0}]

\* Negative when the clock is set back.
ASSUME ChecktickAssumption == M \in Nat \ {0, 1} /\ Gaps \subseteq Int /\ Gaps # {}

\* No kernel takes FLT_MAX seconds, and no clock a second to tick.
ASSUME FltMaxAssumption ==
  /\ FLT_MAX \in Nat
  /\ \A s \in 0..(1 + 4 * NTIMES) : Size * Cost[s] < FLT_MAX
  /\ \A g \in Gaps : g <= 1000000

Index == 0..(Size - 1)

VARIABLES
  counting,   \* of each thread in k++: "before", "loaded", "after"
  loaded,     \* the k it has loaded
  k,          \* the number of threads counted
  quantum,    \* the clock's granularity; 0: not yet found
  stage,      \* the number of regions that have ended
  inRegion,   \* whether a parallel region is running
  owner,      \* the thread that the schedule gives each element to
  updated,    \* the elements already updated in this region
  a, b, c,
  clock,      \* mysecond()
  start,      \* times[.][k] between the two readings of the clock
  times,      \* times, in the order the kernels run
  summed,     \* the iterations that the summary has gone through, or passed over
  avgtime, mintime, maxtime,
  verdict     \* what checkSTREAMresults prints

counts  == <<counting, loaded, k>>
summary == <<summed, avgtime, mintime, maxtime>>
vars == <<counts, quantum, stage, inRegion, owner, updated, a, b, c, clock, start, times,
          summary, verdict>>

LastStage == 2 + 4 * NTIMES

\* The four kernels, by their index j.
Kernel == 0..3

\* A time later than the program's last.
MaxTime == FLT_MAX * LastStage

\* Type correctness; in particular no time is negative, the quantum that line
\* 293 divides by is not 0, and the "Number of Threads counted" (line 264) is
\* the whole team, in whatever order its threads load and store k.
TypeOK ==
  /\ counting \in [Threads -> {"before", "loaded", "after"}]
  /\ loaded \in [Threads -> Nat] /\ k \in Nat
  /\ (\A t \in Threads : counting[t] = "after") => k = Cardinality(Threads)
  /\ quantum \in Nat /\ (stage = 1 /\ inRegion => quantum >= 1)
  /\ summed \in 1..NTIMES
  /\ avgtime \in [Kernel -> 0..MaxTime] /\ maxtime \in [Kernel -> 0..MaxTime]
  /\ mintime \in [Kernel -> 0..FLT_MAX]
  /\ stage \in 0..LastStage
  /\ inRegion \in BOOLEAN
  /\ owner \in [Index -> Threads]
  /\ updated \subseteq Index
  /\ a \in [Index -> Int] /\ b \in [Index -> Int] /\ c \in [Index -> Int]
  /\ clock \in 0..MaxTime /\ start \in 0..MaxTime
  /\ times \in [1..(4 * NTIMES) -> 0..MaxTime]
  /\ verdict \in {"none", "validates", "failed"}

-----------------------------------------------------------------------------
\* The kernels: the values of the element's a, b and c after its update.

scalar == 3

Initialise(x) == <<1, 2, 0>>
TimingCheck(x) == <<2 * x[1], x[2], x[3]>>
Copy(x)  == <<x[1], x[2], x[1]>>
Scale(x) == <<x[1], scalar * x[3], x[3]>>

\* Plausible bug: the sum takes the old c for b.
AddReadsC(x) == <<x[1], x[2], x[1] + x[3]>>

Add(x)   == <<x[1], x[2], x[1] + x[2]>>
Triad(x) == <<x[2] + scalar * x[3], x[2], x[3]>>

\* The loop body of the region that follows s others.
Body(s, x) ==
  IF s = 0 THEN Initialise(x)
  ELSE IF s = 1 THEN TimingCheck(x)
  ELSE IF (s - 2) % 4 = 0 THEN Copy(x)
  ELSE IF (s - 2) % 4 = 1 THEN Scale(x)
  ELSE IF (s - 2) % 4 = 2 THEN Add(x)
  ELSE Triad(x)

-----------------------------------------------------------------------------
Init ==
  /\ counting = [t \in Threads |-> "before"]
  /\ loaded = [t \in Threads |-> 0]
  /\ k = 0
  /\ quantum = 0
  /\ summed = 1
  /\ avgtime = [j \in Kernel |-> 0] /\ maxtime = [j \in Kernel |-> 0]
  /\ mintime = [j \in Kernel |-> FLT_MAX]
  /\ stage = 0
  /\ inRegion = FALSE
  /\ owner \in [Index -> Threads]
  /\ updated = {}
  /\ a = [e \in Index |-> 0] /\ b = [e \in Index |-> 0] /\ c = [e \in Index |-> 0]
  /\ clock = 0
  /\ start = 0
  /\ times = [n \in 1..(4 * NTIMES) |-> 0]
  /\ verdict = "none"

\* Plausible bug: k++ without "omp atomic".
MayLoadAnytime == TRUE

\* "omp atomic": no thread is between its load of k and its store.
MayLoad == \A t \in Threads : counting[t] # "loaded"

\* The region that counts the threads: k++ of each.
LoadK(t) ==
  /\ counting[t] = "before"
  /\ MayLoad
  /\ counting' = [counting EXCEPT ![t] = "loaded"]
  /\ loaded' = [loaded EXCEPT ![t] = k]
  /\ UNCHANGED <<k, quantum, stage, inRegion, owner, updated, a, b, c, clock, start, times,
                 summary, verdict>>

StoreK(t) ==
  /\ counting[t] = "loaded"
  /\ counting' = [counting EXCEPT ![t] = "after"]
  /\ k' = loaded[t] + 1
  /\ loaded' = [loaded EXCEPT ![t] = 0]
  /\ UNCHANGED <<quantum, stage, inRegion, owner, updated, a, b, c, clock, start, times,
                 summary, verdict>>

AllCounted == \A t \in Threads : counting[t] = "after"

\* MAX(Delta, 0)
NotNegative(delta) == IF delta > 0 THEN delta ELSE 0

\* checktick and what main makes of it: the least of the differences, but 1 at
\* least.
Checktick ==
  /\ stage = 1
  /\ quantum = 0
  /\ \E delta \in [1..(M - 1) -> Gaps] :
       LET minDelta == CHOOSE m \in {NotNegative(delta[i]) : i \in 1..(M - 1)} :
                         \A i \in 1..(M - 1) : m <= NotNegative(delta[i])
       IN  quantum' = IF minDelta >= 1 THEN minDelta ELSE 1
  /\ UNCHANGED <<counts, stage, inRegion, owner, updated, a, b, c, clock, start, times,
                 summary, verdict>>

\* What the program does before its region after s others has been done.
Ready(s) ==
  /\ s = 0 => AllCounted
  /\ s = 1 => quantum >= 1

\* times[.][k] = mysecond(), and the region begins with a schedule of its own.
Fork ==
  /\ ~inRegion
  /\ stage < LastStage
  /\ Ready(stage)
  /\ inRegion' = TRUE
  /\ owner' \in [Index -> Threads]
  /\ start' = clock
  /\ UNCHANGED <<counts, quantum, stage, updated, a, b, c, clock, times, summary, verdict>>

\* The elements of thread t's share.
Mine(t) == {e \in Index : owner[e] = t}

\* Thread t updates the next element of its share.
Update(t) ==
  /\ inRegion
  /\ \E e \in Mine(t) \ updated :
       /\ \A f \in Mine(t) \ updated : e <= f
       /\ LET x == Body(stage, <<a[e], b[e], c[e]>>)
          IN  /\ a' = [a EXCEPT ![e] = x[1]]
              /\ b' = [b EXCEPT ![e] = x[2]]
              /\ c' = [c EXCEPT ![e] = x[3]]
       /\ updated' = updated \union {e}
  /\ clock' = clock + Cost[stage]
  /\ UNCHANGED <<counts, quantum, stage, inRegion, owner, start, times, summary, verdict>>

\* Plausible bug: a region with nowait, which the master leaves when its own
\* share is done.
AtBarrierNoWait == \E t \in Threads : Mine(t) # {} /\ Mine(t) \subseteq updated

\* The implicit barrier: every thread has finished its share.
AtBarrier == updated = Index

\* Plausible bug: the readings of the clock are subtracted the wrong way round.
KernelTimeReversed == start - clock

\* mysecond() - times[.][k].
KernelTime == clock - start

\* The region ends, and the master takes the time of a kernel.
Join ==
  /\ inRegion
  /\ AtBarrier
  /\ inRegion' = FALSE
  /\ updated' = {}
  /\ stage' = stage + 1
  /\ times' = IF stage < 2 THEN times ELSE [times EXCEPT ![stage - 1] = KernelTime]
  /\ UNCHANGED <<counts, quantum, owner, a, b, c, clock, start, summary, verdict>>

\* times[j][k]
TimeOf(j, iteration) == times[4 * iteration + j + 1]

\* Plausible bug: the summary counts its iterations from 0.
SummedFromFirst(n) == n - 1

\* The summary's loop begins with iteration 1.
Summed(n) == n

\* An iteration of the summary's loop, over the four kernels.
Summarise ==
  /\ ~inRegion
  /\ stage = LastStage
  /\ summed < NTIMES
  /\ summed' = summed + 1
  /\ LET time(j) == TimeOf(j, Summed(summed))
     IN  /\ avgtime' = [j \in Kernel |-> avgtime[j] + time(j)]
         /\ mintime' = [j \in Kernel |-> IF time(j) < mintime[j] THEN time(j) ELSE mintime[j]]
         /\ maxtime' = [j \in Kernel |-> IF time(j) > maxtime[j] THEN time(j) ELSE maxtime[j]]
  /\ UNCHANGED <<counts, quantum, stage, inRegion, owner, updated, a, b, c, clock, start, times,
                 verdict>>

\* Plausible bug: the check leaves out that a[] is changed by the timing check.
ExpectedStartUndoubled == <<1, 2, 0>>

\* The scalars before the timing loop.
ExpectedStart == TimingCheck(Initialise(<<0, 0, 0>>))

\* The scalars after n turns of the timing loop.
ExpectedAfter[n \in 0..NTIMES] ==
  IF n = 0 THEN ExpectedStart
  ELSE Triad(Add(Scale(Copy(ExpectedAfter[n - 1]))))

\* aj, bj and cj at the end.
Expected == ExpectedAfter[NTIMES]

\* checkSTREAMresults: the average deviation of each array is within epsilon.
\* On integers that is no deviation at all.
CheckSTREAMresults ==
  /\ ~inRegion
  /\ stage = LastStage
  /\ summed = NTIMES
  /\ verdict = "none"
  /\ verdict' = IF \A e \in Index : <<a[e], b[e], c[e]>> = Expected
                THEN "validates" ELSE "failed"
  /\ UNCHANGED <<counts, quantum, stage, inRegion, owner, updated, a, b, c, clock, start, times,
                 summary>>

Next ==
  \/ \E t \in Threads : LoadK(t) \/ StoreK(t)
  \/ Checktick
  \/ Fork \/ (\E t \in Threads : Update(t)) \/ Join
  \/ Summarise
  \/ CheckSTREAMresults

Spec == Init /\ [][Next]_vars

\* As long as a thread of the program can take a step, the system lets one of
\* them: it need not be fair to any of them.
FairSpec == Spec /\ WF_vars(Next)

-----------------------------------------------------------------------------
\* Whatever the schedules, and however the threads' updates interleave, each
\* element takes exactly the steps of checkSTREAMresults' scalars: one in each
\* region, never two and never out of turn.
StepsTaken == [e \in Index |-> stage + (IF e \in updated THEN 1 ELSE 0)]

Scalars == INSTANCE StreamScalar
             WITH Elements <- Index, steps <- StepsTaken, aj <- a, bj <- b, cj <- c

ElementsFollowTheCheck == Scalars!ScalarSpec

\* Lines 309-347: the time of a kernel is the time of all its updates.  No
\* thread is still at work when the master reads the clock, and none had begun
\* when it read it before.
TimesCoverTheKernels ==
  \A n \in 1..(4 * NTIMES) : n + 2 <= stage => times[n] = Size * Cost[n + 1]

\* "the *best* result for any iteration after the first" (lines 96-97): what
\* the summary reports of a kernel is the shortest, the longest and the sum of
\* times that its regions took after the first iteration, whose own time, with
\* the arrays not yet in place, is in none of them; so the average, the sum by
\* NTIMES - 1, lies between the other two.
BestOfLaterIterations ==
  summed = NTIMES =>
    \A j \in Kernel :
      LET later == {Size * Cost[4 * n + j + 2] : n \in 1..(NTIMES - 1)}
      IN  /\ mintime[j] \in later /\ maxtime[j] \in later
          /\ \A x \in later : mintime[j] <= x /\ x <= maxtime[j]
          /\ avgtime[j] >= (NTIMES - 1) * mintime[j]
          /\ avgtime[j] <= (NTIMES - 1) * maxtime[j]

\* The program ends, and its check never rejects the computation that the
\* regions have made (lines 540-542, "Solution Validates").
SolutionValidates == <>(verdict = "validates")
=============================================================================
