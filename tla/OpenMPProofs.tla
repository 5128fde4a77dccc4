---------------------------- MODULE OpenMPProofs ----------------------------
(***************************************************************************)
(* Proofs about the two programs that fork OpenMP teams and print what     *)
(* their regions took, stream.c (StreamKernels) and cache_coherence.cpp    *)
(* (CoherenceCalibration, at the end of this module).                      *)
(*                                                                         *)
(* StreamKernels, for every array size, number of repetitions, team of     *)
(* threads, schedule and cost of the kernels: every element takes the      *)
(* steps that checkSTREAMresults replays, the time of a kernel covers all  *)
(* of its updates, the summary tells of the iterations after the first,    *)
(* the threads are counted, and the check rejects nothing.                 *)
(***************************************************************************)
EXTENDS StreamKernels, CoherenceCalibration, FiniteSetTheorems, WellFoundedInduction, TLAPS

USE SizeAssumption, NTimesAssumption, ThreadsAssumption

-----------------------------------------------------------------------------
\* The refinement.  It needs no more than that a region begins with no element
\* updated, which the join of the one before leaves true.

ArraysInv ==
  /\ stage \in 0..LastStage
  /\ inRegion \in BOOLEAN
  /\ inRegion => stage < LastStage
  /\ updated \subseteq Index
  /\ ~inRegion => updated = {}
  /\ a \in [Index -> Int] /\ b \in [Index -> Int] /\ c \in [Index -> Int]

\* There are more regions than the two before the kernels.
LEMMA LastStageType ==
  LastStage \in Nat /\ LastStage > 2 /\ LastStage = 2 + 4 * NTIMES
  BY DEF LastStage

\* The loop body of a region is one assignment of the check's replay.
LEMMA BodyType ==
  ASSUME NEW s \in Nat, NEW x \in Int, NEW y \in Int, NEW z \in Int
  PROVE  /\ Body(s, <<x, y, z>>)[1] \in Int
         /\ Body(s, <<x, y, z>>)[2] \in Int
         /\ Body(s, <<x, y, z>>)[3] \in Int
  BY DEF Body, Initialise, TimingCheck, Copy, Scale, Add, Triad, scalar

\* The steps that touch neither the arrays nor the clock.
OtherStep == (\E t \in Threads : LoadK(t) \/ StoreK(t)) \/ Checktick \/ Summarise

\* No region has begun at the start.
LEMMA InitArraysInv == Init => ArraysInv
<1> SUFFICES ASSUME Init PROVE ArraysInv
  OBVIOUS
<1>0. inRegion = FALSE /\ updated = {} /\ stage = 0
  BY DEF Init
<1>1. stage \in 0..LastStage
  BY <1>0, LastStageType
<1>2. a \in [Index -> Int] /\ b \in [Index -> Int] /\ c \in [Index -> Int]
  BY DEF Init
<1> QED
  BY <1>0, <1>1, <1>2 DEF ArraysInv

\* Every step keeps the arrays' types and the regions apart.
LEMMA NextArraysInv ==
  ASSUME ArraysInv, [Next]_vars
  PROVE  ArraysInv'
<1> USE LastStageType DEF ArraysInv
<1>1. CASE Fork
  BY <1>1 DEF Fork
<1>2. ASSUME NEW t \in Threads, Update(t) PROVE ArraysInv'
  <2>1. PICK e \in Mine(t) \ updated :
          LET x == Body(stage, <<a[e], b[e], c[e]>>)
          IN  /\ a' = [a EXCEPT ![e] = x[1]]
              /\ b' = [b EXCEPT ![e] = x[2]]
              /\ c' = [c EXCEPT ![e] = x[3]]
              /\ updated' = updated \union {e}
    BY <1>2 DEF Update
  <2>2. e \in Index
    BY DEF Mine
  <2>3. a[e] \in Int /\ b[e] \in Int /\ c[e] \in Int /\ stage \in Nat
    BY <2>2
  <2> DEFINE x == Body(stage, <<a[e], b[e], c[e]>>)
  <2>4. x[1] \in Int /\ x[2] \in Int /\ x[3] \in Int
    BY <2>3, BodyType
  <2> HIDE DEF x
  <2>5. /\ a' = [a EXCEPT ![e] = x[1]]
        /\ b' = [b EXCEPT ![e] = x[2]]
        /\ c' = [c EXCEPT ![e] = x[3]]
    BY <2>1 DEF x
  <2>6. a' \in [Index -> Int] /\ b' \in [Index -> Int] /\ c' \in [Index -> Int]
    BY <2>2, <2>4, <2>5
  <2> QED
    BY <1>2, <2>1, <2>2, <2>6 DEF Update
<1>3. CASE Join
  <2>1. stage' = stage + 1 /\ stage \in Nat /\ stage < LastStage
    BY <1>3 DEF Join
  <2>2. stage' \in 0..LastStage
    BY <2>1
  <2>3. inRegion' = FALSE /\ updated' = {} /\ a' = a /\ b' = b /\ c' = c
    BY <1>3 DEF Join
  <2> QED
    BY <2>2, <2>3
<1>4. CASE CheckSTREAMresults
  BY <1>4 DEF CheckSTREAMresults
<1>5. CASE UNCHANGED vars
  BY <1>5 DEF vars
<1>6. CASE OtherStep
  BY <1>6 DEF OtherStep, LoadK, StoreK, Checktick, Summarise
<1> QED
  BY <1>1, <1>2, <1>3, <1>4, <1>5, <1>6 DEF Next, OtherStep

\* The arrays' invariant holds throughout.
LEMMA ArraysInvariance == Spec => []ArraysInv
<1> QED
  BY InitArraysInv, NextArraysInv, PTL DEF Spec

\* Assigning an element the value it has leaves the array as it was.
LEMMA SameElement ==
  ASSUME NEW f \in [Index -> Int], NEW e \in Index
  PROVE  [f EXCEPT ![e] = f[e]] = f
  OBVIOUS

\* The body of a region, run on the element of an array, is the assignment
\* that the replay makes at that point.
LEMMA BodyIsReplay ==
  ASSUME ArraysInv, stage < LastStage, NEW e \in Index, StepsTaken[e] = stage,
         a' = [a EXCEPT ![e] = Body(stage, <<a[e], b[e], c[e]>>)[1]],
         b' = [b EXCEPT ![e] = Body(stage, <<a[e], b[e], c[e]>>)[2]],
         c' = [c EXCEPT ![e] = Body(stage, <<a[e], b[e], c[e]>>)[3]]
  PROVE  Scalars!ReproduceInit(e) \/ Scalars!ModifyA(e) \/ Scalars!ExecuteLoop(e)
<1> DEFINE r == (stage - 2) % 4
<1>1. stage \in Nat /\ stage < 2 + 4 * NTIMES
  BY LastStageType DEF ArraysInv
<1>2. a \in [Index -> Int] /\ b \in [Index -> Int] /\ c \in [Index -> Int]
  BY DEF ArraysInv
<1>3. CASE stage = 0
  BY <1>2, <1>3 DEF Body, Initialise, Scalars!ReproduceInit
<1>4. CASE stage = 1
  <2>1. /\ a' = [a EXCEPT ![e] = 2 * a[e]]
        /\ b' = b /\ c' = c
    BY <1>2, <1>4 DEF Body, TimingCheck
  <2> QED
    BY <1>4, <2>1 DEF Scalars!ModifyA, Scalars!SetA
<1>5. CASE stage >= 2
  <2>0. r \in {0, 1, 2, 3}
    BY <1>1, <1>5
  <2>a. stage # 0 /\ stage # 1
    BY <1>1, <1>5
  <2> DEFINE B == Body(stage, <<a[e], b[e], c[e]>>)
  <2>c. B = IF r = 0 THEN <<a[e], b[e], a[e]>>
            ELSE IF r = 1 THEN <<a[e], 3 * c[e], c[e]>>
            ELSE IF r = 2 THEN <<a[e], b[e], a[e] + b[e]>>
            ELSE <<b[e] + 3 * c[e], b[e], c[e]>>
    BY <2>a DEF Body, Copy, Scale, Add, Triad, scalar
  <2>b. \A n : r = n => Scalars!InLoop(e, n)
    BY <1>1, <1>5 DEF Scalars!InLoop
  <2>d. /\ a' = [a EXCEPT ![e] = B[1]]
        /\ b' = [b EXCEPT ![e] = B[2]]
        /\ c' = [c EXCEPT ![e] = B[3]]
    OBVIOUS
  <2>e. /\ [a EXCEPT ![e] = a[e]] = a
        /\ [b EXCEPT ![e] = b[e]] = b
        /\ [c EXCEPT ![e] = c[e]] = c
    BY <1>2, SameElement
  <2> HIDE DEF r, B
  <2>1. CASE r = 0
    <3>0. B[1] = a[e] /\ B[2] = b[e] /\ B[3] = a[e]
      BY <2>c, <2>1
    <3>1. /\ c' = [c EXCEPT ![e] = a[e]]
          /\ a' = a /\ b' = b
      BY <2>d, <2>e, <3>0
    <3> QED
      BY <2>b, <2>1, <3>1 DEF Scalars!ExecuteLoop, Scalars!SetC
  <2>2. CASE r = 1
    <3>0. B[1] = a[e] /\ B[2] = 3 * c[e] /\ B[3] = c[e]
      BY <2>c, <2>2
    <3>1. /\ b' = [b EXCEPT ![e] = 3 * c[e]]
          /\ a' = a /\ c' = c
      BY <2>d, <2>e, <3>0
    <3> QED
      BY <2>b, <2>2, <3>1 DEF Scalars!ExecuteLoop, Scalars!SetB
  <2>3. CASE r = 2
    <3>0. B[1] = a[e] /\ B[2] = b[e] /\ B[3] = a[e] + b[e]
      BY <2>c, <2>3
    <3>1. /\ c' = [c EXCEPT ![e] = a[e] + b[e]]
          /\ a' = a /\ b' = b
      BY <2>d, <2>e, <3>0
    <3> QED
      BY <2>b, <2>3, <3>1 DEF Scalars!ExecuteLoop, Scalars!SetC
  <2>4. CASE r = 3
    <3>0. B[1] = b[e] + 3 * c[e] /\ B[2] = b[e] /\ B[3] = c[e]
      BY <2>c, <2>4
    <3>1. /\ a' = [a EXCEPT ![e] = b[e] + 3 * c[e]]
          /\ b' = b /\ c' = c
      BY <2>d, <2>e, <3>0
    <3> QED
      BY <2>b, <2>4, <3>1 DEF Scalars!ExecuteLoop, Scalars!SetA
  <2> QED
    BY <2>0, <2>1, <2>2, <2>3, <2>4
<1> QED
  BY <1>1, <1>3, <1>4, <1>5

\* Every step is one assignment to one element's scalars, or a stutter.
LEMMA StepRefines ==
  ASSUME ArraysInv, [Next]_vars
  PROVE  [Scalars!ScalarNext]_(Scalars!scalarVars)
<1>1. CASE Fork
  BY <1>1 DEF Fork, Scalars!scalarVars, StepsTaken
<1>2. ASSUME NEW t \in Threads, Update(t) PROVE Scalars!ScalarNext
  <2>1. PICK e \in Mine(t) \ updated :
          /\ a' = [a EXCEPT ![e] = Body(stage, <<a[e], b[e], c[e]>>)[1]]
          /\ b' = [b EXCEPT ![e] = Body(stage, <<a[e], b[e], c[e]>>)[2]]
          /\ c' = [c EXCEPT ![e] = Body(stage, <<a[e], b[e], c[e]>>)[3]]
          /\ updated' = updated \union {e}
    BY <1>2 DEF Update
  <2>2. e \in Index /\ e \notin updated /\ stage' = stage
    BY <1>2 DEF Mine, Update
  <2>3. stage < LastStage /\ stage \in Nat
    BY <1>2 DEF Update, ArraysInv
  <2>4. StepsTaken[e] = stage
    BY <2>2, <2>3 DEF StepsTaken
  <2>5. StepsTaken' = [StepsTaken EXCEPT ![e] = @ + 1]
    <3>1. StepsTaken'[e] = stage + 1
      BY <2>1, <2>2 DEF StepsTaken
    <3>2. \A f \in Index : f # e => StepsTaken'[f] = StepsTaken[f]
      BY <2>1, <2>2 DEF StepsTaken
    <3>3. /\ StepsTaken' = [f \in Index |-> StepsTaken'[f]]
          /\ StepsTaken = [f \in Index |-> StepsTaken[f]]
      BY DEF StepsTaken
    <3> HIDE DEF StepsTaken
    <3> QED
      BY <2>2, <2>4, <3>1, <3>2, <3>3
  <2>6. Scalars!ReproduceInit(e) \/ Scalars!ModifyA(e) \/ Scalars!ExecuteLoop(e)
    BY <2>1, <2>2, <2>3, <2>4, BodyIsReplay
  <2> QED
    BY <2>2, <2>5, <2>6 DEF Scalars!ScalarNext
<1>3. CASE Join
  <2>1. stage' = stage + 1 /\ updated = Index /\ updated' = {} /\ stage \in Nat
    BY <1>3 DEF Join, AtBarrier, ArraysInv
  <2>2. StepsTaken' = StepsTaken
    BY <2>1 DEF StepsTaken
  <2> QED
    BY <1>3, <2>2 DEF Join, Scalars!scalarVars
<1>4. CASE CheckSTREAMresults
  BY <1>4 DEF CheckSTREAMresults, Scalars!scalarVars, StepsTaken
<1>5. CASE UNCHANGED vars
  BY <1>5 DEF vars, Scalars!scalarVars, StepsTaken
<1>6. CASE OtherStep
  BY <1>6 DEF OtherStep, LoadK, StoreK, Checktick, Summarise, Scalars!scalarVars, StepsTaken
<1> QED
  BY <1>1, <1>2, <1>3, <1>4, <1>5, <1>6 DEF Next, OtherStep

\* Whatever the team and its schedules, every element of the arrays takes the
\* steps that checkSTREAMresults replays, each exactly once and in order.
THEOREM KernelsImplementTheCheck == Spec => ElementsFollowTheCheck
<1>1. Init => Scalars!ScalarInit
  BY DEF Init, Scalars!ScalarInit, StepsTaken
<1> QED
  BY <1>1, ArraysInvariance, StepRefines, PTL
     DEF Spec, ElementsFollowTheCheck, Scalars!ScalarSpec

-----------------------------------------------------------------------------
\* The times.  Between the two readings of the clock it counts the updates of
\* the region, and the barrier holds the second reading back until there are
\* Size of them.

ClockInv ==
  /\ clock \in Nat /\ start \in Nat
  /\ inRegion => clock = start + Cost[stage] * Cardinality(updated)
  /\ times \in [1..(4 * NTIMES) -> Int]
  /\ TimesCoverTheKernels

\* The arrays have Size elements.
LEMMA IndexCardinality == IsFiniteSet(Index) /\ Cardinality(Index) = Size
<1>1. 0 \in Int /\ Size - 1 \in Int /\ Size - 1 - 0 + 1 = Size /\ 0 <= Size - 1
  OBVIOUS
<1> QED
  BY <1>1, FS_Interval DEF Index

\* The updated elements can be counted.
LEMMA UpdatedFinite ==
  ASSUME ArraysInv
  PROVE  IsFiniteSet(updated) /\ Cardinality(updated) \in Nat
  BY IndexCardinality, FS_Subset, FS_CardinalityType DEF ArraysInv

\* An update takes a time, and is one more of its region's.
LEMMA CostFacts ==
  ASSUME NEW s \in 0..(1 + 4 * NTIMES)
  PROVE  /\ Cost[s] \in Nat
         /\ \A n \in Nat : Cost[s] * (n + 1) = Cost[s] * n + Cost[s]
         /\ Cost[s] * 0 = 0 /\ Cost[s] * Size = Size * Cost[s]
<1>1. Cost[s] \in Nat /\ Size \in Nat
  BY CostAssumption
<1> DEFINE d == Cost[s]
<1> HIDE DEF d
<1>2. d \in Nat
  BY <1>1 DEF d
<1>3. \A n \in Nat : d * (n + 1) = d * n + d
  BY <1>2
<1>4. d * 0 = 0 /\ d * Size = Size * d
  BY <1>1, <1>2
<1> QED
  BY <1>2, <1>3, <1>4 DEF d

\* No time has been taken at the start.
LEMMA InitClockInv == Init => ClockInv
  BY FS_EmptySet DEF Init, ClockInv, TimesCoverTheKernels

\* Every step keeps the clock at the updates made since its last reading.
LEMMA NextClockInv ==
  ASSUME ArraysInv, ClockInv, [Next]_vars
  PROVE  ClockInv'
<1> USE LastStageType DEF ClockInv
<1>0. inRegion \/ stage < LastStage => stage \in 0..(1 + 4 * NTIMES)
  BY DEF ArraysInv
<1>1. CASE Fork
  <2>1. Cardinality(updated') = 0 /\ stage' = stage /\ stage \in 0..(1 + 4 * NTIMES)
    BY <1>0, <1>1, FS_EmptySet DEF Fork, ArraysInv
  <2>2. Cost[stage]  * 0 = 0
    BY <2>1, CostFacts
  <2>3. start' = clock /\ clock' = clock /\ times' = times
    BY <1>1 DEF Fork
  <2>4. clock' = start' + Cost[stage'] * Cardinality(updated')
    BY <2>1, <2>2, <2>3
  <2> QED
    BY <2>1, <2>3, <2>4 DEF TimesCoverTheKernels
<1>2. ASSUME NEW t \in Threads, Update(t) PROVE ClockInv'
  <2>1. PICK e \in Mine(t) \ updated : updated' = updated \union {e}
    BY <1>2 DEF Update
  <2>2. Cardinality(updated') = Cardinality(updated) + 1
    BY <2>1, UpdatedFinite, FS_AddElement
  <2>3. Cardinality(updated) \in Nat
    BY UpdatedFinite
  <2>4. inRegion /\ stage \in 0..(1 + 4 * NTIMES)
    BY <1>0, <1>2 DEF Update
  <2>5. /\ clock' = clock + Cost[stage] /\ stage' = stage /\ start' = start
        /\ times' = times /\ inRegion' = inRegion
    BY <1>2 DEF Update
  <2>6. Cost[stage] \in Nat
        /\ Cost[stage] * (Cardinality(updated) + 1)
             = Cost[stage] * Cardinality(updated) + Cost[stage]
    BY <2>3, <2>4, CostFacts
  <2> DEFINE n == Cardinality(updated)
             p == Cost[stage] * n
             q == Cost[stage] * (n + 1)
  <2>7. clock = start + p /\ q = p + Cost[stage] /\ p \in Int
    BY <2>3, <2>4, <2>6
  <2> HIDE DEF p, q
  <2>8. clock' = start' + q
    BY <2>5, <2>6, <2>7
  <2>9. clock' = start' + Cost[stage'] * Cardinality(updated')
    BY <2>2, <2>5, <2>8 DEF q
  <2> QED
    BY <2>5, <2>6, <2>9 DEF TimesCoverTheKernels
<1>3. CASE Join
  <2>0. inRegion /\ stage \in 0..(1 + 4 * NTIMES)
    BY <1>0, <1>3 DEF Join
  <2>1. KernelTime = Size * Cost[stage]
    <3>1. clock = start + Cost[stage] * Size
      BY <1>3, <2>0, IndexCardinality DEF Join, AtBarrier
    <3>2. Cost[stage] \in Nat /\ Cost[stage] * Size = Size * Cost[stage]
      BY <2>0, CostFacts
    <3> DEFINE p == Cost[stage] * Size
    <3>3. p \in Int /\ clock = start + p
      BY <3>1, <3>2
    <3> HIDE DEF p
    <3>4. clock - start = p
      BY <3>3
    <3> QED
      BY <3>2, <3>4 DEF p, KernelTime
  <2>2. stage \in Nat /\ stage < 2 + 4 * NTIMES /\ stage' = stage + 1
    BY <1>3 DEF Join, ArraysInv
  <2>3. CASE stage < 2
    BY <1>3, <2>2, <2>3 DEF Join, TimesCoverTheKernels
  <2>4. CASE stage >= 2
    <3> DEFINE T == Size * Cost[stage]
    <3>0. T \in Int
      <4>1. Cost[stage] \in Nat /\ Size \in Nat
        BY <2>0, CostFacts
      <4> QED
        BY <4>1
    <3>1. times' = [times EXCEPT ![stage - 1] = T]
      BY <1>3, <2>1, <2>2, <2>4 DEF Join
    <3>2. stage - 1 \in 1..(4 * NTIMES)
      BY <2>2, <2>4
    <3>3. ASSUME NEW n \in 1..(4 * NTIMES), n + 2 <= stage'
          PROVE  times'[n] = Size * Cost[n + 1]
      <4>1. CASE n = stage - 1
        <5>1. n + 1 = stage
          BY <2>2, <4>1
        <5> QED
          BY <3>1, <3>2, <4>1, <5>1
      <4>2. CASE n # stage - 1
        <5>1. n + 2 <= stage
          BY <2>2, <3>3, <4>2
        <5>2. times[n] = Size * Cost[n + 1]
          BY <5>1 DEF TimesCoverTheKernels
        <5> HIDE DEF T
        <5> QED
          BY <3>1, <4>2, <5>2
      <4> QED
        BY <4>1, <4>2
    <3> HIDE DEF T
    <3>4. times' \in [1..(4 * NTIMES) -> Int]
      BY <3>0, <3>1
    <3> QED
      BY <1>3, <3>3, <3>4 DEF Join, TimesCoverTheKernels
  <2> QED
    BY <2>2, <2>3, <2>4
<1>4. CASE CheckSTREAMresults
  BY <1>4 DEF CheckSTREAMresults, TimesCoverTheKernels
<1>5. CASE UNCHANGED vars
  BY <1>5 DEF vars, TimesCoverTheKernels
<1>6. CASE OtherStep
  <2>1. UNCHANGED <<clock, start, inRegion, stage, updated, times>>
    BY <1>6 DEF OtherStep, LoadK, StoreK, Checktick, Summarise
  <2> QED
    BY <2>1 DEF TimesCoverTheKernels
<1> QED
  BY <1>1, <1>2, <1>3, <1>4, <1>5, <1>6 DEF Next, OtherStep

\* The time recorded for a kernel is the time of all of its updates and of no
\* other kernel's, for every size, team and schedule.
THEOREM KernelTimesAreWhole == Spec => []TimesCoverTheKernels
<1>1. ClockInv => TimesCoverTheKernels
  BY DEF ClockInv
<1> QED
  BY <1>1, InitClockInv, NextClockInv, ArraysInvariance, PTL DEF Spec

-----------------------------------------------------------------------------
\* Each of the team has still to be counted, or holds the count it has loaded
\* (only one thread does, for the update is atomic, and nothing has been added
\* since), or is one of the k that are counted.
CountedThreads == {t \in Threads : counting[t] = "after"}

CountInv ==
  /\ counting \in [Threads -> {"before", "loaded", "after"}]
  /\ loaded \in [Threads -> Nat] /\ k \in Nat
  /\ IsFiniteSet(CountedThreads) /\ k = Cardinality(CountedThreads)
  /\ \A t \in Threads : counting[t] = "loaded" => loaded[t] = k
  /\ \A t, u \in Threads : counting[t] = "loaded" /\ counting[u] = "loaded" => t = u

\* The regions' own state: the schedule, the quantum that the timing check
\* waits for, and the verdict.
RegionInv ==
  /\ owner \in [Index -> Threads]
  /\ quantum \in Nat /\ (stage = 1 /\ inRegion => quantum >= 1)
  /\ verdict \in {"none", "validates", "failed"}

\* Each of the regions that have ended took less than FLT_MAX, so the clock is
\* within their number of FLT_MAX.
BoundInv ==
  /\ start <= clock
  /\ inRegion => start <= FLT_MAX * stage
  /\ ~inRegion => clock <= FLT_MAX * stage
  /\ \A n \in 1..(4 * NTIMES) : times[n] >= 0 /\ times[n] < FLT_MAX

\* What the summary has of kernel j when it comes to iteration n: one of the
\* times of those before as the shortest, one as the longest, and a sum that
\* lies between so many of either.
KernelSummary(j, n, avg, least, most) ==
  /\ least <= FLT_MAX /\ most <= FLT_MAX
  /\ avg <= (n - 1) * FLT_MAX
  /\ avg >= (n - 1) * least
  /\ avg <= (n - 1) * most
  /\ \A i \in 1..(n - 1) : least <= TimeOf(j, i) /\ TimeOf(j, i) <= most
  /\ n > 1 => /\ \E i \in 1..(n - 1) : least = TimeOf(j, i)
              /\ \E i \in 1..(n - 1) : most = TimeOf(j, i)

SummaryInv ==
  /\ summed \in 1..NTIMES
  /\ summed > 1 => stage = LastStage /\ ~inRegion
  /\ avgtime \in [Kernel -> Nat] /\ mintime \in [Kernel -> Nat] /\ maxtime \in [Kernel -> Nat]
  /\ \A j \in Kernel :
       /\ KernelSummary(j, summed, avgtime[j], mintime[j], maxtime[j])
       /\ summed = 1 => mintime[j] = FLT_MAX /\ maxtime[j] = 0

\* No thread is counted at the start.
LEMMA InitCountInv == Init => CountInv
<1> SUFFICES ASSUME Init PROVE CountInv
  OBVIOUS
<1>1. CountedThreads = {}
  BY DEF Init, CountedThreads
<1>2. IsFiniteSet(CountedThreads) /\ Cardinality(CountedThreads) = 0
  BY <1>1, FS_EmptySet
<1> QED
  BY <1>2 DEF Init, CountInv

\* "omp atomic" lets one thread at a time add itself to the count.
LEMMA NextCountInv ==
  ASSUME CountInv, [Next]_vars
  PROVE  CountInv'
<1> USE DEF CountInv
<1>1. ASSUME NEW t \in Threads, LoadK(t) PROVE CountInv'
  <2>1. /\ counting[t] = "before" /\ \A u \in Threads : counting[u] # "loaded"
        /\ counting' = [counting EXCEPT ![t] = "loaded"]
        /\ loaded' = [loaded EXCEPT ![t] = k] /\ k' = k
    BY <1>1 DEF LoadK, MayLoad
  <2>2. CountedThreads' = CountedThreads
    BY <2>1 DEF CountedThreads
  <2> QED
    BY <2>1, <2>2
<1>2. ASSUME NEW t \in Threads, StoreK(t) PROVE CountInv'
  <2>1. /\ counting[t] = "loaded" /\ counting' = [counting EXCEPT ![t] = "after"]
        /\ k' = loaded[t] + 1 /\ loaded' = [loaded EXCEPT ![t] = 0]
    BY <1>2 DEF StoreK
  <2>2. CountedThreads' = CountedThreads \union {t} /\ t \notin CountedThreads
    BY <2>1 DEF CountedThreads
  <2>3. /\ IsFiniteSet(CountedThreads')
        /\ Cardinality(CountedThreads') = Cardinality(CountedThreads) + 1
    BY <2>2, FS_AddElement
  <2>4. k' = k + 1 /\ k' = Cardinality(CountedThreads')
    BY <2>1, <2>3
  <2>5. \A u \in Threads : counting'[u] # "loaded"
    BY <2>1
  <2>6. /\ counting' \in [Threads -> {"before", "loaded", "after"}]
        /\ loaded' \in [Threads -> Nat] /\ k' \in Nat
    BY <2>1, <2>4
  <2> QED
    BY <2>3, <2>4, <2>5, <2>6
<1>3. ASSUME UNCHANGED counts PROVE CountInv'
  BY <1>3 DEF counts, CountedThreads
<1> QED
  BY <1>1, <1>2, <1>3
     DEF Next, vars, Checktick, Fork, Update, Join, Summarise, CheckSTREAMresults

\* With every thread counted, the count is the team's number.
LEMMA CountIsTheTeam ==
  ASSUME CountInv, AllCounted
  PROVE  k = Cardinality(Threads)
<1>1. CountedThreads = Threads
  BY DEF CountedThreads, AllCounted
<1> QED
  BY <1>1 DEF CountInv

\* A set of natural numbers has a least.
LEMMA LeastNat ==
  ASSUME NEW T \in SUBSET Nat, T # {}
  PROVE  \E m \in T : \A n \in T : m <= n
<1>1. PICK m \in T : \A n \in T : <<n, m>> \notin OpToRel(<, Nat)
  BY NatLessThanWellFounded, WFMin
<1>2. \A n \in T : ~(n < m)
  BY <1>1 DEF OpToRel
<1> QED
  BY <1>2

\* The least difference that checktick finds is one of them, and not negative.
LEMMA LeastDifference ==
  ASSUME NEW delta \in [1..(M - 1) -> Gaps]
  PROVE  (CHOOSE m \in {NotNegative(delta[i]) : i \in 1..(M - 1)} :
            \A i \in 1..(M - 1) : m <= NotNegative(delta[i])) \in Nat
<1> DEFINE T == {NotNegative(delta[i]) : i \in 1..(M - 1)}
<1>1. T \in SUBSET Nat /\ T # {}
  <2>1. \A i \in 1..(M - 1) : delta[i] \in Int
    BY ChecktickAssumption
  <2>2. \A i \in 1..(M - 1) : NotNegative(delta[i]) \in Nat
    BY <2>1 DEF NotNegative
  <2>3. 1 \in 1..(M - 1)
    BY ChecktickAssumption
  <2>4. NotNegative(delta[1]) \in T
    BY <2>3
  <2> QED
    BY <2>2, <2>4
<1>2. \E m \in T : \A i \in 1..(M - 1) : m <= NotNegative(delta[i])
  <2>1. \A i \in 1..(M - 1) : NotNegative(delta[i]) \in T
    OBVIOUS
  <2> HIDE DEF T
  <2>2. PICK m \in T : \A n \in T : m <= n
    BY <1>1, LeastNat
  <2> QED
    BY <2>1, <2>2
<1> QED
  BY <1>1, <1>2

\* A region is run with a schedule, and the timing check with a quantum.
LEMMA NextRegionInv ==
  ASSUME ArraysInv, RegionInv, [Next]_vars
  PROVE  RegionInv'
<1> USE DEF RegionInv
<1>1. CASE Checktick
  <2>1. PICK delta \in [1..(M - 1) -> Gaps] :
          LET minDelta == CHOOSE m \in {NotNegative(delta[i]) : i \in 1..(M - 1)} :
                            \A i \in 1..(M - 1) : m <= NotNegative(delta[i])
          IN  quantum' = IF minDelta >= 1 THEN minDelta ELSE 1
    BY <1>1 DEF Checktick
  <2> DEFINE minDelta == CHOOSE m \in {NotNegative(delta[i]) : i \in 1..(M - 1)} :
                           \A i \in 1..(M - 1) : m <= NotNegative(delta[i])
  <2>a. minDelta \in Nat
    BY LeastDifference
  <2>b. quantum' = IF minDelta >= 1 THEN minDelta ELSE 1
    BY <2>1
  <2> HIDE DEF minDelta
  <2>2. quantum' \in Nat /\ quantum' >= 1
    BY <2>a, <2>b
  <2> QED
    BY <1>1, <2>2 DEF Checktick
<1>2. CASE Fork
  BY <1>2 DEF Fork, Ready
<1>3. CASE Join
  BY <1>3 DEF Join
<1>4. CASE CheckSTREAMresults
  BY <1>4 DEF CheckSTREAMresults
<1>5. CASE UNCHANGED <<quantum, stage, inRegion, owner, verdict>>
  BY <1>5
<1> QED
  BY <1>1, <1>2, <1>3, <1>4, <1>5 DEF Next, vars, LoadK, StoreK, Update, Summarise

\* What is said of the regions' own state holds at the start.
LEMMA InitRegionInv == Init => RegionInv
  BY DEF Init, RegionInv

\* The longest that a region takes, of which there are Size updates.
LEMMA RegionBound ==
  ASSUME NEW s \in 0..(1 + 4 * NTIMES), NEW n \in Nat, n <= Size
  PROVE  Cost[s] * n \in Nat /\ Cost[s] * n < FLT_MAX
<1>1. Cost[s] \in Nat /\ Size \in Nat /\ FLT_MAX \in Nat /\ Size * Cost[s] < FLT_MAX
  BY CostAssumption, FltMaxAssumption
<1> DEFINE d == Cost[s]
<1>2. d \in Nat /\ Size \in Nat /\ FLT_MAX \in Nat /\ Size * d < FLT_MAX
  BY <1>1
<1> HIDE DEF d
<1>3. d * n \in Nat /\ d * n <= Size * d
  BY <1>2
<1> QED
  BY <1>2, <1>3 DEF d

\* The number of regions' FLT_MAX grows with the regions.
LEMMA ManyFltMax ==
  ASSUME NEW n \in Nat
  PROVE  /\ FLT_MAX * n \in Nat /\ FLT_MAX * (n + 1) = FLT_MAX * n + FLT_MAX
         /\ FLT_MAX * 0 = 0
         /\ \A m \in Nat : n <= m => FLT_MAX * n <= FLT_MAX * m
<1>1. FLT_MAX \in Nat
  BY FltMaxAssumption
<1> QED
  BY <1>1

\* A region that is running has taken less than FLT_MAX.
LEMMA RegionClock ==
  ASSUME ArraysInv, ClockInv, inRegion
  PROVE  start <= clock /\ clock < start + FLT_MAX
<1>1. stage \in 0..(1 + 4 * NTIMES)
  BY LastStageType DEF ArraysInv
<1>2. Cardinality(updated) \in Nat /\ Cardinality(updated) <= Size
  BY IndexCardinality, UpdatedFinite, FS_Subset DEF ArraysInv
<1> DEFINE p == Cost[stage] * Cardinality(updated)
<1>3. p \in Nat /\ p < FLT_MAX
  BY <1>1, <1>2, RegionBound
<1>4. clock = start + p /\ start \in Nat /\ clock \in Nat /\ FLT_MAX \in Nat
  BY FltMaxAssumption DEF ClockInv
<1> HIDE DEF p
<1> QED
  BY <1>3, <1>4

\* No time has passed at the start, and FLT_MAX is more than that.
LEMMA InitBoundInv == Init => BoundInv
<1>1. 0 \in 0..(1 + 4 * NTIMES) /\ 0 \in Nat
  OBVIOUS
<1>2. Cost[0] * 0 < FLT_MAX /\ Cost[0] * 0 = 0
  BY <1>1, RegionBound, CostFacts
<1>3. 0 < FLT_MAX /\ FLT_MAX * 0 = 0
  BY <1>2, ManyFltMax
<1> QED
  BY <1>3 DEF Init, BoundInv

\* Each region adds less than FLT_MAX to the clock.
LEMMA NextBoundInv ==
  ASSUME ArraysInv, ClockInv, BoundInv, [Next]_vars
  PROVE  BoundInv'
<1> USE DEF BoundInv
<1>0. stage \in Nat /\ clock \in Nat /\ start \in Nat /\ FLT_MAX \in Nat
  BY LastStageType, FltMaxAssumption DEF ArraysInv, ClockInv
<1>1. CASE Fork
  BY <1>0, <1>1 DEF Fork
<1>2. ASSUME NEW t \in Threads, Update(t) PROVE BoundInv'
  <2>1. /\ inRegion /\ inRegion' = inRegion /\ start' = start /\ stage' = stage
        /\ times' = times
    BY <1>2 DEF Update
  <2>2. start' <= clock'
    <3>1. clock' = clock + Cost[stage] /\ stage \in 0..(1 + 4 * NTIMES)
      BY <1>2, LastStageType DEF Update, ArraysInv
    <3>2. Cost[stage] \in Nat
      BY <3>1, CostFacts
    <3> QED
      BY <1>0, <2>1, <3>1, <3>2
  <2> QED
    BY <2>1, <2>2
<1>3. CASE Join
  <2>1. /\ inRegion /\ ~inRegion' /\ stage' = stage + 1 /\ clock' = clock /\ start' = start
        /\ times' = IF stage < 2 THEN times ELSE [times EXCEPT ![stage - 1] = clock - start]
    BY <1>3 DEF Join, KernelTime
  <2>2. start <= clock /\ clock < start + FLT_MAX
    BY <2>1, RegionClock
  <2>3. FLT_MAX * (stage + 1) = FLT_MAX * stage + FLT_MAX /\ FLT_MAX * stage \in Nat
    BY <1>0, ManyFltMax
  <2>4. clock <= FLT_MAX * stage + FLT_MAX
    BY <1>0, <2>1, <2>2, <2>3
  <2>5. clock' <= FLT_MAX * stage'
    BY <2>1, <2>3, <2>4
  <2>6. clock - start >= 0 /\ clock - start < FLT_MAX
    BY <1>0, <2>2
  <2>7. times \in [1..(4 * NTIMES) -> Int]
    BY DEF ClockInv
  <2>8. ASSUME NEW n \in 1..(4 * NTIMES) PROVE times'[n] >= 0 /\ times'[n] < FLT_MAX
    BY <2>1, <2>6, <2>7
  <2> QED
    BY <2>1, <2>2, <2>5, <2>8
<1>4. CASE UNCHANGED <<start, clock, inRegion, stage, times>>
  BY <1>4
<1> QED
  BY <1>1, <1>2, <1>3, <1>4
     DEF Next, vars, LoadK, StoreK, Checktick, Summarise, CheckSTREAMresults

\* A sum that is so many times a bound and one more term within it is one more
\* times the bound.
LEMMA OneMoreTerm ==
  ASSUME NEW n \in Nat, NEW s \in Nat, NEW t \in Nat, NEW x \in Nat, NEW y \in Nat
  PROVE  /\ s >= n * x /\ y <= x /\ y <= t => s + t >= (n + 1) * y
         /\ s <= n * x /\ x <= y /\ t <= y => s + t <= (n + 1) * y
<1>1. n * x \in Nat /\ n * y \in Nat /\ (n + 1) * y = n * y + y
  OBVIOUS
<1>2. y <= x => n * y <= n * x
  OBVIOUS
<1>3. x <= y => n * x <= n * y
  OBVIOUS
<1> DEFINE p == n * x
           q == n * y
           r == (n + 1) * y
<1>4. /\ p \in Nat /\ q \in Nat /\ r = q + y
      /\ y <= x => q <= p
      /\ x <= y => p <= q
  BY <1>1, <1>2, <1>3
<1> HIDE DEF p, q, r
<1>5. /\ s >= p /\ y <= x /\ y <= t => s + t >= r
      /\ s <= p /\ x <= y /\ t <= y => s + t <= r
  BY <1>4
<1> QED
  BY <1>5 DEF p, r

\* The times that the summary reads are those of kernels.
LEMMA TimeOfType ==
  ASSUME BoundInv, ClockInv, NEW j \in Kernel, NEW n \in 1..(NTIMES - 1)
  PROVE  TimeOf(j, n) \in Nat /\ TimeOf(j, n) < FLT_MAX
<1>1. 4 * n + j + 1 \in 1..(4 * NTIMES)
  BY DEF Kernel
<1> QED
  BY <1>1 DEF TimeOf, BoundInv, ClockInv

\* The summary has seen no iteration at the start.
LEMMA InitSummaryInv == Init => SummaryInv
<1>1. FLT_MAX \in Nat
  BY FltMaxAssumption
<1> SUFFICES ASSUME Init PROVE SummaryInv
  OBVIOUS
<1>2. /\ summed = 1 /\ avgtime = [j \in Kernel |-> 0] /\ maxtime = [j \in Kernel |-> 0]
      /\ mintime = [j \in Kernel |-> FLT_MAX]
  BY DEF Init
<1>3. (summed - 1) * FLT_MAX = 0 /\ (summed - 1) * 0 = 0
  BY <1>1, <1>2
<1> QED
  BY <1>1, <1>2, <1>3 DEF SummaryInv, KernelSummary

\* A further iteration keeps what is said of a kernel.
LEMMA KernelSummaryStep ==
  ASSUME BoundInv, ClockInv, NEW j \in Kernel, NEW n \in 1..(NTIMES - 1),
         NEW avg \in Nat, NEW least \in Nat, NEW most \in Nat,
         KernelSummary(j, n, avg, least, most),
         NEW least2 \in Nat, NEW most2 \in Nat,
         least2 = IF TimeOf(j, n) < least THEN TimeOf(j, n) ELSE least,
         most2 = IF TimeOf(j, n) > most THEN TimeOf(j, n) ELSE most,
         n = 1 => least = FLT_MAX /\ most = 0
  PROVE  KernelSummary(j, n + 1, avg + TimeOf(j, n), least2, most2)
<1> DEFINE t == TimeOf(j, n)
<1>1. t \in Nat /\ t < FLT_MAX /\ FLT_MAX \in Nat
  BY TimeOfType, FltMaxAssumption
<1>2. /\ least2 = IF t < least THEN t ELSE least
      /\ most2 = IF t > most THEN t ELSE most
  OBVIOUS
<1>3. n - 1 \in Nat /\ n \in Nat /\ (n - 1) + 1 = n /\ (n + 1) - 1 = n
  OBVIOUS
<1>4. /\ least <= FLT_MAX /\ most <= FLT_MAX
      /\ avg <= (n - 1) * FLT_MAX /\ avg >= (n - 1) * least /\ avg <= (n - 1) * most
      /\ \A i \in 1..(n - 1) : least <= TimeOf(j, i) /\ TimeOf(j, i) <= most
      /\ n > 1 => /\ \E i \in 1..(n - 1) : least = TimeOf(j, i)
                  /\ \E i \in 1..(n - 1) : most = TimeOf(j, i)
  BY DEF KernelSummary
<1>a. \A i \in 1..(n - 1) : TimeOf(j, i) \in Nat
  BY TimeOfType
<1> HIDE DEF t
<1>5. least2 <= t /\ least2 <= least /\ most2 >= t /\ most2 >= most
      /\ least2 <= FLT_MAX /\ most2 <= FLT_MAX
  BY <1>1, <1>2, <1>4
<1>6. avg + t <= n * FLT_MAX
  BY <1>1, <1>3, <1>4, OneMoreTerm
<1>7. avg + t >= n * least2
  BY <1>1, <1>3, <1>4, <1>5, OneMoreTerm
<1>8. avg + t <= n * most2
  BY <1>1, <1>3, <1>4, <1>5, OneMoreTerm
<1>9. \A i \in 1..n : least2 <= TimeOf(j, i) /\ TimeOf(j, i) <= most2
  <2> TAKE i \in 1..n
  <2>1. CASE i = n
    BY <1>5, <2>1 DEF t
  <2>2. CASE i # n
    <3>1. i \in 1..(n - 1)
      BY <2>2
    <3>2. least <= TimeOf(j, i) /\ TimeOf(j, i) <= most /\ TimeOf(j, i) \in Nat
      BY <1>4, <1>a, <3>1
    <3> QED
      BY <1>5, <3>2
  <2> QED
    BY <2>1, <2>2
<1>10. \E i \in 1..n : least2 = TimeOf(j, i)
  <2>1. CASE least2 = t
    BY <2>1 DEF t
  <2>2. CASE least2 # t
    <3>1. least2 = least /\ n > 1
      BY <1>1, <1>2, <2>2
    <3>2. PICK i \in 1..(n - 1) : least = TimeOf(j, i)
      BY <1>4, <3>1
    <3> QED
      BY <3>1, <3>2
  <2> QED
    BY <2>1, <2>2
<1>11. \E i \in 1..n : most2 = TimeOf(j, i)
  <2>1. CASE most2 = t
    BY <2>1 DEF t
  <2>2. CASE most2 # t
    <3>1. most2 = most /\ n > 1
      BY <1>1, <1>2, <2>2
    <3>2. PICK i \in 1..(n - 1) : most = TimeOf(j, i)
      BY <1>4, <3>1
    <3> QED
      BY <3>1, <3>2
  <2> QED
    BY <2>1, <2>2
<1>12. KernelSummary(j, n + 1, avg + t, least2, most2)
  BY <1>3, <1>5, <1>6, <1>7, <1>8, <1>9, <1>10, <1>11 DEF KernelSummary
<1> QED
  BY <1>12 DEF t

\* The summary comes after the last region, and goes through the iterations
\* once.
LEMMA NextSummaryInv ==
  ASSUME ArraysInv, ClockInv, BoundInv, SummaryInv, [Next]_vars
  PROVE  SummaryInv'
<1> USE DEF SummaryInv
<1>1. CASE Summarise
  <2>1. /\ ~inRegion /\ stage = LastStage /\ summed < NTIMES /\ summed' = summed + 1
        /\ inRegion' = inRegion /\ stage' = stage /\ times' = times
        /\ avgtime' = [j \in Kernel |-> avgtime[j] + TimeOf(j, summed)]
        /\ mintime' = [j \in Kernel |-> IF TimeOf(j, summed) < mintime[j]
                                        THEN TimeOf(j, summed) ELSE mintime[j]]
        /\ maxtime' = [j \in Kernel |-> IF TimeOf(j, summed) > maxtime[j]
                                        THEN TimeOf(j, summed) ELSE maxtime[j]]
    BY <1>1 DEF Summarise, Summed
  <2>2. summed \in 1..(NTIMES - 1) /\ summed' \in 1..NTIMES /\ summed' # 1
    BY <2>1
  <2>3. \A j \in Kernel : TimeOf(j, summed) \in Nat
    BY <2>2, TimeOfType
  <2>4. /\ avgtime' \in [Kernel -> Nat] /\ mintime' \in [Kernel -> Nat]
        /\ maxtime' \in [Kernel -> Nat]
    BY <2>1, <2>3
  <2>5. ASSUME NEW j \in Kernel
        PROVE  KernelSummary(j, summed, avgtime[j], mintime[j], maxtime[j])'
    <3>1. /\ avgtime'[j] = avgtime[j] + TimeOf(j, summed)
          /\ mintime'[j] = IF TimeOf(j, summed) < mintime[j] THEN TimeOf(j, summed) ELSE mintime[j]
          /\ maxtime'[j] = IF TimeOf(j, summed) > maxtime[j] THEN TimeOf(j, summed) ELSE maxtime[j]
      BY <2>1
    <3>2. /\ avgtime[j] \in Nat /\ mintime[j] \in Nat /\ maxtime[j] \in Nat
          /\ mintime'[j] \in Nat /\ maxtime'[j] \in Nat
      BY <2>4
    <3>3. KernelSummary(j, summed + 1, avgtime[j] + TimeOf(j, summed), mintime'[j], maxtime'[j])
      BY <2>2, <3>1, <3>2, KernelSummaryStep
    <3>4. \A i : TimeOf(j, i)' = TimeOf(j, i)
      BY <2>1 DEF TimeOf
    <3>5. KernelSummary(j, summed', avgtime'[j], mintime'[j], maxtime'[j])
      BY <2>1, <3>1, <3>3
    <3> QED
      BY <3>4, <3>5 DEF KernelSummary
  <2> QED
    BY <2>1, <2>2, <2>4, <2>5
<1>2. ASSUME UNCHANGED summary, stage # LastStage \/ inRegion PROVE SummaryInv'
  <2>1. summed = 1 /\ summed' = 1
    BY <1>2 DEF summary, ArraysInv
  <2>2. mintime' = mintime /\ maxtime' = maxtime /\ avgtime' = avgtime
    BY <1>2 DEF summary
  <2> QED
    BY <2>1, <2>2 DEF KernelSummary
<1>3. ASSUME UNCHANGED <<summary, stage, inRegion, times>> PROVE SummaryInv'
  BY <1>3 DEF summary, KernelSummary, TimeOf
<1>4. CASE Fork \/ Join \/ \E t \in Threads : Update(t)
  <2>1. UNCHANGED summary /\ (stage # LastStage \/ inRegion)
    BY <1>4, LastStageType DEF Fork, Join, Update
  <2> QED
    BY <1>2, <2>1
<1> QED
  BY <1>1, <1>3, <1>4
     DEF Next, vars, LoadK, StoreK, Checktick, CheckSTREAMresults

-----------------------------------------------------------------------------
\* The invariant as a whole.

StreamInv ==
  ArraysInv /\ ClockInv /\ CountInv /\ RegionInv /\ BoundInv /\ SummaryInv

\* Every run keeps it.
LEMMA StreamInvariance == Spec => []StreamInv
<1>1. Init => StreamInv
  BY InitArraysInv, InitClockInv, InitCountInv, InitRegionInv, InitBoundInv, InitSummaryInv
     DEF StreamInv
<1>2. StreamInv /\ [Next]_vars => StreamInv'
  BY NextArraysInv, NextClockInv, NextCountInv, NextRegionInv, NextBoundInv, NextSummaryInv
     DEF StreamInv
<1> QED
  BY <1>1, <1>2, PTL DEF Spec

\* The whole team is counted whatever the order in which its threads load and
\* store k, the timing check's divisor is never 0, and no time is negative or
\* too large, for every team, size and cost.
THEOREM StreamTypeCorrect == Spec => []TypeOK
<1>1. ASSUME StreamInv PROVE TypeOK
  <2> USE <1>1 DEF StreamInv
  <2>1. (\A t \in Threads : counting[t] = "after") => k = Cardinality(Threads)
    BY CountIsTheTeam DEF AllCounted
  <2>2. MaxTime \in Nat /\ clock \in 0..MaxTime /\ start \in 0..MaxTime /\ FLT_MAX <= MaxTime
    <3>1. /\ clock \in Nat /\ start \in Nat /\ stage \in Nat /\ stage <= LastStage
          /\ inRegion => stage + 1 <= LastStage
      BY LastStageType DEF ArraysInv, ClockInv
    <3>2. /\ FLT_MAX * stage \in Nat /\ FLT_MAX * LastStage \in Nat
          /\ FLT_MAX * stage <= FLT_MAX * LastStage
          /\ FLT_MAX * (stage + 1) = FLT_MAX * stage + FLT_MAX
          /\ FLT_MAX * 1 <= FLT_MAX * LastStage /\ FLT_MAX * 1 = FLT_MAX
          /\ FLT_MAX * 1 \in Nat
      BY <3>1, ManyFltMax, LastStageType, FltMaxAssumption
    <3>3. inRegion => FLT_MAX * (stage + 1) <= FLT_MAX * LastStage
      BY <3>1, ManyFltMax, LastStageType
    <3> DEFINE p == FLT_MAX * stage
               q == FLT_MAX * LastStage
               r == FLT_MAX * (stage + 1)
    <3>4. /\ p \in Nat /\ q \in Nat /\ p <= q /\ r = p + FLT_MAX /\ FLT_MAX <= q
          /\ inRegion => r <= q
      BY <3>2, <3>3
    <3>5. start <= clock /\ (inRegion => start <= p) /\ (~inRegion => clock <= p)
      BY DEF BoundInv
    <3> HIDE DEF p, q, r
    <3>6. CASE inRegion
      <4>1. clock < start + FLT_MAX
        BY <3>6, RegionClock
      <4>2. clock <= q /\ start <= q
        BY <3>1, <3>4, <3>5, <3>6, <4>1, FltMaxAssumption
      <4> QED
        BY <3>1, <3>4, <4>2 DEF q, MaxTime
    <3>7. CASE ~inRegion
      <4>1. clock <= q /\ start <= q
        BY <3>1, <3>4, <3>5, <3>7
      <4> QED
        BY <3>1, <3>4, <4>1 DEF q, MaxTime
    <3> QED
      BY <3>6, <3>7
  <2>3. times \in [1..(4 * NTIMES) -> 0..MaxTime]
    <3>1. \A n \in 1..(4 * NTIMES) : times[n] \in 0..MaxTime
      BY <2>2, FltMaxAssumption DEF BoundInv, ClockInv
    <3> QED
      BY <3>1 DEF ClockInv
  <2>4. /\ summed \in 1..NTIMES
        /\ avgtime \in [Kernel -> 0..MaxTime] /\ maxtime \in [Kernel -> 0..MaxTime]
        /\ mintime \in [Kernel -> 0..FLT_MAX]
    <3>1. /\ summed \in 1..NTIMES
          /\ avgtime \in [Kernel -> Nat] /\ mintime \in [Kernel -> Nat]
          /\ maxtime \in [Kernel -> Nat]
      BY DEF SummaryInv
    <3>2. \A j \in Kernel : /\ mintime[j] <= FLT_MAX /\ maxtime[j] <= FLT_MAX
                            /\ avgtime[j] <= (summed - 1) * FLT_MAX
      BY DEF SummaryInv, KernelSummary
    <3>3. (summed - 1) * FLT_MAX <= MaxTime /\ (summed - 1) * FLT_MAX \in Nat
      <4>1. summed - 1 \in Nat /\ summed - 1 <= LastStage
        BY <3>1, LastStageType
      <4> DEFINE n == summed - 1
      <4>2. FLT_MAX * n <= FLT_MAX * LastStage /\ FLT_MAX * n \in Nat
        BY <4>1, ManyFltMax, LastStageType
      <4>3. FLT_MAX * n = n * FLT_MAX
        BY <4>1, FltMaxAssumption
      <4> QED
        BY <4>2, <4>3 DEF MaxTime
    <3>4. \A j \in Kernel : /\ mintime[j] \in 0..FLT_MAX /\ maxtime[j] \in 0..MaxTime
                            /\ avgtime[j] \in 0..MaxTime
      <4> DEFINE q == (summed - 1) * FLT_MAX
      <4>1. q \in Nat /\ q <= MaxTime /\ \A j \in Kernel : avgtime[j] <= q
        BY <3>2, <3>3
      <4> HIDE DEF q
      <4> QED
        BY <2>2, <3>1, <3>2, <4>1, FltMaxAssumption
    <3> QED
      BY <3>1, <3>4
  <2> QED
    BY <2>1, <2>2, <2>3, <2>4 DEF TypeOK, ArraysInv, CountInv, RegionInv
<1> QED
  BY <1>1, StreamInvariance, PTL

\* The shortest, longest and average times that the program prints of a kernel
\* are those of the iterations after the first, for every number of iterations
\* and however the costs change between them.
THEOREM SummaryOfLaterIterations == Spec => []BestOfLaterIterations
<1>1. ASSUME StreamInv PROVE BestOfLaterIterations
  <2> SUFFICES ASSUME summed = NTIMES, NEW j \in Kernel
               PROVE  LET later == {Size * Cost[4 * n + j + 2] : n \in 1..(NTIMES - 1)}
                      IN  /\ mintime[j] \in later /\ maxtime[j] \in later
                          /\ \A x \in later : mintime[j] <= x /\ x <= maxtime[j]
                          /\ avgtime[j] >= (NTIMES - 1) * mintime[j]
                          /\ avgtime[j] <= (NTIMES - 1) * maxtime[j]
    BY DEF BestOfLaterIterations
  <2> DEFINE later == {Size * Cost[4 * n + j + 2] : n \in 1..(NTIMES - 1)}
  <2>1. stage = 2 + 4 * NTIMES /\ KernelSummary(j, NTIMES, avgtime[j], mintime[j], maxtime[j])
    BY <1>1, LastStageType DEF StreamInv, SummaryInv
  <2>2. ASSUME NEW n \in 1..(NTIMES - 1)
        PROVE  TimeOf(j, n) = Size * Cost[4 * n + j + 2]
    <3> DEFINE m == 4 * n + j + 1
    <3>1. m \in 1..(4 * NTIMES) /\ m + 2 <= stage /\ m + 1 = 4 * n + j + 2
      BY <2>1 DEF Kernel
    <3>2. times[m] = Size * Cost[m + 1]
      <4> HIDE DEF m
      <4> QED
        BY <1>1, <3>1 DEF StreamInv, ClockInv, TimesCoverTheKernels
    <3> QED
      BY <3>1, <3>2 DEF TimeOf
  <2>3. later = {TimeOf(j, n) : n \in 1..(NTIMES - 1)}
    BY <2>2
  <2> HIDE DEF later
  <2>4. mintime[j] \in later /\ maxtime[j] \in later
    BY <2>1, <2>3 DEF KernelSummary
  <2>5. \A x \in later : mintime[j] <= x /\ x <= maxtime[j]
    BY <2>1, <2>3 DEF KernelSummary
  <2>6. avgtime[j] >= (NTIMES - 1) * mintime[j] /\ avgtime[j] <= (NTIMES - 1) * maxtime[j]
    BY <2>1 DEF KernelSummary
  <2> QED
    BY <2>4, <2>5, <2>6 DEF later
<1> QED
  BY <1>1, StreamInvariance, PTL

-----------------------------------------------------------------------------
(***************************************************************************)
(* The check itself.  ExpectedAfter is a recursive function: that there is *)
(* one with its equation is shown with a set of naturals, the turns that   *)
(* the replay reaches.  The arrays are then, after each region, where the  *)
(* replay is after as many assignments.                                    *)
(***************************************************************************)

\* A turn of the check's timing loop.
TurnOf(x) == Triad(Add(Scale(Copy(x))))

\* f is the replay of the first n turns.
IsReplay(f, n) ==
  f = [m \in 0..n |-> IF m = 0 THEN ExpectedStart ELSE TurnOf(f[m - 1])]

\* Induction up to n, over a set.
LEMMA ReachesAll ==
  ASSUME NEW n \in Nat, NEW S, 0 \in S, \A m \in 0..(n - 1) : m \in S => m + 1 \in S
  PROVE  n \in S
<1> SUFFICES ASSUME n \notin S PROVE FALSE
  OBVIOUS
<1> DEFINE T == {m \in 0..n : m \notin S}
<1>1. T \in SUBSET Nat /\ T # {}
  OBVIOUS
<1>2. PICK m \in T : \A l \in T : m <= l
  <2> HIDE DEF T
  <2> QED
    BY <1>1, LeastNat
<1>3. m \in 1..n /\ m \notin S
  OBVIOUS
<1>4. m - 1 \in 0..(n - 1) /\ m - 1 \notin T
  BY <1>2, <1>3
<1>5. m - 1 \in S
  BY <1>3, <1>4
<1> QED
  BY <1>3, <1>4, <1>5

LEMMA ReplayExists == \E f : IsReplay(f, NTIMES)
<1> DEFINE S == {n \in Nat : \E f : IsReplay(f, n)}
<1>1. 0 \in S
  <2> DEFINE f == [m \in 0..0 |-> ExpectedStart]
  <2>1. IsReplay(f, 0)
    BY DEF IsReplay
  <2> QED
    BY <2>1
<1>2. ASSUME NEW n \in Nat, n \in S PROVE n + 1 \in S
  <2>1. PICK f : IsReplay(f, n)
    BY <1>2
  <2> DEFINE g == [m \in 0..(n + 1) |-> IF m = n + 1 THEN TurnOf(f[n]) ELSE f[m]]
  <2>2. \A m \in 0..n : f[m] = IF m = 0 THEN ExpectedStart ELSE TurnOf(f[m - 1])
    BY <2>1 DEF IsReplay
  <2>3. ASSUME NEW m \in 0..(n + 1)
        PROVE  g[m] = IF m = 0 THEN ExpectedStart ELSE TurnOf(g[m - 1])
    <3>1. CASE m = n + 1
      <4>1. g[m] = TurnOf(f[n]) /\ m # 0 /\ m - 1 = n /\ g[n] = f[n]
        BY <3>1
      <4> HIDE DEF g
      <4> QED
        BY <4>1
    <3>2. CASE m \in 1..n
      <4>1. g[m] = f[m] /\ g[m - 1] = f[m - 1] /\ f[m] = TurnOf(f[m - 1])
        BY <2>2, <3>2
      <4> HIDE DEF g
      <4> QED
        BY <3>2, <4>1
    <3>3. CASE m = 0
      BY <2>2, <3>3
    <3> QED
      BY <3>1, <3>2, <3>3
  <2>4. IsReplay(g, n + 1)
    <3>1. g = [m \in 0..(n + 1) |-> g[m]]
      OBVIOUS
    <3> HIDE DEF g
    <3> QED
      BY <2>3, <3>1 DEF IsReplay
  <2> QED
    BY <2>4
<1>3. NTIMES \in S
  <2> HIDE DEF S
  <2>1. NTIMES \in Nat /\ \A m \in 0..(NTIMES - 1) : m \in S => m + 1 \in S
    BY <1>2
  <2> QED
    BY <1>1, <2>1, ReachesAll
<1> QED
  BY <1>3

\* What the recursive definition promises.
LEMMA ExpectedAfterValues ==
  /\ ExpectedAfter[0] = ExpectedStart
  /\ \A n \in 1..NTIMES : ExpectedAfter[n] = TurnOf(ExpectedAfter[n - 1])
<1>1. ExpectedAfter = CHOOSE f : IsReplay(f, NTIMES)
  BY DEF ExpectedAfter, IsReplay, TurnOf
<1>2. IsReplay(ExpectedAfter, NTIMES)
  BY <1>1, ReplayExists
<1> HIDE DEF ExpectedAfter
<1>3. \A n \in 0..NTIMES :
        ExpectedAfter[n] = IF n = 0 THEN ExpectedStart ELSE TurnOf(ExpectedAfter[n - 1])
  BY <1>2 DEF IsReplay
<1>4. 0 \in 0..NTIMES /\ \A n \in 1..NTIMES : n \in 0..NTIMES /\ n # 0
  OBVIOUS
<1> QED
  BY <1>3, <1>4

\* An element's a, b and c.
ElementOf(e) == <<a[e], b[e], c[e]>>

\* The check's scalars after the assignments of the first s regions.
Replayed(s) ==
  IF s = 0 THEN <<0, 0, 0>>
  ELSE IF s = 1 THEN Initialise(<<0, 0, 0>>)
  ELSE LET x == ExpectedAfter[(s - 2) \div 4]
       IN  IF (s - 2) % 4 = 0 THEN x
           ELSE IF (s - 2) % 4 = 1 THEN Copy(x)
           ELSE IF (s - 2) % 4 = 2 THEN Scale(Copy(x))
           ELSE Add(Scale(Copy(x)))

\* An assignment takes the scalars to the next region's.
LEMMA ReplayStep ==
  ASSUME NEW s \in Nat, s < LastStage
  PROVE  Body(s, Replayed(s)) = Replayed(s + 1)
<1>1. CASE s = 0
  BY <1>1 DEF Body, Replayed, Initialise
<1>2. CASE s = 1
  <2>1. (s + 1 - 2) \div 4 = 0 /\ (s + 1 - 2) % 4 = 0 /\ s + 1 # 0 /\ s + 1 # 1
    BY <1>2
  <2>2. Replayed(s + 1) = ExpectedStart
    BY <2>1, ExpectedAfterValues DEF Replayed
  <2>3. Body(s, Replayed(s)) = TimingCheck(Initialise(<<0, 0, 0>>))
    BY <1>2 DEF Body, Replayed
  <2> QED
    BY <2>2, <2>3 DEF ExpectedStart
<1>3. CASE s >= 2
  <2> DEFINE n == (s - 2) \div 4
             r == (s - 2) % 4
             x == ExpectedAfter[n]
  <2>1. n \in Nat /\ r \in 0..3 /\ s - 2 = 4 * n + r
    BY <1>3
  <2>2. n < NTIMES
    BY <2>1, LastStageType
  <2>3. /\ r < 3 => (s + 1 - 2) \div 4 = n /\ (s + 1 - 2) % 4 = r + 1
        /\ r = 3 => (s + 1 - 2) \div 4 = n + 1 /\ (s + 1 - 2) % 4 = 0
    BY <1>3
  <2>4. /\ s # 0 /\ s # 1 /\ s + 1 # 0 /\ s + 1 # 1
    BY <1>3
  <2>5. ExpectedAfter[n + 1] = Triad(Add(Scale(Copy(x))))
    <3>1. n + 1 \in 1..NTIMES /\ n + 1 - 1 = n
      BY <2>1, <2>2
    <3> QED
      BY <3>1, ExpectedAfterValues DEF TurnOf
  <2>6. Body(s, Replayed(s)) =
          IF r = 0 THEN Copy(Replayed(s)) ELSE IF r = 1 THEN Scale(Replayed(s))
          ELSE IF r = 2 THEN Add(Replayed(s)) ELSE Triad(Replayed(s))
    BY <2>4, Zenon DEF Body
  <2>7. Replayed(s) =
          IF r = 0 THEN x ELSE IF r = 1 THEN Copy(x)
          ELSE IF r = 2 THEN Scale(Copy(x)) ELSE Add(Scale(Copy(x)))
    BY <2>4, Zenon DEF Replayed
  <2>8. Replayed(s + 1) =
          IF r = 3 THEN ExpectedAfter[n + 1] ELSE IF r = 0 THEN Copy(x)
          ELSE IF r = 1 THEN Scale(Copy(x)) ELSE Add(Scale(Copy(x)))
    BY <2>1, <2>3, <2>4 DEF Replayed
  <2> HIDE DEF n, r, x
  <2>9. r = 0 \/ r = 1 \/ r = 2 \/ r = 3
    BY <2>1
  <2> QED
    BY <2>5, <2>6, <2>7, <2>8, <2>9
<1> QED
  BY <1>1, <1>2, <1>3

\* After each region, and within it for the elements that it has updated.
ReplayInv ==
  /\ \A e \in Index :
       /\ e \in updated => ElementOf(e) = Replayed(stage + 1)
       /\ e \notin updated => ElementOf(e) = Replayed(stage)
  /\ verdict # "failed"

LEMMA InitReplayInv == Init => ReplayInv
  BY DEF Init, ReplayInv, ElementOf, Replayed

\* The body of a region makes of an element's three values three values.
LEMMA BodyIsTriple ==
  ASSUME NEW s, NEW x
  PROVE  Body(s, x) = <<Body(s, x)[1], Body(s, x)[2], Body(s, x)[3]>>
  BY DEF Body, Initialise, TimingCheck, Copy, Scale, Add, Triad

LEMMA NextReplayInv ==
  ASSUME ArraysInv, ReplayInv, [Next]_vars
  PROVE  ReplayInv'
<1>1. ASSUME NEW t \in Threads, Update(t) PROVE ReplayInv'
  <2>1. PICK e \in Mine(t) \ updated :
          /\ a' = [a EXCEPT ![e] = Body(stage, ElementOf(e))[1]]
          /\ b' = [b EXCEPT ![e] = Body(stage, ElementOf(e))[2]]
          /\ c' = [c EXCEPT ![e] = Body(stage, ElementOf(e))[3]]
          /\ updated' = updated \union {e}
    BY <1>1 DEF Update, ElementOf
  <2>2. e \in Index /\ e \notin updated /\ stage' = stage /\ verdict' = verdict
    BY <1>1 DEF Mine, Update
  <2>3. stage \in Nat /\ stage < LastStage
    BY <1>1 DEF Update, ArraysInv
  <2>4. DOMAIN a = Index /\ DOMAIN b = Index /\ DOMAIN c = Index
    BY DEF ArraysInv
  <2>5. Body(stage, ElementOf(e)) = Replayed(stage + 1)
    BY <2>2, <2>3, ReplayStep DEF ReplayInv
  <2> DEFINE x == Body(stage, ElementOf(e))
  <2>6. x = <<x[1], x[2], x[3]>>
    BY BodyIsTriple
  <2>7. /\ a' = [a EXCEPT ![e] = x[1]] /\ b' = [b EXCEPT ![e] = x[2]]
        /\ c' = [c EXCEPT ![e] = x[3]]
    BY <2>1
  <2>8. x = Replayed(stage + 1)
    BY <2>5
  <2> HIDE DEF x
  <2>9. ElementOf(e)' = Replayed(stage + 1)
    BY <2>2, <2>4, <2>6, <2>7, <2>8 DEF ElementOf
  <2>10. ASSUME NEW f \in Index, f # e PROVE ElementOf(f)' = ElementOf(f)
    BY <2>2, <2>4, <2>7, <2>10 DEF ElementOf
  <2> QED
    BY <2>1, <2>2, <2>9, <2>10 DEF ReplayInv, Replayed
<1>2. CASE Join
  <2>1. /\ stage' = stage + 1 /\ updated = Index /\ updated' = {} /\ verdict' = verdict
        /\ UNCHANGED <<a, b, c>>
    BY <1>2 DEF Join, AtBarrier
  <2>2. \A e \in Index : ElementOf(e)' = ElementOf(e)
    BY <2>1 DEF ElementOf
  <2> QED
    BY <2>1, <2>2 DEF ReplayInv, Replayed
<1>3. CASE CheckSTREAMresults
  <2>1. /\ stage = LastStage /\ updated = {}
        /\ verdict' = IF \A e \in Index : ElementOf(e) = Expected THEN "validates" ELSE "failed"
        /\ UNCHANGED <<a, b, c, stage, updated>>
    BY <1>3 DEF CheckSTREAMresults, ArraysInv, ElementOf
  <2>2. Replayed(LastStage) = Expected
    <3>1. LastStage # 0 /\ LastStage # 1 /\ LastStage - 2 = 4 * NTIMES
      BY LastStageType
    <3>2. (4 * NTIMES) \div 4 = NTIMES /\ (4 * NTIMES) % 4 = 0
      OBVIOUS
    <3> QED
      BY <3>1, <3>2 DEF Replayed, Expected
  <2>3. \A e \in Index : ElementOf(e) = Expected
    BY <2>1, <2>2 DEF ReplayInv
  <2>4. verdict' = "validates"
    BY <2>1, <2>3
  <2>5. \A e \in Index : ElementOf(e)' = ElementOf(e)
    BY <2>1 DEF ElementOf
  <2> QED
    BY <2>1, <2>4, <2>5 DEF ReplayInv, Replayed
<1>4. CASE Fork \/ OtherStep \/ UNCHANGED vars
  <2>1. UNCHANGED <<a, b, c, stage, updated, verdict>>
    BY <1>4 DEF Fork, OtherStep, LoadK, StoreK, Checktick, Summarise, vars
  <2>2. \A e \in Index : ElementOf(e)' = ElementOf(e)
    BY <2>1 DEF ElementOf
  <2> QED
    BY <2>1, <2>2 DEF ReplayInv, Replayed
<1> QED
  BY <1>1, <1>2, <1>3, <1>4 DEF Next, OtherStep

\* "Solution Validates" (lines 540-542) is the only verdict that the check can
\* give, for every size, team, schedule and number of iterations; SolutionValidates
\* adds that it gives one.
THEOREM CheckNeverFails == Spec => [](verdict # "failed")
<1>1. ArraysInv /\ ReplayInv /\ [Next]_vars => ReplayInv'
  BY NextReplayInv
<1>2. ReplayInv => verdict # "failed"
  BY DEF ReplayInv
<1> QED
  BY <1>1, <1>2, ArraysInvariance, InitReplayInv, PTL DEF Spec

-----------------------------------------------------------------------------
(***************************************************************************)
(* CoherenceCalibration, for every number of threads, cost per iteration   *)
(* and moment that a measurement may begin: the calibration never          *)
(* overshoots two seconds; a row can be of other threads than it names     *)
(* only where OpenMP adjusts its teams, and then of fewer.                 *)
(***************************************************************************)
USE MaxThreadsAssumption, DynamicAssumption, CostsAssumption, PhasesAssumption, CounterAssumption

\* In microseconds.
TwoSeconds == 2000000

\* The microseconds that the slowest thread needs for this measurement.
Work == num_its * cost

(***************************************************************************)
(* The calibration's invariant.  What the code reads is the elapsed time   *)
(* in whole milliseconds; what bounds the next measurement is the work of  *)
(* the last one, which can be up to a millisecond longer.                  *)
(***************************************************************************)
CalibrationInv ==
  /\ pc = "measure" => num_its = 1 \/ Work < TwoSeconds
  /\ pc = "adjust" => Work < 1000 * elapsed + 1000
  /\ NoOvershoot

(***************************************************************************)
(* Where the loop over num_threads stands: the rows written are those of   *)
(* the smaller numbers.  Of the teams: a number that passed the check is   *)
(* one that the machine provides, and the team last measured is of as many *)
(* threads, or of fewer if OpenMP adjusts its teams.                       *)
(***************************************************************************)
LoopInv ==
  /\ pc \in {"measure", "adjust", "hung", "exited"} => num_threads <= MaxThreads
  /\ pc = "done" => num_threads = MaxThreads + 1
  /\ Len(rows) = num_threads - 1
  /\ \A n \in 1..Len(rows) : rows[n].threads = n

TeamInv ==
  /\ pc = "exited" => num_threads > limit \/ dynamic
  /\ pc \in {"measure", "adjust"} => num_threads <= limit
  /\ pc = "adjust" => team = num_threads \/ (dynamic /\ team < num_threads)

\* OpenMP never grants more threads than a region asks for.
LEMMA TeamsAreSmaller ==
  ASSUME NEW n \in Nat \ {0}, limit \in ThreadLimits, NEW t \in Teams(n)
  PROVE  /\ t \in Nat /\ t >= 1 /\ t <= n
         /\ ~dynamic => t = IF n <= limit THEN n ELSE limit
<1>1. limit \in Nat \ {0}
  OBVIOUS
<1> QED
  BY <1>1 DEF Teams

\* Products of positive numbers are positive, for the provers.
LEMMA PositiveProduct ==
  ASSUME NEW m \in Nat \ {0}, NEW n \in Nat \ {0}
  PROVE  m * n \in Nat \ {0}
  OBVIOUS

\* A count that grows by one of the factors stays positive.
LEMMA FactorPositive ==
  ASSUME NEW e \in Nat
  PROVE  Factor(e) \in Nat \ {0}
<1>1. Factor(e) \in {1000, 100, 10, 3, 2}
  BY DEF Factor
<1> QED
  BY <1>1

\* The work of a measurement is a positive number of microseconds.
LEMMA WorkType ==
  ASSUME CalibrationTypeOK
  PROVE  num_its \in Nat /\ num_its > 0 /\ cost \in Nat /\ cost > 0 /\ Work \in Nat
<1>1. num_its \in Nat /\ num_its > 0 /\ cost \in Nat /\ cost > 0
  BY DEF CalibrationTypeOK
<1> QED
  BY <1>1 DEF Work

\* A measurement's elapsed time is its work cut off to milliseconds, one more
\* at most for when it began.
LEMMA MeasuredTime ==
  ASSUME NEW d \in Nat, NEW phase \in Phases, NEW e, e = (phase + d) \div 1000
  PROVE  /\ e \in Nat
         /\ d < 1000 * e + 1000
         /\ d < TwoSeconds => e <= 2000
<1>1. phase \in Nat /\ phase <= 999
  OBVIOUS
<1> QED
  BY <1>1, SMT DEF TwoSeconds

\* The factor that the code takes for the range of an elapsed time below a
\* second never brings work that fits it above two seconds.
LEMMA FactorKeepsBelowTwoSeconds ==
  ASSUME NEW e \in Nat, e < 1000, NEW d \in Nat, d < 1000 * e + 1000
  PROVE  d * Factor(e) < TwoSeconds
<1>1. CASE e = 0
  <2>1. Factor(e) = 1000
    BY <1>1 DEF Factor
  <2> QED
    BY <1>1, <2>1, SMT DEF TwoSeconds
<1>2. CASE e > 0 /\ e < 10
  <2>1. Factor(e) = 100
    BY <1>2 DEF Factor
  <2> QED
    BY <1>2, <2>1, SMT DEF TwoSeconds
<1>3. CASE e >= 10 /\ e < 100
  <2>1. Factor(e) = 10
    BY <1>3 DEF Factor
  <2> QED
    BY <1>3, <2>1, SMT DEF TwoSeconds
<1>4. CASE e >= 100 /\ e < 334
  <2>1. Factor(e) = 3
    BY <1>4 DEF Factor
  <2> QED
    BY <1>4, <2>1, SMT DEF TwoSeconds
<1>5. CASE e >= 334
  <2>1. Factor(e) = 2
    BY <1>5 DEF Factor
  <2> QED
    BY <1>5, <2>1, SMT DEF TwoSeconds
<1> QED
  BY <1>1, <1>2, <1>3, <1>4, <1>5

-----------------------------------------------------------------------------
\* Types and the loop over num_threads.

\* The calibration starts with the right types and before the first row.
LEMMA InitLoop == CalibrationInit => CalibrationTypeOK /\ LoopInv
  BY DEF CalibrationInit, CalibrationTypeOK, LoopInv

\* Every step of the calibration keeps the types.
LEMMA NextTypeOK ==
  ASSUME CalibrationTypeOK, LoopInv, [CalibrationNext]_calibrationVars
  PROVE  CalibrationTypeOK'
<1> USE DEF CalibrationTypeOK
<1>1. CASE SanityCheck
  BY <1>1 DEF SanityCheck
<1>2. CASE Measure
  <2>1. num_threads \in 1..MaxThreads /\ team' \in Teams(num_threads)
    BY <1>2 DEF Measure, LoopInv
  <2>2. team' \in Nat /\ team' >= 1 /\ team' <= num_threads
    BY <2>1, TeamsAreSmaller
  <2>3. PICK phase \in Phases : elapsed' = (phase + Work) \div 1000
    BY <1>2 DEF Measure, Work
  <2>a. Work \in Nat
    BY WorkType
  <2>4. elapsed' \in Nat
    BY <2>3, <2>a, MeasuredTime
  <2> QED
    BY <1>2, <2>1, <2>2, <2>4 DEF Measure
<1>3. CASE MeasureNeverEnds
  BY <1>3 DEF MeasureNeverEnds
<1>4. CASE MeasureLonger
  <2>1. num_its \in Nat \ {0} /\ Factor(elapsed) \in Nat \ {0}
    BY FactorPositive
  <2>2. num_its * Factor(elapsed) \in Nat \ {0}
    BY <2>1, PositiveProduct
  <2> QED
    BY <1>4, <2>2 DEF MeasureLonger
<1>5. CASE WriteRow
  BY <1>5 DEF WriteRow, NextThreads, LoopInv
<1>6. CASE AllMeasured
  BY <1>6 DEF AllMeasured
<1>7. CASE UNCHANGED calibrationVars
  BY <1>7 DEF calibrationVars
<1> QED
  BY <1>1, <1>2, <1>3, <1>4, <1>5, <1>6, <1>7 DEF CalibrationNext

\* Every step keeps the place of the loop over num_threads in the rows.
LEMMA NextLoopInv ==
  ASSUME CalibrationTypeOK, LoopInv, [CalibrationNext]_calibrationVars
  PROVE  LoopInv'
<1>1. CASE SanityCheck
  BY <1>1 DEF SanityCheck, LoopInv, CalibrationTypeOK
<1>2. CASE Measure
  BY <1>2 DEF Measure, LoopInv
<1>3. CASE MeasureNeverEnds
  BY <1>3 DEF MeasureNeverEnds, LoopInv
<1>4. CASE MeasureLonger
  BY <1>4 DEF MeasureLonger, LoopInv
<1>5. CASE WriteRow
  <2> DEFINE row == [threads |-> num_threads, team |-> team, elapsed |-> elapsed]
             Row == [threads : 1..MaxThreads, team : 1..MaxThreads, elapsed : Nat]
  <2>1. /\ num_threads \in 1..MaxThreads /\ rows \in Seq(Row) /\ row \in Row
        /\ rows' = Append(rows, row) /\ Len(rows) = num_threads - 1
        /\ num_threads' = num_threads + 1
    BY <1>5 DEF WriteRow, LoopInv, CalibrationTypeOK, NextThreads
  <2>2. row.threads = num_threads
    OBVIOUS
  <2> HIDE DEF row, Row
  <2>3. Len(rows') = num_threads
    BY <2>1
  <2>4. \A n \in 1..Len(rows') : rows'[n].threads = n
    <3> TAKE n \in 1..Len(rows')
    <3>1. CASE n = num_threads
      BY <2>1, <2>2, <3>1
    <3>2. CASE n # num_threads
      <4>1. n \in 1..Len(rows) /\ rows'[n] = rows[n]
        BY <2>1, <2>3, <3>2
      <4> QED
        BY <4>1 DEF LoopInv
    <3> QED
      BY <3>1, <3>2
  <2> QED
    BY <1>5, <2>1, <2>3, <2>4 DEF LoopInv, WriteRow
<1>6. CASE AllMeasured
  BY <1>6 DEF AllMeasured, LoopInv, CalibrationTypeOK
<1>7. CASE UNCHANGED calibrationVars
  BY <1>7 DEF calibrationVars, LoopInv
<1> QED
  BY <1>1, <1>2, <1>3, <1>4, <1>5, <1>6, <1>7 DEF CalibrationNext

\* The types and the loop's place hold throughout.
LEMMA LoopInvariance == CalibrationSpec => [](CalibrationTypeOK /\ LoopInv)
<1> QED
  BY InitLoop, NextTypeOK, NextLoopInv, PTL DEF CalibrationSpec

\* Type correctness of the calibration for every machine and build.
THEOREM CalibrationTypeCorrect == CalibrationSpec => []CalibrationTypeOK
<1> QED
  BY LoopInvariance, PTL

-----------------------------------------------------------------------------
\* The calibration.

\* No measurement has been made at the start.
LEMMA InitCalibrationInv == CalibrationInit => CalibrationInv
  BY DEF CalibrationInit, CalibrationInv, NoOvershoot

\* Measuring and adjusting keep the bound on the next measurement.
LEMMA NextCalibrationInv ==
  ASSUME CalibrationTypeOK, CalibrationInv, [CalibrationNext]_calibrationVars
  PROVE  CalibrationInv'
<1>1. CASE SanityCheck
  BY <1>1 DEF SanityCheck, CalibrationInv, NoOvershoot
<1>2. CASE Measure
  <2>1. PICK phase \in Phases : elapsed' = (phase + Work) \div 1000
    BY <1>2 DEF Measure, Work
  <2>2. /\ Work < 1000 * elapsed' + 1000
        /\ Work < TwoSeconds => elapsed' <= 2000
    BY <2>1, WorkType, MeasuredTime
  <2>3. Work' = Work /\ num_its' = num_its /\ pc' = "adjust" /\ pc = "measure"
    BY <1>2 DEF Measure, Work
  <2> QED
    BY <2>2, <2>3 DEF CalibrationInv, NoOvershoot
<1>3. CASE MeasureNeverEnds
  BY <1>3 DEF MeasureNeverEnds, CalibrationInv, NoOvershoot
<1>4. CASE MeasureLonger
  <2>1. elapsed \in Nat /\ elapsed < 1000 /\ Work < 1000 * elapsed + 1000
    BY <1>4 DEF MeasureLonger, CalibrationInv, CalibrationTypeOK
  <2>2. Work * Factor(elapsed) < TwoSeconds
    BY <2>1, WorkType, FactorKeepsBelowTwoSeconds
  <2>3. Work' = Work * Factor(elapsed)
    <3>1. num_its' = num_its * Factor(elapsed) /\ cost' = cost
      BY <1>4 DEF MeasureLonger
    <3>2. num_its \in Nat /\ cost \in Nat /\ Factor(elapsed) \in Nat
      BY <2>1, WorkType, FactorPositive
    <3>3. \A n, w, f \in Nat : (n * f) * w = (n * w) * f
      OBVIOUS
    <3> QED
      BY <3>1, <3>2, <3>3 DEF Work
  <2>4. pc' = "measure"
    BY <1>4 DEF MeasureLonger
  <2> QED
    BY <2>2, <2>3, <2>4 DEF CalibrationInv, NoOvershoot
<1>5. CASE WriteRow
  BY <1>5 DEF WriteRow, CalibrationInv, NoOvershoot
<1>6. CASE AllMeasured
  BY <1>6 DEF AllMeasured, CalibrationInv, NoOvershoot
<1>7. CASE UNCHANGED calibrationVars
  BY <1>7 DEF calibrationVars, CalibrationInv, NoOvershoot, Work
<1> QED
  BY <1>1, <1>2, <1>3, <1>4, <1>5, <1>6, <1>7 DEF CalibrationNext

\* The calibration's thresholds and factors fit: whatever an iteration costs
\* and whenever a measurement begins, one that follows another takes at most
\* two seconds.
THEOREM CalibrationNeverOvershoots == CalibrationSpec => []NoOvershoot
<1>1. CalibrationInv => NoOvershoot
  BY DEF CalibrationInv
<1> QED
  BY <1>1, LoopInvariance, InitCalibrationInv, NextCalibrationInv, PTL DEF CalibrationSpec

(***************************************************************************)
(* Line 193's loop cannot go on for ever: each turn of it at least doubles *)
(* num_its, a count of millions that stays below two million.  So no       *)
(* number of threads is measured more than 21 times, and num_iterations,   *)
(* a long, does not overflow, however fast the machine.                    *)
(***************************************************************************)
GrowsWithinBound == MeasureLonger => 2 * num_its <= num_its' /\ num_its' < TwoSeconds

\* A turn of the loop doubles the count and keeps it below its bound.
LEMMA TurnGrows ==
  ASSUME CalibrationTypeOK, CalibrationInv, MeasureLonger
  PROVE  2 * num_its <= num_its' /\ num_its' < TwoSeconds
<1>1. /\ elapsed \in Nat /\ elapsed < 1000 /\ Work < 1000 * elapsed + 1000
      /\ num_its' = num_its * Factor(elapsed)
  BY DEF MeasureLonger, CalibrationInv, CalibrationTypeOK
<1> DEFINE n == num_its
           f == Factor(elapsed)
<1>2. f \in Nat /\ f >= 2
  BY <1>1 DEF Factor
<1>3. n \in Nat /\ n > 0 /\ cost \in Nat /\ cost > 0 /\ Work \in Nat
  BY WorkType
<1>4. n <= Work
  <2>1. \A x \in Nat, y \in Nat \ {0} : x <= x * y
    OBVIOUS
  <2> QED
    BY <2>1, <1>3 DEF Work
<1>5. Work * f < TwoSeconds
  BY <1>1, <1>3, FactorKeepsBelowTwoSeconds
<1> HIDE DEF n, f
<1>6. \A x, y, z \in Nat : x <= y => x * z <= y * z
  OBVIOUS
<1>7. n * f <= Work * f
  BY <1>2, <1>3, <1>4, <1>6
<1>8. 2 * n <= n * f
  <2>1. 2 * n <= f * n
    BY <1>2, <1>3, <1>6
  <2> QED
    BY <2>1, <1>2, <1>3
<1>9. n * f \in Nat /\ Work * f \in Nat
  BY <1>2, <1>3
<1> QED
  BY <1>1, <1>5, <1>7, <1>8, <1>9 DEF n, f, TwoSeconds

\* The calibration of a number of threads has a bounded number of turns,
\* whatever an iteration costs and whenever a measurement begins; what can
\* still keep it from an end is a measurement that never ends (line 12).
THEOREM CalibrationIsBounded == CalibrationSpec => [][GrowsWithinBound]_calibrationVars
<1>1. CalibrationTypeOK /\ CalibrationInv /\ [CalibrationNext]_calibrationVars
      => [GrowsWithinBound]_calibrationVars
  BY TurnGrows DEF GrowsWithinBound
<1> QED
  BY <1>1, LoopInvariance, InitCalibrationInv, NextCalibrationInv, PTL DEF CalibrationSpec

-----------------------------------------------------------------------------
\* The rows and their teams, whether or not OpenMP adjusts these.

RowsInv == TeamInv /\ RowsShortOnlyIfDynamic

\* No row has been written at the start.
LEMMA InitRowsInv == CalibrationInit => RowsInv
  BY DEF CalibrationInit, RowsInv, TeamInv, RowsShortOnlyIfDynamic

\* Every step keeps the team that the check was granted, or one that OpenMP
\* has made smaller.
LEMMA NextRowsInv ==
  ASSUME CalibrationTypeOK, LoopInv, RowsInv, [CalibrationNext]_calibrationVars
  PROVE  RowsInv'
<1> USE DEF RowsInv
<1>a. num_threads \in Nat \ {0} /\ limit \in Nat \ {0} /\ limit \in ThreadLimits
  BY DEF CalibrationTypeOK
<1>1. CASE SanityCheck
  <2>1. PICK t \in Teams(num_threads) :
          pc' = IF TeamAccepted(num_threads, t) THEN "measure" ELSE "exited"
    BY <1>1 DEF SanityCheck
  <2>2. dynamic \/ t = IF num_threads <= limit THEN num_threads ELSE limit
    BY <1>a, TeamsAreSmaller
  <2>3. t <= num_threads /\ t <= limit /\ t \in Nat
    BY <1>a DEF Teams
  <2>4. UNCHANGED <<num_threads, team, limit, dynamic, rows>> /\ pc' \in {"measure", "exited"}
    BY <1>1, <2>1 DEF SanityCheck
  <2>5. pc' = "measure" => num_threads <= limit
    BY <1>a, <2>1, <2>3 DEF TeamAccepted
  <2>6. pc' = "exited" => num_threads > limit \/ dynamic
    BY <1>a, <2>1, <2>2 DEF TeamAccepted
  <2> QED
    BY <2>4, <2>5, <2>6 DEF TeamInv, RowsShortOnlyIfDynamic
<1>2. CASE Measure
  <2>1. num_threads <= limit /\ team' \in Teams(num_threads)
    BY <1>2 DEF Measure, TeamInv
  <2>2. team' = num_threads \/ (dynamic /\ team' < num_threads)
    BY <1>a, <2>1, TeamsAreSmaller
  <2> QED
    BY <1>2, <2>1, <2>2 DEF Measure, TeamInv, RowsShortOnlyIfDynamic
<1>3. CASE MeasureNeverEnds
  BY <1>3 DEF MeasureNeverEnds, TeamInv, RowsShortOnlyIfDynamic
<1>4. CASE MeasureLonger
  BY <1>4 DEF MeasureLonger, TeamInv, RowsShortOnlyIfDynamic
<1>5. CASE WriteRow
  <2> DEFINE row == [threads |-> num_threads, team |-> team, elapsed |-> elapsed]
             Row == [threads : 1..MaxThreads, team : 1..MaxThreads, elapsed : Nat]
  <2>1. row.team = row.threads \/ (dynamic /\ row.team < row.threads)
    BY <1>5 DEF WriteRow, TeamInv
  <2>2. rows \in Seq(Row) /\ row \in Row /\ rows' = Append(rows, row)
    BY <1>5 DEF WriteRow, CalibrationTypeOK, LoopInv
  <2> HIDE DEF row, Row
  <2>3. RowsShortOnlyIfDynamic'
    <3> SUFFICES ASSUME NEW n \in 1..Len(rows')
                 PROVE  \/ rows'[n].team = rows'[n].threads
                        \/ dynamic /\ rows'[n].team < rows'[n].threads
      BY <1>5 DEF RowsShortOnlyIfDynamic, WriteRow
    <3>1. CASE n = Len(rows) + 1
      BY <2>1, <2>2, <3>1
    <3>2. CASE n # Len(rows) + 1
      <4>1. n \in 1..Len(rows) /\ rows'[n] = rows[n]
        BY <2>2, <3>2
      <4> QED
        BY <4>1 DEF RowsShortOnlyIfDynamic
    <3> QED
      BY <3>1, <3>2
  <2> QED
    BY <1>5, <2>3 DEF WriteRow, TeamInv
<1>6. CASE AllMeasured
  BY <1>6 DEF AllMeasured, TeamInv, RowsShortOnlyIfDynamic
<1>7. CASE UNCHANGED calibrationVars
  BY <1>7 DEF calibrationVars, TeamInv, RowsShortOnlyIfDynamic
<1> QED
  BY <1>1, <1>2, <1>3, <1>4, <1>5, <1>6, <1>7 DEF CalibrationNext

\* What is said of the rows and their teams holds throughout.
LEMMA RowsInvariance == CalibrationSpec => []RowsInv
<1>1. CalibrationTypeOK /\ LoopInv /\ RowsInv /\ [CalibrationNext]_calibrationVars => RowsInv'
  BY NextRowsInv
<1> QED
  BY <1>1, LoopInvariance, InitRowsInv, PTL DEF CalibrationSpec

\* The check made once before the measurements (lines 166-178) leaves one way
\* for a row to be of other threads than it names: that OpenMP adjusts the team
\* afterwards.  Then it is of fewer, never of more.
THEOREM RowsNameTheirTeam == CalibrationSpec => []RowsShortOnlyIfDynamic
<1>1. RowsInv => RowsShortOnlyIfDynamic
  BY DEF RowsInv
<1> QED
  BY <1>1, RowsInvariance, PTL

\* The output has a row for each number of threads, in order, up to the last or
\* the first that could not be had; that one is above what the machine provides
\* unless OpenMP adjusts its teams.
THEOREM OutputIsComplete == CalibrationSpec => []RowsComplete
<1>1. CalibrationTypeOK /\ LoopInv /\ RowsInv => RowsComplete
  <2> SUFFICES ASSUME CalibrationTypeOK, LoopInv, RowsInv PROVE RowsComplete
    OBVIOUS
  <2>1. num_threads \in Nat /\ limit \in Nat /\ Len(rows) = num_threads - 1
    BY DEF CalibrationTypeOK, LoopInv
  <2>2. pc = "exited" => num_threads > limit \/ dynamic
    BY DEF RowsInv, TeamInv
  <2> QED
    BY <2>1, <2>2 DEF LoopInv, RowsComplete
<1> QED
  BY <1>1, LoopInvariance, RowsInvariance, PTL
=============================================================================
