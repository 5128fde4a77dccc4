-------------------------- MODULE ExperimentProofs --------------------------
(***************************************************************************)
(* Proofs about Mpbw and ExperimentPipeline for every volume, number of    *)
(* threads, list of policies and number of jobs: what a measurement of     *)
(* mpbw.cpp reads, what is left in g_sum, which rows mpbw.csv gets, and    *)
(* what the job script makes of the files.                                 *)
(***************************************************************************)
EXTENDS ExperimentPipeline, FiniteSetTheorems, TLAPS

USE PoliciesAssumption, MaxJobsAssumption, NAssumption, DurationsAssumption

-----------------------------------------------------------------------------
(***************************************************************************)
(* What a measurement of mpbw.cpp keeps true.  Every thread of the team    *)
(* has a segment of the same length, and so makes the same number of reads *)
(* before it returns.  A thread that adds to g_sum adds them to what some  *)
(* of the threads that returned before have left there: g_sum is at least  *)
(* one thread's reads once one has returned, and at most those of all that *)
(* have.                                                                   *)
(***************************************************************************)
SegmentReads == (segment_length + CacheLine - 1) \div CacheLine

Returned == {t \in Team : t < spawned /\ phase[t] = "end"}

ReadsInv ==
  \A t \in Team : t < spawned =>
    /\ ReadsOf(t) \in 0..SegmentReads
    /\ at[t] = SegmentStart(t) + ReadsOf(t) * CacheLine
    /\ phase[t] # "sum" => ReadsOf(t) = SegmentReads

SumInv ==
  /\ g_sum <= SegmentReads * Cardinality(Returned)
  /\ Returned # {} => g_sum >= SegmentReads
  /\ \A t \in Team : t < spawned /\ phase[t] = "store" =>
       loaded[t] <= SegmentReads * Cardinality(Returned)

BestInv ==
  /\ attempt = 0 => seen = {}
  /\ attempt > 0 => best \in seen /\ \A d \in seen : best <= d
  /\ attempt = N + 1 => pc = "joined"
  /\ pc = "joined" => elapsed \in Durations

\* The n-th row of a whole mpbw.csv.
RowThreads(n) == IF n <= 2 THEN 1 ELSE 2 * ((n - 1) \div 2)
RowPrefetch(n) == n % 2 = 0

RowsInv ==
  /\ \A n \in 1..Len(rows) :
       rows[n].threads = RowThreads(n) /\ rows[n].prefetch = RowPrefetch(n)
  /\ IF threads <= MAX_THREADS
     THEN threads = RowThreads(Len(rows) + 1) /\ prefetch = RowPrefetch(Len(rows) + 1)
     ELSE Len(rows) = 2 + 2 * (MAX_THREADS \div 2)

MpbwInv ==
  /\ TypeOK
  /\ pc \in {"running", "joined"} => threads <= MAX_THREADS /\ ReadsInv /\ SumInv
  /\ pc = "joined" => AllJoined
  /\ pc = "done" => threads > MAX_THREADS
  /\ BestInv
  /\ RowsInv

\* The data and the team, as numbers.
LEMMA VolumeFacts ==
  /\ CacheLine \in Nat \ {0} /\ MAX_THREADS \in Nat \ {0} /\ MAX_THREADS <= CacheLine
  /\ DataVolume \in Nat
  /\ Lines \in Nat /\ DataVolume = Lines * CacheLine
<1>1. CacheLine \in Nat \ {0} /\ DataVolume \in Nat /\ DataVolume % CacheLine = 0
      /\ MAX_THREADS \in 1..CacheLine
  BY VolumeAssumption
<1>2. Lines \in Nat /\ DataVolume = Lines * CacheLine
  BY <1>1, SMTT(30) DEF Lines
<1> QED
  BY <1>1, <1>2

\* The segments of a team are as long as each other, a line long at least, and
\* leave out less than a byte a thread.
LEMMA SegmentLength ==
  ASSUME threads \in 1..MAX_THREADS
  PROVE  /\ segment_length \in Nat /\ segment_length >= CacheLine
         /\ segment_length * threads \in Nat
         /\ segment_length * threads <= DataVolume
         /\ DataVolume < segment_length * threads + threads
         /\ DataVolume % threads = 0 => segment_length * threads = DataVolume
<1>1. threads \in Nat \ {0} /\ DataVolume \in Nat /\ CacheLine \in Nat
  BY VolumeFacts
<1>2. CacheLine * threads <= DataVolume
  <2>1. CacheLine * threads <= CacheLine * MAX_THREADS
    BY VolumeFacts, SMTT(30)
  <2>2. CacheLine * MAX_THREADS <= DataVolume /\ CacheLine * MAX_THREADS \in Nat
        /\ CacheLine * threads \in Nat
    BY VolumeAssumption, <1>1, VolumeFacts, SMTT(30)
  <2> QED
    BY <2>1, <2>2, <1>1
<1>3. /\ segment_length \in Nat
      /\ segment_length * threads \in Nat
      /\ segment_length * threads <= DataVolume
      /\ DataVolume < segment_length * threads + threads
      /\ DataVolume % threads = 0 => segment_length * threads = DataVolume
  BY <1>1, SMTT(30) DEF segment_length
<1>4. segment_length >= CacheLine
  BY <1>1, <1>2, SMTT(30) DEF segment_length
<1> QED
  BY <1>3, <1>4

\* A thread reads until it is past its segment, and no further.
LEMMA SegmentReadsFacts ==
  ASSUME threads \in 1..MAX_THREADS
  PROVE  /\ SegmentReads \in Nat \ {0} /\ SegmentReads <= segment_length
         /\ SegmentReads * CacheLine \in Nat
         /\ segment_length <= SegmentReads * CacheLine
         /\ SegmentReads * CacheLine < segment_length + CacheLine
<1>1. /\ segment_length \in Nat \ {0} /\ CacheLine \in Nat \ {0}
  BY SegmentLength, VolumeFacts
<1>2. /\ SegmentReads \in Nat
      /\ SegmentReads * CacheLine \in Nat
      /\ segment_length <= SegmentReads * CacheLine
      /\ SegmentReads * CacheLine < segment_length + CacheLine
  BY <1>1, SMTT(30) DEF SegmentReads
<1>3. SegmentReads # 0
  BY <1>1, <1>2
<1>4. SegmentReads <= segment_length
  <2>1. SegmentReads > segment_length => SegmentReads * CacheLine >= segment_length + CacheLine
    <3> HAVE SegmentReads > segment_length
    <3>1. SegmentReads * CacheLine >= (segment_length + 1) * CacheLine
      BY <1>1, <1>2, SMTT(30)
    <3>2. (segment_length + 1) * CacheLine = segment_length * CacheLine + CacheLine
      BY <1>1, SMTT(30)
    <3>3. segment_length * CacheLine >= segment_length /\ segment_length * CacheLine \in Nat
      BY <1>1, SMTT(30)
    <3> QED
      BY <1>1, <1>2, <3>1, <3>2, <3>3
  <2> QED
    BY <1>1, <1>2, <2>1
<1> QED
  BY <1>2, <1>3, <1>4

\* The segments lie one after the other in the data.
LEMMA SegmentFacts ==
  ASSUME threads \in 1..MAX_THREADS, NEW t \in Team
  PROVE  /\ t \in Nat /\ t < threads /\ t \in Thread
         /\ SegmentStart(t) \in Nat
         /\ SegmentEnd(t) = SegmentStart(t) + segment_length
         /\ SegmentEnd(t) <= DataVolume
<1>1. t \in Nat /\ t + 1 <= threads /\ t \in Thread /\ threads \in Nat
  BY VolumeFacts DEF Team, Thread
<1>2. segment_length \in Nat
  BY SegmentLength
<1>3. SegmentStart(t) \in Nat /\ SegmentEnd(t) = SegmentStart(t) + segment_length
  BY <1>1, <1>2, SMTT(30) DEF SegmentStart, SegmentEnd
<1>4. segment_length * (t + 1) <= segment_length * threads
  BY <1>1, <1>2, SMTT(30)
<1> QED
  BY <1>1, <1>2, <1>3, <1>4, SegmentLength, VolumeFacts DEF SegmentEnd

\* The team has as many threads as its number says.
LEMMA TeamIsFinite ==
  ASSUME threads \in Nat
  PROVE  IsFiniteSet(Team) /\ Cardinality(Team) = threads
  BY FS_Interval DEF Team

\* At most the team has returned.
LEMMA ReturnedFacts ==
  ASSUME threads \in Nat
  PROVE  /\ IsFiniteSet(Returned) /\ Cardinality(Returned) \in Nat
         /\ Cardinality(Returned) <= threads
<1>1. IsFiniteSet(Team) /\ Cardinality(Team) = threads
  BY TeamIsFinite
<1>2. Returned \in SUBSET Team
  BY DEF Returned
<1> QED
  BY <1>1, <1>2, FS_Subset, FS_CardinalityType

\* A thread stops reading after SegmentReads reads, and not before.
LEMMA ReadsLeft ==
  ASSUME threads \in 1..MAX_THREADS, NEW k \in 0..SegmentReads
  PROVE  /\ k * CacheLine \in Nat
         /\ k * CacheLine < segment_length => k + 1 \in 0..SegmentReads
         /\ k * CacheLine >= segment_length => k = SegmentReads
         /\ k * CacheLine < segment_length + CacheLine
<1>1. /\ SegmentReads \in Nat /\ CacheLine \in Nat \ {0} /\ k \in Nat /\ segment_length \in Nat
      /\ segment_length <= SegmentReads * CacheLine
      /\ SegmentReads * CacheLine < segment_length + CacheLine
  BY SegmentReadsFacts, SegmentLength, VolumeFacts
<1> HIDE DEF SegmentReads, segment_length
<1>2. k * CacheLine \in Nat /\ k * CacheLine <= SegmentReads * CacheLine
  BY <1>1, SMTT(30)
<1>3. k < SegmentReads => k * CacheLine <= SegmentReads * CacheLine - CacheLine
  <2> HAVE k < SegmentReads
  <2>1. k * CacheLine <= (SegmentReads - 1) * CacheLine
    BY <1>1, SMTT(30)
  <2>2. (SegmentReads - 1) * CacheLine = SegmentReads * CacheLine - CacheLine
    BY <1>1, SMTT(30)
  <2> QED
    BY <2>1, <2>2
<1>4. SegmentReads * CacheLine \in Nat
  BY <1>1, SMTT(30)
<1> QED
  BY <1>1, <1>2, <1>3, <1>4

\* While the team stays, so do its segments.
LEMMA SameTeam ==
  ASSUME threads' = threads
  PROVE  /\ Team' = Team /\ segment_length' = segment_length
         /\ SegmentReads' = SegmentReads
         /\ \A t : SegmentStart(t)' = SegmentStart(t) /\ SegmentEnd(t)' = SegmentEnd(t)
  BY DEF Team, segment_length, SegmentReads, SegmentStart, SegmentEnd

\* The running threads are of the team that is measured.
LEMMA RunningInTeam ==
  ASSUME MpbwInv, NEW t \in Thread, Running(t)
  PROVE  /\ t \in Team /\ t < spawned /\ threads \in 1..MAX_THREADS
         /\ ReadsInv /\ SumInv
  BY VolumeFacts DEF MpbwInv, TypeOK, Running, Team, Thread

\* Every step of a measurement keeps the reads of the threads.
LEMMA NextReadsInv ==
  ASSUME MpbwInv, Measuring, pc' \in {"running", "joined"}
  PROVE  ReadsInv'
<1>1. CASE StartClock
  <2>1. spawned' = 0 /\ threads' = threads /\ threads \in Nat
    BY <1>1 DEF StartClock, MpbwInv, TypeOK
  <2> QED
    BY <2>1 DEF ReadsInv, Team
<1>2. CASE Spawn
  <2>1. /\ threads \in 1..MAX_THREADS /\ ReadsInv /\ spawned \in Team /\ threads' = threads
        /\ spawned' = spawned + 1
        /\ phase' = [phase EXCEPT ![spawned] = "sum"]
        /\ at' = [at EXCEPT ![spawned] = SegmentStart(spawned)]
        /\ phase \in [Thread -> {"sum", "store", "end"}]
        /\ at \in [Thread -> 0..(DataVolume + CacheLine - 1)]
    BY <1>2, VolumeFacts DEF Spawn, MpbwInv, TypeOK, Team
  <2>2. spawned \in Thread /\ Team \subseteq Thread /\ spawned \in Nat /\ SegmentStart(spawned) \in Nat
    BY <2>1, VolumeFacts, SegmentFacts DEF Team, Thread
  <2> SUFFICES ASSUME NEW t \in Team, t < spawned'
               PROVE  /\ ReadsOf(t)' \in 0..SegmentReads
                      /\ at'[t] = SegmentStart(t) + ReadsOf(t)' * CacheLine
                      /\ phase'[t] # "sum" => ReadsOf(t)' = SegmentReads
    BY <2>1, SameTeam DEF ReadsInv
  <2>3. CASE t = spawned
    <3>1. at'[t] = SegmentStart(t) /\ phase'[t] = "sum"
      BY <2>1, <2>2, <2>3
    <3>2. ReadsOf(t)' = 0
      <4>1. ReadsOf(t)' = (SegmentStart(t) - SegmentStart(t)) \div CacheLine
        BY <2>1, <3>1, SameTeam DEF ReadsOf
      <4>2. SegmentStart(t) - SegmentStart(t) = 0 /\ 0 \div CacheLine = 0
        BY <2>2, <2>3, VolumeFacts
      <4> QED
        BY <4>1, <4>2
    <3> QED
      BY <2>2, <2>3, <3>1, <3>2, <2>1, SegmentReadsFacts, VolumeFacts
  <2>4. CASE t # spawned
    <3>1. at'[t] = at[t] /\ phase'[t] = phase[t] /\ t < spawned
      BY <2>1, <2>2, <2>4 DEF Team
    <3>2. ReadsOf(t)' = ReadsOf(t)
      BY <2>1, <3>1, SameTeam DEF ReadsOf
    <3> QED
      BY <2>1, <3>1, <3>2 DEF ReadsInv
  <2> QED
    BY <2>3, <2>4
<1>3. ASSUME NEW u \in Thread, Read(u) PROVE ReadsInv'
  <2>1. /\ u \in Team /\ u < spawned /\ threads \in 1..MAX_THREADS /\ ReadsInv
        /\ threads' = threads /\ spawned' = spawned /\ phase' = phase /\ phase[u] = "sum"
        /\ at[u] < SegmentEnd(u)
        /\ at' = [at EXCEPT ![u] = @ + CacheLine]
        /\ at \in [Thread -> 0..(DataVolume + CacheLine - 1)]
    BY <1>3, RunningInTeam DEF Read, MpbwInv, TypeOK
  <2> SUFFICES ASSUME NEW t \in Team, t < spawned
               PROVE  /\ ReadsOf(t)' \in 0..SegmentReads
                      /\ at'[t] = SegmentStart(t) + ReadsOf(t)' * CacheLine
                      /\ phase'[t] # "sum" => ReadsOf(t)' = SegmentReads
    BY <2>1, SameTeam DEF ReadsInv
  <2>2. CASE t = u
    <3> DEFINE k == ReadsOf(t)
    <3>1. k \in 0..SegmentReads /\ at[t] = SegmentStart(t) + k * CacheLine
      BY <2>1, <2>2 DEF ReadsInv
    <3>2. at'[t] = at[t] + CacheLine
      BY <1>3, <2>1, <2>2
    <3>3. ReadsOf(t)' = (at'[t] - SegmentStart(t)) \div CacheLine
      BY <2>1, SameTeam DEF ReadsOf
    <3> HIDE DEF k
    <3>4. /\ SegmentStart(t) \in Nat /\ SegmentEnd(t) = SegmentStart(t) + segment_length
          /\ k * CacheLine \in Nat /\ k \in Nat /\ CacheLine \in Nat \ {0}
          /\ k * CacheLine < segment_length => k + 1 \in 0..SegmentReads
          /\ segment_length \in Nat
      BY <2>1, <3>1, SegmentFacts, ReadsLeft, VolumeFacts, SegmentLength, SegmentReadsFacts
    <3>5. k + 1 \in 0..SegmentReads
      BY <2>1, <2>2, <3>1, <3>4
    <3>6. at'[t] - SegmentStart(t) = (k + 1) * CacheLine + 0
      <4>1. (k + 1) * CacheLine = k * CacheLine + CacheLine
        BY <3>4, SMTT(30)
      <4> QED
        BY <3>1, <3>2, <3>4, <4>1
    <3>7. ((k + 1) * CacheLine + 0) \div CacheLine = k + 1
      BY <3>4, SMTT(30)
    <3>8. ReadsOf(t)' = k + 1
      BY <3>3, <3>6, <3>7
    <3>9. at'[t] = SegmentStart(t) + (k + 1) * CacheLine
      <4>1. (k + 1) * CacheLine = k * CacheLine + CacheLine
        BY <3>4, SMTT(30)
      <4> QED
        BY <3>1, <3>2, <3>4, <4>1
    <3> QED
      BY <2>1, <2>2, <3>5, <3>8, <3>9
  <2>3. CASE t # u
    <3>1. at'[t] = at[t] /\ phase'[t] = phase[t]
      BY <2>1, <2>3, VolumeFacts DEF Team, Thread
    <3>2. ReadsOf(t)' = ReadsOf(t)
      BY <2>1, <3>1, SameTeam DEF ReadsOf
    <3> QED
      BY <2>1, <3>1, <3>2 DEF ReadsInv
  <2> QED
    BY <2>2, <2>3
<1>4. ASSUME NEW u \in Thread, LoadGSum(u) \/ StoreGSum(u) PROVE ReadsInv'
  <2>1. /\ u \in Team /\ u < spawned /\ threads \in 1..MAX_THREADS /\ ReadsInv
        /\ threads' = threads /\ spawned' = spawned /\ at' = at
        /\ \A t \in Thread : t # u => phase'[t] = phase[t]
        /\ phase[u] # "sum" \/ at[u] >= SegmentEnd(u)
    BY <1>4, RunningInTeam DEF LoadGSum, StoreGSum, MpbwInv, TypeOK
  <2>2. ReadsOf(u) = SegmentReads
    <3>1. CASE phase[u] # "sum"
      BY <2>1, <3>1 DEF ReadsInv
    <3>2. CASE at[u] >= SegmentEnd(u)
      <4> DEFINE k == ReadsOf(u)
      <4>1. k \in 0..SegmentReads /\ at[u] = SegmentStart(u) + k * CacheLine
        BY <2>1 DEF ReadsInv
      <4> HIDE DEF k
      <4>2. /\ SegmentStart(u) \in Nat /\ SegmentEnd(u) = SegmentStart(u) + segment_length
            /\ k * CacheLine \in Nat /\ segment_length \in Nat
            /\ k * CacheLine >= segment_length => k = SegmentReads
        BY <2>1, <4>1, SegmentFacts, ReadsLeft, SegmentLength
      <4> QED
        BY <3>2, <4>1, <4>2 DEF k
    <3> QED
      BY <2>1, <3>1, <3>2
  <2>3. \A t \in Team : ReadsOf(t)' = ReadsOf(t) /\ SegmentStart(t)' = SegmentStart(t)
    BY <2>1, SameTeam DEF ReadsOf
  <2>4. Team' = Team /\ SegmentReads' = SegmentReads /\ Team \subseteq Thread
    BY <2>1, SameTeam, VolumeFacts DEF Team, Thread
  <2> QED
    BY <2>1, <2>2, <2>3, <2>4 DEF ReadsInv
<1>5. CASE StopClock \/ Compare
  <2>1. UNCHANGED <<threads, spawned, at, phase>> /\ ReadsInv
    BY <1>5 DEF StopClock, Compare, perThread, MpbwInv
  <2> QED
    BY <2>1, SameTeam DEF ReadsInv, ReadsOf
<1>6. CASE WriteRow
  BY <1>6 DEF WriteRow
<1> QED
  BY <1>1, <1>2, <1>3, <1>4, <1>5, <1>6 DEF Measuring

\* Every step of a measurement keeps what is known of g_sum.
LEMMA NextSumInv ==
  ASSUME MpbwInv, Measuring, pc' \in {"running", "joined"}
  PROVE  SumInv'
<1>1. CASE StartClock
  <2>1. spawned' = 0 /\ threads' = threads /\ g_sum' = 0 /\ threads \in 1..MAX_THREADS
    BY <1>1, VolumeFacts DEF StartClock, MpbwInv, TypeOK
  <2>2. Returned' = {} /\ \A t \in Team' : ~(t < spawned')
    BY <2>1 DEF Returned, Team
  <2>3. SegmentReads' = SegmentReads /\ SegmentReads \in Nat /\ Cardinality({}) = 0
    BY <2>1, SameTeam, SegmentReadsFacts, FS_EmptySet
  <2> QED
    BY <2>1, <2>2, <2>3 DEF SumInv
<1>2. ASSUME NEW u \in Thread, StoreGSum(u)
      PROVE  SumInv'
  <2>1. /\ u \in Team /\ u < spawned /\ threads \in 1..MAX_THREADS /\ ReadsInv /\ SumInv
        /\ threads' = threads /\ spawned' = spawned /\ loaded' = loaded /\ phase[u] = "store"
        /\ phase' = [phase EXCEPT ![u] = "end"] /\ phase \in [Thread -> {"sum", "store", "end"}]
        /\ g_sum' = loaded[u] + ReadsOf(u)
        /\ loaded \in [Thread -> 0..DataVolume]
    BY <1>2, RunningInTeam DEF StoreGSum, MpbwInv, TypeOK
  <2>2. u \notin Returned /\ Returned' = Returned \union {u}
    BY <2>1, SameTeam DEF Returned
  <2>3. IsFiniteSet(Returned) /\ Cardinality(Returned) \in Nat
    BY <2>1, ReturnedFacts
  <2>4. Cardinality(Returned') = Cardinality(Returned) + 1
    BY <2>2, <2>3, FS_AddElement
  <2> DEFINE c == Cardinality(Returned)
             r == SegmentReads
  <2>5. c \in Nat /\ r \in Nat \ {0} /\ r' = r /\ Cardinality(Returned)' = c + 1
    BY <2>1, <2>3, <2>4, SameTeam, SegmentReadsFacts
  <2>6. g_sum' = loaded[u] + r /\ loaded[u] <= r * c /\ loaded[u] \in Nat
    BY <2>1 DEF ReadsInv, SumInv, Thread, Team
  <2>7. \A t \in Team : t < spawned /\ phase'[t] = "store" => loaded[t] <= r * c /\ loaded[t] \in Nat
    BY <2>1, VolumeFacts DEF SumInv, Thread, Team
  <2> HIDE DEF c, r
  <2>8. r * (c + 1) = r * c + r /\ r * c \in Nat
    BY <2>5, SMTT(30)
  <2>9. /\ g_sum' <= r * (c + 1) /\ g_sum' >= r
        /\ \A t \in Team : t < spawned /\ phase'[t] = "store" => loaded[t] <= r * (c + 1)
    BY <2>5, <2>6, <2>7, <2>8
  <2>10. Team' = Team /\ SegmentReads' = r /\ Cardinality(Returned') = c + 1
    BY <2>1, <2>4, SameTeam DEF r, c
  <2> QED
    BY <2>1, <2>9, <2>10 DEF SumInv
<1>3. ASSUME NEW u \in Thread, Read(u) \/ LoadGSum(u)
      PROVE  SumInv'
  <2>1. /\ u \in Team /\ threads \in 1..MAX_THREADS /\ SumInv /\ phase[u] = "sum"
        /\ threads' = threads /\ spawned' = spawned /\ g_sum' = g_sum
    BY <1>3, RunningInTeam DEF Read, LoadGSum
  <2>2. /\ phase' = phase \/ phase' = [phase EXCEPT ![u] = "store"]
        /\ phase' = phase => loaded' = loaded
        /\ loaded' = loaded \/ loaded' = [loaded EXCEPT ![u] = g_sum]
        /\ phase \in [Thread -> {"sum", "store", "end"}] /\ loaded \in [Thread -> 0..DataVolume]
    BY <1>3 DEF Read, LoadGSum, MpbwInv, TypeOK
  <2>3. Team \subseteq Thread
    BY <2>1, VolumeFacts DEF Team, Thread
  <2>4. \A t \in Team : (phase'[t] = "end") <=> (phase[t] = "end")
    BY <2>1, <2>2, <2>3
  <2>5. Returned' = Returned
    BY <2>1, <2>4, SameTeam DEF Returned
  <2>6. \A t \in Team : phase'[t] = "store" =>
          (phase[t] = "store" /\ loaded'[t] = loaded[t]) \/ loaded'[t] = g_sum
    <3> TAKE t \in Team
    <3>1. CASE t # u
      BY <2>2, <2>3, <3>1
    <3>2. CASE t = u
      <4>1. phase'[t] = "store" => loaded' = [loaded EXCEPT ![u] = g_sum]
        BY <1>3, <2>1, <2>2, <3>2 DEF Read, LoadGSum
      <4> QED
        BY <2>2, <2>3, <3>2, <4>1
    <3> QED
      BY <3>1, <3>2
  <2>7. Team' = Team /\ SegmentReads' = SegmentReads
    BY <2>1, SameTeam
  <2> QED
    BY <2>1, <2>5, <2>6, <2>7 DEF SumInv
<1>4. CASE Spawn
  <2>1. /\ SumInv /\ threads' = threads /\ g_sum' = g_sum /\ spawned' = spawned + 1
        /\ spawned \in Nat /\ spawned < threads /\ threads \in 1..MAX_THREADS
        /\ phase' = [phase EXCEPT ![spawned] = "sum"] /\ phase \in [Thread -> {"sum", "store", "end"}]
        /\ loaded' = [loaded EXCEPT ![spawned] = 0] /\ loaded \in [Thread -> 0..DataVolume]
    BY <1>4, VolumeFacts DEF Spawn, MpbwInv, TypeOK
  <2>2. spawned \in Thread /\ Team \subseteq Thread
    BY <2>1, VolumeFacts DEF Team, Thread
  <2>3. \A t \in Team : t < spawned' => t < spawned \/ t = spawned
    BY <2>1 DEF Team
  <2>4. Returned' = Returned
    <3>1. \A t \in Team : t < spawned' /\ phase'[t] = "end" <=> t < spawned /\ phase[t] = "end"
      <4> TAKE t \in Team
      <4>1. CASE t = spawned
        BY <2>1, <2>2, <4>1
      <4>2. CASE t # spawned
        BY <2>1, <2>2, <2>3, <4>2 DEF Team
      <4> QED
        BY <4>1, <4>2
    <3> QED
      BY <2>1, <3>1, SameTeam DEF Returned
  <2>5. Team' = Team /\ SegmentReads' = SegmentReads
    BY <2>1, SameTeam
  <2>6. \A t \in Team : t < spawned' /\ phase'[t] = "store" =>
          t < spawned /\ phase[t] = "store" /\ loaded'[t] = loaded[t]
    BY <2>1, <2>2, <2>3
  <2> QED
    BY <2>1, <2>4, <2>5, <2>6 DEF SumInv
<1>5. CASE StopClock \/ Compare
  <2>1. UNCHANGED <<threads, spawned, phase, loaded, g_sum>> /\ SumInv
    BY <1>5 DEF StopClock, Compare, perThread, MpbwInv
  <2>2. Returned' = Returned /\ Team' = Team /\ SegmentReads' = SegmentReads
    BY <2>1, SameTeam DEF Returned
  <2> QED
    BY <2>1, <2>2 DEF SumInv
<1>6. CASE WriteRow
  BY <1>6 DEF WriteRow
<1> QED
  BY <1>1, <1>2, <1>3, <1>4, <1>5, <1>6 DEF Measuring

\* What all the threads have added is at most the data's bytes.
LEMMA SumFits ==
  ASSUME threads \in 1..MAX_THREADS, NEW c \in Nat, c <= threads
  PROVE  SegmentReads * c \in Nat /\ SegmentReads * c <= DataVolume
<1> DEFINE r == SegmentReads
           s == segment_length
<1>1. r \in Nat /\ s \in Nat /\ r <= s /\ s * threads <= DataVolume
  BY SegmentReadsFacts, SegmentLength
<1>2. threads \in Nat /\ DataVolume \in Nat
  BY VolumeFacts
<1> HIDE DEF r, s
<1>3. r * c <= s * c /\ s * c <= s * threads /\ r * c \in Nat /\ s * c \in Nat /\ s * threads \in Nat
  BY <1>1, <1>2, SMTT(30)
<1> QED
  BY <1>1, <1>2, <1>3 DEF r

\* The loop over the numbers of threads ends one past the greatest, or before.
LEMMA NextMeasuredFacts ==
  ASSUME NEW n \in 1..MAX_THREADS
  PROVE  /\ NextMeasured(n + 1) \in 1..(MAX_THREADS + 1)
         /\ NextMeasured(1) = 1 /\ 1 \in 1..(MAX_THREADS + 1)
  BY VolumeFacts DEF NextMeasured, Measured

\* The steps keep the types: an action a step.
LEMMA NextTypeOK ==
  ASSUME MpbwInv, Measuring
  PROVE  TypeOK'
<1>1. CASE StartClock
  <2>1. TypeOK /\ 0 \in 0..DataVolume /\ 0 \in 0..threads
    BY VolumeFacts DEF MpbwInv, TypeOK
  <2> QED
    BY <1>1, <2>1 DEF StartClock, perThread, TypeOK
<1>2. CASE Spawn
  <2>1. /\ TypeOK /\ spawned \in Team /\ threads \in 1..MAX_THREADS /\ threads \in Nat
        /\ spawned' = spawned + 1 /\ spawned' \in 0..threads
    BY <1>2, VolumeFacts DEF Spawn, MpbwInv, TypeOK, Team
  <2>2. spawned \in Thread /\ SegmentStart(spawned) \in 0..(DataVolume + CacheLine - 1)
    BY <2>1, SegmentFacts, SegmentLength, VolumeFacts
  <2>3. /\ phase' \in [Thread -> {"sum", "store", "end"}]
        /\ at' \in [Thread -> 0..(DataVolume + CacheLine - 1)]
        /\ loaded' \in [Thread -> 0..DataVolume]
    <3>1. 0 \in 0..DataVolume
      BY VolumeFacts
    <3> QED
      BY <1>2, <2>1, <2>2, <3>1 DEF Spawn, TypeOK
  <2> QED
    BY <1>2, <2>1, <2>3 DEF Spawn, TypeOK
<1>3. ASSUME NEW t \in Thread, Read(t) PROVE TypeOK'
  <2>1. t \in Team /\ threads \in 1..MAX_THREADS /\ TypeOK
    BY <1>3, RunningInTeam DEF Read, MpbwInv
  <2>2. at[t] + CacheLine \in 0..(DataVolume + CacheLine - 1)
    <3>1. at[t] \in Nat /\ at[t] < DataVolume
      BY <1>3, <2>1, SegmentFacts, VolumeFacts, SegmentLength DEF Read, TypeOK
    <3> QED
      BY <3>1, VolumeFacts
  <2>3. at' \in [Thread -> 0..(DataVolume + CacheLine - 1)]
    BY <1>3, <2>1, <2>2 DEF Read, TypeOK
  <2> QED
    BY <1>3, <2>1, <2>3 DEF Read, TypeOK
<1>4. ASSUME NEW t \in Thread, LoadGSum(t) PROVE TypeOK'
  <2>1. TypeOK
    BY DEF MpbwInv
  <2>2. /\ phase' \in [Thread -> {"sum", "store", "end"}]
        /\ loaded' \in [Thread -> 0..DataVolume]
    BY <1>4, <2>1 DEF LoadGSum, TypeOK
  <2> QED
    BY <1>4, <2>1, <2>2 DEF LoadGSum, TypeOK
<1>5. ASSUME NEW t \in Thread, StoreGSum(t) PROVE TypeOK'
  <2>1. /\ t \in Team /\ threads \in 1..MAX_THREADS /\ TypeOK /\ threads' = threads
        /\ ReadsInv /\ t < spawned /\ phase[t] = "store" /\ loaded[t] \in Nat
        /\ g_sum' = loaded[t] + ReadsOf(t)
    BY <1>5, RunningInTeam DEF StoreGSum, MpbwInv, TypeOK
  <2>2. g_sum' \in Nat
    BY <2>1, SegmentReadsFacts DEF ReadsInv
  <2>3. SumInv' /\ Cardinality(Returned') \in Nat /\ Cardinality(Returned') <= threads
    <3>1. pc' \in {"running", "joined"} /\ threads' \in Nat /\ threads \in Nat
      BY <1>5, <2>1 DEF StoreGSum, Running
    <3>2. Cardinality(Returned') \in Nat /\ Cardinality(Returned') <= threads'
      <4>1. IsFiniteSet(Team) /\ Cardinality(Team) = threads
        BY <3>1, TeamIsFinite
      <4>2. Returned' \in SUBSET Team
        BY <2>1, SameTeam DEF Returned
      <4> QED
        BY <2>1, <4>1, <4>2, FS_Subset, FS_CardinalityType
    <3> QED
      BY <1>5, <2>1, <3>1, <3>2, NextSumInv DEF Measuring
  <2>4. g_sum' <= SegmentReads * Cardinality(Returned') /\ SegmentReads * Cardinality(Returned') <= DataVolume
        /\ SegmentReads * Cardinality(Returned') \in Nat
    BY <2>1, <2>3, SameTeam, SumFits DEF SumInv
  <2>5. g_sum' \in 0..DataVolume
    BY <2>2, <2>4, VolumeFacts
  <2>6. phase' \in [Thread -> {"sum", "store", "end"}]
    BY <1>5, <2>1 DEF StoreGSum, TypeOK
  <2> QED
    BY <1>5, <2>1, <2>5, <2>6 DEF StoreGSum, TypeOK
<1>6. CASE StopClock
  BY <1>6 DEF StopClock, perThread, MpbwInv, TypeOK
<1>7. CASE Compare
  <2>1. TypeOK /\ elapsed \in Durations /\ attempt + 1 \in 0..(N + 1)
    BY <1>7 DEF Compare, MpbwInv, BestInv, TypeOK
  <2>2. best' \in Durations \union {0} /\ seen' \subseteq Durations /\ attempt' \in 0..(N + 1)
        /\ pc' \in {"start", "running", "joined", "done"}
    BY <1>7, <2>1 DEF Compare, TypeOK
  <2> QED
    BY <1>7, <2>1, <2>2 DEF Compare, perThread, TypeOK
<1>8. CASE WriteRow
  <2>1. TypeOK /\ threads \in 1..MAX_THREADS /\ best \in Durations
    BY <1>8, VolumeFacts DEF WriteRow, MpbwInv, BestInv, TypeOK
  <2>2. threads' \in 1..(MAX_THREADS + 1) /\ prefetch' \in BOOLEAN
    BY <1>8, <2>1, NextMeasuredFacts DEF WriteRow, TypeOK
  <2>3. rows' \in Seq([threads : 1..MAX_THREADS, prefetch : BOOLEAN, best : Durations])
    BY <1>8, <2>1 DEF WriteRow, TypeOK
  <2> QED
    BY <1>8, <2>1, <2>2, <2>3 DEF WriteRow, perThread, TypeOK
<1> QED
  BY <1>1, <1>2, <1>3, <1>4, <1>5, <1>6, <1>7, <1>8 DEF Measuring

\* The steps keep the best measurement: only Compare and WriteRow write it.
LEMMA NextBestInv ==
  ASSUME MpbwInv, Measuring
  PROVE  BestInv'
<1>1. CASE Compare
  <2>1. /\ pc = "joined" /\ attempt \in 0..N /\ elapsed \in Durations /\ BestInv
        /\ seen \subseteq Durations /\ attempt' = attempt + 1 /\ elapsed' = elapsed
        /\ best' = IF attempt = 0 \/ Better(elapsed, best) THEN elapsed ELSE best
        /\ seen' = seen \union {elapsed}
        /\ pc' = IF attempt < N THEN "start" ELSE "joined"
    BY <1>1 DEF Compare, MpbwInv, BestInv, TypeOK
  <2>2. best' \in seen' /\ \A d \in seen' : best' <= d
    <3>1. seen \subseteq Nat /\ elapsed \in Nat
      BY <2>1
    <3>2. CASE attempt = 0
      BY <2>1, <3>1, <3>2 DEF BestInv
    <3>3. CASE attempt > 0 /\ elapsed < best
      <4>1. best \in seen /\ \A d \in seen : best <= d
        BY <2>1, <3>3 DEF BestInv
      <4>2. best' = elapsed
        BY <2>1, <3>3 DEF Better
      <4> QED
        BY <2>1, <3>1, <3>3, <4>1, <4>2
    <3>4. CASE attempt > 0 /\ ~(elapsed < best)
      <4>1. best \in seen /\ \A d \in seen : best <= d
        BY <2>1, <3>4 DEF BestInv
      <4>2. best' = best
        BY <2>1, <3>4 DEF Better
      <4> QED
        BY <2>1, <3>1, <3>4, <4>1, <4>2
    <3> QED
      BY <2>1, <3>2, <3>3, <3>4
  <2>3. attempt' = N + 1 => pc' = "joined"
    BY <2>1
  <2> QED
    BY <2>1, <2>2, <2>3 DEF BestInv
<1>2. CASE WriteRow
  BY <1>2 DEF WriteRow, BestInv, MpbwInv, TypeOK
<1>3. CASE StartClock
  BY <1>3 DEF StartClock, BestInv, MpbwInv, TypeOK
<1>4. CASE StopClock
  BY <1>4 DEF StopClock, BestInv, MpbwInv, TypeOK
<1>5. CASE Spawn \/ \E t \in Thread : Read(t) \/ LoadGSum(t) \/ StoreGSum(t)
  BY <1>5 DEF Spawn, Read, LoadGSum, StoreGSum, BestInv, MpbwInv, TypeOK
<1> QED
  BY <1>1, <1>2, <1>3, <1>4, <1>5 DEF Measuring

\* The rows come in the order of a whole mpbw.csv: WriteRow writes the next.
LEMMA NextRowsInv ==
  ASSUME MpbwInv, Measuring
  PROVE  RowsInv'
<1>1. CASE WriteRow
  <2>1. /\ threads \in 1..MAX_THREADS /\ prefetch \in BOOLEAN /\ RowsInv
        /\ rows' = Append(rows, [threads |-> threads, prefetch |-> prefetch, best |-> best])
        /\ prefetch' = ~prefetch
        /\ threads' = IF prefetch THEN NextMeasured(threads + 1) ELSE threads
        /\ rows \in Seq([threads : 1..MAX_THREADS, prefetch : BOOLEAN, best : Durations])
        /\ best \in Durations
    BY <1>1, VolumeFacts DEF WriteRow, MpbwInv, BestInv, TypeOK
  <2> DEFINE l == Len(rows)
  <2>2. /\ l \in Nat /\ Len(rows') = l + 1
        /\ \A n \in 1..l : rows'[n] = rows[n]
        /\ rows'[l + 1].threads = threads /\ rows'[l + 1].prefetch = prefetch
    BY <2>1
  <2>3. threads = RowThreads(l + 1) /\ prefetch = RowPrefetch(l + 1)
    BY <2>1 DEF RowsInv
  <2> HIDE DEF l
  <2>4. \A n \in 1..(l + 1) :
          rows'[n].threads = RowThreads(n) /\ rows'[n].prefetch = RowPrefetch(n)
    <3> TAKE n \in 1..(l + 1)
    <3>1. CASE n = l + 1
      BY <2>2, <2>3, <3>1
    <3>2. CASE n # l + 1
      <4>1. n \in 1..l
        BY <2>2, <3>2
      <4> QED
        BY <2>1, <2>2, <4>1 DEF RowsInv, l
    <3> QED
      BY <3>1, <3>2
  <2> DEFINE NextRow ==
        /\ IF threads' <= MAX_THREADS THEN threads' = RowThreads(l + 2)
           ELSE l + 1 = 2 + 2 * (MAX_THREADS \div 2)
        /\ prefetch' = RowPrefetch(l + 2)
  <2>5. ASSUME (l + 1) % 2 = 0 PROVE NextRow
    <3>1. prefetch = TRUE
      BY <2>3, <2>5 DEF RowPrefetch
    <3>2. (l + 2) % 2 # 0
      BY <2>2, <2>5
    <3>3. prefetch' = RowPrefetch(l + 2)
      BY <2>1, <3>1, <3>2 DEF RowPrefetch
    <3>4. threads' = NextMeasured(threads + 1) /\ MAX_THREADS \in Nat \ {0}
      BY <2>1, <3>1, VolumeFacts
    <3>5. PICK k \in Nat : l = 2 * k + 1
      <4>1. l = 2 * ((l - 1) \div 2) + 1 /\ (l - 1) \div 2 \in Nat
        BY <2>2, <2>5
      <4> QED
        BY <4>1
    <3>6. IF threads' <= MAX_THREADS THEN threads' = RowThreads(l + 2)
          ELSE l + 1 = 2 + 2 * (MAX_THREADS \div 2)
      <4>1. CASE k = 0
        <5>1. threads = 1 /\ l + 2 = 3 /\ l + 1 = 2
          BY <2>3, <3>5, <4>1 DEF RowThreads
        <5>2. threads' = 2
          BY <3>4, <5>1 DEF NextMeasured, Measured
        <5>3. RowThreads(3) = 2
          BY DEF RowThreads
        <5>4. MAX_THREADS < 2 => MAX_THREADS = 1 /\ 1 \div 2 = 0
          BY <3>4
        <5> QED
          BY <5>1, <5>2, <5>3, <5>4, <3>4
      <4>2. CASE k > 0
        <5>1. l + 1 = 2 * k + 2 /\ l + 2 = 2 * k + 3
          BY <3>5
        <5>2. RowThreads(l + 1) = 2 * k /\ RowThreads(l + 2) = 2 * k + 2
          <6>1. (2 * k + 2 - 1) \div 2 = k /\ (2 * k + 3 - 1) \div 2 = k + 1
            OBVIOUS
          <6>2. RowThreads(2 * k + 2) = 2 * k
            BY <4>2, <6>1 DEF RowThreads
          <6>3. RowThreads(2 * k + 3) = 2 * k + 2
            BY <4>2, <6>1 DEF RowThreads
          <6> QED
            BY <5>1, <6>2, <6>3
        <5>3. threads = 2 * k /\ threads + 1 = 2 * k + 1 /\ (2 * k + 1) % 2 = 1
          BY <2>3, <5>2
        <5>4. threads' = IF 2 * k + 1 > MAX_THREADS THEN 2 * k + 1 ELSE 2 * k + 2
          BY <3>4, <4>2, <5>3 DEF NextMeasured, Measured
        <5>5. CASE 2 * k + 1 > MAX_THREADS
          <6>1. MAX_THREADS = 2 * k /\ threads' = 2 * k + 1
            <7>1. threads <= MAX_THREADS
              BY <2>1
            <7> QED
              BY <7>1, <3>4, <5>3, <5>4, <5>5
          <6>2. (2 * k) \div 2 = k
            OBVIOUS
          <6> QED
            BY <5>1, <6>1, <6>2
        <5>6. CASE MAX_THREADS = 2 * k + 1
          <6>1. MAX_THREADS \div 2 = k /\ threads' = 2 * k + 2
            BY <5>4, <5>6
          <6> QED
            BY <5>1, <5>6, <6>1
        <5>7. CASE MAX_THREADS > 2 * k + 1
          BY <3>4, <5>2, <5>4, <5>7
        <5> QED
          BY <3>4, <5>5, <5>6, <5>7
      <4> QED
        BY <4>1, <4>2
    <3> QED
      BY <3>3, <3>6
  <2>6. ASSUME (l + 1) % 2 # 0 PROVE NextRow
    <3>1. prefetch = FALSE
      BY <2>3, <2>6 DEF RowPrefetch
    <3>2. (l + 2) % 2 = 0
      BY <2>2, <2>6
    <3>3. prefetch' = RowPrefetch(l + 2)
      BY <2>1, <3>1, <3>2 DEF RowPrefetch
    <3>4. threads' = threads
      BY <2>1, <3>1
    <3>5. threads' = RowThreads(l + 2)
      BY <2>2, <2>3, <2>6, <3>4 DEF RowThreads
    <3> QED
      BY <2>1, <3>3, <3>4, <3>5
  <2>7. NextRow
    BY <2>5, <2>6
  <2>8. threads' \in Nat /\ l + 1 + 1 = l + 2
    BY <2>1, <2>2, NextMeasuredFacts
  <2> QED
    BY <2>2, <2>4, <2>7, <2>8 DEF RowsInv
<1>2. CASE ~WriteRow
  <2>1. UNCHANGED <<rows, threads, prefetch>>
    BY <1>2 DEF Measuring, StartClock, Spawn, Read, LoadGSum, StoreGSum, StopClock, Compare
  <2> QED
    BY <2>1 DEF RowsInv, MpbwInv
<1> QED
  BY <1>1, <1>2

\* A process begins with nothing measured.
LEMMA InitMpbwInv == Init => MpbwInv
<1> SUFFICES ASSUME Init PROVE MpbwInv
  OBVIOUS
<1>1. /\ NextMeasured(1) = 1 /\ 1 \in 1..(MAX_THREADS + 1) /\ 1 <= MAX_THREADS
      /\ MAX_THREADS \in Nat
  BY VolumeFacts, NextMeasuredFacts
<1>2. 0 \in 0..DataVolume /\ 0 \in 0..(DataVolume + CacheLine - 1) /\ 0 \in 0..1 /\ 0 \in 0..(N + 1)
  BY VolumeFacts
<1>3. TypeOK
  <2>1. <<>> \in Seq([threads : 1..MAX_THREADS, prefetch : BOOLEAN, best : Durations])
    OBVIOUS
  <2>2. /\ [t \in Thread |-> "end"] \in [Thread -> {"sum", "store", "end"}]
        /\ [t \in Thread |-> 0] \in [Thread -> 0..(DataVolume + CacheLine - 1)]
        /\ [t \in Thread |-> 0] \in [Thread -> 0..DataVolume]
    BY <1>2
  <2>3. /\ pc = "start" /\ threads = 1 /\ prefetch = FALSE /\ attempt = 0 /\ spawned = 0
        /\ g_sum = 0 /\ elapsed = 0 /\ best = 0 /\ seen = {} /\ rows = <<>>
        /\ phase = [t \in Thread |-> "end"]
        /\ at = [t \in Thread |-> 0] /\ loaded = [t \in Thread |-> 0]
    BY <1>1 DEF Init
  <2> QED
    BY <1>1, <1>2, <2>1, <2>2, <2>3 DEF TypeOK
<1>4. BestInv
  BY DEF Init, BestInv
<1>5. RowThreads(1) = 1 /\ RowPrefetch(1) = FALSE
  BY DEF RowThreads, RowPrefetch
<1>6. RowsInv
  <2>1. threads = 1 /\ prefetch = FALSE /\ rows = <<>>
    BY <1>1 DEF Init
  <2>2. Len(rows) = 0 /\ Len(rows) + 1 = 1 /\ 1..Len(rows) = {}
    BY <2>1
  <2> QED
    BY <1>1, <1>5, <2>1, <2>2 DEF RowsInv
<1> QED
  BY <1>3, <1>4, <1>6 DEF Init, MpbwInv

\* The steps of a measurement keep the invariant.
LEMMA MeasuringMpbwInv ==
  ASSUME MpbwInv, Measuring
  PROVE  MpbwInv'
<1>1. TypeOK' /\ BestInv' /\ RowsInv'
  BY NextTypeOK, NextBestInv, NextRowsInv
<1>2. pc' \in {"running", "joined"} => ReadsInv' /\ SumInv'
  BY NextReadsInv, NextSumInv
<1>3. /\ pc' \in {"running", "joined"} => threads' <= MAX_THREADS
      /\ pc' # "done"
      /\ pc' = "joined" => AllJoined'
  <2>1. CASE StartClock
    BY <2>1 DEF StartClock
  <2>2. CASE Spawn
    BY <2>2 DEF Spawn, MpbwInv
  <2>3. ASSUME NEW t \in Thread, Read(t) \/ LoadGSum(t) \/ StoreGSum(t)
        PROVE  pc' = "running" /\ threads' <= MAX_THREADS
    <3>1. pc = "joined" => phase[t] = "end"
      BY <2>3 DEF Read, LoadGSum, StoreGSum, Running, MpbwInv, AllJoined, Team, Thread, TypeOK
    <3>2. pc = "running" /\ pc' = pc /\ threads' = threads
      BY <2>3, <3>1 DEF Read, LoadGSum, StoreGSum, Running
    <3> QED
      BY <3>2 DEF MpbwInv
  <2>4. CASE StopClock
    BY <2>4 DEF StopClock, perThread, MpbwInv, AllJoined, Team
  <2>5. CASE Compare
    BY <2>5 DEF Compare, perThread, MpbwInv, AllJoined, Team
  <2>6. CASE WriteRow
    BY <2>6 DEF WriteRow
  <2> QED
    BY <2>1, <2>2, <2>3, <2>4, <2>5, <2>6 DEF Measuring
<1> QED
  BY <1>1, <1>2, <1>3 DEF MpbwInv

\* So does closing mpbw.csv.
LEMMA CloseMpbwInv ==
  ASSUME MpbwInv, CloseOutput
  PROVE  MpbwInv'
<1>1. /\ pc = "start" /\ pc' = "done" /\ threads > MAX_THREADS
      /\ UNCHANGED <<threads, prefetch, attempt, spawned, phase, at, loaded, g_sum, elapsed, best,
                     seen, rows>>
  BY DEF CloseOutput, perThread
<1>2. TypeOK'
  BY <1>1 DEF MpbwInv, TypeOK
<1>3. BestInv'
  BY <1>1 DEF MpbwInv, BestInv
<1>4. RowsInv'
  BY <1>1 DEF MpbwInv, RowsInv
<1> QED
  BY <1>1, <1>2, <1>3, <1>4 DEF MpbwInv

\* A step of something else does.
LEMMA StutterMpbwInv ==
  ASSUME MpbwInv, UNCHANGED vars
  PROVE  MpbwInv'
<1>1. UNCHANGED <<pc, threads, prefetch, attempt, spawned, phase, at, loaded, g_sum, elapsed, best,
                  seen, rows>>
  BY DEF vars, perThread
<1>2. TypeOK'
  BY <1>1 DEF MpbwInv, TypeOK
<1>3. BestInv'
  BY <1>1 DEF MpbwInv, BestInv
<1>4. RowsInv'
  BY <1>1 DEF MpbwInv, RowsInv
<1>5. ReadsInv' <=> ReadsInv
  BY <1>1 DEF ReadsInv, Team, ReadsOf, SegmentStart, SegmentReads, segment_length
<1>6. SumInv' <=> SumInv
  BY <1>1 DEF SumInv, Returned, Team, SegmentReads, segment_length
<1>7. AllJoined' <=> AllJoined
  BY <1>1 DEF AllJoined, Team
<1> QED
  BY <1>1, <1>2, <1>3, <1>4, <1>5, <1>6, <1>7 DEF MpbwInv

LEMMA MpbwInvariant == Spec => []MpbwInv
<1>1. MpbwInv /\ [Next]_vars => MpbwInv'
  BY MeasuringMpbwInv, CloseMpbwInv, StutterMpbwInv DEF Next
<1> QED
  BY <1>1, InitMpbwInv, PTL DEF Spec

\* Whatever the times of the measurements, the types stay: in particular no
\* thread of mpbw.cpp's sum gets to an index a line past the data.
THEOREM MpbwTypeCorrect == Spec => []TypeOK
<1>1. MpbwInv => TypeOK
  BY DEF MpbwInv
<1> QED
  BY <1>1, MpbwInvariant, PTL

LEMMA BestFollows == MpbwInv => BestOfMeasurements
  BY DEF MpbwInv, BestInv, BestOfMeasurements, TypeOK

\* For every number of measurements: the row that main() writes shows the
\* shortest of its own configuration's.
THEOREM RowsShowTheBest == Spec => []BestOfMeasurements
  BY BestFollows, MpbwInvariant, PTL

\* When the clock is stopped, every thread has read its whole segment.
LEMMA JoinedFacts ==
  ASSUME MpbwInv, pc = "joined"
  PROVE  /\ threads \in 1..MAX_THREADS /\ threads \in Nat \ {0}
         /\ Returned = Team
         /\ \A t \in Team : ReadsOf(t) = SegmentReads
         /\ SumInv
<1>1. threads \in 1..MAX_THREADS /\ threads \in Nat \ {0} /\ AllJoined /\ ReadsInv /\ SumInv
  BY VolumeFacts DEF MpbwInv, TypeOK
<1>2. \A t \in Team : t < spawned /\ phase[t] = "end"
  BY <1>1 DEF AllJoined, Team
<1> QED
  BY <1>1, <1>2 DEF Returned, ReadsInv

\* The threads read the lines that their segments' boundaries cut twice, and
\* so a line a thread more than there are, at most.
LEMMA TeamReadsFewMore ==
  ASSUME threads \in 1..MAX_THREADS
  PROVE  SegmentReads * threads <= Lines + threads - 1
<1> DEFINE r == SegmentReads
           s == segment_length
<1>1. /\ r \in Nat \ {0} /\ s \in Nat /\ s * threads <= Lines * CacheLine
      /\ r * CacheLine < s + CacheLine
      /\ Lines \in Nat /\ CacheLine \in Nat \ {0} /\ threads \in Nat \ {0}
  BY SegmentReadsFacts, SegmentLength, VolumeFacts
<1> HIDE DEF r, s
<1>2. (r - 1) * CacheLine < s
  <2>1. (r - 1) * CacheLine = r * CacheLine - CacheLine
    BY <1>1, SMTT(30)
  <2>2. r * CacheLine \in Nat
    BY <1>1, SMTT(30)
  <2> QED
    BY <1>1, <2>1, <2>2
<1>3. ((r - 1) * CacheLine) * threads < s * threads
  <2> DEFINE x == (r - 1) * CacheLine
  <2>1. x \in Int
    BY <1>1
  <2> HIDE DEF x
  <2>2. x < s => x * threads < s * threads
    BY <1>1, <2>1, SMTT(30)
  <2> QED
    BY <1>2, <2>2 DEF x
<1>4. ((r - 1) * CacheLine) * threads = ((r - 1) * threads) * CacheLine
  BY <1>1, SMTT(30)
<1>5. (r - 1) * threads < Lines
  <2> DEFINE x == (r - 1) * threads
  <2>1. x \in Int
    BY <1>1
  <2>2. x * CacheLine < Lines * CacheLine
    <3>1. s * threads \in Int /\ Lines * CacheLine \in Int /\ x * CacheLine \in Int
      BY <1>1
    <3> QED
      BY <1>1, <1>3, <1>4, <3>1
  <2> HIDE DEF x
  <2>3. x >= Lines => x * CacheLine >= Lines * CacheLine
    BY <1>1, <2>1, SMTT(30)
  <2>4. x * CacheLine \in Int /\ Lines * CacheLine \in Int
    BY <1>1, <2>1
  <2> QED
    BY <1>1, <2>1, <2>2, <2>3, <2>4 DEF x
<1>6. (r - 1) * threads = r * threads - threads /\ r * threads \in Nat
  BY <1>1, SMTT(30)
<1> QED
  BY <1>1, <1>5, <1>6 DEF r

LEMMA GSumFollows == MpbwInv => GSumKeepsASum
<1> SUFFICES ASSUME MpbwInv, pc = "joined"
             PROVE  /\ \E t \in Team : g_sum >= ReadsOf(t)
                    /\ g_sum <= Lines + threads - 1
  BY DEF GSumKeepsASum
<1>1. /\ threads \in 1..MAX_THREADS /\ threads \in Nat \ {0}
      /\ Returned = Team /\ SumInv
      /\ \A t \in Team : ReadsOf(t) = SegmentReads
  BY JoinedFacts
<1>2. 0 \in Team /\ Cardinality(Returned) = threads
  BY <1>1, TeamIsFinite DEF Team
<1>3. g_sum >= SegmentReads /\ g_sum <= SegmentReads * threads /\ g_sum \in Nat
  BY <1>1, <1>2 DEF SumInv, MpbwInv, TypeOK
<1>4. SegmentReads * threads <= Lines + threads - 1 /\ SegmentReads * threads \in Nat
  BY <1>1, TeamReadsFewMore, SegmentReadsFacts
<1>5. g_sum <= Lines + threads - 1
  BY <1>1, <1>3, <1>4, VolumeFacts
<1> QED
  BY <1>1, <1>2, <1>3, <1>5

\* For every number of threads, volume and order of the loads and stores of
\* g_sum += sum: one thread's sum at least is left, and no more than was read.
THEOREM GSumIsSomeThreadsSum == Spec => []GSumKeepsASum
  BY GSumFollows, MpbwInvariant, PTL

\* The line a thread of the team reads first.
FirstLine(t) == SegmentStart(t) \div CacheLine

\* The quotient, between the lines.
LEMMA FirstLineBounds ==
  ASSUME threads \in 1..MAX_THREADS, NEW t \in Team
  PROVE  /\ FirstLine(t) \in Nat
         /\ FirstLine(t) * CacheLine <= segment_length * t
         /\ segment_length * t < (FirstLine(t) + 1) * CacheLine
<1>1. segment_length * t \in Nat /\ CacheLine \in Nat \ {0}
  BY SegmentFacts, VolumeFacts DEF SegmentStart
<1> DEFINE a == segment_length * t
<1> HIDE DEF a
<1>2. /\ a \div CacheLine \in Nat
      /\ (a \div CacheLine) * CacheLine <= a
      /\ a < ((a \div CacheLine) + 1) * CacheLine
  BY <1>1, SMTT(30) DEF a
<1> QED
  BY <1>2 DEF a, FirstLine, SegmentStart

\* The j-th read of a thread is of the j-th line from its first.
LEMMA LineOfRead ==
  ASSUME threads \in 1..MAX_THREADS, NEW t \in Team, NEW j \in Nat
  PROVE  (SegmentStart(t) + j * CacheLine) \div CacheLine = FirstLine(t) + j
<1>1. SegmentStart(t) \in Nat /\ CacheLine \in Nat \ {0}
  BY SegmentFacts, VolumeFacts
<1> DEFINE a == SegmentStart(t)
           q == a \div CacheLine
           m == a % CacheLine
<1>a. a \in Nat
  BY <1>1
<1> HIDE DEF a
<1>2. q \in Nat /\ m \in 0..(CacheLine - 1) /\ a = q * CacheLine + m
  <2>1. /\ a \div CacheLine \in Nat /\ a % CacheLine \in 0..(CacheLine - 1)
        /\ a = CacheLine * (a \div CacheLine) + (a % CacheLine)
    BY <1>1, <1>a, SMTT(30)
  <2> QED
    BY <1>1, <2>1, SMTT(30)
<1> HIDE DEF q, m
<1>3. a + j * CacheLine = (q + j) * CacheLine + m
  <2>1. (q + j) * CacheLine = q * CacheLine + j * CacheLine
    BY <1>1, <1>2, SMTT(30)
  <2>2. q * CacheLine \in Int /\ j * CacheLine \in Int
    BY <1>1, <1>2
  <2> QED
    BY <1>2, <2>1, <2>2
<1>4. ((q + j) * CacheLine + m) \div CacheLine = q + j
  <2> DEFINE k == q + j
  <2>1. k \in Nat
    BY <1>2
  <2> HIDE DEF k
  <2>2. (k * CacheLine + m) \div CacheLine = k
    BY <1>1, <1>2, <2>1, SMTT(30)
  <2> QED
    BY <2>2 DEF k
<1>5. (a + j * CacheLine) \div CacheLine = q + j
  BY <1>3, <1>4
<1> QED
  BY <1>5 DEF a, q, FirstLine

\* Segments that are not neighbours have no line in common.
LEMMA FarSegmentsApart ==
  ASSUME threads \in 1..MAX_THREADS, NEW t \in Team, NEW u \in Team, t + 2 <= u
  PROVE  FirstLine(t) + SegmentReads <= FirstLine(u)
<1> DEFINE r == SegmentReads
           s == segment_length
           f == FirstLine(t)
           g == FirstLine(u)
<1>1. /\ r \in Nat /\ s \in Nat /\ CacheLine \in Nat \ {0} /\ s >= CacheLine
      /\ r * CacheLine < s + CacheLine
      /\ f \in Nat /\ f * CacheLine <= s * t
      /\ g \in Nat /\ s * u < (g + 1) * CacheLine
      /\ t \in Nat /\ u \in Nat
  BY SegmentReadsFacts, SegmentLength, VolumeFacts, FirstLineBounds, SegmentFacts
<1> HIDE DEF r, s, f, g
<1>2. (f + r) * CacheLine < s * u
  <2>1. (f + r) * CacheLine = f * CacheLine + r * CacheLine
    BY <1>1, SMTT(30)
  <2>2. s * u >= s * (t + 2)
    BY <1>1, SMTT(30)
  <2>3. s * (t + 2) = s * t + s + s
    BY <1>1, SMTT(30)
  <2>4. f * CacheLine \in Int /\ r * CacheLine \in Int /\ s * t \in Int /\ s * u \in Int
    BY <1>1
  <2> QED
    BY <1>1, <2>1, <2>2, <2>3, <2>4
<1>3. (f + r) * CacheLine < (g + 1) * CacheLine
  <2>1. (f + r) * CacheLine \in Int /\ s * u \in Int /\ (g + 1) * CacheLine \in Int
    BY <1>1
  <2> QED
    BY <1>1, <1>2, <2>1
<1>4. f + r < g + 1
  <2>1. f + r >= g + 1 => (f + r) * CacheLine >= (g + 1) * CacheLine
    BY <1>1, SMTT(30)
  <2>2. (f + r) * CacheLine \in Int /\ (g + 1) * CacheLine \in Int
    BY <1>1
  <2> QED
    BY <1>1, <1>3, <2>1, <2>2
<1> QED
  BY <1>1, <1>4 DEF f, g, r

\* The threads that read line l.
Readers(l) == {t \in Team : FirstLine(t) <= l /\ l < FirstLine(t) + SegmentReads}

\* Two threads read a line, at most.
LEMMA TwoReaders ==
  ASSUME threads \in 1..MAX_THREADS, NEW l \in Nat
  PROVE  \E t, u \in Int : Readers(l) \subseteq {t, u}
<1>1. CASE Readers(l) = {}
  <2>1. Readers(l) \subseteq {0, 0}
    BY <1>1
  <2> QED
    BY <2>1
<1>2. CASE Readers(l) # {}
  <2>1. PICK t \in Readers(l) : TRUE
    BY <1>2
  <2>2. \A u, v \in Readers(l) : ~(u + 2 <= v)
    <3> SUFFICES ASSUME NEW u \in Readers(l), NEW v \in Readers(l), u + 2 <= v
                 PROVE  FALSE
      OBVIOUS
    <3>1. /\ u \in Team /\ v \in Team /\ l < FirstLine(u) + SegmentReads /\ FirstLine(v) <= l
      BY DEF Readers
    <3>2. FirstLine(u) \in Nat /\ FirstLine(v) \in Nat /\ SegmentReads \in Nat
      BY <3>1, FirstLineBounds, SegmentReadsFacts
    <3>3. FirstLine(u) + SegmentReads <= FirstLine(v)
      BY <3>1, FarSegmentsApart
    <3> QED
      BY <3>1, <3>2, <3>3
  <2>3. \A u \in Readers(l) : u \in Int
    BY DEF Readers, Team
  <2>4. \A u \in Readers(l) : u \in {t - 1, t, t + 1}
    BY <2>1, <2>2, <2>3
  <2>5. t - 1 \notin Readers(l) \/ t + 1 \notin Readers(l)
    BY <2>1, <2>2, <2>3
  <2>6. Readers(l) \subseteq {t, t + 1} \/ Readers(l) \subseteq {t, t - 1}
    BY <2>4, <2>5
  <2>7. t \in Int /\ t + 1 \in Int /\ t - 1 \in Int
    BY <2>1, <2>3
  <2> QED
    BY <2>6, <2>7
<1> QED
  BY <1>1, <1>2

\* The line in which a segment ends the next one begins, or continues: some
\* thread reads each line that ends within the segments.
LEMMA SomeReader ==
  ASSUME threads \in 1..MAX_THREADS, NEW l \in Nat, (l + 1) * CacheLine <= segment_length * threads
  PROVE  Readers(l) # {}
<1> DEFINE r == SegmentReads
           s == segment_length
           p == (l + 1) * CacheLine - 1
           t == p \div s
<1>1. /\ r \in Nat /\ s \in Nat \ {0} /\ CacheLine \in Nat \ {0}
      /\ s <= r * CacheLine /\ threads \in Nat \ {0}
      /\ p + 1 <= s * threads
  BY SegmentReadsFacts, SegmentLength, VolumeFacts
<1>2. p \in Nat
  <2>1. (l + 1) * CacheLine >= CacheLine /\ (l + 1) * CacheLine \in Int
    BY <1>1, SMTT(30)
  <2> QED
    BY <1>1, <2>1
<1> HIDE DEF r, s, p
<1>3. t \in Nat /\ s * t <= p /\ p < s * (t + 1)
  BY <1>1, <1>2, SMTT(30)
<1> HIDE DEF t
<1>4. t < threads
  <2>1. t >= threads => s * t >= s * threads
    BY <1>1, <1>3, SMTT(30)
  <2>2. s * t \in Int /\ s * threads \in Int
    BY <1>1, <1>3
  <2> QED
    BY <1>1, <1>2, <1>3, <2>1, <2>2
<1>5. t \in Team
  BY <1>1, <1>3, <1>4 DEF Team
<1> DEFINE f == FirstLine(t)
<1>6. f \in Nat /\ f * CacheLine <= s * t /\ s * t < (f + 1) * CacheLine
  BY <1>5, FirstLineBounds DEF s
<1> HIDE DEF f
<1>7. f <= l
  <2>1. f >= l + 1 => f * CacheLine >= (l + 1) * CacheLine
    BY <1>1, <1>6, SMTT(30)
  <2>2. f * CacheLine \in Int /\ (l + 1) * CacheLine \in Int /\ s * t \in Int
    BY <1>1, <1>3, <1>6
  <2> QED
    BY <1>1, <1>3, <1>6, <2>1, <2>2 DEF p
<1>8. l < f + r
  <2>1. s * (t + 1) = s * t + s /\ (f + 1 + r) * CacheLine = (f + 1) * CacheLine + r * CacheLine
    BY <1>1, <1>3, <1>6, SMTT(30)
  <2>2. /\ s * t \in Int /\ r * CacheLine \in Int /\ (f + 1) * CacheLine \in Int
        /\ (l + 1) * CacheLine \in Int
    BY <1>1, <1>3, <1>6
  <2>3. (l + 1) * CacheLine < (f + 1 + r) * CacheLine
    BY <1>1, <1>3, <1>6, <2>1, <2>2 DEF p
  <2>4. l + 1 >= f + 1 + r => (l + 1) * CacheLine >= (f + 1 + r) * CacheLine
    BY <1>1, <1>6, SMTT(30)
  <2>5. (f + 1 + r) * CacheLine \in Int
    BY <1>1, <1>6
  <2> QED
    BY <1>1, <1>6, <2>2, <2>3, <2>4, <2>5
<1> QED
  BY <1>5, <1>7, <1>8 DEF Readers, f, r

\* The reads of line l: of each reader one.
LEMMA ReadsAreReaders ==
  ASSUME MpbwInv, pc = "joined", NEW l \in 0..(Lines - 1)
  PROVE  {read \in Team \X (0..Lines) :
            /\ read[2] < ReadsOf(read[1])
            /\ (SegmentStart(read[1]) + read[2] * CacheLine) \div CacheLine = l}
         = {<<t, l - FirstLine(t)>> : t \in Readers(l)}
<1>1. threads \in 1..MAX_THREADS /\ \A t \in Team : ReadsOf(t) = SegmentReads
  BY JoinedFacts
<1>2. l \in Nat /\ Lines \in Nat /\ l < Lines /\ SegmentReads \in Nat
  BY <1>1, VolumeFacts, SegmentReadsFacts
<1>3. \A t \in Team : FirstLine(t) \in Nat
  BY <1>1, FirstLineBounds
<1>4. \A t \in Team, j \in 0..Lines :
        (j < ReadsOf(t) /\ (SegmentStart(t) + j * CacheLine) \div CacheLine = l)
        <=> (t \in Readers(l) /\ j = l - FirstLine(t))
  <2> TAKE t \in Team, j \in 0..Lines
  <2>1. (SegmentStart(t) + j * CacheLine) \div CacheLine = FirstLine(t) + j
    BY <1>1, LineOfRead
  <2>2. j \in Nat /\ FirstLine(t) \in Nat /\ ReadsOf(t) = SegmentReads
    BY <1>1, <1>3
  <2> HIDE DEF SegmentReads, FirstLine
  <2> QED
    BY <1>2, <2>1, <2>2 DEF Readers
<1>5. \A t \in Readers(l) : t \in Team /\ l - FirstLine(t) \in 0..Lines
  BY <1>2, <1>3 DEF Readers
<1> HIDE DEF FirstLine
<1> QED
  BY <1>4, <1>5

\* A set within a pair has two elements, at most.
LEMMA WithinPair ==
  ASSUME NEW S, NEW x, NEW y, S \subseteq {x} \union {y}
  PROVE  /\ Cardinality(S) \in Nat /\ Cardinality(S) <= 2
         /\ S # {} => Cardinality(S) >= 1
<1> DEFINE D == {x} \union {y}
           c == Cardinality(D)
           d == Cardinality(S)
<1>1. IsFiniteSet({x}) /\ Cardinality({x}) = 1
  BY FS_Singleton
<1>2. IsFiniteSet(D) /\ c = IF y \in {x} THEN Cardinality({x}) ELSE Cardinality({x}) + 1
  BY <1>1, FS_AddElement
<1>3. c \in {1, 2}
  BY <1>1, <1>2
<1>4. S \in SUBSET D
  OBVIOUS
<1> HIDE DEF D
<1>5. IsFiniteSet(S) /\ d <= c
  BY <1>2, <1>4, FS_Subset
<1>6. d \in Nat
  BY <1>5, FS_CardinalityType
<1>7. S # {} => d # 0
  BY <1>5, FS_EmptySet
<1> HIDE DEF c, d
<1>8. d <= 2 /\ (S # {} => d >= 1)
  BY <1>3, <1>5, <1>6, <1>7
<1> QED
  BY <1>6, <1>8 DEF d

LEMMA EveryLineFollows == MpbwInv => EveryLineRead
<1> SUFFICES ASSUME MpbwInv, pc = "joined"
             PROVE  /\ \A l \in 0..(Lines - 2) : TimesRead(l) \in 1..2
                    /\ TimesRead(Lines - 1) <= 2
                    /\ DataVolume % threads = 0 => TimesRead(Lines - 1) >= 1
  BY DEF EveryLineRead
<1>1. threads \in 1..MAX_THREADS /\ threads \in Nat \ {0}
  BY JoinedFacts
<1>2. ASSUME NEW l \in 0..(Lines - 1)
      PROVE  /\ TimesRead(l) \in Nat /\ TimesRead(l) <= 2
             /\ (l + 1) * CacheLine <= segment_length * threads => TimesRead(l) >= 1
  <2> DEFINE R == {<<t, l - FirstLine(t)>> : t \in Readers(l)}
  <2>1. TimesRead(l) = Cardinality(R)
    BY ReadsAreReaders DEF TimesRead
  <2>2. l \in Nat
    BY VolumeFacts
  <2>3. PICK t, u \in Int : Readers(l) \subseteq {t, u}
    BY <1>1, <2>2, TwoReaders
  <2>4. R \subseteq {<<t, l - FirstLine(t)>>, <<u, l - FirstLine(u)>>}
    BY <2>3
  <2>5. (l + 1) * CacheLine <= segment_length * threads => R # {}
    <3> HAVE (l + 1) * CacheLine <= segment_length * threads
    <3>1. PICK v \in Readers(l) : TRUE
      BY <1>1, <2>2, SomeReader
    <3>2. <<v, l - FirstLine(v)>> \in R
      BY <3>1
    <3> QED
      BY <3>2
  <2>6. R \subseteq {<<t, l - FirstLine(t)>>} \union {<<u, l - FirstLine(u)>>}
    BY <2>4
  <2> HIDE DEF R
  <2>7. /\ Cardinality(R) \in Nat /\ Cardinality(R) <= 2
        /\ R # {} => Cardinality(R) >= 1
    <3> DEFINE x == <<t, l - FirstLine(t)>>
               y == <<u, l - FirstLine(u)>>
    <3>1. R \subseteq {x} \union {y}
      BY <2>6
    <3> HIDE DEF x, y
    <3> QED
      BY <3>1, WithinPair
  <2> QED
    BY <2>1, <2>5, <2>7
<1>3. \A l \in Nat : l + 1 <= Lines - 1 => (l + 1) * CacheLine <= segment_length * threads
  <2>1. /\ Lines \in Nat /\ CacheLine \in Nat \ {0} /\ DataVolume = Lines * CacheLine
        /\ DataVolume < segment_length * threads + threads /\ threads <= CacheLine
        /\ segment_length * threads \in Nat
    BY <1>1, VolumeFacts, SegmentLength
  <2> SUFFICES ASSUME NEW l \in Nat, l + 1 <= Lines - 1
               PROVE  (l + 1) * CacheLine <= segment_length * threads
    OBVIOUS
  <2>2. (l + 1) * CacheLine <= (Lines - 1) * CacheLine
    BY <2>1, SMTT(30)
  <2>3. (Lines - 1) * CacheLine = Lines * CacheLine - CacheLine
    BY <2>1, SMTT(30)
  <2>4. (l + 1) * CacheLine \in Int /\ Lines * CacheLine \in Int
    BY <2>1
  <2> QED
    BY <1>1, <2>1, <2>2, <2>3, <2>4
<1>4. Lines - 1 \in 0..(Lines - 1) /\ Lines - 1 + 1 = Lines
  <2>1. Lines \in Nat /\ Lines # 0
    <3>1. CacheLine * MAX_THREADS > 0
      BY VolumeFacts, SMTT(30)
    <3>2. Lines = 0 => DataVolume = 0
      BY VolumeFacts
    <3>3. DataVolume >= CacheLine * MAX_THREADS /\ CacheLine * MAX_THREADS \in Int
      BY VolumeAssumption
    <3> QED
      BY <3>1, <3>2, <3>3, VolumeFacts
  <2> QED
    BY <2>1
<1>5. \A l \in 0..(Lines - 2) : TimesRead(l) \in 1..2
  <2> TAKE l \in 0..(Lines - 2)
  <2>1. l \in 0..(Lines - 1) /\ l \in Nat /\ l + 1 <= Lines - 1
    BY VolumeFacts
  <2> QED
    BY <1>2, <1>3, <2>1
<1>6. TimesRead(Lines - 1) <= 2
  BY <1>2, <1>4
<1>7. DataVolume % threads = 0 => TimesRead(Lines - 1) >= 1
  <2> HAVE DataVolume % threads = 0
  <2>1. Lines * CacheLine <= segment_length * threads
    BY <1>1, SegmentLength, VolumeFacts
  <2> QED
    BY <1>2, <1>4, <2>1
<1> QED
  BY <1>5, <1>6, <1>7

\* For every number of threads and every volume of whole lines: each line of
\* the data is read, and twice at most.
THEOREM MeasurementReadsEveryLine == Spec => []EveryLineRead
  BY EveryLineFollows, MpbwInvariant, PTL

-----------------------------------------------------------------------------
(***************************************************************************)
(* The batch job.  Whose rows mpbw.csv may hold, at each point of the      *)
(* script: the policy's that the script is at, or a killed job's until the *)
(* first mv.                                                               *)
(***************************************************************************)
KilledBefore(n) == \E f \in faults : f.kind = "killed" /\ f.job < n
FirstLaunchFailed == \E g \in faults : g.kind = "launch" /\ g.line = 1 /\ g.job = job

NamesInv ==
  /\ job \in Nat
  /\ line \in 1..Len(Policies)
  /\ script \in {"launch", "running", "mv", "ended"}
  /\ csv = [p \in Policy |-> csv[p]]
  /\ \A f \in faults : f.job \in Nat /\ f.job <= job
  /\ script = "running" => mpbwCsv.policy = Policies[line]
  /\ script = "launch" => mpbwCsv = Absent \/ (line = 1 /\ KilledBefore(job))
  /\ script = "mv" => \/ mpbwCsv = Absent
                      \/ mpbwCsv.policy = Policies[line]
                      \/ line = 1 /\ KilledBefore(job) /\ FirstLaunchFailed
  /\ script = "ended" => mpbwCsv = Absent \/ KilledBefore(job + 1)
  /\ NamesTellThePolicy

\* There is a first line, and no lines are the same.
LEMMA LineFacts ==
  /\ Len(Policies) \in Nat /\ 1 \in 1..Len(Policies)
  /\ \A n \in 1..Len(Policies) : Policies[n] \in Policy
<1>1. Len(Policies) \in Nat /\ Len(Policies) # 0
  OBVIOUS
<1> QED
  BY <1>1 DEF Policy

\* The directory is empty at the start.
LEMMA InitNamesInv == PipelineInit => NamesInv
<1> SUFFICES ASSUME PipelineInit PROVE NamesInv
  OBVIOUS
<1>1. job = 1 /\ script = "launch" /\ line = 1 /\ mpbwCsv = Absent /\ faults = {}
  BY DEF PipelineInit
<1>2. csv = [p \in Policy |-> Absent]
  BY DEF PipelineInit
<1>3. csv = [p \in Policy |-> csv[p]] /\ \A p \in Policy : csv[p] = Absent
  BY <1>2
<1>4. ~HasRows(Absent)
  BY DEF HasRows, Absent
<1>5. NamesTellThePolicy
  BY <1>3, <1>4 DEF NamesTellThePolicy
<1> QED
  BY <1>1, <1>3, <1>5, LineFacts DEF NamesInv

\* What went wrong once stays in the history.
LEMMA FaultKept ==
  ASSUME NEW kind, NamesInv, Fault(kind), job' = job
  PROVE  /\ \A f \in faults' : f.job \in Nat /\ f.job <= job'
         /\ faults \subseteq faults'
         /\ [job |-> job, line |-> line, kind |-> kind] \in faults'
  BY DEF NamesInv, Fault

\* The history grows, and the files named after policies stay as they were.
LEMMA NamesKept ==
  ASSUME NamesTellThePolicy, csv' = csv, faults \subseteq faults'
  PROVE  NamesTellThePolicy'
  BY DEF NamesTellThePolicy

\* mv gives the rows their policy's name, or makes the exception.
LEMMA MvKeepsNames ==
  ASSUME NamesInv, Mv, mpbwCsv # Absent
  PROVE  NamesTellThePolicy'
<1>0. /\ script = "mv" /\ csv' = [csv EXCEPT ![Target] = mpbwCsv] /\ faults' = faults
      /\ Target \in Policy /\ Target = Policies[line]
  BY LineFacts DEF Mv, NamesInv, Target
<1>1. /\ csv'[Target] = mpbwCsv
      /\ \A p \in Policy : p # Target => csv'[p] = csv[p]
  BY <1>0 DEF NamesInv
<1> SUFFICES ASSUME NEW p \in Policy, HasRows(csv'[p]), csv'[p].policy # p
             PROVE  /\ p = Policies[1]
                    /\ \E f, g \in faults :
                         /\ f.kind = "killed" /\ g.kind = "launch" /\ g.line = 1
                         /\ f.job < g.job
  BY <1>0 DEF NamesTellThePolicy
<1>2. CASE p # Target
  <2>1. csv'[p] = csv[p]
    BY <1>1, <1>2
  <2> QED
    BY <2>1 DEF NamesInv, NamesTellThePolicy
<1>3. CASE p = Target
  <2>1. line = 1 /\ KilledBefore(job) /\ FirstLaunchFailed
    BY <1>0, <1>1, <1>3 DEF NamesInv
  <2> QED
    BY <1>0, <1>3, <2>1 DEF KilledBefore, FirstLaunchFailed
<1> QED
  BY <1>2, <1>3

\* Every step keeps it: an action a step.
LEMMA NextNamesInv ==
  ASSUME NamesInv, [PipelineNext]_<<vars, pipelineVars>>
  PROVE  NamesInv'
<1>1. CASE Launch
  <2>1. mpbwCsv'.policy = Policies[line]
    BY <1>1 DEF Launch, Written
  <2> QED
    BY <1>1, <2>1, NamesKept DEF Launch, NamesInv
<1>2. CASE LaunchFails
  <2>1. /\ script' = "mv" /\ UNCHANGED <<job, line, mpbwCsv, csv>> /\ script = "launch"
        /\ Fault("launch")
    BY <1>2 DEF LaunchFails, files
  <2>2. /\ \A f \in faults' : f.job \in Nat /\ f.job <= job'
        /\ faults \subseteq faults'
        /\ [job |-> job, line |-> line, kind |-> "launch"] \in faults'
    BY <2>1, FaultKept
  <2>3. NamesTellThePolicy'
    BY <2>1, <2>2, NamesKept DEF NamesInv
  <2>4. mpbwCsv' = Absent \/ (line' = 1 /\ KilledBefore(job)' /\ FirstLaunchFailed')
    BY <2>1, <2>2 DEF NamesInv, KilledBefore, FirstLaunchFailed
  <2> QED
    BY <2>1, <2>2, <2>3, <2>4 DEF NamesInv
<1>3. CASE Work \/ Close
  <2>1. /\ mpbwCsv'.policy = Policies[line] /\ script = "running"
        /\ UNCHANGED <<job, script, line, csv, faults>>
    BY <1>3 DEF Work, Close, Written
  <2> QED
    BY <2>1, NamesKept DEF NamesInv
<1>4. CASE Exit
  <2>1. script = "running" /\ script' = "mv" /\ UNCHANGED <<job, line, mpbwCsv, csv, faults>>
    BY <1>4 DEF Exit, files
  <2> QED
    BY <2>1, NamesKept DEF NamesInv
<1>5. CASE Dies
  <2>1. /\ script = "running" /\ script' = "mv" /\ UNCHANGED <<job, line, mpbwCsv, csv>>
        /\ Fault("died")
    BY <1>5 DEF Dies, files
  <2>2. (\A f \in faults' : f.job \in Nat /\ f.job <= job') /\ faults \subseteq faults'
    BY <2>1, FaultKept
  <2> QED
    BY <2>1, <2>2, NamesKept DEF NamesInv
<1>6. CASE Mv
  <2>1. /\ script = "mv" /\ UNCHANGED <<job, faults>> /\ mpbwCsv' = Absent
        /\ script' \in {"launch", "ended"} /\ line' \in 1..Len(Policies)
    BY <1>6, LineFacts DEF Mv, files, NamesInv
  <2>2. csv' = [p \in Policy |-> csv'[p]]
    BY <1>6 DEF Mv, files, NamesInv
  <2>3. NamesTellThePolicy'
    <3>1. CASE mpbwCsv = Absent
      BY <1>6, <3>1, NamesKept DEF Mv, files, NamesInv
    <3> QED
      BY <1>6, <3>1, MvKeepsNames
  <2> QED
    BY <2>1, <2>2, <2>3 DEF NamesInv
<1>7. CASE Killed
  <2>1. script' = "ended" /\ UNCHANGED <<job, line, mpbwCsv, csv>> /\ Fault("killed")
    BY <1>7 DEF Killed, files
  <2>2. /\ \A f \in faults' : f.job \in Nat /\ f.job <= job'
        /\ faults \subseteq faults'
        /\ [job |-> job, line |-> line, kind |-> "killed"] \in faults'
    BY <2>1, FaultKept
  <2>3. KilledBefore(job + 1)'
    BY <2>1, <2>2 DEF KilledBefore, NamesInv
  <2> QED
    BY <2>1, <2>2, <2>3, NamesKept DEF NamesInv
<1>8. CASE Submit
  <2>1. /\ script = "ended" /\ script' = "launch" /\ job' = job + 1 /\ line' = 1
        /\ UNCHANGED <<mpbwCsv, csv, faults>>
    BY <1>8 DEF Submit, files
  <2>2. line' \in 1..Len(Policies)
    BY <2>1, LineFacts
  <2>3. mpbwCsv' = Absent \/ KilledBefore(job)'
    BY <2>1 DEF NamesInv, KilledBefore
  <2>4. job' \in Nat /\ \A f \in faults' : f.job \in Nat /\ f.job <= job'
    BY <2>1 DEF NamesInv
  <2> QED
    BY <2>1, <2>2, <2>3, <2>4, NamesKept DEF NamesInv
<1>9. CASE UNCHANGED <<vars, pipelineVars>>
  <2>1. UNCHANGED <<job, script, line, mpbwCsv, csv, faults>>
    BY <1>9 DEF pipelineVars, files
  <2>2. NamesTellThePolicy'
    BY <2>1, NamesKept DEF NamesInv
  <2> QED
    BY <2>1, <2>2 DEF NamesInv, KilledBefore, FirstLaunchFailed
<1> QED
  BY <1>1, <1>2, <1>3, <1>4, <1>5, <1>6, <1>7, <1>8, <1>9 DEF PipelineNext, JobStep

\* Whatever fails and is killed, and however often the job is submitted, only
\* the first policy's file can hold another policy's rows, and only after a
\* killed job and a launch that failed.
THEOREM FilesTellThePolicy == PipelineSpec => []NamesTellThePolicy
<1>1. NamesInv => NamesTellThePolicy
  BY DEF NamesInv
<1> QED
  BY <1>1, InitNamesInv, NextNamesInv, PTL DEF PipelineSpec

-----------------------------------------------------------------------------
Renewed(p) == csv[p].policy = p /\ csv[p].job = job /\ HasRows(csv[p])

Clean == \A f \in faults : f.job # job

\* mpbw.csv has all its rows once the program has closed it, and none before.
\* In a job without a fault the script has renewed the file of every line that
\* it is past, and mpbw.csv is of the line it is at.
CleanInv ==
  /\ script # "running" => pc = "start"
  /\ HasRows(mpbwCsv) => InOrder(mpbwCsv.rows)
  /\ RowsAllOrNone
  /\ Clean =>
      /\ \A m \in 1..Len(Policies) : m < line \/ script = "ended" => Renewed(Policies[m])
      /\ script \in {"running", "mv"} => mpbwCsv.policy = Policies[line] /\ mpbwCsv.job = job
      /\ script = "mv" \/ (script = "running" /\ pc = "done") => HasRows(mpbwCsv)

PipelineInv == MpbwInv /\ NamesInv /\ CleanInv

\* A process that has ended leaves nothing to the next one.
LEMMA NoProcessMpbwInv == NoProcess => MpbwInv'
<1>1. NoProcess => Init'
  BY DEF NoProcess, Init, Thread, NextMeasured, Measured
<1> QED
  BY <1>1, InitMpbwInv, PTL

\* Of mpbw the script's steps are a step of the program's or its end.
LEMMA PipelineKeepsMpbwInv ==
  ASSUME MpbwInv, [PipelineNext]_<<vars, pipelineVars>>
  PROVE  MpbwInv'
<1>1. CASE Launch \/ LaunchFails \/ Mv \/ Submit \/ UNCHANGED <<vars, pipelineVars>>
  <2>1. UNCHANGED vars
    BY <1>1 DEF Launch, LaunchFails, Mv, Submit
  <2> QED
    BY <2>1, StutterMpbwInv
<1>2. CASE Work
  BY <1>2, MeasuringMpbwInv DEF Work
<1>3. CASE Close
  BY <1>3, CloseMpbwInv DEF Close
<1>4. CASE Exit \/ Dies \/ Killed
  BY <1>4, NoProcessMpbwInv DEF Exit, Dies, Killed
<1> QED
  BY <1>1, <1>2, <1>3, <1>4 DEF PipelineNext, JobStep

\* The rows that main() has written when it closes mpbw.csv are all of them.
LEMMA ClosedInOrder ==
  ASSUME MpbwInv, CloseOutput
  PROVE  InOrder(Labels(rows)) /\ Labels(rows) # <<>>
<1>1. threads > MAX_THREADS /\ RowsInv /\ threads \in Int /\ MAX_THREADS \in Nat
      /\ rows \in Seq([threads : 1..MAX_THREADS, prefetch : BOOLEAN, best : Durations])
  BY VolumeFacts DEF CloseOutput, MpbwInv, TypeOK
<1> DEFINE k == 2 + 2 * (MAX_THREADS \div 2)
<1>2. Len(rows) = k /\ DOMAIN rows = 1..k /\ k \in Nat /\ k # 0
  BY <1>1 DEF RowsInv
<1>3. \A n \in 1..k : rows[n].threads = RowThreads(n) /\ rows[n].prefetch = RowPrefetch(n)
  BY <1>1, <1>2 DEF RowsInv
<1> HIDE DEF k
<1>4. Labels(rows) = [n \in 1..k |-> [threads |-> rows[n].threads, prefetch |-> rows[n].prefetch]]
  BY <1>2 DEF Labels
<1>5. DOMAIN Labels(rows) = 1..k
  BY <1>4
<1>6. Labels(rows) \in Seq([threads : 1..MAX_THREADS, prefetch : BOOLEAN])
  <2>1. \A n \in 1..k : rows[n].threads \in 1..MAX_THREADS /\ rows[n].prefetch \in BOOLEAN
    <3>1. \A n \in 1..Len(rows) :
            rows[n] \in [threads : 1..MAX_THREADS, prefetch : BOOLEAN, best : Durations]
      <4> DEFINE Row == [threads : 1..MAX_THREADS, prefetch : BOOLEAN, best : Durations]
      <4>1. rows \in Seq(Row)
        BY <1>1
      <4> HIDE DEF Row
      <4>2. \A n \in 1..Len(rows) : rows[n] \in Row
        BY <4>1
      <4> QED
        BY <4>2 DEF Row
    <3> QED
      BY <1>2, <3>1
  <2> QED
    BY <1>2, <1>4, <2>1
<1>7. Len(Labels(rows)) = k
  BY <1>2, <1>5, <1>6
<1>8. \A n \in 1..k : Labels(rows)[n].threads = RowThreads(n)
                      /\ Labels(rows)[n].prefetch = RowPrefetch(n)
  BY <1>3, <1>4
<1>9. InOrder(Labels(rows))
  BY <1>5, <1>7, <1>8 DEF InOrder, RowThreads, RowPrefetch, k
<1>10. Labels(rows) # <<>>
  BY <1>2, <1>7
<1> QED
  BY <1>9, <1>10

\* A fault ends the job's being clean, and leaves it that.
LEMMA FaultIsNotClean ==
  ASSUME NEW kind, Fault(kind), job' = job
  PROVE  ~Clean'
<1>1. [job |-> job, line |-> line, kind |-> kind] \in faults'
  BY DEF Fault
<1> QED
  BY <1>1 DEF Clean

LEMMA InitCleanInv == PipelineInit => CleanInv
<1> SUFFICES ASSUME PipelineInit PROVE CleanInv
  OBVIOUS
<1>1. /\ pc = "start" /\ script = "launch" /\ line = 1 /\ mpbwCsv = Absent
      /\ csv = [p \in Policy |-> Absent]
  BY DEF PipelineInit, Init
<1>2. ~HasRows(Absent)
  BY DEF HasRows, Absent
<1>3. RowsAllOrNone
  BY <1>1, <1>2 DEF RowsAllOrNone
<1> QED
  BY <1>1, <1>2, <1>3 DEF CleanInv

\* mv gives a policy's file the rows of mpbw.csv, and in a clean job they are
\* the policy's own.
LEMMA MvCleanInv ==
  ASSUME PipelineInv, Mv
  PROVE  CleanInv'
<1>1. /\ script = "mv" /\ pc' = pc /\ job' = job /\ faults' = faults /\ Clean' = Clean
      /\ line \in 1..Len(Policies) /\ CleanInv /\ pc = "start" /\ RowsAllOrNone
      /\ csv = [p \in Policy |-> csv[p]] /\ Target = Policies[line] /\ Target \in Policy
  BY LineFacts DEF Mv, vars, PipelineInv, NamesInv, CleanInv, Clean, Target
<1>2. ~HasRows(Absent)
  BY DEF HasRows, Absent
<1>3. CASE mpbwCsv = Absent
  <2>1. csv' = csv /\ mpbwCsv' = Absent /\ ~Clean'
    BY <1>1, <1>2, <1>3 DEF Mv, files, CleanInv
  <2> QED
    BY <1>1, <1>2, <2>1 DEF CleanInv, Mv, RowsAllOrNone
<1>4. CASE mpbwCsv # Absent
  <2>1. /\ csv'[Target] = mpbwCsv /\ mpbwCsv' = Absent
        /\ \A p \in Policy : p # Target => csv'[p] = csv[p]
    BY <1>1, <1>4 DEF Mv
  <2>2. RowsAllOrNone'
    BY <1>1, <2>1 DEF CleanInv, RowsAllOrNone
  <2>3. ASSUME Clean', NEW m \in 1..Len(Policies), m < line' \/ script' = "ended"
        PROVE  Renewed(Policies[m])'
    <3>1. m <= line
      BY <1>1, <2>3 DEF Mv
    <3>2. CASE m = line
      BY <1>1, <2>1, <2>3, <3>2 DEF CleanInv, Renewed
    <3>3. CASE m # line
      <4>1. Policies[m] # Target /\ Policies[m] \in Policy
        BY <1>1, <3>3, LineFacts
      <4>2. Renewed(Policies[m])
        BY <1>1, <2>3, <3>1, <3>3 DEF CleanInv
      <4> QED
        BY <1>1, <2>1, <4>1, <4>2 DEF Renewed
    <3> QED
      BY <3>2, <3>3
  <2>4. script' \in {"launch", "ended"}
    BY DEF Mv
  <2> QED
    BY <1>1, <1>2, <2>1, <2>2, <2>3, <2>4 DEF CleanInv
<1> QED
  BY <1>3, <1>4

LEMMA NextCleanInv ==
  ASSUME PipelineInv, [PipelineNext]_<<vars, pipelineVars>>
  PROVE  CleanInv'
<1>0. CleanInv /\ MpbwInv /\ NamesInv
  BY DEF PipelineInv
<1>1. CASE Launch
  <2>1. /\ script' = "running" /\ pc' = pc /\ pc = "start" /\ job' = job /\ line' = line
        /\ csv' = csv /\ faults' = faults /\ mpbwCsv' = Written(<<>>) /\ script = "launch"
    BY <1>0, <1>1 DEF Launch, OnDisk, vars, CleanInv
  <2>2. ~HasRows(mpbwCsv') /\ mpbwCsv'.policy = Policies[line] /\ mpbwCsv'.job = job
    BY <2>1 DEF Written, HasRows
  <2> QED
    BY <1>0, <2>1, <2>2 DEF CleanInv, Clean, Renewed, RowsAllOrNone
<1>2. CASE LaunchFails
  <2>1. /\ script' = "mv" /\ pc' = pc /\ pc = "start" /\ csv' = csv /\ mpbwCsv' = mpbwCsv
        /\ Fault("launch") /\ job' = job
    BY <1>0, <1>2 DEF LaunchFails, files, vars, CleanInv
  <2>2. ~Clean'
    BY <2>1, FaultIsNotClean
  <2> QED
    BY <1>0, <2>1, <2>2 DEF CleanInv, RowsAllOrNone
<1>3. CASE Work
  <2>1. /\ script = "running" /\ UNCHANGED <<job, script, line, csv, faults>>
        /\ mpbwCsv' = Written(<<>>) /\ pc' # "done"
    BY <1>3 DEF Work, OnDisk, Measuring, StartClock, Spawn, Read, LoadGSum, StoreGSum, StopClock,
                Compare, WriteRow, Running
  <2>2. ~HasRows(mpbwCsv') /\ mpbwCsv'.policy = Policies[line] /\ mpbwCsv'.job = job
    BY <2>1 DEF Written, HasRows
  <2> QED
    BY <1>0, <2>1, <2>2 DEF CleanInv, Clean, Renewed, RowsAllOrNone
<1>4. CASE Close
  <2>1. /\ script = "running" /\ UNCHANGED <<job, script, line, csv, faults>>
        /\ mpbwCsv' = Written(Labels(rows))
        /\ InOrder(Labels(rows)) /\ Labels(rows) # <<>>
    BY <1>0, <1>4, ClosedInOrder DEF Close
  <2>2. /\ HasRows(mpbwCsv') /\ InOrder(mpbwCsv'.rows)
        /\ mpbwCsv'.policy = Policies[line] /\ mpbwCsv'.job = job
    BY <2>1 DEF Written, HasRows
  <2> QED
    BY <1>0, <2>1, <2>2 DEF CleanInv, Clean, Renewed, RowsAllOrNone
<1>5. CASE Exit
  <2>1. /\ script = "running" /\ pc = "done" /\ script' = "mv" /\ pc' = "start"
        /\ UNCHANGED <<job, line, mpbwCsv, csv, faults>>
    BY <1>5 DEF Exit, NoProcess, files
  <2> QED
    BY <1>0, <2>1 DEF CleanInv, Clean, Renewed, RowsAllOrNone
<1>6. ASSUME NEW kind, Fault(kind), pc' = "start", UNCHANGED <<job, mpbwCsv, csv>>
      PROVE  CleanInv'
  <2>1. ~Clean'
    BY <1>6, FaultIsNotClean
  <2> QED
    BY <1>0, <1>6, <2>1 DEF CleanInv, RowsAllOrNone
<1>7. CASE Dies \/ Killed
  BY <1>6, <1>7 DEF Dies, Killed, NoProcess, files
<1>8. CASE Mv
  BY <1>8, MvCleanInv
<1>9. CASE Submit
  <2>1. /\ script' = "launch" /\ line' = 1 /\ pc' = pc /\ pc = "start"
        /\ UNCHANGED <<mpbwCsv, csv>>
    BY <1>0, <1>9 DEF Submit, files, vars, CleanInv
  <2> QED
    BY <1>0, <2>1 DEF CleanInv, RowsAllOrNone
<1>10. CASE UNCHANGED <<vars, pipelineVars>>
  <2>1. UNCHANGED <<pc, job, script, line, mpbwCsv, csv, faults>>
    BY <1>10 DEF vars, pipelineVars, files
  <2> QED
    BY <1>0, <2>1 DEF CleanInv, Clean, Renewed, RowsAllOrNone
<1> QED
  BY <1>1, <1>2, <1>3, <1>4, <1>5, <1>7, <1>8, <1>9, <1>10 DEF PipelineNext, JobStep

LEMMA PipelineInvariant == PipelineSpec => []PipelineInv
<1>1. PipelineInit => PipelineInv
  BY InitMpbwInv, InitNamesInv, InitCleanInv DEF PipelineInit, PipelineInv
<1>2. PipelineInv /\ [PipelineNext]_<<vars, pipelineVars>> => PipelineInv'
  BY PipelineKeepsMpbwInv, NextNamesInv, NextCleanInv DEF PipelineInv
<1> QED
  BY <1>1, <1>2, PTL DEF PipelineSpec

\* Though main() may die at any row, and its file is moved all the same: one
\* with rows has all of them, in order.
THEOREM FilesAreWhole == PipelineSpec => []RowsAllOrNone
<1>1. PipelineInv => RowsAllOrNone
  BY DEF PipelineInv, CleanInv
<1> QED
  BY <1>1, PipelineInvariant, PTL

\* Whatever the jobs before left in the directory, a job in which nothing goes
\* wrong makes every policy's file anew, with the policy's own rows.
THEOREM CleanJobRenews == PipelineSpec => []CleanJobRenewsAll
<1>1. PipelineInv => CleanJobRenewsAll
  BY DEF PipelineInv, CleanInv, Clean, CleanJobRenewsAll, Renewed, Policy
<1> QED
  BY <1>1, PipelineInvariant, PTL
=============================================================================
