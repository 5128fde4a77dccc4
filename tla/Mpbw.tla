-------------------------------- MODULE Mpbw --------------------------------
(***************************************************************************)
(* src/src/mpbw.cpp, the multithreaded peak bandwidth.  A measurement      *)
(* gives each thread a segment of the data, of which it reads a byte in    *)
(* every 64, and takes the time until the last thread is joined.  For each *)
(* number of threads, with and without prefetching, the best measurement   *)
(* becomes a row of mpbw.csv.                                              *)
(*                                                                         *)
(* The data are all 1, so a sum is a number of reads.  g_sum is only ever  *)
(* added to: it is counted from the beginning of the measurement here.     *)
(* The addition is a load and a store of a volatile, in any order with the *)
(* other threads'.                                                         *)
(***************************************************************************)
EXTENDS Integers, Sequences, FiniteSets

CONSTANTS
  DataVolume,   \* data_volume, in bytes
  CacheLine,    \* cache_line, 64
  MAX_THREADS,  \* 56
  N,            \* measurements after the first, 3
  Durations     \* the times a measurement may take

\* 16 GB are whole lines; every thread has a line and more; and what the
\* division by the threads leaves over is less than a line.
ASSUME VolumeAssumption ==
  /\ CacheLine \in Nat \ {0} /\ MAX_THREADS \in 1..CacheLine
  /\ DataVolume \in Nat /\ DataVolume % CacheLine = 0
  /\ DataVolume >= CacheLine * MAX_THREADS
ASSUME NAssumption == N \in Nat
ASSUME DurationsAssumption == Durations \subseteq Nat \ {0} /\ Durations # {}

VARIABLES
  pc,         \* "start", "running", "joined", "done"
  threads,
  prefetch,
  attempt,    \* the measurements made of this configuration
  spawned,    \* how many of the threads exist
  phase,      \* of each thread: "sum", "store" (between the load of g_sum and
              \* the store), "end"
  at,         \* i, the index each thread reads next
  loaded,     \* the g_sum each thread has loaded
  g_sum,
  elapsed,    \* of the measurement just ended
  best,       \* the time that bw was computed from
  seen,       \* history: the times of this configuration
  rows        \* the rows of mpbw.csv: [threads, prefetch, best]

perThread == <<phase, at, loaded>>
vars == <<pc, threads, prefetch, attempt, spawned, perThread, g_sum, elapsed, best, seen, rows>>

Thread == 0..(MAX_THREADS - 1)
Team   == 0..(threads - 1)

\* Type correctness of the variables; in particular no thread of mpbw.cpp's sum
\* reads past the data: the last index it leaves its loop with is less than a
\* line beyond them.
TypeOK ==
  /\ pc \in {"start", "running", "joined", "done"}
  /\ threads \in 1..(MAX_THREADS + 1)
  /\ prefetch \in BOOLEAN
  /\ attempt \in 0..(N + 1)
  /\ spawned \in 0..threads
  /\ phase \in [Thread -> {"sum", "store", "end"}]
  /\ at \in [Thread -> 0..(DataVolume + CacheLine - 1)]
  /\ loaded \in [Thread -> 0..DataVolume]
  /\ g_sum \in 0..DataVolume
  /\ elapsed \in Durations \union {0} /\ best \in Durations \union {0}
  /\ seen \subseteq Durations
  /\ rows \in Seq([threads : 1..MAX_THREADS, prefetch : BOOLEAN, best : Durations])

-----------------------------------------------------------------------------
\* The segments.

segment_length == DataVolume \div threads

\* Plausible bug: every thread begins with the first byte.
SegmentStartFirst(t) == 0

SegmentStart(t) == segment_length * t

\* Plausible bugs: the end leaves out the segment's last line, or is a line late.
SegmentEndShort(t) == segment_length * (t + 1) - CacheLine
SegmentEndPast(t)  == segment_length * (t + 1) + CacheLine

SegmentEnd(t) == segment_length * (t + 1)

\* The reads thread t has made.
ReadsOf(t) == (at[t] - SegmentStart(t)) \div CacheLine

\* The numbers of threads that the loop does not pass over.
Measured(n) == n % 2 = 0 \/ n = 1

\* The number of threads the loop measures (or ends) with when it is at n.
NextMeasured(n) == IF n > MAX_THREADS \/ Measured(n) THEN n ELSE n + 1

-----------------------------------------------------------------------------
Init ==
  /\ pc = "start"
  /\ threads = NextMeasured(1)
  /\ prefetch = FALSE
  /\ attempt = 0
  /\ spawned = 0
  /\ phase = [t \in Thread |-> "end"]
  /\ at = [t \in Thread |-> 0]
  /\ loaded = [t \in Thread |-> 0]
  /\ g_sum = 0
  /\ elapsed = 0 /\ best = 0
  /\ seen = {}
  /\ rows = <<>>

\* estimate_bandwidth: the clock is read.
StartClock ==
  /\ pc = "start"
  /\ threads <= MAX_THREADS
  /\ pc' = "running"
  /\ spawned' = 0
  /\ g_sum' = 0
  /\ UNCHANGED <<threads, prefetch, attempt, perThread, elapsed, best, seen, rows>>

\* threads.emplace_back, or with one thread the call of sum.
Spawn ==
  /\ pc = "running"
  /\ spawned < threads
  /\ spawned' = spawned + 1
  /\ phase' = [phase EXCEPT ![spawned] = "sum"]
  /\ at' = [at EXCEPT ![spawned] = SegmentStart(spawned)]
  /\ loaded' = [loaded EXCEPT ![spawned] = 0]
  /\ UNCHANGED <<pc, threads, prefetch, attempt, g_sum, elapsed, best, seen, rows>>

Running(t) == pc \in {"running", "joined"} /\ t < spawned

\* A turn of sum's loop.
Read(t) ==
  /\ Running(t)
  /\ phase[t] = "sum"
  /\ at[t] < SegmentEnd(t)
  /\ at' = [at EXCEPT ![t] = @ + CacheLine]
  /\ UNCHANGED <<pc, threads, prefetch, attempt, spawned, phase, loaded, g_sum, elapsed, best, seen, rows>>

\* g_sum += sum: the load.
LoadGSum(t) ==
  /\ Running(t)
  /\ phase[t] = "sum"
  /\ at[t] >= SegmentEnd(t)
  /\ phase' = [phase EXCEPT ![t] = "store"]
  /\ loaded' = [loaded EXCEPT ![t] = g_sum]
  /\ UNCHANGED <<pc, threads, prefetch, attempt, spawned, at, g_sum, elapsed, best, seen, rows>>

\* g_sum += sum: the store, and the thread returns.
StoreGSum(t) ==
  /\ Running(t)
  /\ phase[t] = "store"
  /\ g_sum' = loaded[t] + ReadsOf(t)
  /\ phase' = [phase EXCEPT ![t] = "end"]
  /\ UNCHANGED <<pc, threads, prefetch, attempt, spawned, at, loaded, elapsed, best, seen, rows>>

\* Plausible bug: only the first thread is joined.
AllJoinedFirst == spawned = threads /\ phase[0] = "end"

\* Plausible bug: as many threads are joined as there can be.
AllJoinedMax == spawned = MAX_THREADS /\ \A t \in Thread : phase[t] = "end"

\* The loop over the threads has joined them all.
AllJoined == spawned = threads /\ \A t \in Team : phase[t] = "end"

StopClock ==
  /\ pc = "running"
  /\ AllJoined
  /\ pc' = "joined"
  /\ elapsed' \in Durations
  /\ UNCHANGED <<threads, prefetch, attempt, spawned, perThread, g_sum, best, seen, rows>>

\* Plausible bug: cbw < bw.
BetterReversed(cbw, bw) == cbw > bw

\* cbw > bw, the bandwidth being the volume by the time.
Better(cbw, bw) == cbw < bw

\* The best of the first measurement and the N after it.
Compare ==
  /\ pc = "joined"
  /\ attempt <= N
  /\ best' = IF attempt = 0 \/ Better(elapsed, best) THEN elapsed ELSE best
  /\ seen' = seen \union {elapsed}
  /\ attempt' = attempt + 1
  /\ pc' = IF attempt < N THEN "start" ELSE "joined"
  /\ UNCHANGED <<threads, prefetch, spawned, perThread, g_sum, elapsed, rows>>

\* The row is written, and the next configuration is up: the same number of
\* threads with prefetching, or the next number without.
WriteRow ==
  /\ pc = "joined"
  /\ attempt = N + 1
  /\ rows' = Append(rows, [threads |-> threads, prefetch |-> prefetch, best |-> best])
  /\ prefetch' = ~prefetch
  /\ threads' = IF prefetch THEN NextMeasured(threads + 1) ELSE threads
  /\ attempt' = 0
  /\ spawned' = 0
  /\ seen' = {}
  /\ pc' = "start"
  /\ UNCHANGED <<perThread, g_sum, elapsed, best>>

CloseOutput ==
  /\ pc = "start"
  /\ threads > MAX_THREADS
  /\ pc' = "done"
  /\ UNCHANGED <<threads, prefetch, attempt, spawned, perThread, g_sum, elapsed, best, seen, rows>>

\* What the program does between opening mpbw.csv and closing it.
Measuring ==
  \/ StartClock \/ Spawn
  \/ \E t \in Thread : Read(t) \/ LoadGSum(t) \/ StoreGSum(t)
  \/ StopClock \/ Compare \/ WriteRow

Next == Measuring \/ CloseOutput

Spec == Init /\ [][Next]_vars

-----------------------------------------------------------------------------
Lines == DataVolume \div CacheLine

\* How many times the team has read the cache line l.
TimesRead(l) ==
  Cardinality({read \in Team \X (0..Lines) :
                 /\ read[2] < ReadsOf(read[1])
                 /\ (SegmentStart(read[1]) + read[2] * CacheLine) \div CacheLine = l})

\* The bandwidth that estimate_bandwidth returns is that of the whole volume: when
\* the clock is stopped each line of the data has been read, though the segments
\* begin in the middle of lines; twice at most, by the threads on both sides of
\* a boundary; and only the last line may have been left out, when the threads do
\* not divide the volume.
EveryLineRead ==
  pc = "joined" =>
    /\ \A l \in 0..(Lines - 2) : TimesRead(l) \in 1..2
    /\ TimesRead(Lines - 1) <= 2
    /\ DataVolume % threads = 0 => TimesRead(Lines - 1) >= 1

\* g_sum += sum is not atomic (line 25): the threads may lose each other's sums,
\* but at the end of a measurement one of them is there whole, and nothing is
\* there that no thread has read.
GSumKeepsASum ==
  pc = "joined" =>
    /\ \E t \in Team : g_sum >= ReadsOf(t)
    /\ g_sum <= Lines + threads - 1

\* The row shows the shortest measurement of its own configuration, and nothing
\* of the configuration before, whose bw the variable held.
BestOfMeasurements ==
  pc = "joined" /\ attempt = N + 1 =>
    /\ best \in seen
    /\ \A d \in seen : best <= d

\* The rows of a whole mpbw.csv: for the single thread and then for every even
\* number of threads up to MAX_THREADS, the row without prefetching and the row
\* with it.
InOrder(r) ==
  /\ Len(r) = 2 + 2 * (MAX_THREADS \div 2)
  /\ \A n \in DOMAIN r :
       /\ r[n].threads = IF n <= 2 THEN 1 ELSE 2 * ((n - 1) \div 2)
       /\ r[n].prefetch = (n % 2 = 0)
=============================================================================
