--------------------------- MODULE LoadedLatency ----------------------------
(***************************************************************************)
(* src/src/latency-vs-bandwidth.cpp: thread 0 of a team measures the       *)
(* latency of the memory while the others load it, each with a segment of  *)
(* two arrays, and then ends the process under them.  The programs that    *)
(* measure the same way without a team are here with none.                 *)
(*                                                                         *)
(* Nothing in the code orders the load before the measurement: a thread    *)
(* may begin its kernel at any time, or never.                             *)
(***************************************************************************)
EXTENDS CacheProbes

CONSTANTS
  MaxThreads,     \* a bound of the run: the largest argument
  N,              \* the elements of a and b, 112*16*1024*1024
  num_iterations  \* of a thread of the load, 2000000000

ASSUME LoadAssumption ==
  /\ MaxThreads \in Nat \ {0} /\ N \in Nat /\ num_iterations \in Nat \ {0}

VARIABLES
  num_threads,  \* the argument
  team,         \* omp_get_num_threads()
  kernel,       \* of each thread: "idle", "loop", "barrier"
  i, it         \* the counters of its kernel

loadVars == <<num_threads, team, kernel, i, it>>

Loader == 1..(MaxThreads - 1)

Segment == N \div num_threads

\* Plausible bug: the segment ends behind the first element of the next.
UpperPast(t) == Segment * (t + 1) + 1

\* l and u of the thread with the number t.
Lower(t) == Segment * t
Upper(t) == Segment * (t + 1)

Init ==
  /\ ProbeInit
  /\ num_threads \in IF program = "latency_vs_bandwidth" THEN 1..MaxThreads ELSE {1}
  /\ team = 1
  /\ kernel = [t \in Loader |-> "idle"]
  /\ i = [t \in Loader |-> 0]
  /\ it = [t \in Loader |-> 0]

\* The parallel region: the runtime may grant fewer threads.
Fork ==
  /\ pc = "start"
  /\ program = "latency_vs_bandwidth"
  /\ team' \in 1..num_threads
  /\ pc' = "team"
  /\ UNCHANGED <<program, trialVars, num_threads, kernel, i, it>>

Alone ==
  /\ program # "latency_vs_bandwidth"
  /\ Warmup("start")
  /\ UNCHANGED loadVars

TeamAccepted == num_threads = team

Measure ==
  /\ TeamAccepted
  /\ Warmup("team")
  /\ UNCHANGED loadVars

\* exit(1), or exit(0) when the result is printed: no thread of the team runs
\* on.
Exit ==
  /\ pc' = "exited"
  /\ UNCHANGED <<program, trialVars, loadVars>>

Refuse == pc = "team" /\ ~TeamAccepted /\ Exit

\* Plausible bug: thread 0 goes on to the end of the region.
LeavesWhenAllDo == \A t \in Loader : t < team => kernel[t] = "barrier"

\* What thread 0 waits for before the process ends.
Leaves == TRUE

Finish == pc = "printed" /\ Leaves /\ Exit

Trial == (PrepareLine \/ TouchOther \/ OthersTouched \/ Time) /\ UNCHANGED loadVars

Running(t) == pc \notin {"start", "exited"} /\ t < team

EnterKernel(t) ==
  /\ Running(t)
  /\ kernel[t] = "idle"
  /\ kernel' = [kernel EXCEPT ![t] = "loop"]
  /\ i' = [i EXCEPT ![t] = Lower(t)]
  /\ UNCHANGED <<probeVars, num_threads, team, it>>

\* a[i] = b[i] - a[i], and the counters of both loops.
Load(t) ==
  /\ Running(t)
  /\ kernel[t] = "loop"
  /\ IF i[t] < Upper(t)
     THEN i' = [i EXCEPT ![t] = @ + 1] /\ UNCHANGED <<kernel, it>>
     ELSE /\ it' = [it EXCEPT ![t] = @ + 1]
          /\ IF it'[t] < num_iterations
             THEN i' = [i EXCEPT ![t] = Lower(t)] /\ UNCHANGED kernel
             ELSE kernel' = [kernel EXCEPT ![t] = "barrier"] /\ UNCHANGED i
  /\ UNCHANGED <<probeVars, num_threads, team>>

Thread0 == Fork \/ Alone \/ Measure \/ Refuse \/ Finish \/ Trial

Loaders == \E t \in Loader : EnterKernel(t) \/ Load(t)

Evict == Pushed /\ UNCHANGED loadVars

CompleteFlush(l) == Flushed(l) /\ UNCHANGED loadVars

Next == Thread0 \/ Loaders \/ Evict \/ \E l \in FlushedLines(X, 8) : CompleteFlush(l)

vars == <<probeVars, loadVars>>

Spec == Init /\ [][Next]_vars

\* Thread 0 is run and flushes complete; nothing is asked of the load.
FairSpec ==
  /\ Spec
  /\ WF_vars(Thread0)
  /\ \A l \in FlushedLines(X, 8) : WF_vars(CompleteFlush(l))

-----------------------------------------------------------------------------
\* Type correctness; in particular the threads of the load stay in segments
\* that none of them shares with another or with thread 0, however small the
\* team, and cache_other_xis keeps to elements of the array that compete with
\* x[0] for the ways of one set of L1, and leaves x[0] alone.
TypeOK ==
  /\ where \in Level /\ flushing \subseteq FlushedLines(X, 8) /\ moved \in BOOLEAN
  /\ program \in Program
  /\ pc \in {"start", "team", "trials", "printed", "exited"}
  /\ phase \in 1..Headings /\ trial \in 0..(Trials - 1) /\ step \in 1..(Len(Prepare) + 1)
  /\ j \in 0..(Repeats * Pages * Pages + Pages - 1)
  /\ SetOf(rival) = SetOf(X) /\ LineOf(rival) # LineOf(X)
  /\ rival + 8 <= RivalAddress(Pages)
  /\ num_threads \in 1..MaxThreads /\ team \in 1..num_threads
  /\ \A t \in Loader :
       /\ it[t] \in 0..num_iterations
       /\ kernel[t] \in {"idle", "loop", "barrier"}
       /\ kernel[t] # "idle" => i[t] \in (Segment * t)..(Segment * (t + 1)) /\ i[t] <= N

\* A time under "From RAM", and every time behind "Access latency", is of a load
\* that found the line in no cache, though the flush may complete late and the
\* load before it had brought the line in; a time under another heading is not,
\* unless something besides the program's own hints has moved the line: the rows
\* "From RAM" leave nothing behind for the rows after them.  And a result is
\* printed only of the team that was asked for (lines 98-101).
TimesMeanWhatTheySay ==
  /\ last.heading = "RAM" => last.from = Memory
  /\ last.heading \notin {"none", "RAM"} /\ ~last.moved => last.from # Memory
  /\ pc \in {"trials", "printed"} => team = num_threads

\* The program ends, whether the threads of the load are run or not, and long
\* before they have done their iterations: thread 0 waits for none of them.
Terminates == <>(pc = "exited")
=============================================================================
