---------------------------- MODULE PatternWalk ----------------------------
(***************************************************************************)
(* The pattern tests of src/src/MemoryLatency.c: RunTest ("-test c"),      *)
(* RunMlpTest ("-test mlp") and RunAopTest ("-test aop").  Each shuffles a *)
(* pattern over the cache lines of the region with the same loop           *)
(* (FillPatternArr, and RunAopTest's own copy of it) and then makes        *)
(* scaled_iterations loads that follow the pattern.                        *)
(*                                                                         *)
(* An element of the pattern is a cache line: the code's index i*increment *)
(* is line i here, and increment (16 words) is left out.  Only the first   *)
(* word of a line is ever written or read by these tests.                  *)
(***************************************************************************)
EXTENDS PatternShuffle

CONSTANTS
  ElementCount,      \* element_count = list_size / increment
  Parallelism,       \* parallelism of RunMlpTest
  ScaledIterations   \* scaled_iterations; a bound of the run for TLC

\* Every default_test_sizes entry is at least 2 KB, 32 lines.
ASSUME ElementCountAssumption == ElementCount \in Nat \ {0}

\* Chain i starts at line i (line 620), so there is a line for every chain:
\* the code does not check it, the sizes and the parallelism up to 32 that
\* main() uses by default satisfy it.
ASSUME ParallelismAssumption == Parallelism \in 1..ElementCount

ASSUME ScaledIterationsAssumption == ScaledIterations \in Nat

Line  == 0..(ElementCount - 1)
Chain == 0..(Parallelism - 1)
Tests == {"c", "mlp", "aop"}

VARIABLES
  test,      \* which of the three tests main() dispatched to
  pc,        \* "fill": in the shuffle; "walk": in the timed loop; "done"
  iter,      \* the shuffle's countdown
  pattern,   \* pattern_arr: the line whose index line x holds
  pos,       \* RunTest's current, RunMlpTest's offsets, RunAopTest's pointer_idx
  i,         \* the timed loop's counter
  j,         \* RunMlpTest's inner counter: the chain that loads next
  touched    \* history: the lines each chain loaded in its current round

vars == <<test, pc, iter, pattern, pos, i, j, touched>>

\* Type correctness; in particular no walk stands outside the region, and no
\* chain of RunMlpTest or pointer of RunAopTest runs past its array.
TypeOK ==
  /\ test \in Tests
  /\ pc \in {"fill", "walk", "done"}
  /\ iter \in 1..ElementCount
  /\ pattern \in [Line -> Line]
  /\ pos \in [Chain -> Line]
  /\ i \in 0..ScaledIterations
  /\ j \in Chain
  /\ touched \in [Chain -> SUBSET Line]

-----------------------------------------------------------------------------
\* The shuffle.

\* The state after the loop that writes each element's own index.
Init ==
  /\ test \in Tests
  /\ pc = "fill"
  /\ iter = ElementCount
  /\ pattern = [x \in Line |-> x]
  /\ pos = [k \in Chain |-> 0]
  /\ i = 0
  /\ j = 0
  /\ touched = [k \in Chain |-> {}]

\* One turn of while (iter > 1).
FillStep ==
  /\ pc = "fill"
  /\ iter > 1
  /\ iter' = iter - 1
  /\ \E r \in RandIndex(iter - 1) : pattern' = Swap(pattern, iter - 1, r)
  /\ UNCHANGED <<test, pc, pos, i, j, touched>>

-----------------------------------------------------------------------------
\* The timed loops.

\* The history after a load of line l in a round that visited t.
RoundAfter(t, l) == IF t = Line THEN {l} ELSE t \union {l}

\* RunTest's first load, current = A[0], before the loop.
StartRunTest ==
  /\ test = "c"
  /\ pc = "fill"
  /\ iter <= 1
  /\ pc' = "walk"
  /\ pos' = [pos EXCEPT ![0] = pattern[0]]
  /\ touched' = [touched EXCEPT ![0] = RoundAfter(@, 0)]
  /\ UNCHANGED <<test, iter, pattern, i, j>>

\* Where RunMlpTest's chains start: offsets[i] = i * 16.
StartOffset(k) == k

StartRunMlpTest ==
  /\ test = "mlp"
  /\ pc = "fill"
  /\ iter <= 1
  /\ pc' = "walk"
  /\ pos' = [k \in Chain |-> StartOffset(k)]
  /\ UNCHANGED <<test, iter, pattern, i, j, touched>>

\* RunAopTest turns the pattern into pointers; the walk starts at pointer 0.
StartRunAopTest ==
  /\ test = "aop"
  /\ pc = "fill"
  /\ iter <= 1
  /\ pc' = "walk"
  /\ pos' = [pos EXCEPT ![0] = 0]
  /\ UNCHANGED <<test, iter, pattern, i, j, touched>>

\* A load through chain k: offsets[k] = A[offsets[k]].
Chase(k) ==
  /\ pos' = [pos EXCEPT ![k] = pattern[pos[k]]]
  /\ touched' = [touched EXCEPT ![k] = RoundAfter(@, pos[k])]

RunTestLoad ==
  /\ test = "c"
  /\ pc = "walk"
  /\ i < ScaledIterations
  /\ Chase(0)
  /\ i' = i + 1
  /\ UNCHANGED <<test, pc, iter, pattern, j>>

\* RunMlpTest divides the iterations among the chains.
MlpRounds == ScaledIterations \div Parallelism

\* The chain that loads after chain k, and whether that ends a turn of the
\* outer loop.
NextChain(k) == IF k + 1 < Parallelism THEN k + 1 ELSE 0

RunMlpTestLoad ==
  /\ test = "mlp"
  /\ pc = "walk"
  /\ i < MlpRounds
  /\ Chase(j)
  /\ j' = NextChain(j)
  /\ i' = IF NextChain(j) = 0 THEN i + 1 ELSE i
  /\ UNCHANGED <<test, pc, iter, pattern>>

\* Plausible bugs: pointer_idx <= element_count, and element_count - 1.
NextPointerPastEnd(p) == IF p < ElementCount THEN p + 1 ELSE 0
NextPointerSkipsLast(p) == IF p + 2 < ElementCount THEN p + 1 ELSE 0

\* pointer_idx++, and the outer loop's restart at pointer 0.
NextPointer(p) == IF p + 1 < ElementCount THEN p + 1 ELSE 0

RunAopTestLoad ==
  /\ test = "aop"
  /\ pc = "walk"
  /\ i < ScaledIterations
  /\ pos' = [pos EXCEPT ![0] = NextPointer(@)]
  /\ touched' = [touched EXCEPT ![0] = RoundAfter(@, pattern[pos[0]])]
  /\ i' = i + 1
  /\ UNCHANGED <<test, pc, iter, pattern, j>>

\* The loop condition fails: the test stops its clock and returns.
StopClock ==
  /\ pc = "walk"
  /\ IF test = "mlp" THEN i >= MlpRounds ELSE i >= ScaledIterations
  /\ pc' = "done"
  /\ UNCHANGED <<test, iter, pattern, pos, i, j, touched>>

Load == RunTestLoad \/ RunMlpTestLoad \/ RunAopTestLoad

Next ==
  \/ FillStep
  \/ StartRunTest \/ StartRunMlpTest \/ StartRunAopTest
  \/ Load
  \/ StopClock

Spec == Init /\ [][Next]_vars

-----------------------------------------------------------------------------
\* FillPatternArr must leave one cycle through the whole array (line 466,
\* "Fills an array using Sattolo's algo"): a proper set of lines that the
\* pattern never leaves would be a smaller region measured under a larger
\* region's name.
SingleCycle ==
  iter = 1 => IsOneCycle(pattern, Line)

\* RunMlpTest's chains are "independent pointer chasing chains" (line 602):
\* between two turns of the outer loop no two chains stand on the same line,
\* however far they have walked.  Two chains that meet stay together, and the
\* bandwidth would count one miss twice.
ChainsNeverMerge ==
  test = "mlp" /\ pc # "fill" /\ j = 0 =>
    \A k, l \in Chain : k # l => pos[k] # pos[l]

\* The loads that chain k has made.
LoadsOf(k) ==
  IF test = "mlp" THEN i + (IF k < j THEN 1 ELSE 0)
  ELSE IF k # 0 THEN 0
  ELSE i + (IF test = "c" /\ pc # "fill" THEN 1 ELSE 0)

\* Each of the three walks visits every line of the region before it visits
\* one again, chain by chain: by the loops' own counters the loads made, and
\* RunTest's first before its loop, are all loads of fresh lines.
Fresh == INSTANCE FreshRounds
           WITH Walkers <- Chain, lines <- Line, loads <- [k \in Chain |-> LoadsOf(k)]

VisitsAllBeforeRepeat == Fresh!FreshSpec
=============================================================================
