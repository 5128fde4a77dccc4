--------------------------- MODULE PatternShuffle ---------------------------
(***************************************************************************)
(* The shuffle of src/src/MemoryLatency.c, as far as it is the same in     *)
(* FillPatternArr, FillPatternArr64, RunAopTest and RunTlbTest: the random *)
(* index of one turn of "while (iter > 1)" and the exchange it makes.  The *)
(* modules of the tests take their fill actions from here.                 *)
(***************************************************************************)
EXTENDS Integers

\* Plausible bug: rand() % (iter + 1), the Fisher-Yates draw, whose result is
\* any permutation.
RandIndexFisherYates(k) == 0..k

\* The values of (iter - 1 == 0 ? 0 : rand() % (iter - 1)), k being the
\* already decremented iter.
RandIndex(k) == IF k - 1 = 0 THEN {0} ELSE 0..(k - 2)

\* Plausible bug: the exchange without tmp.
SwapWithoutTmp(f, a, b) == [f EXCEPT ![a] = f[b]]

\* The three assignments that exchange two elements through tmp.
Swap(f, a, b) == [f EXCEPT ![a] = f[b], ![b] = f[a]]

\* A set of elements that the pattern never leaves.
ClosedUnder(f, S) == \A x \in S : f[x] \in S

\* The pattern is one cycle through all of D: it leaves no part of D behind.
IsOneCycle(f, D) ==
  \A S \in SUBSET D : S # {} /\ ClosedUnder(f, S) => S = D
=============================================================================
