---------------------------- MODULE StreamScalar ----------------------------
(***************************************************************************)
(* What checkSTREAMresults of src/src/stream.c expects of the elements of  *)
(* the arrays: it replays the program on three scalars aj, bj and cj, and  *)
(* the benchmark "validates" when every element has taken the same steps.  *)
(* Here each element is such a replay of its own, independent of the       *)
(* others.                                                                 *)
(***************************************************************************)
EXTENDS Integers

CONSTANTS
  Elements,
  NTIMES      \* how often the four kernels run

VARIABLES
  steps,        \* how many of the assignments each element has made
  aj, bj, cj    \* the scalars of each element

scalarVars == <<steps, aj, bj, cj>>

\* The static arrays before their initialisation.
ScalarInit ==
  /\ steps = [e \in Elements |-> 0]
  /\ aj = [e \in Elements |-> 0]
  /\ bj = [e \in Elements |-> 0]
  /\ cj = [e \in Elements |-> 0]

SetA(e, v) == aj' = [aj EXCEPT ![e] = v] /\ UNCHANGED <<bj, cj>>
SetB(e, v) == bj' = [bj EXCEPT ![e] = v] /\ UNCHANGED <<aj, cj>>
SetC(e, v) == cj' = [cj EXCEPT ![e] = v] /\ UNCHANGED <<aj, bj>>

\* "reproduce initialization"
ReproduceInit(e) ==
  /\ steps[e] = 0
  /\ aj' = [aj EXCEPT ![e] = 1]
  /\ bj' = [bj EXCEPT ![e] = 2]
  /\ cj' = [cj EXCEPT ![e] = 0]

\* "a[] is modified during timing check"
ModifyA(e) == steps[e] = 1 /\ SetA(e, 2 * aj[e])

\* "now execute timing loop", the scalar being 3: its n-th assignment
InLoop(e, n) == steps[e] >= 2 /\ steps[e] < 2 + 4 * NTIMES /\ (steps[e] - 2) % 4 = n

ExecuteLoop(e) ==
  \/ InLoop(e, 0) /\ SetC(e, aj[e])
  \/ InLoop(e, 1) /\ SetB(e, 3 * cj[e])
  \/ InLoop(e, 2) /\ SetC(e, aj[e] + bj[e])
  \/ InLoop(e, 3) /\ SetA(e, bj[e] + 3 * cj[e])

ScalarNext ==
  \E e \in Elements :
    /\ ReproduceInit(e) \/ ModifyA(e) \/ ExecuteLoop(e)
    /\ steps' = [steps EXCEPT ![e] = @ + 1]

ScalarSpec == ScalarInit /\ [][ScalarNext]_scalarVars
=============================================================================
