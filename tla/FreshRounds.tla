---------------------------- MODULE FreshRounds ----------------------------
(***************************************************************************)
(* What a latency or bandwidth walk promises about the memory it measures. *)
(* A test reports "nanoseconds per load over a region".  That number       *)
(* describes the whole region only if the walker visits every line of the  *)
(* region before it comes back to one: a walk that returns early runs in a *)
(* smaller cache than the size printed beside its result.                  *)
(*                                                                         *)
(* touched[w] is the set of lines walker w has visited in its current      *)
(* round, and loads[w] the number of loads it has made.  A load either     *)
(* visits a line that is fresh in the round, or, the round being complete, *)
(* begins the next one.  That the loads are counted is what makes a repeat *)
(* a step: it would leave touched as it is.                                *)
(***************************************************************************)
EXTENDS Integers

CONSTANT Walkers   \* the independent chains of loads

VARIABLES
  lines,    \* the lines (or words) of the region under test
  touched,
  loads

freshVars == <<lines, touched, loads>>

FreshInit ==
  /\ touched = [w \in Walkers |-> {}]
  /\ loads = [w \in Walkers |-> 0]

Counted(w) ==
  /\ loads' = [loads EXCEPT ![w] = @ + 1]
  /\ UNCHANGED lines

\* Walker w loads a line it has not yet visited in this round.
Touch(w, l) ==
  /\ l \notin touched[w]
  /\ touched' = [touched EXCEPT ![w] = @ \union {l}]
  /\ Counted(w)

\* Walker w has visited everything, and begins a round at l.
NewRound(w, l) ==
  /\ touched[w] = lines
  /\ touched' = [touched EXCEPT ![w] = {l}]
  /\ Counted(w)

FreshNext == \E w \in Walkers, l \in lines : Touch(w, l) \/ NewRound(w, l)

FreshSpec == FreshInit /\ [][FreshNext]_freshVars
=============================================================================
