------------------------------ MODULE MCStream ------------------------------
(***************************************************************************)
(* StreamKernels with kernels whose times differ from iteration to         *)
(* iteration.  The first Copy is the fastest and the first Triad the       *)
(* slowest of all, so that a summary that looked at them would show it.    *)
(***************************************************************************)
EXTENDS StreamKernels

MCCost ==
  [s \in 0..(1 + 4 * NTIMES) |->
     CASE s = 2 -> 1              \* Copy, the first time
       [] s = 5 -> 5              \* Triad, the first time
       [] s \in 6..9 -> 3         \* the second iteration
       [] OTHER -> 2]

\* A clock of two ticks, that may be set back.
MCGaps == {-1, 2}
=============================================================================
