---------------------------- MODULE MCCoherence ----------------------------
(***************************************************************************)
(* CoherenceCalibration with costs on both sides of every threshold of the *)
(* calibration, and measurements that begin early and late in their        *)
(* millisecond.                                                            *)
(***************************************************************************)
EXTENDS CoherenceCalibration

\* 330 ps is a load that hits, 3 us a contended update.
BoundaryCosts ==
  {330, 999, 1000, 9990, 10010, 99990, 100010, 333990, 334010, 999990, 3000000}

BoundaryPhases == {0, 11, 999}

OneCost == {330}
=============================================================================
