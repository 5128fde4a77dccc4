-------------------------- MODULE MCLatencyDriver --------------------------
(***************************************************************************)
(* LatencyDriver with the sizes of the source and a few values of each     *)
(* option: a maximum that is a size and no whole number of huge pages, one *)
(* between two sizes, and single sizes on both sides of them; maxima that  *)
(* wrap in line 246 and in line 367, single sizes of 4 GB, of which nothing *)
(* is left in 32 bits, and of a page beyond what an int can index; base    *)
(* iterations that are just too few and just enough, and that wrap; and    *)
(* the store forwarding test's offsets down to those that lie before it.   *)
(***************************************************************************)
EXTENDS LatencyDriver

SourceSizes ==
  <<5120, 6144, 8192, 10240, 12288, 13312, 14336, 15360, 16384, 18432, 20480,
    24567, 32768, 65536, 98304, 131072, 262144, 393216, 524288, 1048576>>

SomeLoadDistances == {-64, 64, 4000}
=============================================================================
