------------------------------ MODULE TlbWalk ------------------------------
(***************************************************************************)
(* RunTlbTest of src/src/MemoryLatency.c ("-test tlb"): a walk that loads  *)
(* one element in each page, to see the cost of address translation, and   *)
(* then RunTest over as many cache lines as there were elements, for a     *)
(* reference without it.  (The reference's latency is computed and         *)
(* dropped, lines 778-784.)                                                *)
(*                                                                         *)
(* The module adds RunTlbTest to the tests that main() may have started:   *)
(* RunTest's actions are those of PatternWalk, which stand still until     *)
(* RunTlbTest calls it.  An element is a cache line, as in PatternWalk.    *)
(***************************************************************************)
EXTENDS PatternWalk, FiniteSets

CONSTANTS
  SizeKb,        \* size_kb
  PageKb,        \* 4
  KbLines,       \* the cache lines of a KB, 16
  TlbIterations  \* scaled_iterations of RunTlbTest; a bound of the run for TLC

ASSUME TlbAssumption ==
  /\ SizeKb \in Nat \ {0} /\ PageKb \in Nat \ {0} /\ KbLines \in Nat \ {0}
  /\ TlbIterations \in Nat

element_count == IF SizeKb \div PageKb = 0 THEN 1 ELSE SizeKb \div PageKb
Page          == 0..(element_count - 1)
PageLines     == PageKb * KbLines
RegionLines   == SizeKb * KbLines
RegionLine    == 0..(RegionLines - 1)

\* Not the index of a line: what memset wrote, and what nobody wrote.
Poison    == -1
Unwritten == -2

\* memoryUsedKb: the elements' lines in whole KB, but one at least.
ReferenceKb == IF element_count \div KbLines = 0 THEN 1 ELSE element_count \div KbLines

\* PatternWalk's region is the one that RunTlbTest has RunTest measure.
ASSUME ReferenceAssumption == ElementCount = ReferenceKb * KbLines

VARIABLES
  caller,      \* who runs PatternWalk's test: "main", or "RunTlbTest"
  tlbPc,       \* "fill", "start", "walk", "reference"; "off": not called
  tlbIter,
  tlbPattern,  \* pattern_arr: a page for each page
  A,           \* the test array: the line whose index a line holds
  tlbCurrent,  \* current
  tlbLoads,    \* the loads made
  tlbTouched   \* history: the pages loaded from in the current round

tlbWalk == <<A, tlbCurrent, tlbLoads, tlbTouched>>
tlbVars == <<caller, tlbPc, tlbIter, tlbPattern, tlbWalk>>

NoArray == [l \in RegionLine |-> Unwritten]

\* Type correctness; in particular the walk follows no poison, nothing that was
\* not written, and no index past the array, although the memset that is to
\* "catch any bad accesses immediately" (line 748) covers a quarter of it.
TlbTypeOK ==
  /\ caller \in {"main", "RunTlbTest"}
  /\ tlbPc \in {"off", "fill", "start", "walk", "reference"}
  /\ tlbIter \in 1..element_count
  /\ tlbPattern \in [Page -> Page]
  /\ A \in [RegionLine -> RegionLine \union {Poison, Unwritten}]
  /\ tlbCurrent \in RegionLine
  /\ tlbLoads \in 0..(TlbIterations + 1)
  /\ tlbTouched \subseteq Page

TlbInit ==
  /\ Init
  /\ \/ caller = "main" /\ tlbPc = "off"
     \/ caller = "RunTlbTest" /\ tlbPc = "fill" /\ test = "c"
  /\ tlbIter = element_count
  /\ tlbPattern = [p \in Page |-> p]
  /\ A = NoArray
  /\ tlbCurrent = 0
  /\ tlbLoads = 0
  /\ tlbTouched = {}

-----------------------------------------------------------------------------
\* A turn of the shuffle.
TlbFillStep ==
  /\ tlbPc = "fill"
  /\ tlbIter > 1
  /\ tlbIter' = tlbIter - 1
  /\ \E r \in RandIndex(tlbIter - 1) : tlbPattern' = Swap(tlbPattern, tlbIter - 1, r)
  /\ UNCHANGED <<caller, tlbPc, tlbWalk, vars>>

\* Plausible bugs: the offset of i cache lines without its mask, and none.
PlacementUnmasked(p)  == p * PageLines + p
PlacementFirstLine(p) == p * PageLines

\* Where page p's element is: i cache lines into the page, and around.
Placement(p) == p * PageLines + (p % PageLines)

\* memset takes bytes, and is given the number of 4-byte words.
Poisoned(l) == 4 * l < RegionLines

\* The array is allocated, poisoned and filled; the pattern is freed.
PlaceElements ==
  /\ tlbPc = "fill"
  /\ tlbIter <= 1
  /\ A' = [l \in RegionLine |->
             IF \E p \in Page : Placement(p) = l
             THEN Placement(tlbPattern[CHOOSE p \in Page : Placement(p) = l])
             ELSE IF Poisoned(l) THEN Poison ELSE Unwritten]
  /\ tlbPc' = "start"
  /\ UNCHANGED <<caller, tlbIter, tlbPattern, tlbCurrent, tlbLoads, tlbTouched, vars>>

\* The history after a load in page p in a round that visited t.
TlbRoundAfter(t, p) == IF t = Page THEN {p} ELSE t \union {p}

TlbLoad(l) ==
  /\ tlbCurrent' = IF l \in RegionLine THEN A[l] ELSE Unwritten
  /\ tlbLoads' = tlbLoads + 1
  /\ tlbTouched' = TlbRoundAfter(tlbTouched, l \div PageLines)

\* current = A[0], before the loop.
TlbFirstLoad ==
  /\ tlbPc = "start"
  /\ TlbLoad(0)
  /\ tlbPc' = "walk"
  /\ UNCHANGED <<caller, tlbIter, tlbPattern, A, vars>>

TlbLoopLoad ==
  /\ tlbPc = "walk"
  /\ tlbLoads <= TlbIterations
  /\ TlbLoad(tlbCurrent)
  /\ UNCHANGED <<caller, tlbPc, tlbIter, tlbPattern, A, vars>>

\* The clock is stopped, the array freed (or left to RunTest, which writes what
\* it reads), and RunTest called.
CallRunTest ==
  /\ tlbPc = "walk"
  /\ tlbLoads > TlbIterations
  /\ tlbPc' = "reference"
  /\ A' = NoArray
  /\ tlbPattern' = [p \in Page |-> p]
  /\ tlbCurrent' = 0
  /\ UNCHANGED <<caller, tlbIter, tlbLoads, tlbTouched, vars>>

\* RunTest (or the test that main() started instead of RunTlbTest).
PatternTest ==
  /\ tlbPc \in {"off", "reference"}
  /\ Next
  /\ UNCHANGED tlbVars

TlbNext ==
  \/ TlbFillStep \/ PlaceElements
  \/ TlbFirstLoad \/ TlbLoopLoad
  \/ CallRunTest
  \/ PatternTest

TlbSpec == TlbInit /\ [][TlbNext]_<<vars, tlbVars>>

-----------------------------------------------------------------------------
\* "accessing one element per page" (line 705): the walk loads from every page
\* of the region before it loads from one again, so that a region of n pages
\* needs n translations, wherever in its page an element is put.
FreshPages == INSTANCE FreshRounds
                WITH Walkers <- {"tlb"}, lines <- Page,
                     touched <- [w \in {"tlb"} |-> tlbTouched],
                     loads <- [w \in {"tlb"} |-> tlbLoads]

OneElementPerPage == FreshPages!FreshSpec

\* The elements "avoid conflict misses" (lines 751-753): no offset in a page is
\* that of two elements more than another, so that the elements fill the sets
\* of a cache indexed by the bits below the page's as evenly as they can, and
\* what the walk measures is translation.
SpreadOverSets ==
  LET At(o) == {l \in RegionLine : A[l] >= 0 /\ l % PageLines = o}
  IN  \A o, q \in 0..(PageLines - 1) : Cardinality(At(o)) <= Cardinality(At(q)) + 1
=============================================================================
