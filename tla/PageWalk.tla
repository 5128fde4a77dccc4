------------------------------ MODULE PageWalk ------------------------------
(***************************************************************************)
(* The page-by-page patterns of src/src/MemoryLatency.c ("-pagebypage"):   *)
(* RunTest with FillPageByPage (Width = 32) and RunAsmTest's latencytest   *)
(* with FillPageByPage64 (Width = 64).  The fill shuffles the pages, then  *)
(* each page's lines, and redirects the element that would close a page's  *)
(* cycle to the next page.                                                 *)
(*                                                                         *)
(* Memory is kept per cache line: the words of a line that no fill writes  *)
(* and no walk reads are left out, and an index is counted in lines.       *)
(***************************************************************************)
EXTENDS PatternShuffle

CONSTANTS
  Width,          \* bits of an element: 32 (FillPageByPage), 64 (FillPageByPage64)
  LinesPerPage,   \* PAGE_SIZE / CACHELINE_SIZE
  Regions,        \* the sizes under test: [pages, extra] with extra lines
                  \* after the last whole page
  ScaledIterations   \* scaled_iterations; a bound of the run for TLC

ASSUME WidthAssumption == Width \in {32, 64}

\* A page has an even number of lines, so that half of them is a number.
ASSUME PageAssumption == LinesPerPage \in Nat \ {0, 1} /\ LinesPerPage % 2 = 0

ASSUME RegionsAssumption ==
  /\ Regions \subseteq [pages : Nat, extra : 0..(LinesPerPage - 1)]
  /\ \A r \in Regions : r.pages * LinesPerPage + r.extra > 0

ASSUME ScaledIterationsAssumption == ScaledIterations \in Nat

VARIABLES
  region,        \* the size under test
  pc,            \* "whole", "order", "page": which array is being shuffled;
                 \* "filled", "walk", "done"
  iter,          \* the shuffle's countdown
  page,          \* page_idx
  pageOrder,     \* pagePatternArr
  A,             \* the array, one element per line
  pos,           \* current: the line the next load reads
  i,             \* the timed loop's counter
  touched        \* history: the lines loaded in the current round

vars == <<region, pc, iter, page, pageOrder, A, pos, i, touched>>

LineCount == region.pages * LinesPerPage + region.extra
Line      == 0..(LineCount - 1)

\* pageCount + extraPage.
PagesNamed == 0..(region.pages + (IF region.extra > 0 THEN 1 ELSE 0) - 1)

\* What an element holds before any fill.  RunAsmTest clears the region with
\* memset; RunTest does not, and what it allocated may hold anything.
Unwritten == IF Width = 64 THEN 0 ELSE -1

\* FillPageByPage64 shuffles a page as if it were page_element_count elements
\* of 32 bits: half as many lines, whose indexes name 64-bit elements, twice
\* as far apart.
Stretch      == IF Width = 64 THEN 2 ELSE 1
PageElements == LinesPerPage \div Stretch

PageBase(p) == p * LinesPerPage
PageOf(l)   == l \div LinesPerPage

\* Type correctness; in particular no fill writes an index that is outside the
\* region: an element holds the line of one of its own, or was never written.
TypeOK ==
  /\ region \in Regions
  /\ pc \in {"whole", "order", "page", "filled", "walk", "done"}
  /\ iter \in 0..(LineCount + LinesPerPage)
  /\ page \in 0..region.pages
  /\ pageOrder \in [PagesNamed -> PagesNamed]
  /\ A \in [Line -> Line \union {Unwritten}]
  /\ pos \in Line \union {Unwritten}
  /\ i \in 0..ScaledIterations
  /\ touched \subseteq Line

-----------------------------------------------------------------------------
\* The fill.

Identity(S) == [x \in S |-> x]

\* Array a with the elements of page p set to their own (local) indexes, as
\* the first loop of FillPatternArr does.
NumberPage(a, p) ==
  [l \in Line |-> IF l - PageBase(p) \in 0..(PageElements - 1)
                  THEN l - PageBase(p) ELSE a[l]]

\* Up to two pages are filled in one piece, any other size page by page.
Init ==
  /\ region \in Regions
  /\ page = 0
  /\ pageOrder = Identity(PagesNamed)
  /\ IF region.pages <= 2
     THEN /\ pc = "whole"
          /\ iter = LineCount
          /\ A = Identity(Line)
     ELSE /\ pc = "order"
          /\ iter = region.pages + (IF region.extra > 0 THEN 1 ELSE 0)
          /\ A = [l \in Line |-> Unwritten]
  /\ pos = 0
  /\ i = 0
  /\ touched = {}

\* A turn of the shuffle's loop, in the array being filled.
ShuffleWhole ==
  /\ pc = "whole"
  /\ iter > 1
  /\ iter' = iter - 1
  /\ \E r \in RandIndex(iter - 1) : A' = Swap(A, iter - 1, r)
  /\ UNCHANGED <<region, pc, page, pageOrder, pos, i, touched>>

ShuffleOrder ==
  /\ pc = "order"
  /\ iter > 1
  /\ iter' = iter - 1
  /\ \E r \in RandIndex(iter - 1) : pageOrder' = Swap(pageOrder, iter - 1, r)
  /\ UNCHANGED <<region, pc, page, A, pos, i, touched>>

ShufflePage ==
  /\ pc = "page"
  /\ iter > 1
  /\ iter' = iter - 1
  /\ \E r \in RandIndex(iter - 1) :
       A' = Swap(A, PageBase(page) + iter - 1, PageBase(page) + r)
  /\ UNCHANGED <<region, pc, page, pageOrder, pos, i, touched>>

WholeFilled ==
  /\ pc = "whole"
  /\ iter <= 1
  /\ pc' = "filled"
  /\ UNCHANGED <<region, iter, page, pageOrder, A, pos, i, touched>>

\* The page order is drawn: the loop over the pages begins.
FirstPage ==
  /\ pc = "order"
  /\ iter <= 1
  /\ pc' = "page"
  /\ iter' = PageElements
  /\ A' = NumberPage(A, 0)
  /\ UNCHANGED <<region, page, pageOrder, pos, i, touched>>

\* Plausible bugs: the element at index 0 instead of the element that holds
\* 0 is sent to the next page; the next page's number is used as an index;
\* the page's own base is used for the element that holds 0 as well.
RedirectIndexZero(p, l, v) ==
  IF l = PageBase(p) THEN PageBase(pageOrder[p]) ELSE Stretch * v + PageBase(p)
RedirectUnscaled(p, l, v) ==
  IF v = 0 THEN pageOrder[p] ELSE Stretch * v + PageBase(p)
RedirectPastPage(p, l, v) ==
  IF v = 0 THEN PageBase(pageOrder[p] + 1) ELSE Stretch * v + PageBase(p)

\* What the element of line l of page p becomes: the element that points to
\* 0 is directed to the next page, any other made relative to the array.
Redirect(p, l, v) ==
  IF v = 0 THEN PageBase(pageOrder[p]) ELSE Stretch * v + PageBase(p)

RedirectPage(p) ==
  [l \in Line |-> IF PageOf(l) = p THEN Redirect(p, l, A[l]) ELSE A[l]]

\* Plausible bug: the loop over the pages ends one page early.
MorePagesShort(p) == p + 2 < region.pages

\* page_idx++ < pageCount: whether a whole page follows page p.
MorePages(p) == p + 1 < region.pages

\* The page is shuffled: its elements are redirected, and the loop goes on to
\* the next of the whole pages.
PageFilled ==
  /\ pc = "page"
  /\ iter <= 1
  /\ IF MorePages(page)
     THEN /\ A' = NumberPage(RedirectPage(page), page + 1)
          /\ iter' = PageElements
          /\ pc' = pc
     ELSE /\ A' = RedirectPage(page)
          /\ pc' = "filled"
          /\ iter' = iter
  /\ page' = page + 1
  /\ UNCHANGED <<region, pageOrder, pos, i, touched>>

-----------------------------------------------------------------------------
\* The walk.

\* The history after a load of line l in a round that visited t.
RoundAfter(t, l) == IF t = Line THEN {l} ELSE t \union {l}

\* current = A[0], before the loop; and after preplatencyarr, in RunAsmTest.
StartWalk ==
  /\ pc = "filled"
  /\ pc' = "walk"
  /\ pos' = A[0]
  /\ touched' = RoundAfter(touched, 0)
  /\ UNCHANGED <<region, iter, page, pageOrder, A, i>>

\* current = A[current].  An index that no fill wrote is not one to follow.
Load ==
  /\ pc = "walk"
  /\ i < ScaledIterations
  /\ pos \in Line
  /\ pos' = A[pos]
  /\ i' = i + 1
  /\ touched' = RoundAfter(touched, pos)
  /\ UNCHANGED <<region, pc, iter, page, pageOrder, A>>

StopClock ==
  /\ pc = "walk"
  /\ i >= ScaledIterations
  /\ pc' = "done"
  /\ UNCHANGED <<region, iter, page, pageOrder, A, pos, i, touched>>

Next ==
  \/ ShuffleWhole \/ ShuffleOrder \/ ShufflePage
  \/ WholeFilled \/ FirstPage \/ PageFilled
  \/ StartWalk \/ Load \/ StopClock

Spec == Init /\ [][Next]_vars

-----------------------------------------------------------------------------
\* Lines 394 and 430, "traversal completes within one page before going to
\* another random page": a load leaves a page only for a line of another once
\* the round has visited every line of the page it leaves.
CompletesPageBeforeLeaving ==
  [][ pc = "walk" /\ pc' = "walk" /\ region.pages > 2
        /\ pos \in Line /\ pos' \in Line /\ PageOf(pos') # PageOf(pos)
      => {l \in Line : PageOf(l) = PageOf(pos)} \subseteq touched' ]_vars

\* Lines 405 and 441, "If test size is not divisible by page size, handle the
\* extra page separately": whatever the size, the walk only follows elements
\* that the fill has written.
FollowsWrittenElements == pc = "walk" => pos # Unwritten

\* The loads made, the first of them before the loop.
LoadsMade == i + (IF pc \in {"walk", "done"} THEN 1 ELSE 0)

\* The walk visits every line of the region before it visits one again.
Fresh == INSTANCE FreshRounds
           WITH Walkers <- {0}, lines <- Line, touched <- [k \in {0} |-> touched],
                loads <- [k \in {0} |-> LoadsMade]

VisitsAllBeforeRepeat == Fresh!FreshSpec
=============================================================================
