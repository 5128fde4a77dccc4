----------------------------- MODULE MCPageWalk -----------------------------
(***************************************************************************)
(* PageWalk on regions of whole pages, and on regions small enough to be   *)
(* filled in one piece, whose last page may be partial.                    *)
(***************************************************************************)
EXTENDS PageWalk

\* Two pages and a partial one are filled in one piece; three and four whole
\* pages are filled page by page.
WholePageRegions ==
  {[pages |-> 1, extra |-> 1],
   [pages |-> 2, extra |-> 0],
   [pages |-> 3, extra |-> 0],
   [pages |-> 4, extra |-> 0]}

\* Three whole pages and a line of a fourth.
PartialPageRegions == {[pages |-> 3, extra |-> 1]}
=============================================================================
