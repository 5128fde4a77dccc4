--------------------------- MODULE PageWalkProofs ---------------------------
(***************************************************************************)
(* Proofs about PageWalk for every size of a page and every region: no     *)
(* fill writes an index outside its region; and where the fill covers the  *)
(* region, which is up to two pages and any number of whole pages of       *)
(* 32-bit elements, the walk visits every line before it visits one again  *)
(* and completes each page before it leaves it.                            *)
(***************************************************************************)
EXTENDS PageWalk, ShuffleProofs

USE WidthAssumption, PageAssumption, RegionsAssumption, ScaledIterationsAssumption

WholePage == 0..(region.pages - 1)

NamedCount == region.pages + (IF region.extra > 0 THEN 1 ELSE 0)

\* What the fill has written so far, for the types.
FillTypes ==
  /\ pc = "whole" => region.pages <= 2 /\ iter \in 1..LineCount
  /\ region.pages <= 2 => pc \notin {"order", "page"} /\ A \in [Line -> Line]
  /\ pc = "order" => /\ iter \in 1..NamedCount /\ page = 0
                     /\ \A l \in Line : A[l] = Unwritten
  /\ pc = "page" =>
       /\ page \in WholePage /\ iter \in 1..PageElements
       /\ \A l \in Line : PageOf(l) = page =>
            IF l % LinesPerPage < PageElements THEN A[l] \in 0..(PageElements - 1)
                                               ELSE A[l] = Unwritten
       /\ \A l \in Line : PageOf(l) > page => A[l] = Unwritten

-----------------------------------------------------------------------------
\* Pages and their lines.

\* A page has at least two lines, of which a shuffle reaches all or half.
LEMMA ElementFacts ==
  /\ LinesPerPage \in Nat /\ LinesPerPage >= 2
  /\ PageElements \in Nat /\ PageElements >= 1
  /\ Width = 32 => PageElements = LinesPerPage /\ Stretch = 1 /\ Unwritten = -1
  /\ Width = 64 => 2 * PageElements = LinesPerPage /\ Stretch = 2 /\ Unwritten = 0
<1>1. LinesPerPage \in Nat /\ LinesPerPage >= 2 /\ LinesPerPage % 2 = 0
  OBVIOUS
<1>2. LinesPerPage \div 1 = LinesPerPage
  BY <1>1, SMT
<1>3. 2 * (LinesPerPage \div 2) = LinesPerPage /\ LinesPerPage \div 2 >= 1
  BY <1>1, SMT
<1> QED
  BY <1>1, <1>2, <1>3 DEF PageElements, Stretch, Unwritten

\* A region has a line.
LEMMA RegionFacts ==
  ASSUME region \in Regions
  PROVE  /\ region.pages \in Nat /\ region.extra \in 0..(LinesPerPage - 1)
         /\ region.pages * LinesPerPage \in Nat
         /\ LineCount \in Nat /\ LineCount >= 1 /\ 0 \in Line
         /\ LineCount >= region.pages
<1>1. region \in [pages : Nat, extra : 0..(LinesPerPage - 1)]
  OBVIOUS
<1>2. region.pages \in Nat /\ region.extra \in 0..(LinesPerPage - 1)
  BY <1>1
<1>3. region.pages * LinesPerPage + region.extra > 0
  OBVIOUS
<1>4. region.pages * LinesPerPage \in Nat /\ region.pages * LinesPerPage >= region.pages
  <2>1. \A n \in Nat, m \in Nat : m >= 2 => n * m \in Nat /\ n * m >= n
    BY SMTT(30)
  <2> QED
    BY <1>2, <2>1, ElementFacts
<1> QED
  BY <1>2, <1>3, <1>4, ElementFacts DEF LineCount, Line

\* Line x of a whole page.
LEMMA PlaceFacts ==
  ASSUME region \in Regions, NEW p \in WholePage, NEW x \in 0..(LinesPerPage - 1)
  PROVE  /\ p \in Nat /\ PageBase(p) \in Nat
         /\ PageBase(p) + x \in Line
         /\ PageOf(PageBase(p) + x) = p
         /\ (PageBase(p) + x) % LinesPerPage = x
<1>1. p \in Nat /\ LinesPerPage \in Nat \ {0} /\ region.pages \in Nat /\ p \in 0..(region.pages - 1)
  BY RegionFacts, ElementFacts DEF WholePage
<1>2. p * LinesPerPage + x \in 0..(region.pages * LinesPerPage - 1)
  BY <1>1, PlaceBelow
<1>3. /\ (p * LinesPerPage + x) \div LinesPerPage = p
      /\ (p * LinesPerPage + x) % LinesPerPage = x
  BY <1>1, PlaceOf
<1>4. p * LinesPerPage \in Nat
  BY <1>1, SMT
<1>5. p * LinesPerPage + x \in 0..(LineCount - 1)
  BY <1>2, RegionFacts DEF LineCount
<1> QED
  BY <1>1, <1>3, <1>4, <1>5 DEF PageBase, PageOf, Line

\* Every line is a place in its page.
LEMMA LineFacts ==
  ASSUME region \in Regions, NEW l \in Line
  PROVE  /\ l \in Nat
         /\ PageOf(l) \in Nat /\ PageBase(PageOf(l)) \in Nat
         /\ l % LinesPerPage \in 0..(LinesPerPage - 1)
         /\ l = PageBase(PageOf(l)) + (l % LinesPerPage)
         /\ region.extra = 0 => PageOf(l) \in WholePage
<1>1. l \in Nat /\ LinesPerPage \in Nat \ {0}
  BY RegionFacts, ElementFacts DEF Line
<1> DEFINE p == l \div LinesPerPage
<1>2. /\ l = p * LinesPerPage + (l % LinesPerPage) /\ p \in Nat
      /\ l % LinesPerPage \in 0..(LinesPerPage - 1)
  BY <1>1, IndexIsPlace
<1>3. p * LinesPerPage \in Nat
  BY <1>1, <1>2, SMT
<1>4. region.extra = 0 => p < region.pages
  <2> SUFFICES ASSUME region.extra = 0, p >= region.pages PROVE FALSE
    BY <1>2, RegionFacts
  <2>1. l < region.pages * LinesPerPage
    BY RegionFacts DEF Line, LineCount
  <2>2. \A a, b, m \in Nat : a >= b => a * m >= b * m
    BY SMTT(30)
  <2>3. p * LinesPerPage >= region.pages * LinesPerPage
    BY <1>1, <1>2, <2>2, RegionFacts
  <2> HIDE DEF p
  <2>4. l >= p * LinesPerPage
    BY <1>2, <1>3
  <2> QED
    BY <1>1, <1>3, <2>1, <2>3, <2>4, RegionFacts
<1> QED
  BY <1>1, <1>2, <1>3, <1>4, RegionFacts DEF PageOf, PageBase, WholePage

\* The beginning of each page that is named, the extra one included, is a line.
LEMMA NamedBase ==
  ASSUME region \in Regions, NEW p \in PagesNamed
  PROVE  PageBase(p) \in Line
<1>1. CASE p \in WholePage
  <2>1. 0 \in 0..(LinesPerPage - 1)
    BY ElementFacts
  <2>2. PageBase(p) + 0 \in Line /\ PageBase(p) \in Nat
    BY <1>1, <2>1, PlaceFacts
  <2> QED
    BY <2>2
<1>2. CASE p \notin WholePage
  <2>1. p = region.pages /\ region.extra > 0
    BY <1>2, RegionFacts DEF PagesNamed, WholePage
  <2> QED
    BY <2>1, RegionFacts DEF PageBase, Line, LineCount
<1> QED
  BY <1>1, <1>2

-----------------------------------------------------------------------------
\* Types.

\* The elements that the first loop of FillPatternArr numbers are the page's
\* first PageElements; it writes no others.
LEMMA NumberPageValues ==
  ASSUME region \in Regions, NEW p \in WholePage, NEW a, NEW l \in Line
  PROVE  /\ PageOf(l) = p /\ l % LinesPerPage < PageElements
              => NumberPage(a, p)[l] = l % LinesPerPage
         /\ ~(PageOf(l) = p /\ l % LinesPerPage < PageElements) => NumberPage(a, p)[l] = a[l]
<1>1. /\ l \in Nat /\ PageBase(PageOf(l)) \in Nat /\ l % LinesPerPage \in Nat
      /\ l = PageBase(PageOf(l)) + (l % LinesPerPage)
  BY LineFacts
<1>2. PageElements \in Nat /\ PageElements <= LinesPerPage
  BY ElementFacts
<1>3. PageOf(l) = p /\ l % LinesPerPage < PageElements
        => l - PageBase(p) = l % LinesPerPage /\ l - PageBase(p) \in 0..(PageElements - 1)
  BY <1>1, <1>2
<1>4. ASSUME l - PageBase(p) \in 0..(PageElements - 1)
      PROVE  PageOf(l) = p /\ l % LinesPerPage < PageElements
  <2> DEFINE x == l - PageBase(p)
  <2>1. x \in 0..(LinesPerPage - 1) /\ x < PageElements
    BY <1>2, <1>4, ElementFacts
  <2>2. PageBase(p) \in Nat /\ PageOf(PageBase(p) + x) = p /\ (PageBase(p) + x) % LinesPerPage = x
    BY <2>1, PlaceFacts
  <2>3. PageBase(p) + x = l
    BY <1>1, <2>2
  <2> HIDE DEF x
  <2> QED
    BY <2>1, <2>2, <2>3
<1> QED
  BY <1>3, <1>4 DEF NumberPage

\* A redirected element leads to a line of the region.
LEMMA RedirectInRegion ==
  ASSUME TypeOK, NEW p \in WholePage, NEW v \in 0..(PageElements - 1), NEW l
  PROVE  Redirect(p, l, v) \in Line
<1>1. region \in Regions /\ p \in PagesNamed /\ pageOrder[p] \in PagesNamed
  BY RegionFacts DEF TypeOK, PagesNamed, WholePage
<1>2. CASE v = 0
  BY <1>1, <1>2, NamedBase DEF Redirect
<1>3. CASE v # 0
  <2>1. Stretch * v \in 0..(LinesPerPage - 1)
    <3>1. CASE Width = 32
      BY <3>1, ElementFacts
    <3>2. CASE Width = 64
      BY <3>2, ElementFacts
    <3> QED
      BY <3>1, <3>2
  <2>2. PageBase(p) + Stretch * v \in Line /\ PageBase(p) \in Nat
    BY <1>1, <2>1, PlaceFacts
  <2>3. Stretch * v + PageBase(p) = PageBase(p) + Stretch * v
    BY <2>1, <2>2
  <2> QED
    BY <1>3, <2>2, <2>3 DEF Redirect
<1> QED
  BY <1>2, <1>3

\* The elements that a turn of a page's shuffle exchanges.
LEMMA PageSwap ==
  ASSUME TypeOK, FillTypes, pc = "page", iter > 1, NEW r \in RandIndex(iter - 1)
  PROVE  LET x == PageBase(page) + iter - 1
             y == PageBase(page) + r
         IN  /\ x \in Line /\ y \in Line /\ x # y
             /\ x = PageBase(page) + (iter - 1)
             /\ PageOf(x) = page /\ x % LinesPerPage = iter - 1
             /\ PageOf(y) = page /\ y % LinesPerPage = r
             /\ r \in Nat /\ r < iter - 1 /\ iter \in Nat /\ iter <= PageElements
             /\ PageBase(page) \in Nat
<1>1. region \in Regions /\ page \in WholePage /\ iter \in 1..PageElements
  BY DEF TypeOK, FillTypes
<1>2. iter - 1 \in Nat /\ r \in Nat /\ r < iter - 1
  BY <1>1, ElementFacts, RandIndexBelow
<1>3. iter - 1 \in 0..(LinesPerPage - 1) /\ r \in 0..(LinesPerPage - 1)
  BY <1>1, <1>2, ElementFacts
<1>4. /\ PageBase(page) \in Nat
      /\ PageBase(page) + (iter - 1) \in Line
      /\ PageOf(PageBase(page) + (iter - 1)) = page
      /\ (PageBase(page) + (iter - 1)) % LinesPerPage = iter - 1
      /\ PageBase(page) + r \in Line /\ PageOf(PageBase(page) + r) = page
      /\ (PageBase(page) + r) % LinesPerPage = r
  BY <1>1, <1>3, PlaceFacts
<1>5. PageBase(page) + iter - 1 = PageBase(page) + (iter - 1)
  BY <1>1, <1>4, ElementFacts
<1>6. PageBase(page) + (iter - 1) # PageBase(page) + r
  BY <1>2, <1>4
<1> QED
  BY <1>1, <1>2, <1>4, <1>5, <1>6, ElementFacts

\* Nothing is written at the start, or each line its own index.
LEMMA InitTypes == Init => TypeOK /\ FillTypes
<1> SUFFICES ASSUME Init PROVE TypeOK /\ FillTypes
  OBVIOUS
<1>1. /\ region \in Regions /\ LineCount \in Nat /\ LineCount >= 1 /\ 0 \in Line
      /\ region.pages \in Nat /\ LineCount >= region.pages
      /\ LinesPerPage \in Nat /\ LinesPerPage >= 2
  BY RegionFacts, ElementFacts DEF Init
<1>2. pageOrder \in [PagesNamed -> PagesNamed]
  BY DEF Init, Identity
<1>3. NamedCount \in Nat /\ NamedCount <= LineCount + LinesPerPage
      /\ (region.pages > 2 => NamedCount >= 1)
  BY <1>1, RegionFacts DEF NamedCount
<1>4. /\ page = 0 /\ pos = 0 /\ i = 0 /\ touched = {}
  BY DEF Init
<1>5. CASE region.pages <= 2
  <2>1. pc = "whole" /\ iter = LineCount /\ A = Identity(Line)
    BY <1>5 DEF Init
  <2>2. A \in [Line -> Line]
    BY <2>1 DEF Identity
  <2> QED
    BY <1>1, <1>2, <1>4, <1>5, <2>1, <2>2 DEF TypeOK, FillTypes
<1>6. CASE ~(region.pages <= 2)
  <2>1. pc = "order" /\ iter = NamedCount /\ A = [l \in Line |-> Unwritten] /\ region.pages > 2
    BY <1>1, <1>6 DEF Init, NamedCount
  <2> QED
    BY <1>1, <1>2, <1>3, <1>4, <2>1 DEF TypeOK, FillTypes
<1> QED
  BY <1>5, <1>6

\* The fill's steps keep the types, and what is written for them: an action a step.
LEMMA FillStepTypes ==
  ASSUME TypeOK, FillTypes, ShuffleWhole \/ ShuffleOrder \/ WholeFilled
  PROVE  TypeOK' /\ FillTypes'
<1>0. /\ region \in Regions /\ LineCount \in Nat /\ LineCount >= 1
      /\ NamedCount \in Nat /\ PagesNamed = 0..(NamedCount - 1)
  BY RegionFacts DEF TypeOK, NamedCount, PagesNamed
<1>1. CASE ShuffleWhole
  <2>1. /\ pc = "whole" /\ pc' = pc /\ iter > 1 /\ iter' = iter - 1 /\ iter \in 1..LineCount
        /\ A \in [Line -> Line]
        /\ UNCHANGED <<region, page, pageOrder, pos, i, touched>>
    BY <1>1 DEF ShuffleWhole, FillTypes
  <2>2. PICK r \in RandIndex(iter - 1) : A' = Swap(A, iter - 1, r)
    BY <1>1 DEF ShuffleWhole
  <2>a. iter - 1 \in Nat /\ iter - 1 >= 1 /\ iter <= LineCount
    BY <1>0, <2>1
  <2>b. r \in Nat /\ r < iter - 1
    BY <2>a, RandIndexBelow
  <2>3. iter - 1 \in Line /\ r \in Line /\ iter - 1 # r
    <3>1. iter - 1 \in 0..(LineCount - 1) /\ r \in 0..(LineCount - 1) /\ iter - 1 # r
      BY <1>0, <2>a, <2>b, <2>1
    <3> QED
      BY <3>1, Zenon DEF Line
  <2>4. A' \in [Line -> Line]
    BY <2>1, <2>2, <2>3, SwapValues
  <2>5. Line' = Line /\ PagesNamed' = PagesNamed /\ LineCount' = LineCount
    BY <2>1 DEF Line, LineCount, PagesNamed
  <2> QED
    BY <1>0, <2>1, <2>4, <2>5, ElementFacts DEF TypeOK, FillTypes, Unwritten
<1>2. CASE ShuffleOrder
  <2>1. /\ pc = "order" /\ pc' = pc /\ iter > 1 /\ iter' = iter - 1 /\ iter \in 1..NamedCount
        /\ pageOrder \in [PagesNamed -> PagesNamed]
        /\ UNCHANGED <<region, page, A, pos, i, touched>>
    BY <1>2 DEF ShuffleOrder, FillTypes, TypeOK
  <2>2. PICK r \in RandIndex(iter - 1) : pageOrder' = Swap(pageOrder, iter - 1, r)
    BY <1>2 DEF ShuffleOrder
  <2>3. iter - 1 \in PagesNamed /\ r \in PagesNamed /\ iter - 1 # r
    BY <1>0, <2>1, RandIndexBelow
  <2>4. pageOrder' \in [PagesNamed -> PagesNamed]
    BY <2>1, <2>2, <2>3, SwapValues
  <2>5. /\ Line' = Line /\ PagesNamed' = PagesNamed /\ LineCount' = LineCount
        /\ NamedCount' = NamedCount
    BY <2>1 DEF Line, LineCount, PagesNamed, NamedCount
  <2>6. iter' \in 1..NamedCount
    BY <1>0, <2>1
  <2>7. iter' \in 0..(LineCount + LinesPerPage)
    <3>1. iter \in 0..(LineCount + LinesPerPage)
      BY DEF TypeOK
    <3> QED
      BY <1>0, <2>1, <3>1, ElementFacts
  <2>8. TypeOK'
    BY <2>1, <2>4, <2>5, <2>7 DEF TypeOK, Unwritten
  <2>9. FillTypes'
    BY <2>1, <2>5, <2>6 DEF FillTypes, Unwritten
  <2> QED
    BY <2>8, <2>9
<1>3. CASE WholeFilled
  <2>1. /\ pc = "whole" /\ pc' = "filled"
        /\ UNCHANGED <<region, iter, page, pageOrder, A, pos, i, touched>>
    BY <1>3 DEF WholeFilled
  <2>2. Line' = Line /\ PagesNamed' = PagesNamed /\ LineCount' = LineCount
    BY <2>1 DEF Line, LineCount, PagesNamed
  <2>3. TypeOK'
    BY <2>1, <2>2 DEF TypeOK, Unwritten
  <2>4. FillTypes'
    BY <2>1, <2>2 DEF FillTypes
  <2> QED
    BY <2>3, <2>4
<1> QED
  BY <1>1, <1>2, <1>3

\* What a page holds when its shuffle begins, and the pages after it.
LEMMA NumberedPage ==
  ASSUME region \in Regions, NEW p \in WholePage, NEW a, NEW b,
         a \in [Line -> Line \union {Unwritten}], b = NumberPage(a, p),
         \A l \in Line : PageOf(l) >= p => a[l] = Unwritten
  PROVE  /\ b \in [Line -> Line \union {Unwritten}]
         /\ \A l \in Line : PageOf(l) = p =>
              IF l % LinesPerPage < PageElements THEN b[l] = l % LinesPerPage
                                                 ELSE b[l] = Unwritten
         /\ \A l \in Line : PageOf(l) > p => b[l] = Unwritten
<1>1. \A l \in Line : /\ l \in Nat /\ PageOf(l) \in Nat /\ l % LinesPerPage \in Nat
                      /\ l % LinesPerPage <= l
  BY LineFacts
<1>2. p \in Nat
  BY RegionFacts DEF WholePage
<1>3. \A l \in Line : l % LinesPerPage \in Line
  BY <1>1, RegionFacts DEF Line
<1>4. \A l \in Line : b[l] \in Line \union {Unwritten}
  BY <1>3, NumberPageValues
<1>5. b = [l \in Line |-> b[l]]
  BY DEF NumberPage
<1> QED
  BY <1>1, <1>2, <1>4, <1>5, NumberPageValues

\* The steps that begin, shuffle and end a page.
LEMMA FirstPageTypes ==
  ASSUME TypeOK, FillTypes, FirstPage
  PROVE  TypeOK' /\ FillTypes'
<1>1. /\ pc = "order" /\ pc' = "page" /\ iter' = PageElements /\ A' = NumberPage(A, 0)
      /\ UNCHANGED <<region, page, pageOrder, pos, i, touched>>
  BY DEF FirstPage
<1>2. /\ region \in Regions /\ page = 0 /\ 0 \in WholePage /\ region.pages > 2
      /\ A \in [Line -> Line \union {Unwritten}] /\ \A l \in Line : A[l] = Unwritten
  BY <1>1, RegionFacts DEF TypeOK, FillTypes, WholePage
<1>3. /\ A' \in [Line -> Line \union {Unwritten}]
      /\ \A l \in Line : PageOf(l) = 0 =>
           IF l % LinesPerPage < PageElements THEN A'[l] = l % LinesPerPage
                                              ELSE A'[l] = Unwritten
      /\ \A l \in Line : PageOf(l) > 0 => A'[l] = Unwritten
  BY <1>1, <1>2, NumberedPage
<1>4. /\ Line' = Line /\ PagesNamed' = PagesNamed /\ LineCount' = LineCount
      /\ WholePage' = WholePage
  BY <1>1 DEF Line, LineCount, PagesNamed, WholePage
<1>5. PageElements \in 0..(LineCount + LinesPerPage) /\ PageElements \in 1..PageElements
  BY <1>2, RegionFacts, ElementFacts
<1>6. TypeOK'
  BY <1>1, <1>2, <1>3, <1>4, <1>5 DEF TypeOK, Unwritten
<1>7. \A l \in Line : l % LinesPerPage < PageElements => l % LinesPerPage \in 0..(PageElements - 1)
  BY <1>2, LineFacts, ElementFacts
<1>8. FillTypes'
  <2>1. \A l \in Line : PageOf(l) = page' =>
           IF l % LinesPerPage < PageElements THEN A'[l] \in 0..(PageElements - 1)
                                              ELSE A'[l] = Unwritten
    BY <1>1, <1>2, <1>3, <1>7
  <2> QED
    BY <1>1, <1>2, <1>3, <1>4, <1>5, <2>1
       DEF FillTypes, Unwritten, PageOf, PageElements, Stretch
<1> QED
  BY <1>6, <1>8

LEMMA ShufflePageTypes ==
  ASSUME TypeOK, FillTypes, ShufflePage
  PROVE  TypeOK' /\ FillTypes'
<1>1. /\ pc = "page" /\ pc' = pc /\ iter > 1 /\ iter' = iter - 1
      /\ UNCHANGED <<region, page, pageOrder, pos, i, touched>>
  BY DEF ShufflePage
<1> DEFINE x == PageBase(page) + iter - 1
<1>2. PICK r \in RandIndex(iter - 1) : A' = Swap(A, x, PageBase(page) + r)
  BY DEF ShufflePage
<1> DEFINE y == PageBase(page) + r
<1>3. /\ x \in Line /\ y \in Line /\ x # y
      /\ PageOf(x) = page /\ x % LinesPerPage = iter - 1
      /\ PageOf(y) = page /\ y % LinesPerPage = r
      /\ r \in Nat /\ r < iter - 1 /\ iter \in Nat /\ iter <= PageElements
  BY <1>1, PageSwap
<1> HIDE DEF x, y
<1>4. A' = Swap(A, x, y)
  BY <1>2 DEF y
<1>5. /\ A \in [Line -> Line \union {Unwritten}] /\ page \in WholePage /\ region \in Regions
      /\ iter \in 0..(LineCount + LinesPerPage)
      /\ \A l \in Line : PageOf(l) = page =>
            IF l % LinesPerPage < PageElements THEN A[l] \in 0..(PageElements - 1)
                                               ELSE A[l] = Unwritten
      /\ \A l \in Line : PageOf(l) > page => A[l] = Unwritten
  BY <1>1 DEF TypeOK, FillTypes
<1>6. /\ A' \in [Line -> Line \union {Unwritten}]
      /\ A'[x] = A[y] /\ A'[y] = A[x]
      /\ \A l \in Line : l # x /\ l # y => A'[l] = A[l]
  <2>1. x \in Line /\ y \in Line /\ x # y /\ A \in [Line -> Line \union {Unwritten}]
    BY <1>3, <1>5
  <2>2. /\ Swap(A, x, y) \in [Line -> Line \union {Unwritten}]
        /\ Swap(A, x, y)[x] = A[y] /\ Swap(A, x, y)[y] = A[x]
        /\ \A l \in Line : l # x /\ l # y => Swap(A, x, y)[l] = A[l]
    BY <2>1 DEF Swap
  <2> QED
    BY <1>4, <2>2, Zenon
<1>7. iter - 1 < PageElements /\ r < PageElements /\ iter' \in 1..PageElements
      /\ iter' \in 0..(LineCount + LinesPerPage)
  BY <1>1, <1>3, <1>5, RegionFacts, ElementFacts
<1>8. A'[x] \in 0..(PageElements - 1) /\ A'[y] \in 0..(PageElements - 1)
  BY <1>3, <1>5, <1>6, <1>7
<1>9. ASSUME NEW l \in Line, PageOf(l) = page
      PROVE  IF l % LinesPerPage < PageElements THEN A'[l] \in 0..(PageElements - 1)
                                                ELSE A'[l] = Unwritten
  <2>1. CASE l = x \/ l = y
    BY <1>3, <1>7, <1>8, <2>1
  <2>2. CASE l # x /\ l # y
    BY <1>5, <1>6, <1>9, <2>2
  <2> QED
    BY <2>1, <2>2
<1>10. ASSUME NEW l \in Line, PageOf(l) > page PROVE A'[l] = Unwritten
  <2>1. page \in Nat
    BY <1>5, RegionFacts DEF WholePage
  <2>2. l # x /\ l # y
    BY <1>3, <1>10, <2>1
  <2> QED
    BY <1>5, <1>6, <1>10, <2>2
<1>11. /\ Line' = Line /\ PagesNamed' = PagesNamed /\ LineCount' = LineCount
       /\ WholePage' = WholePage
  BY <1>1 DEF Line, LineCount, PagesNamed, WholePage
<1>12. TypeOK'
  BY <1>1, <1>6, <1>7, <1>11 DEF TypeOK, Unwritten
<1>13. FillTypes'
  BY <1>1, <1>5, <1>7, <1>9, <1>10, <1>11
     DEF FillTypes, Unwritten, PageOf, PageElements, Stretch
<1> QED
  BY <1>12, <1>13

\* The redirection of a page writes its elements and no others.
LEMMA RedirectedPage ==
  ASSUME TypeOK, FillTypes, pc = "page"
  PROVE  /\ RedirectPage(page) \in [Line -> Line \union {Unwritten}]
         /\ \A l \in Line : PageOf(l) = page =>
              /\ A[l] \in 0..(PageElements - 1)
              /\ RedirectPage(page)[l] = Redirect(page, l, A[l])
              /\ RedirectPage(page)[l] \in Line
         /\ \A l \in Line : PageOf(l) # page => RedirectPage(page)[l] = A[l]
<1>1. /\ page \in WholePage /\ A \in [Line -> Line \union {Unwritten}] /\ region \in Regions
      /\ \A l \in Line : PageOf(l) = page =>
            IF l % LinesPerPage < PageElements THEN A[l] \in 0..(PageElements - 1)
                                               ELSE A[l] = Unwritten
  BY DEF TypeOK, FillTypes
<1>2. ASSUME NEW l \in Line, PageOf(l) = page
      PROVE  A[l] \in 0..(PageElements - 1)
  <2>1. CASE Width = 32
    <3>1. l % LinesPerPage < PageElements
      BY <1>1, <2>1, LineFacts, ElementFacts
    <3> QED
      BY <1>1, <1>2, <3>1
  <2>2. CASE Width = 64
    BY <1>1, <1>2, <2>2, ElementFacts
  <2> QED
    BY <2>1, <2>2
<1>3. ASSUME NEW l \in Line, PageOf(l) = page
      PROVE  Redirect(page, l, A[l]) \in Line
  BY <1>1, <1>2, <1>3, RedirectInRegion
<1>4. \A l \in Line : RedirectPage(page)[l] =
                        IF PageOf(l) = page THEN Redirect(page, l, A[l]) ELSE A[l]
  BY DEF RedirectPage
<1>5. \A l \in Line : RedirectPage(page)[l] \in Line \union {Unwritten}
  BY <1>1, <1>3, <1>4
<1>6. RedirectPage(page) = [l \in Line |-> RedirectPage(page)[l]]
  BY DEF RedirectPage
<1>7. RedirectPage(page) \in [Line -> Line \union {Unwritten}]
  BY <1>5, <1>6
<1> QED
  BY <1>2, <1>3, <1>4, <1>7

LEMMA PageFilledTypes ==
  ASSUME TypeOK, FillTypes, PageFilled
  PROVE  TypeOK' /\ FillTypes'
<1> DEFINE a == RedirectPage(page)
<1>1. /\ pc = "page" /\ page' = page + 1 /\ UNCHANGED <<region, pageOrder, pos, i, touched>>
      /\ MorePages(page) => A' = NumberPage(a, page + 1) /\ iter' = PageElements /\ pc' = "page"
      /\ ~MorePages(page) => A' = a /\ iter' = iter /\ pc' = "filled"
  BY DEF PageFilled
<1>2. /\ region \in Regions /\ page \in WholePage /\ page \in Nat /\ region.pages \in Nat
      /\ \A l \in Line : PageOf(l) > page => A[l] = Unwritten
      /\ region.pages > 2
  BY <1>1, RegionFacts DEF TypeOK, FillTypes, WholePage
<1>3. /\ a \in [Line -> Line \union {Unwritten}]
      /\ \A l \in Line : PageOf(l) >= page + 1 => a[l] = Unwritten
  <2>1. \A l \in Line : PageOf(l) \in Nat
    BY <1>2, LineFacts
  <2> QED
    BY <1>1, <1>2, <2>1, RedirectedPage
<1> HIDE DEF a
<1>4. /\ Line' = Line /\ PagesNamed' = PagesNamed /\ LineCount' = LineCount
      /\ WholePage' = WholePage
  BY <1>1 DEF Line, LineCount, PagesNamed, WholePage
<1>5. page' \in 0..region.pages
  BY <1>1, <1>2 DEF WholePage
<1>6. CASE MorePages(page)
  <2>1. page + 1 \in WholePage
    BY <1>2, <1>6 DEF MorePages, WholePage
  <2>2. /\ A' \in [Line -> Line \union {Unwritten}]
        /\ \A l \in Line : PageOf(l) = page + 1 =>
             IF l % LinesPerPage < PageElements THEN A'[l] = l % LinesPerPage
                                                ELSE A'[l] = Unwritten
        /\ \A l \in Line : PageOf(l) > page + 1 => A'[l] = Unwritten
    BY <1>1, <1>2, <1>3, <1>6, <2>1, NumberedPage
  <2>3. PageElements \in 0..(LineCount + LinesPerPage) /\ PageElements \in 1..PageElements
    BY <1>2, RegionFacts, ElementFacts
  <2>4. \A l \in Line : l % LinesPerPage < PageElements
                          => l % LinesPerPage \in 0..(PageElements - 1)
    BY <1>2, LineFacts, ElementFacts
  <2>5. TypeOK'
    BY <1>1, <1>4, <1>5, <1>6, <2>2, <2>3 DEF TypeOK, Unwritten
  <2>6. FillTypes'
    <3>1. \A l \in Line : PageOf(l) = page' =>
             IF l % LinesPerPage < PageElements THEN A'[l] \in 0..(PageElements - 1)
                                                ELSE A'[l] = Unwritten
      BY <1>1, <2>2, <2>4
    <3> QED
      BY <1>1, <1>2, <1>4, <1>6, <2>1, <2>2, <2>3, <3>1
         DEF FillTypes, Unwritten, PageOf, PageElements, Stretch
  <2> QED
    BY <2>5, <2>6
<1>7. CASE ~MorePages(page)
  <2>1. TypeOK'
    BY <1>1, <1>3, <1>4, <1>5, <1>7 DEF TypeOK, Unwritten
  <2>2. FillTypes'
    BY <1>1, <1>2, <1>7 DEF FillTypes
  <2> QED
    BY <2>1, <2>2
<1> QED
  BY <1>6, <1>7

\* The walk's steps keep the types, and leave the fill alone.
LEMMA WalkTypes ==
  ASSUME TypeOK, FillTypes, StartWalk \/ Load \/ StopClock \/ UNCHANGED vars
  PROVE  TypeOK' /\ FillTypes'
<1>1. UNCHANGED <<region, iter, page, pageOrder, A>>
  BY DEF StartWalk, Load, StopClock, vars
<1>2. pc' = pc \/ pc' \in {"walk", "done"}
  BY DEF StartWalk, Load, StopClock, vars
<1>3. 0 \in Line /\ A \in [Line -> Line \union {Unwritten}]
  BY RegionFacts DEF TypeOK
<1>4. pos' \in Line \union {Unwritten} /\ i' \in 0..ScaledIterations /\ touched' \subseteq Line
  BY <1>3 DEF TypeOK, StartWalk, Load, StopClock, vars, RoundAfter
<1>5. /\ Line' = Line /\ PagesNamed' = PagesNamed /\ LineCount' = LineCount
      /\ WholePage' = WholePage /\ NamedCount' = NamedCount
  BY <1>1 DEF Line, LineCount, PagesNamed, WholePage, NamedCount
<1>6. TypeOK'
  BY <1>1, <1>2, <1>4, <1>5 DEF TypeOK, Unwritten
<1>7. FillTypes'
  BY <1>1, <1>2, <1>5 DEF FillTypes, Unwritten, PageOf, PageElements, Stretch
<1> QED
  BY <1>6, <1>7

LEMMA StepTypes == TypeOK /\ FillTypes /\ [Next]_vars => TypeOK' /\ FillTypes'
  BY FillStepTypes, FirstPageTypes, ShufflePageTypes, PageFilledTypes, WalkTypes DEF Next

\* Neither fill writes an index outside the region, of whatever size, whole
\* pages or not, and the walk stays in it or is at an element that was never
\* written.
THEOREM PageTypeCorrect == Spec => []TypeOK
<1> QED
  BY InitTypes, StepTypes, PTL DEF Spec

-----------------------------------------------------------------------------
(***************************************************************************)
(* The fill of whole pages of 32-bit elements.  What an element holds,     *)
(* without the page, is a place in a page.  Within a page the places are   *)
(* shuffled to one cycle; the redirection changes none of them, for a page *)
(* begins with the place 0, which is what the redirected element held.     *)
(***************************************************************************)
InPages == region.pages > 2 /\ Width = 32 /\ region.extra = 0

PageLines(p) == {l \in Line : PageOf(l) = p}

\* The lines of a page that the countdown k has not passed.
Pending(p, k) == {l \in PageLines(p) : l % LinesPerPage < k}

\* The line of its own page that a line leads to, or would if it were not
\* redirected.
Within(a) == [l \in Line |-> PageBase(PageOf(l)) + (a[l] % LinesPerPage)]

PageShuffled(a, p, k) == Shuffled(Within(a), Pending(p, k), PageLines(p))

\* A page's element that would lead to its beginning leads to the next page.
Redirected(a, p) ==
  \A l \in PageLines(p) :
    a[l] = IF Within(a)[l] = PageBase(p) THEN PageBase(pageOrder[p]) ELSE Within(a)[l]

FillInv ==
  /\ pc = "whole" => Shuffled(A, Below(LineCount, iter), Line)
  /\ region.pages <= 2 /\ pc # "whole" => IsOneCycle(A, Line)
  /\ InPages =>
       /\ pc = "order" => Shuffled(pageOrder, Below(region.pages, iter), WholePage)
       /\ pc # "order" => IsOneCycle(pageOrder, WholePage)
       /\ pc = "page" => PageShuffled(A, page, iter)
       /\ \A p \in WholePage :
            p < page \/ pc \notin {"order", "page"} => PageShuffled(A, p, 1) /\ Redirected(A, p)

\* The lines of a page, at the beginning and the end of its shuffle and after a
\* turn of it.
LEMMA PageLinesFacts ==
  ASSUME region \in Regions, NEW p \in WholePage
  PROVE  /\ IsFiniteSet(PageLines(p)) /\ PageBase(p) \in PageLines(p)
         /\ PageBase(p) % LinesPerPage = 0
         /\ Pending(p, LinesPerPage) = PageLines(p)
         /\ Pending(p, 1) = {PageBase(p)}
<1>1. IsFiniteSet(Line) /\ PageLines(p) \subseteq Line
  BY FS_Interval, RegionFacts DEF Line, PageLines
<1>2. IsFiniteSet(PageLines(p))
  BY <1>1, FS_Subset
<1>3. PageBase(p) \in PageLines(p) /\ PageBase(p) % LinesPerPage = 0 /\ PageBase(p) \in Nat
  <2>1. 0 \in 0..(LinesPerPage - 1)
    BY ElementFacts
  <2>2. /\ PageBase(p) \in Nat /\ PageBase(p) + 0 \in Line /\ PageOf(PageBase(p) + 0) = p
        /\ (PageBase(p) + 0) % LinesPerPage = 0
    BY <2>1, PlaceFacts
  <2>3. PageBase(p) + 0 = PageBase(p)
    BY <2>2
  <2> QED
    BY <2>2, <2>3 DEF PageLines
<1>4. \A l \in PageLines(p) : /\ l % LinesPerPage \in 0..(LinesPerPage - 1)
                              /\ l = PageBase(p) + (l % LinesPerPage)
  BY LineFacts DEF PageLines
<1>5. Pending(p, LinesPerPage) = PageLines(p)
  BY <1>4, ElementFacts DEF Pending
<1>6. Pending(p, 1) = {PageBase(p)}
  <2>1. \A l \in PageLines(p) : l % LinesPerPage < 1 => l = PageBase(p)
    BY <1>3, <1>4, ElementFacts
  <2>2. 0 < 1
    OBVIOUS
  <2> QED
    BY <1>3, <2>1, <2>2 DEF Pending
<1> QED
  BY <1>2, <1>3, <1>5, <1>6

\* A page that is numbered is shuffled no further.
LEMMA NumberedIsShuffled ==
  ASSUME region \in Regions, NEW p \in WholePage, NEW a,
         \A l \in PageLines(p) : a[l] = l % LinesPerPage
  PROVE  PageShuffled(a, p, LinesPerPage)
<1>1. ASSUME NEW l \in PageLines(p) PROVE Within(a)[l] = l
  <2>1. /\ l \in Line /\ PageOf(l) = p /\ l = PageBase(p) + (l % LinesPerPage)
        /\ l % LinesPerPage \in 0..(LinesPerPage - 1)
    BY LineFacts DEF PageLines
  <2>2. (l % LinesPerPage) % LinesPerPage = l % LinesPerPage
    BY <2>1, ElementFacts, SMT
  <2> QED
    BY <2>1, <2>2 DEF Within
<1> QED
  BY <1>1, PageLinesFacts, IdentityIsShuffled DEF PageShuffled

\* What counts of a page is its places.
LEMMA SamePlacesSameShuffle ==
  ASSUME NEW p, NEW k, NEW a, NEW b, PageShuffled(a, p, k),
         \A l \in PageLines(p) : b[l] % LinesPerPage = a[l] % LinesPerPage
  PROVE  PageShuffled(b, p, k)
<1>1. \A l \in PageLines(p) : Within(b)[l] = Within(a)[l]
  BY DEF PageLines, Within
<1> QED
  BY <1>1, ShuffledSameValues DEF PageShuffled

\* A turn of a page's shuffle.
LEMMA PageTurn ==
  ASSUME region \in Regions, NEW p \in WholePage, NEW a, NEW b,
         NEW k \in Nat, k > 1, k <= LinesPerPage, PageShuffled(a, p, k),
         NEW x \in Line, PageOf(x) = p, x % LinesPerPage = k - 1,
         NEW y \in Line, PageOf(y) = p, y % LinesPerPage < k - 1, x # y,
         b[x] = a[y], b[y] = a[x], \A l \in Line : l # x /\ l # y => b[l] = a[l]
  PROVE  PageShuffled(b, p, k - 1)
<1> DEFINE f == Within(a)
           g == Within(b)
           Y == {f[l] : l \in Line}
<1>1. f \in [Line -> Y]
  BY DEF Within
<1>2. g = Swap(f, x, y)
  <2>1. DOMAIN f = Line /\ DOMAIN g = Line /\ g = [l \in Line |-> g[l]]
    BY DEF Within
  <2>2. /\ g[x] = f[y] /\ g[y] = f[x]
        /\ \A l \in Line : l # x /\ l # y => g[l] = f[l]
    BY DEF Within
  <2> HIDE DEF f, g
  <2> QED
    BY <2>1, <2>2 DEF Swap
<1>3. PageLines(p) \in SUBSET Line /\ Pending(p, k) \in SUBSET PageLines(p)
  BY DEF PageLines, Pending
<1>4. x \in Pending(p, k) /\ y \in Pending(p, k)
  <2>1. y % LinesPerPage \in Nat /\ y % LinesPerPage < k /\ x % LinesPerPage < k
    BY LineFacts, ElementFacts
  <2> QED
    BY <2>1 DEF PageLines, Pending
<1>5. Pending(p, k) \ {x} = Pending(p, k - 1)
  <2>1. \A l \in PageLines(p) : /\ l \in Line /\ l % LinesPerPage \in Nat
                                /\ l = PageBase(p) + (l % LinesPerPage)
    BY LineFacts, ElementFacts DEF PageLines
  <2>2. x = PageBase(p) + (k - 1)
    BY LineFacts
  <2>3. \A l \in PageLines(p) : l % LinesPerPage = k - 1 => l = x
    BY <2>1, <2>2
  <2>4. \A n \in Nat : n < k - 1 <=> n < k /\ n # k - 1
    OBVIOUS
  <2>5. \A l \in PageLines(p) : l % LinesPerPage < k - 1 <=> l % LinesPerPage < k /\ l # x
    BY <2>1, <2>3, <2>4
  <2> QED
    BY <2>5 DEF Pending
<1> HIDE DEF f, g, Y
<1>6. Shuffled(Swap(f, x, y), Pending(p, k) \ {x}, PageLines(p))
  <2>1. Shuffled(f, Pending(p, k), PageLines(p))
    BY DEF PageShuffled, f
  <2> QED
    BY <1>1, <1>3, <1>4, <2>1, SwapMergesCycles
<1> QED
  BY <1>2, <1>5, <1>6 DEF PageShuffled, g

\* In the regions of whole pages these are the pages that are named.
LEMMA InPagesFacts ==
  ASSUME TypeOK, InPages
  PROVE  /\ PagesNamed = WholePage /\ NamedCount = region.pages /\ region.pages \in Nat \ {0}
         /\ PageElements = LinesPerPage
         /\ pageOrder \in [WholePage -> WholePage]
  BY RegionFacts, ElementFacts DEF TypeOK, InPages, PagesNamed, NamedCount, WholePage

\* Before the shuffles every line is a cycle of its own, or every page is.
LEMMA InitFillInv == Init => FillInv
<1> SUFFICES ASSUME Init PROVE FillInv
  OBVIOUS
<1>0. region \in Regions /\ TypeOK
  BY InitTypes DEF Init
<1>1. CASE region.pages <= 2
  <2>1. pc = "whole" /\ iter = LineCount /\ A = [x \in Line |-> x]
    BY <1>1 DEF Init, Identity
  <2>2. Below(LineCount, iter) = Line
    BY <1>0, <2>1, BelowEnds, RegionFacts DEF Line
  <2>3. Shuffled(A, Line, Line)
    BY <2>1, IdentityIsShuffled
  <2>4. ~InPages
    BY <1>0, <1>1, RegionFacts DEF InPages
  <2> QED
    BY <2>1, <2>2, <2>3, <2>4 DEF FillInv
<1>2. CASE ~(region.pages <= 2)
  <2>1. pc = "order" /\ page = 0 /\ iter = NamedCount /\ pageOrder = [x \in PagesNamed |-> x]
    BY <1>2 DEF Init, Identity, NamedCount
  <2>2. ASSUME InPages
        PROVE  Shuffled(pageOrder, Below(region.pages, iter), WholePage)
    <3>1. Below(region.pages, iter) = WholePage
      BY <1>0, <2>1, <2>2, InPagesFacts, BelowEnds DEF WholePage
    <3>2. Shuffled(pageOrder, WholePage, WholePage)
      BY <1>0, <2>1, <2>2, InPagesFacts, IdentityIsShuffled
    <3> QED
      BY <3>1, <3>2
  <2>3. \A p \in WholePage : ~(p < page \/ pc \notin {"order", "page"})
    BY <1>0, <2>1, RegionFacts DEF WholePage
  <2> QED
    BY <1>2, <2>1, <2>2, <2>3 DEF FillInv
<1> QED
  BY <1>1, <1>2

\* The shuffles of the whole region and of the pages' order.
LEMMA WholeFillInv ==
  ASSUME TypeOK, FillTypes, FillInv, ShuffleWhole \/ WholeFilled
  PROVE  FillInv'
<1>1. /\ pc = "whole" /\ region \in Regions /\ region.pages <= 2 /\ A \in [Line -> Line]
      /\ iter \in 1..LineCount /\ LineCount \in Nat \ {0} /\ region' = region
  BY RegionFacts DEF ShuffleWhole, WholeFilled, TypeOK, FillTypes
<1>2. Line' = Line /\ LineCount' = LineCount /\ ~InPages'
  BY <1>1, RegionFacts DEF Line, LineCount, InPages
<1>3. CASE ShuffleWhole
  <2>1. pc' = "whole" /\ iter > 1 /\ iter' = iter - 1
    BY <1>3 DEF ShuffleWhole
  <2>2. PICK r \in RandIndex(iter - 1) : A' = Swap(A, iter - 1, r)
    BY <1>3 DEF ShuffleWhole
  <2>3. Shuffled(A, Below(LineCount, iter), 0..(LineCount - 1))
    BY <1>1 DEF FillInv, Line
  <2>4. iter \in 2..LineCount /\ A \in [0..(LineCount - 1) -> 0..(LineCount - 1)]
    BY <1>1, <2>1 DEF Line
  <2>5. Shuffled(Swap(A, iter - 1, r), Below(LineCount, iter - 1), 0..(LineCount - 1))
    BY <1>1, <2>3, <2>4, TurnKeepsShuffled
  <2>6. Shuffled(A', Below(LineCount, iter'), Line)
    BY <2>1, <2>2, <2>5 DEF Line
  <2>7. (Shuffled(A, Below(LineCount, iter), Line))'
    BY <1>2, <2>6 DEF Shuffled, Below, ClosedUnder, InjectiveOn, OneLabelPerCycle
  <2> QED
    BY <1>2, <2>1, <2>7 DEF FillInv
<1>4. CASE WholeFilled
  <2>1. pc' = "filled" /\ iter = 1 /\ A' = A
    BY <1>1, <1>4 DEF WholeFilled
  <2>2. IsOneCycle(A, Line)
    <3>1. Shuffled(A, Below(LineCount, 1), 0..(LineCount - 1))
      BY <1>1, <2>1 DEF FillInv, Line
    <3> QED
      BY <1>1, <3>1, ShuffledOnce DEF Line
  <2>3. IsOneCycle(A, Line)'
    BY <1>2, <2>1, <2>2 DEF IsOneCycle, ClosedUnder
  <2> QED
    BY <1>2, <2>1, <2>3 DEF FillInv
<1> QED
  BY <1>3, <1>4

\* Where only the shuffle of the order of the pages has been at work.
LEMMA OrderFillInv ==
  ASSUME TypeOK, FillTypes, FillInv, ShuffleOrder
  PROVE  FillInv'
<1>1. /\ pc = "order" /\ pc' = pc /\ region \in Regions /\ region.pages > 2
      /\ region.pages \in Nat /\ region' = region /\ page' = page /\ page = 0
      /\ iter \in 1..NamedCount /\ iter > 1 /\ iter' = iter - 1
  BY RegionFacts DEF ShuffleOrder, TypeOK, FillTypes
<1>2. WholePage' = WholePage /\ InPages' = InPages
  BY <1>1 DEF WholePage, InPages
<1>3. PICK r \in RandIndex(iter - 1) : pageOrder' = Swap(pageOrder, iter - 1, r)
  BY DEF ShuffleOrder
<1>4. ASSUME InPages
      PROVE  Shuffled(pageOrder', Below(region.pages, iter'), WholePage)
  <2>1. /\ region.pages \in Nat \ {0} /\ NamedCount = region.pages
        /\ pageOrder \in [0..(region.pages - 1) -> 0..(region.pages - 1)]
        /\ iter \in 2..region.pages
    BY <1>1, <1>4, InPagesFacts DEF WholePage
  <2>2. Shuffled(pageOrder, Below(region.pages, iter), 0..(region.pages - 1))
    BY <1>1, <1>4 DEF FillInv, WholePage
  <2>3. Shuffled(Swap(pageOrder, iter - 1, r), Below(region.pages, iter - 1),
                 0..(region.pages - 1))
    BY <2>1, <2>2, TurnKeepsShuffled
  <2> QED
    BY <1>1, <1>3, <2>3 DEF WholePage
<1>5. InPages' => (Shuffled(pageOrder, Below(region.pages, iter), WholePage))'
  BY <1>1, <1>2, <1>4 DEF Shuffled, Below, ClosedUnder, InjectiveOn, OneLabelPerCycle
<1>6. \A p \in WholePage' : ~(p < page' \/ pc' \notin {"order", "page"})
  BY <1>1, <1>2 DEF WholePage
<1> QED
  BY <1>1, <1>5, <1>6 DEF FillInv
\* The primed form of what is said of a page, when only the elements change.
LEMMA SameRegion ==
  ASSUME region' = region
  PROVE  /\ Line' = Line /\ WholePage' = WholePage /\ InPages' = InPages
         /\ LineCount' = LineCount
         /\ \A p, k : /\ PageShuffled(A, p, k)' <=> PageShuffled(A', p, k)
                      /\ pageOrder' = pageOrder => (Redirected(A, p)' <=> Redirected(A', p))
         /\ PageShuffled(A, page, iter)' <=> PageShuffled(A', page', iter')
<1>1. Line' = Line /\ WholePage' = WholePage /\ InPages' = InPages /\ LineCount' = LineCount
  BY DEF Line, LineCount, WholePage, InPages
<1>2. \A p : PageLines(p)' = PageLines(p)
  BY <1>1 DEF PageLines
<1>3. \A p, k : Pending(p, k)' = Pending(p, k)
  BY <1>2 DEF Pending
<1>4. Within(A)' = Within(A')
  BY <1>1 DEF Within
<1>5. \A p, k : PageShuffled(A, p, k)' <=> PageShuffled(A', p, k)
  BY <1>2, <1>3, <1>4
     DEF PageShuffled, Shuffled, ClosedUnder, InjectiveOn, OneLabelPerCycle
<1>6. ASSUME pageOrder' = pageOrder
      PROVE  \A p : Redirected(A, p)' <=> Redirected(A', p)
  BY <1>2, <1>4, <1>6 DEF Redirected
<1>7. PageShuffled(A, page, iter)' <=> PageShuffled(A', page', iter')
  BY <1>2, <1>4
     DEF PageShuffled, Pending, Shuffled, ClosedUnder, InjectiveOn, OneLabelPerCycle
<1> QED
  BY <1>1, <1>5, <1>6, <1>7

\* A page that is not written stays as it is.
LEMMA PageUntouched ==
  ASSUME NEW p, NEW k, NEW a, NEW b, \A l \in PageLines(p) : b[l] = a[l]
  PROVE  /\ PageShuffled(a, p, k) => PageShuffled(b, p, k)
         /\ Redirected(a, p) => Redirected(b, p)
<1>1. PageShuffled(a, p, k) => PageShuffled(b, p, k)
  BY SamePlacesSameShuffle
<1>2. \A l \in PageLines(p) : Within(b)[l] = Within(a)[l]
  BY DEF PageLines, Within
<1>3. Redirected(a, p) => Redirected(b, p)
  BY <1>2 DEF Redirected
<1> QED
  BY <1>1, <1>3

\* The order is drawn, and the first page is numbered.
LEMMA FirstPageFillInv ==
  ASSUME TypeOK, FillTypes, FillInv, FirstPage
  PROVE  FillInv'
<1>1. /\ pc = "order" /\ pc' = "page" /\ iter' = PageElements /\ A' = NumberPage(A, 0)
      /\ iter <= 1 /\ region' = region /\ page' = page /\ pageOrder' = pageOrder
      /\ region \in Regions /\ page = 0 /\ 0 \in WholePage /\ region.pages > 2
      /\ iter \in 1..NamedCount /\ region.pages \in Nat
  BY RegionFacts DEF FirstPage, TypeOK, FillTypes, WholePage
<1>2. ASSUME InPages PROVE IsOneCycle(pageOrder, WholePage)
  <2>1. iter = 1 /\ region.pages \in Nat \ {0}
    BY <1>1, RegionFacts DEF NamedCount
  <2>2. Shuffled(pageOrder, Below(region.pages, 1), 0..(region.pages - 1))
    BY <1>1, <1>2, <2>1 DEF FillInv, WholePage
  <2> QED
    BY <2>1, <2>2, ShuffledOnce DEF WholePage
<1>3. ASSUME InPages PROVE PageShuffled(A', 0, LinesPerPage) /\ PageElements = LinesPerPage
  <2>1. PageElements = LinesPerPage
    BY <1>3, ElementFacts DEF InPages
  <2>2. \A l \in Line : l % LinesPerPage < LinesPerPage
    BY <1>1, LineFacts, ElementFacts
  <2>3. \A l \in PageLines(0) : A'[l] = l % LinesPerPage
    BY <1>1, <2>1, <2>2, NumberPageValues DEF PageLines
  <2> QED
    BY <1>1, <2>1, <2>3, NumberedIsShuffled
<1>4. \A p \in WholePage : ~(p < 0)
  BY <1>1 DEF WholePage
<1>5. InPages' => IsOneCycle(pageOrder, WholePage)'
  BY <1>1, <1>2, SameRegion DEF IsOneCycle, ClosedUnder
<1>6. InPages' => PageShuffled(A, page, iter)'
  BY <1>1, <1>3, SameRegion
<1>7. region'.pages > 2
  BY <1>1
<1> QED
  BY <1>1, <1>4, <1>5, <1>6, <1>7, SameRegion DEF FillInv

\* A turn of the current page's shuffle leaves the other pages alone.
LEMMA ShufflePageFillInv ==
  ASSUME TypeOK, FillTypes, FillInv, ShufflePage
  PROVE  FillInv'
<1>1. /\ pc = "page" /\ pc' = pc /\ iter > 1 /\ iter' = iter - 1
      /\ region' = region /\ page' = page /\ pageOrder' = pageOrder
      /\ region \in Regions /\ page \in WholePage /\ region.pages > 2
      /\ A \in [Line -> Line \union {Unwritten}]
  BY RegionFacts DEF ShufflePage, TypeOK, FillTypes
<1> DEFINE x == PageBase(page) + iter - 1
<1>2. PICK r \in RandIndex(iter - 1) : A' = Swap(A, x, PageBase(page) + r)
  BY DEF ShufflePage
<1> DEFINE y == PageBase(page) + r
<1>3. /\ x \in Line /\ y \in Line /\ x # y
      /\ PageOf(x) = page /\ x % LinesPerPage = iter - 1
      /\ PageOf(y) = page /\ y % LinesPerPage = r
      /\ r \in Nat /\ r < iter - 1 /\ iter \in Nat /\ iter <= PageElements
  BY <1>1, PageSwap
<1> HIDE DEF x, y
<1>4. A' = Swap(A, x, y)
  BY <1>2 DEF y
<1>5. /\ A'[x] = A[y] /\ A'[y] = A[x]
      /\ \A l \in Line : l # x /\ l # y => A'[l] = A[l]
  <2>1. /\ Swap(A, x, y)[x] = A[y] /\ Swap(A, x, y)[y] = A[x]
        /\ \A l \in Line : l # x /\ l # y => Swap(A, x, y)[l] = A[l]
    BY <1>1, <1>3 DEF Swap
  <2> QED
    BY <1>4, <2>1, Zenon
<1>6. ASSUME InPages PROVE PageShuffled(A', page, iter - 1)
  <2>1. iter <= LinesPerPage /\ PageShuffled(A, page, iter)
    BY <1>1, <1>3, <1>6, ElementFacts DEF InPages, FillInv
  <2>2. y % LinesPerPage < iter - 1
    BY <1>3
  <2> QED
    BY <1>1, <1>3, <1>5, <2>1, <2>2, PageTurn
<1>7. ASSUME InPages, NEW p \in WholePage, p < page
      PROVE  PageShuffled(A', p, 1) /\ Redirected(A', p)
  <2>1. PageShuffled(A, p, 1) /\ Redirected(A, p)
    BY <1>1, <1>7 DEF FillInv
  <2>2. p # page
    BY <1>1, <1>7, RegionFacts DEF WholePage
  <2>3. \A l \in PageLines(p) : A'[l] = A[l]
    BY <1>3, <1>5, <2>2 DEF PageLines
  <2> QED
    BY <2>1, <2>3, PageUntouched
<1>8. InPages' => IsOneCycle(pageOrder, WholePage)'
  <2>1. InPages => IsOneCycle(pageOrder, WholePage)
    BY <1>1 DEF FillInv
  <2> QED
    BY <1>1, <2>1, SameRegion DEF IsOneCycle, ClosedUnder
<1>9. InPages' => PageShuffled(A, page, iter)'
  BY <1>1, <1>6, SameRegion
<1>10. InPages' => \A p \in WholePage' :
          p < page' => PageShuffled(A, p, 1)' /\ Redirected(A, p)'
  BY <1>1, <1>7, SameRegion
<1> QED
  BY <1>1, <1>8, <1>9, <1>10, SameRegion DEF FillInv

\* The redirection of a page keeps the places of its elements.
LEMMA RedirectedPlaces ==
  ASSUME TypeOK, FillTypes, FillInv, InPages, pc = "page", iter <= 1
  PROVE  LET b == RedirectPage(page)
         IN  /\ PageShuffled(b, page, 1) /\ Redirected(b, page)
             /\ \A p \in WholePage : p < page => PageShuffled(b, p, 1) /\ Redirected(b, p)
<1> DEFINE b == RedirectPage(page)
<1>1. /\ region \in Regions /\ page \in WholePage /\ page \in Nat /\ iter = 1
      /\ pageOrder[page] \in WholePage
      /\ PageElements = LinesPerPage /\ Stretch = 1 /\ PageBase(page) \in Nat
      /\ PageShuffled(A, page, 1)
  <2>1. iter \in 1..PageElements /\ page \in WholePage
    BY DEF FillTypes
  <2>2. 0 \in 0..(LinesPerPage - 1)
    BY ElementFacts
  <2>3. region \in Regions /\ page \in Nat /\ PageBase(page) \in Nat
    BY <2>1, <2>2, PlaceFacts DEF TypeOK
  <2>4. PageElements = LinesPerPage /\ Stretch = 1
    BY ElementFacts DEF InPages
  <2>5. iter = 1
    BY <2>1, ElementFacts
  <2>6. pageOrder[page] \in WholePage
    BY <2>1, InPagesFacts
  <2>7. PageShuffled(A, page, 1)
    BY <2>5 DEF FillInv
  <2> QED
    BY <2>1, <2>3, <2>4, <2>5, <2>6, <2>7
<1>2. ASSUME NEW l \in PageLines(page)
      PROVE  /\ b[l] % LinesPerPage = A[l] % LinesPerPage
             /\ b[l] = IF Within(b)[l] = PageBase(page) THEN PageBase(pageOrder[page])
                                                       ELSE Within(b)[l]
  <2>1. /\ l \in Line /\ PageOf(l) = page /\ A[l] \in 0..(LinesPerPage - 1)
        /\ b[l] = Redirect(page, l, A[l])
    BY <1>1, RedirectedPage DEF PageLines
  <2>2. /\ A[l] % LinesPerPage = A[l]
        /\ (PageBase(page) + A[l]) % LinesPerPage = A[l]
    <3>1. \A m \in Nat \ {0} : \A v \in 0..(m - 1) : v % m = v
      BY SMTT(30)
    <3>2. LinesPerPage \in Nat \ {0}
      BY ElementFacts
    <3>3. (PageBase(page) + A[l]) % LinesPerPage = A[l]
      BY <1>1, <2>1, PlaceFacts
    <3> QED
      BY <2>1, <3>1, <3>2, <3>3
  <2>3. PageBase(pageOrder[page]) % LinesPerPage = 0
    BY <1>1, PageLinesFacts
  <2>4. Within(b)[l] = PageBase(page) + (b[l] % LinesPerPage)
    BY <2>1 DEF Within
  <2>5. b[l] = IF A[l] = 0 THEN PageBase(pageOrder[page]) ELSE PageBase(page) + A[l]
    <3>1. 1 * A[l] + PageBase(page) = PageBase(page) + A[l]
      BY <1>1, <2>1
    <3> QED
      BY <1>1, <2>1, <3>1 DEF Redirect
  <2>6. b[l] % LinesPerPage = A[l]
    BY <2>2, <2>3, <2>5
  <2>7. Within(b)[l] = PageBase(page) <=> A[l] = 0
    BY <1>1, <2>1, <2>4, <2>6
  <2> QED
    BY <2>2, <2>4, <2>5, <2>6, <2>7
<1>3. PageShuffled(b, page, 1)
  BY <1>1, <1>2, SamePlacesSameShuffle
<1>4. Redirected(b, page)
  BY <1>2 DEF Redirected
<1>5. ASSUME NEW p \in WholePage, p < page
      PROVE  PageShuffled(b, p, 1) /\ Redirected(b, p)
  <2>1. PageShuffled(A, p, 1) /\ Redirected(A, p)
    BY <1>5 DEF FillInv
  <2>2. \A l \in PageLines(p) : b[l] = A[l]
    <3>1. p # page
      BY <1>1, <1>5, RegionFacts DEF WholePage
    <3> QED
      BY <3>1, RedirectedPage DEF PageLines
  <2> QED
    BY <2>1, <2>2, PageUntouched
<1> QED
  BY <1>3, <1>4, <1>5

\* A page is redirected, and the next is numbered.
LEMMA PageFilledFillInv ==
  ASSUME TypeOK, FillTypes, FillInv, PageFilled
  PROVE  FillInv'
<1> DEFINE b == RedirectPage(page)
<1>1. /\ pc = "page" /\ iter <= 1 /\ page' = page + 1 /\ region' = region
      /\ pageOrder' = pageOrder
      /\ MorePages(page) => A' = NumberPage(b, page + 1) /\ iter' = PageElements /\ pc' = "page"
      /\ ~MorePages(page) => A' = b /\ pc' = "filled"
  BY DEF PageFilled
<1>2. /\ region \in Regions /\ page \in WholePage /\ page \in Nat /\ region.pages \in Nat
      /\ region.pages > 2
  BY <1>1, RegionFacts DEF TypeOK, FillTypes, WholePage
<1>3. ASSUME InPages, NEW p \in WholePage, p < page + 1
      PROVE  PageShuffled(b, p, 1) /\ Redirected(b, p)
  <2>1. p = page \/ p < page
    BY <1>2, <1>3 DEF WholePage
  <2> QED
    BY <1>1, <1>3, <2>1, RedirectedPlaces
<1> HIDE DEF b
<1>4. InPages' => IsOneCycle(pageOrder, WholePage)'
  <2>1. InPages => IsOneCycle(pageOrder, WholePage)
    BY <1>1 DEF FillInv
  <2> QED
    BY <1>1, <2>1, SameRegion DEF IsOneCycle, ClosedUnder
<1>5. CASE MorePages(page)
  <2>1. page + 1 \in WholePage
    BY <1>2, <1>5 DEF MorePages, WholePage
  <2>2. ASSUME InPages PROVE PageShuffled(A', page', iter')
    <3>1. PageElements = LinesPerPage
      BY <2>2, ElementFacts DEF InPages
    <3>2. \A l \in Line : l % LinesPerPage < LinesPerPage
      BY <1>2, LineFacts, ElementFacts
    <3>3. \A l \in PageLines(page + 1) : A'[l] = l % LinesPerPage
      BY <1>1, <1>2, <1>5, <2>1, <3>1, <3>2, NumberPageValues DEF PageLines
    <3> QED
      BY <1>1, <1>2, <1>5, <2>1, <3>1, <3>3, NumberedIsShuffled
  <2>3. ASSUME InPages, NEW p \in WholePage, p < page'
        PROVE  PageShuffled(A', p, 1) /\ Redirected(A', p)
    <3>1. p # page + 1
      BY <1>1, <1>2, <2>3 DEF WholePage
    <3>2. \A l \in PageLines(p) : A'[l] = b[l]
      BY <1>1, <1>2, <1>5, <2>1, <3>1, NumberPageValues DEF PageLines
    <3> QED
      BY <1>1, <1>3, <2>3, <3>2, PageUntouched
  <2>4. InPages' => PageShuffled(A, page, iter)'
    BY <1>1, <2>2, SameRegion
  <2>5. InPages' => \A p \in WholePage' :
           p < page' => PageShuffled(A, p, 1)' /\ Redirected(A, p)'
    BY <1>1, <2>3, SameRegion
  <2> QED
    BY <1>1, <1>2, <1>4, <1>5, <2>4, <2>5, SameRegion DEF FillInv
<1>6. CASE ~MorePages(page)
  <2>1. \A p \in WholePage : p < page + 1
    BY <1>2, <1>6 DEF MorePages, WholePage
  <2>2. ASSUME InPages, NEW p \in WholePage
        PROVE  PageShuffled(A', p, 1) /\ Redirected(A', p)
    BY <1>1, <1>3, <1>6, <2>1, <2>2
  <2>3. InPages' => \A p \in WholePage' : PageShuffled(A, p, 1)' /\ Redirected(A, p)'
    BY <1>1, <2>2, SameRegion
  <2> QED
    BY <1>1, <1>2, <1>4, <1>6, <2>3, SameRegion DEF FillInv
<1> QED
  BY <1>5, <1>6

\* The walk does not write the pattern.
LEMMA WalkFillInv ==
  ASSUME TypeOK, FillTypes, FillInv, StartWalk \/ Load \/ StopClock \/ UNCHANGED vars
  PROVE  FillInv'
<1>1. UNCHANGED <<region, iter, page, pageOrder, A>>
  BY DEF StartWalk, Load, StopClock, vars
<1>2. pc' = pc \/ (pc \notin {"whole", "order", "page"} /\ pc' \in {"walk", "done"})
  BY DEF StartWalk, Load, StopClock, vars
<1>3. /\ Line' = Line /\ WholePage' = WholePage /\ InPages' = InPages
      /\ LineCount' = LineCount
  BY <1>1, SameRegion
<1>4. /\ \A p, k : PageShuffled(A, p, k)' <=> PageShuffled(A, p, k)
      /\ \A p : Redirected(A, p)' <=> Redirected(A, p)
      /\ PageShuffled(A, page, iter)' <=> PageShuffled(A, page, iter)
  BY <1>1, SameRegion
<1>5. /\ IsOneCycle(A, Line)' <=> IsOneCycle(A, Line)
      /\ IsOneCycle(pageOrder, WholePage)' <=> IsOneCycle(pageOrder, WholePage)
  BY <1>1, <1>3 DEF IsOneCycle, ClosedUnder
<1>6. /\ (Shuffled(A, Below(LineCount, iter), Line))'
           <=> Shuffled(A, Below(LineCount, iter), Line)
      /\ (Shuffled(pageOrder, Below(region.pages, iter), WholePage))'
           <=> Shuffled(pageOrder, Below(region.pages, iter), WholePage)
  BY <1>1, <1>3 DEF Shuffled, Below, ClosedUnder, InjectiveOn, OneLabelPerCycle
<1> HIDE DEF InPages
<1> QED
  BY <1>1, <1>2, <1>3, <1>4, <1>5, <1>6 DEF FillInv

LEMMA StepFillInv == TypeOK /\ FillTypes /\ FillInv /\ [Next]_vars => FillInv'
  BY WholeFillInv, OrderFillInv, FirstPageFillInv, ShufflePageFillInv, PageFilledFillInv,
     WalkFillInv DEF Next
-----------------------------------------------------------------------------
(***************************************************************************)
(* The walk.                                                               *)
(***************************************************************************)
Filled == pc \notin {"whole", "order", "page"}

\* The regions whose every line the fill writes.
Covered == region.pages <= 2 \/ InPages

\* A walk is at line l, and has visited t in its round.  Whatever leads to a
\* visited line, or to the one it is at, was visited before it; only the
\* beginning of a page is entered from another page.
WalkAt(t, l) ==
  /\ l \in Line
  /\ t \subseteq Line
  /\ \A m \in t : A[m] \in t \union {l}
  /\ InPages =>
       /\ \A m \in Line :
            /\ Within(A)[m] \in t \union {l}
            /\ Within(A)[m] # PageBase(PageOf(m))
            => m \in t
       /\ t = Line => l = PageBase(PageOf(l))

WalkInv ==
  /\ pc \notin {"walk", "done"} => touched = {}
  /\ pc \in {"walk", "done"} /\ Covered => touched # {} /\ WalkAt(touched, pos)

PageInv == TypeOK /\ FillTypes /\ FillInv /\ WalkInv

\* The lines of a page, and what leads from one to another of them.
LEMMA FilledPages ==
  ASSUME TypeOK, FillTypes, FillInv, InPages, Filled
  PROVE  /\ IsOneCycle(pageOrder, WholePage) /\ pageOrder \in [WholePage -> WholePage]
         /\ \A p \in WholePage : IsOneCycle(Within(A), PageLines(p))
         /\ \A l \in Line :
              /\ PageOf(l) \in WholePage
              /\ Within(A)[l] \in Line /\ PageOf(Within(A)[l]) = PageOf(l)
              /\ A[l] = IF Within(A)[l] = PageBase(PageOf(l))
                        THEN PageBase(pageOrder[PageOf(l)]) ELSE Within(A)[l]
         /\ \A l, m \in Line : Within(A)[l] = Within(A)[m] => l = m
<1>1. /\ region \in Regions /\ region.extra = 0
      /\ IsOneCycle(pageOrder, WholePage) /\ pageOrder \in [WholePage -> WholePage]
      /\ \A p \in WholePage : PageShuffled(A, p, 1) /\ Redirected(A, p)
  <2>1. region \in Regions /\ region.extra = 0
    BY DEF TypeOK, InPages
  <2>2. pageOrder \in [WholePage -> WholePage]
    BY InPagesFacts
  <2>3. /\ IsOneCycle(pageOrder, WholePage)
        /\ \A p \in WholePage : PageShuffled(A, p, 1) /\ Redirected(A, p)
    BY DEF FillInv, Filled
  <2> QED
    BY <2>1, <2>2, <2>3
<1>2. ASSUME NEW p \in WholePage
      PROVE  /\ IsOneCycle(Within(A), PageLines(p))
             /\ ClosedUnder(Within(A), PageLines(p)) /\ InjectiveOn(Within(A), PageLines(p))
  <2>1. /\ Shuffled(Within(A), {PageBase(p)}, PageLines(p))
        /\ IsFiniteSet(PageLines(p)) /\ PageBase(p) \in PageLines(p)
    <3>1. /\ IsFiniteSet(PageLines(p)) /\ PageBase(p) \in PageLines(p)
          /\ Pending(p, 1) = {PageBase(p)}
      BY <1>1, PageLinesFacts
    <3>2. Shuffled(Within(A), Pending(p, 1), PageLines(p))
      BY <1>1, Zenon DEF PageShuffled
    <3> QED
      BY <3>1, <3>2, Zenon
  <2> QED
    BY <2>1, OneLabelIsOneCycle DEF Shuffled
<1>3. ASSUME NEW l \in Line
      PROVE  /\ PageOf(l) \in WholePage /\ l \in PageLines(PageOf(l))
             /\ Within(A)[l] \in PageLines(PageOf(l))
             /\ A[l] = IF Within(A)[l] = PageBase(PageOf(l))
                       THEN PageBase(pageOrder[PageOf(l)]) ELSE Within(A)[l]
  <2>1. PageOf(l) \in WholePage /\ l \in PageLines(PageOf(l))
    BY <1>1, LineFacts DEF PageLines
  <2> QED
    BY <1>1, <1>2, <2>1 DEF ClosedUnder, Redirected
<1>4. \A l \in Line : Within(A)[l] \in Line /\ PageOf(Within(A)[l]) = PageOf(l)
  BY <1>3 DEF PageLines
<1>5. ASSUME NEW l \in Line, NEW m \in Line, Within(A)[l] = Within(A)[m]
      PROVE  l = m
  <2>1. PageOf(l) = PageOf(m)
    BY <1>4, <1>5
  <2>2. l \in PageLines(PageOf(l)) /\ m \in PageLines(PageOf(l)) /\ PageOf(l) \in WholePage
    BY <1>3, <2>1
  <2> QED
    BY <1>2, <1>5, <2>2 DEF InjectiveOn
<1> QED
  BY <1>1, <1>2, <1>3, <1>4, <1>5

\* A page has more than one line, and its beginning is one of them.
LEMMA PageHasLines ==
  ASSUME TypeOK, NEW p \in WholePage
  PROVE  /\ PageBase(p) \in Line /\ PageOf(PageBase(p)) = p
         /\ \A l : PageLines(p) # {l}
<1>1. region \in Regions /\ 0 \in 0..(LinesPerPage - 1) /\ 1 \in 0..(LinesPerPage - 1)
  BY ElementFacts DEF TypeOK
<1>2. /\ PageBase(p) \in Nat /\ PageBase(p) + 0 \in Line /\ PageOf(PageBase(p) + 0) = p
      /\ PageBase(p) + 1 \in Line /\ PageOf(PageBase(p) + 1) = p
  BY <1>1, PlaceFacts
<1>3. PageBase(p) + 0 = PageBase(p) /\ PageBase(p) + 1 # PageBase(p)
  BY <1>2
<1>4. PageBase(p) \in PageLines(p) /\ PageBase(p) + 1 \in PageLines(p)
  BY <1>2, <1>3 DEF PageLines
<1> QED
  BY <1>2, <1>3, <1>4

\* No line leads to itself.
LEMMA WithinMoves ==
  ASSUME TypeOK, FillTypes, FillInv, InPages, Filled, NEW l \in Line
  PROVE  Within(A)[l] # l
<1> SUFFICES ASSUME Within(A)[l] = l PROVE FALSE
  OBVIOUS
<1> DEFINE p == PageOf(l)
<1>1. p \in WholePage /\ IsOneCycle(Within(A), PageLines(p)) /\ l \in PageLines(p)
  BY FilledPages DEF PageLines
<1>2. {l} \in SUBSET PageLines(p) /\ {l} # {} /\ ClosedUnder(Within(A), {l})
  BY <1>1 DEF ClosedUnder
<1>3. {l} = PageLines(p)
  BY <1>1, <1>2 DEF IsOneCycle
<1> QED
  BY <1>1, <1>3, PageHasLines

\* Every element that the fill wrote leads to a line.
LEMMA FilledLeads ==
  ASSUME TypeOK, FillTypes, FillInv, Filled, Covered
  PROVE  \A l \in Line : A[l] \in Line
<1>1. CASE region.pages <= 2
  BY <1>1 DEF FillTypes
<1>2. CASE InPages
  BY <1>2, FilledPages, PageHasLines
<1> QED
  BY <1>1, <1>2 DEF Covered

\* The pattern of a region that the fill covers is one cycle through all its
\* lines.  In pages: a set that the pattern does not leave has the beginning
\* of one page, so of all of them, and with it the whole page.
LEMMA FilledIsOneCycle ==
  ASSUME TypeOK, FillTypes, FillInv, Filled, Covered
  PROVE  IsOneCycle(A, Line)
<1>1. CASE region.pages <= 2
  BY <1>1 DEF FillInv, Filled
<1>2. CASE InPages
  <2> SUFFICES ASSUME NEW S \in SUBSET Line, S # {}, ClosedUnder(A, S)
               PROVE  S = Line
    BY DEF IsOneCycle
  <2> DEFINE Q == {p \in WholePage : PageBase(p) \in S}
             Part(p) == S \cap PageLines(p)
  <2>1. /\ IsOneCycle(pageOrder, WholePage) /\ pageOrder \in [WholePage -> WholePage]
        /\ \A p \in WholePage : IsOneCycle(Within(A), PageLines(p))
    BY <1>2, FilledPages
  <2>2. ASSUME NEW l \in Line
        PROVE  /\ PageOf(l) \in WholePage
               /\ Within(A)[l] \in Line /\ PageOf(Within(A)[l]) = PageOf(l)
               /\ A[l] = IF Within(A)[l] = PageBase(PageOf(l))
                         THEN PageBase(pageOrder[PageOf(l)]) ELSE Within(A)[l]
    BY <1>2, FilledPages
  \* A page that S has a line of is left by S, for the page that follows.
  <2>3. ASSUME NEW p \in WholePage, Part(p) # {}
        PROVE  PageBase(pageOrder[p]) \in S
    <3> SUFFICES ASSUME PageBase(pageOrder[p]) \notin S PROVE FALSE
      OBVIOUS
    <3>1. \A l \in Part(p) : Within(A)[l] \in Part(p) /\ Within(A)[l] # PageBase(p)
      BY <2>2 DEF ClosedUnder, PageLines
    <3>2. Part(p) \in SUBSET PageLines(p) /\ ClosedUnder(Within(A), Part(p))
      BY <3>1 DEF ClosedUnder
    <3>3. Part(p) = PageLines(p)
      <4> HIDE DEF Part
      <4> QED
        BY <2>1, <2>3, <3>2 DEF IsOneCycle
    \* All of the page then, of which one line leads to the beginning.
    <3>4. /\ IsFiniteSet(PageLines(p)) /\ PageBase(p) \in PageLines(p)
          /\ ClosedUnder(Within(A), PageLines(p))
      BY <3>2, <3>3, PageLinesFacts DEF TypeOK
    <3>5. InjectiveOn(Within(A), PageLines(p))
      BY <1>2, FilledPages DEF InjectiveOn, PageLines
    <3>6. \E l \in PageLines(p) : Within(A)[l] = PageBase(p)
      BY <3>4, <3>5, InjectiveIsOnto
    <3> QED
      BY <3>1, <3>3, <3>6
  <2>4. Q \in SUBSET WholePage /\ Q # {} /\ ClosedUnder(pageOrder, Q)
    <3>1. \A p \in Q : PageBase(p) \in Part(p)
      BY PageHasLines DEF PageLines
    <3>2. ClosedUnder(pageOrder, Q)
      BY <2>1, <2>3, <3>1 DEF ClosedUnder
    <3>3. PICK l \in S : TRUE
      OBVIOUS
    <3>4. PageOf(l) \in WholePage /\ Part(PageOf(l)) # {}
      BY <2>2 DEF PageLines
    <3>5. pageOrder[PageOf(l)] \in Q
      BY <2>1, <2>3, <3>4
    <3> QED
      BY <3>2, <3>5
  <2>5. Q = WholePage
    <3> HIDE DEF Q
    <3> QED
      BY <2>1, <2>4 DEF IsOneCycle
  <2>6. ASSUME NEW p \in WholePage PROVE Part(p) = PageLines(p)
    <3>1. PageBase(p) \in Part(p)
      BY <2>5, PageHasLines DEF PageLines
    <3>2. ClosedUnder(Within(A), Part(p))
      BY <2>2, <3>1 DEF ClosedUnder, PageLines
    <3>3. Part(p) \in SUBSET PageLines(p) /\ Part(p) # {}
      BY <3>1
    <3> HIDE DEF Part
    <3> QED
      BY <2>1, <3>2, <3>3 DEF IsOneCycle
  <2>7. \A l \in Line : l \in PageLines(PageOf(l))
    BY DEF PageLines
  <2> QED
    BY <2>2, <2>6, <2>7
<1> QED
  BY <1>1, <1>2 DEF Covered

\* A round that is not whole has not visited the line it is at.
LEMMA HereIsFresh ==
  ASSUME TypeOK, FillTypes, FillInv, Filled, Covered, NEW t, NEW l, WalkAt(t, l), l \in t
  PROVE  t = Line
<1>1. t \in SUBSET Line /\ t # {} /\ ClosedUnder(A, t)
  BY DEF WalkAt, ClosedUnder
<1> QED
  BY <1>1, FilledIsOneCycle DEF IsOneCycle

\* Where the walk is after a load from l.
LEMMA VisitKeepsWalkAt ==
  ASSUME TypeOK, FillTypes, FillInv, Filled, Covered, NEW t, NEW l, WalkAt(t, l)
  PROVE  /\ WalkAt(RoundAfter(t, l), A[l])
         /\ RoundAfter(t, l) # {}
<1> DEFINE u == RoundAfter(t, l)
           n == A[l]
<1>1. /\ l \in Line /\ t \subseteq Line /\ \A m \in t : A[m] \in t \union {l}
      /\ u = IF t = Line THEN {l} ELSE t \union {l}
  BY DEF WalkAt, RoundAfter
<1> HIDE DEF u
<1>2. n \in Line
  BY <1>1, FilledLeads
<1>3. u \subseteq Line /\ l \in u /\ \A m \in u : A[m] \in u \union {n}
  BY <1>1
<1>4. ASSUME InPages
      PROVE  /\ \A m \in Line :
                   /\ Within(A)[m] \in u \union {n}
                   /\ Within(A)[m] # PageBase(PageOf(m))
                   => m \in u
             /\ u = Line => n = PageBase(PageOf(n))
  <2>1. /\ \A m \in Line :
             /\ PageOf(m) \in WholePage
             /\ Within(A)[m] \in Line /\ PageOf(Within(A)[m]) = PageOf(m)
             /\ A[m] = IF Within(A)[m] = PageBase(PageOf(m))
                       THEN PageBase(pageOrder[PageOf(m)]) ELSE Within(A)[m]
        /\ \A m, k \in Line : Within(A)[m] = Within(A)[k] => m = k
        /\ pageOrder \in [WholePage -> WholePage]
    BY <1>4, FilledPages
  <2>2. /\ \A m \in Line :
             /\ Within(A)[m] \in t \union {l}
             /\ Within(A)[m] # PageBase(PageOf(m))
             => m \in t
        /\ t = Line => l = PageBase(PageOf(l))
    BY <1>4 DEF WalkAt
  \* A line of the page of n, not the first: n was entered from within its page.
  <2>3. n # PageBase(PageOf(n)) => n = Within(A)[l] /\ n # PageBase(PageOf(l))
    <3>1. CASE Within(A)[l] = PageBase(PageOf(l))
      <4>1. n = PageBase(pageOrder[PageOf(l)]) /\ pageOrder[PageOf(l)] \in WholePage
        BY <1>1, <2>1, <3>1
      <4>2. PageOf(n) = pageOrder[PageOf(l)]
        BY <4>1, PageHasLines
      <4> QED
        BY <4>1, <4>2
    <3>2. CASE Within(A)[l] # PageBase(PageOf(l))
      BY <1>1, <2>1, <3>2
    <3> QED
      BY <3>1, <3>2
  <2>4. ASSUME NEW m \in Line, Within(A)[m] = n, n # PageBase(PageOf(m))
        PROVE  m \in u
    <3>1. n # PageBase(PageOf(n))
      BY <2>1, <2>4
    <3>2. m = l
      BY <1>1, <2>1, <2>3, <2>4, <3>1
    <3> QED
      BY <1>3, <3>2
  <2>5. ASSUME NEW m \in Line, Within(A)[m] \in u, Within(A)[m] # PageBase(PageOf(m))
        PROVE  m \in u
    <3>1. CASE t = Line
      <4>1. Within(A)[m] = l /\ l = PageBase(PageOf(l))
        BY <1>1, <2>2, <2>5, <3>1
      <4> QED
        BY <2>1, <2>5, <4>1
    <3>2. CASE t # Line
      BY <1>1, <2>2, <2>5, <3>2
    <3> QED
      BY <3>1, <3>2
  <2>6. ASSUME u = Line PROVE n = PageBase(PageOf(n))
    <3> SUFFICES ASSUME n # PageBase(PageOf(n)) PROVE FALSE
      OBVIOUS
    <3>1. n = Within(A)[l] /\ n # PageBase(PageOf(l)) /\ n # l
      BY <1>1, <1>4, <2>3, WithinMoves
    <3>2. t # Line
      BY <1>1, <1>2, <2>6, <3>1
    <3>3. n \in t
      BY <1>1, <1>2, <2>6, <3>1, <3>2
    <3>4. l \in t
      BY <1>1, <2>2, <3>1, <3>3
    <3> QED
      BY <3>2, <3>4, HereIsFresh
  <2> QED
    BY <2>4, <2>5, <2>6
<1>5. WalkAt(u, n)
  BY <1>2, <1>3, <1>4 DEF WalkAt
<1> QED
  BY <1>3, <1>5 DEF u

\* The walk begins at line 0, the beginning of a page.
LEMMA WalkBegins ==
  ASSUME TypeOK, FillTypes, FillInv, Filled, Covered
  PROVE  WalkAt({}, 0)
<1>1. 0 \in Line /\ region \in Regions
  BY RegionFacts DEF TypeOK
<1>2. ASSUME InPages
      PROVE  \A m \in Line : Within(A)[m] = 0 => Within(A)[m] = PageBase(PageOf(m))
  <2>1. 0 \in WholePage /\ PageBase(0) = 0
    BY <1>1, <1>2, RegionFacts, ElementFacts DEF InPages, WholePage, PageBase
  <2>2. PageOf(0) = 0
    BY <2>1, PageHasLines
  <2> QED
    BY <1>2, <2>1, <2>2, FilledPages
<1> QED
  BY <1>1, <1>2 DEF WalkAt

\* The pattern and the region stay as they are during the walk.
LEMMA SameWalk ==
  ASSUME region' = region, A' = A
  PROVE  /\ Covered' = Covered /\ Line' = Line
         /\ WalkAt(touched, pos)' <=> WalkAt(touched', pos')
<1>1. Line' = Line /\ InPages' = InPages /\ Covered' = Covered
  BY DEF Line, LineCount, InPages, Covered
<1>2. Within(A)' = Within(A)
  BY <1>1 DEF Within
<1> HIDE DEF InPages
<1> QED
  BY <1>1, <1>2 DEF WalkAt

LEMMA InitWalkInv == Init => WalkInv
  BY DEF Init, WalkInv

LEMMA StepWalkInv ==
  ASSUME TypeOK, FillTypes, FillInv, WalkInv, [Next]_vars
  PROVE  WalkInv'
<1>1. CASE StartWalk
  <2>1. /\ pc = "filled" /\ pc' = "walk" /\ region' = region /\ A' = A
        /\ pos' = A[0] /\ touched' = RoundAfter({}, 0)
    BY <1>1 DEF StartWalk, WalkInv
  <2>2. Covered => touched' # {} /\ WalkAt(touched', pos')
    BY <2>1, WalkBegins, VisitKeepsWalkAt DEF Filled
  <2> QED
    BY <2>1, <2>2, SameWalk DEF WalkInv
<1>2. CASE Load
  <2>1. /\ pc = "walk" /\ pc' = "walk" /\ region' = region /\ A' = A
        /\ pos' = A[pos] /\ touched' = RoundAfter(touched, pos)
    BY <1>2 DEF Load
  <2>2. Covered => WalkAt(touched, pos)
    BY <2>1 DEF WalkInv
  <2>3. Covered => touched' # {} /\ WalkAt(touched', pos')
    BY <2>1, <2>2, VisitKeepsWalkAt DEF Filled
  <2> QED
    BY <2>1, <2>3, SameWalk DEF WalkInv
<1>3. CASE StopClock \/ UNCHANGED vars
  <2>1. /\ region' = region /\ A' = A /\ pos' = pos /\ touched' = touched
        /\ pc' \in {"walk", "done"} <=> pc \in {"walk", "done"}
    BY <1>3 DEF StopClock, vars
  <2> QED
    BY <2>1, SameWalk DEF WalkInv
<1>4. CASE ShuffleWhole \/ ShuffleOrder \/ ShufflePage \/ WholeFilled \/ FirstPage \/ PageFilled
  <2>1. /\ touched' = touched /\ pc \notin {"walk", "done"} /\ pc' \notin {"walk", "done"}
    BY <1>4 DEF ShuffleWhole, ShuffleOrder, ShufflePage, WholeFilled, FirstPage, PageFilled
  <2> QED
    BY <2>1 DEF WalkInv
<1> QED
  BY <1>1, <1>2, <1>3, <1>4 DEF Next

LEMMA PageInvariant == Spec => []PageInv
<1>1. Init => PageInv
  BY InitTypes, InitFillInv, InitWalkInv DEF PageInv
<1>2. PageInv /\ [Next]_vars => PageInv'
  BY StepTypes, StepFillInv, StepWalkInv DEF PageInv
<1> QED
  BY <1>1, <1>2, PTL DEF Spec

-----------------------------------------------------------------------------
\* Every size under test is one whose every line the fill writes: whole pages
\* of 32-bit elements, or up to two pages and a part of one.
FilledWhole == \A r \in Regions : r.pages <= 2 \/ (Width = 32 /\ r.extra = 0)

LEMMA AllCovered ==
  ASSUME FilledWhole, TypeOK
  PROVE  Covered
  BY RegionFacts DEF FilledWhole, TypeOK, Covered, InPages

\* A walk of 32-bit elements only follows what the fill has written, in the
\* regions that it fills whole; a partial page after more than two whole ones
\* is where it does not.
THEOREM PageWalkFollowsWritten ==
  ASSUME Width = 32, FilledWhole
  PROVE  Spec => []FollowsWrittenElements
<1>1. PageInv => FollowsWrittenElements
  <2> SUFFICES ASSUME PageInv, pc = "walk" PROVE pos # Unwritten
    BY DEF FollowsWrittenElements
  <2>1. pos \in Line /\ Unwritten = -1
    BY AllCovered, ElementFacts DEF PageInv, WalkInv, WalkAt
  <2>2. \A l \in Line : l >= 0
    BY DEF Line
  <2> QED
    BY <2>1, <2>2
<1> QED
  BY <1>1, PageInvariant, PTL

\* A load that leaves a page for another has visited every line of the page
\* it leaves, in the regions of whole pages of 32-bit elements.
LEMMA LeavesWholePage ==
  ASSUME PageInv, InPages, Load, pos' \in Line, PageOf(pos') # PageOf(pos)
  PROVE  PageLines(PageOf(pos)) \subseteq touched'
<1>1. /\ Filled /\ Covered /\ TypeOK /\ FillTypes /\ FillInv /\ WalkAt(touched, pos)
      /\ pos' = A[pos] /\ touched' = RoundAfter(touched, pos)
  BY DEF Load, PageInv, WalkInv, Filled, Covered
<1> DEFINE p == PageOf(pos)
           S == PageLines(p) \ touched'
<1>2. /\ pos \in Line /\ touched \subseteq Line
      /\ \A m \in Line :
           /\ Within(A)[m] \in touched \union {pos}
           /\ Within(A)[m] # PageBase(PageOf(m))
           => m \in touched
      /\ touched = Line => pos = PageBase(PageOf(pos))
  BY <1>1 DEF WalkAt
<1>3. /\ \A m \in Line :
           /\ PageOf(m) \in WholePage
           /\ Within(A)[m] \in Line /\ PageOf(Within(A)[m]) = PageOf(m)
           /\ A[m] = IF Within(A)[m] = PageBase(PageOf(m))
                     THEN PageBase(pageOrder[PageOf(m)]) ELSE Within(A)[m]
      /\ \A m, k \in Line : Within(A)[m] = Within(A)[k] => m = k
      /\ IsOneCycle(Within(A), PageLines(p))
  BY <1>1, <1>2, FilledPages
<1>4. Within(A)[pos] = PageBase(p)
  BY <1>1, <1>2, <1>3
<1>5. touched # Line
  <2>1. Within(A)[pos] # pos
    BY <1>1, <1>2, WithinMoves
  <2> QED
    BY <1>2, <1>4, <2>1
<1>6. touched' = touched \union {pos}
  BY <1>1, <1>5 DEF RoundAfter
<1>7. ASSUME NEW m \in S PROVE Within(A)[m] \in S
  <2>1. m \in Line /\ PageOf(m) = p /\ m \notin touched /\ m # pos
    BY <1>6 DEF PageLines
  <2>2. Within(A)[m] # PageBase(p)
    BY <1>2, <1>3, <1>4, <2>1
  <2>3. Within(A)[m] \notin touched'
    BY <1>2, <1>6, <2>1, <2>2
  <2> QED
    BY <1>3, <2>1, <2>3 DEF PageLines
<1>8. S \in SUBSET PageLines(p) /\ ClosedUnder(Within(A), S) /\ pos \notin S /\ pos \in PageLines(p)
  BY <1>2, <1>6, <1>7 DEF ClosedUnder, PageLines
<1>9. S = {}
  <2> HIDE DEF S
  <2> QED
    BY <1>3, <1>8 DEF IsOneCycle
<1> QED
  BY <1>9

THEOREM PageCompletedBeforeLeaving ==
  ASSUME FilledWhole
  PROVE  Spec => CompletesPageBeforeLeaving
<1> DEFINE Leaves ==
      pc = "walk" /\ pc' = "walk" /\ region.pages > 2
        /\ pos \in Line /\ pos' \in Line /\ PageOf(pos') # PageOf(pos)
      => {l \in Line : PageOf(l) = PageOf(pos)} \subseteq touched'
<1>1. ASSUME PageInv, [Next]_vars PROVE [Leaves]_vars
  <2> SUFFICES ASSUME Next, pc = "walk", pc' = "walk", region.pages > 2,
                      pos \in Line, pos' \in Line, PageOf(pos') # PageOf(pos)
               PROVE  {l \in Line : PageOf(l) = PageOf(pos)} \subseteq touched'
    BY <1>1
  <2>1. Load
    BY DEF Next, ShuffleWhole, ShuffleOrder, ShufflePage, WholeFilled, FirstPage,
           PageFilled, StartWalk, StopClock
  <2>2. InPages
    BY <1>1, AllCovered, RegionFacts DEF PageInv, TypeOK, Covered
  <2> QED
    BY <1>1, <2>1, <2>2, LeavesWholePage DEF PageLines
<1> QED
  BY <1>1, PageInvariant, PTL DEF Spec, CompletesPageBeforeLeaving

\* Every step of the test is a step of FreshRounds or leaves it alone.
LEMMA PageStepRefines ==
  ASSUME PageInv, Covered, [Next]_vars
  PROVE  [Fresh!FreshNext]_(Fresh!freshVars)
<1>1. ASSUME NEW l \in Line, touched' = RoundAfter(touched, l), l \in touched => touched = Line,
             LoadsMade' = LoadsMade + 1, region' = region
      PROVE  Fresh!FreshNext
  <2>1. Line' = Line
    BY <1>1 DEF Line, LineCount
  <2>2. Fresh!Counted(0)
    BY <1>1, <2>1 DEF Fresh!Counted
  <2>3. CASE touched = Line
    <3>1. Fresh!NewRound(0, l)
      BY <1>1, <2>2, <2>3 DEF Fresh!NewRound, RoundAfter
    <3> QED
      BY <3>1 DEF Fresh!FreshNext
  <2>4. CASE touched # Line
    <3>1. Fresh!Touch(0, l)
      BY <1>1, <2>2, <2>4 DEF Fresh!Touch, RoundAfter
    <3> QED
      BY <3>1 DEF Fresh!FreshNext
  <2> QED
    BY <2>3, <2>4
<1>2. CASE StartWalk
  <2>1. touched = {} /\ touched' = RoundAfter(touched, 0) /\ region' = region /\ 0 \in Line
    BY <1>2, RegionFacts DEF StartWalk, PageInv, WalkInv, TypeOK
  <2>2. LoadsMade' = LoadsMade + 1
    BY <1>2 DEF StartWalk, LoadsMade, PageInv, TypeOK
  <2> QED
    BY <1>1, <2>1, <2>2
<1>3. CASE Load
  <2>1. /\ pc = "walk" /\ touched' = RoundAfter(touched, pos) /\ region' = region
        /\ pos \in Line
    BY <1>3 DEF Load
  <2>2. LoadsMade' = LoadsMade + 1
    BY <1>3 DEF Load, LoadsMade, PageInv, TypeOK
  <2>3. pos \in touched => touched = Line
    BY <2>1, HereIsFresh DEF PageInv, WalkInv, Filled
  <2> QED
    BY <1>1, <2>1, <2>2, <2>3
<1>4. CASE \/ ShuffleWhole \/ ShuffleOrder \/ ShufflePage \/ WholeFilled \/ FirstPage
           \/ PageFilled \/ StopClock \/ UNCHANGED vars
  <2>1. UNCHANGED <<region, touched, i>> /\ (pc' \in {"walk", "done"} <=> pc \in {"walk", "done"})
    BY <1>4 DEF ShuffleWhole, ShuffleOrder, ShufflePage, WholeFilled, FirstPage,
                PageFilled, StopClock, vars
  <2> QED
    BY <2>1 DEF Fresh!freshVars, LoadsMade, Line, LineCount
<1> QED
  BY <1>2, <1>3, <1>4 DEF Next

\* The page-by-page walk implements FreshRounds: it visits every line of the
\* region before it visits one again, whatever the pages and their lines.
THEOREM PageWalkImplementsFreshRounds ==
  ASSUME FilledWhole
  PROVE  Spec => VisitsAllBeforeRepeat
<1>1. Init => Fresh!FreshInit
  BY DEF Init, Fresh!FreshInit, LoadsMade
<1>2. PageInv => Covered
  BY AllCovered DEF PageInv
<1> QED
  BY <1>1, <1>2, PageInvariant, PageStepRefines, PTL
     DEF Spec, VisitsAllBeforeRepeat, Fresh!FreshSpec
=============================================================================
