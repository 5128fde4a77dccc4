--------------------------- MODULE AsmWalkProofs ---------------------------
(***************************************************************************)
(* Proofs about RunAsmTest for every region, line and number of loads:     *)
(* both assembly loops visit all that they are to visit before they visit  *)
(* anything again.                                                         *)
(*                                                                         *)
(* The invariant counts words from the beginning of the array.  The words  *)
(* at one offset of their lines are a column, which FillPatternArr64 makes *)
(* one cycle; longpatternlatencytest leaves a column where its cycle would *)
(* come back to the first line, and goes on with the next.                 *)
(***************************************************************************)
EXTENDS AsmWalk, ShuffleProofs, WellFoundedInduction

USE LinesAssumption, WordsPerLineAssumption, ArrayStartAssumption, ScaledIterationsAssumption

Offset == 0..(WordsPerLine - 1)

Column(o) == {w \in Word : w % WordsPerLine = o}

\* The words of a column that the countdown k has not passed.
Remaining(o, k) == {w \in Column(o) : w < k * WordsPerLine}

\* Where a word leads, whether it holds an index or an address.
Leads == IF pc \in {"fill", "filled"} THEN A ELSE [w \in Word |-> A[w] - ArrayStart]

FillInv ==
  /\ pc = "fill" => Shuffled(A, Remaining(offset, iter), Column(offset))
  /\ \A o \in Offset : o < offset \/ pc # "fill" => Shuffled(Leads, Remaining(o, 1), Column(o))

\* The walk, in words: those it is to visit, those visited in this round, and
\* the one it visits next.
Walked == IF longpattern THEN Word ELSE Column(0)
Seen   == {w \in Word : ArrayStart + w \in touched}
Here   == r15 - ArrayStart

\* The word that follows a word.
Follower(w) ==
  IF Leads[w] < WordsPerLine
  THEN IF longpattern THEN NextIndex(w % WordsPerLine) ELSE 0
  ELSE Leads[w]

\* What the round has visited leads on to what it visits next, and it came to a
\* word after the first line by the word that leads there.  A whole round ends
\* in the first line.
WalkInv ==
  pc \in {"walk", "done"} =>
    /\ Here \in Walked /\ Here % WordsPerLine = rax
    /\ Seen \subseteq Walked /\ Seen # {}
    /\ \A w \in Seen : Follower(w) \in Seen \union {Here}
    /\ \A w \in Walked :
         Leads[w] \in Seen \union {Here} /\ Leads[w] >= WordsPerLine => w \in Seen
    /\ Seen = Walked => Here < WordsPerLine

AsmInv ==
  /\ TypeOK
  /\ pc \notin {"walk", "done"} => touched = {}
  /\ pc \notin {"walk", "done"} => rax = 0 /\ rcx = ScaledIterations
  /\ FillInv
  /\ WalkInv

-----------------------------------------------------------------------------
(***************************************************************************)
(* Words, lines and columns.                                               *)
(***************************************************************************)

\* A place of the q-th line is before the k-th line if q is less than k.
LEMMA PlaceBefore ==
  ASSUME NEW m \in Nat \ {0}, NEW q \in Nat, NEW k \in Nat, NEW r \in 0..(m - 1)
  PROVE  q * m + r < k * m <=> q < k
<1>1. q * m \in Nat /\ k * m \in Nat
  OBVIOUS
<1>2. q < k => q * m + m <= k * m
  <2>1. q < k => (q + 1) * m <= k * m
    BY SMTT(30)
  <2>2. (q + 1) * m = q * m + m
    BY SMTT(30)
  <2> QED
    BY <2>1, <2>2
<1>3. q >= k => q * m >= k * m
  BY SMTT(30)
<1> QED
  BY <1>1, <1>2, <1>3

\* Word o of a line, in its column.
LEMMA WordAtFacts ==
  ASSUME NEW o \in Offset, NEW l \in Line
  PROVE  /\ WordAt(l, o) \in Column(o)
         /\ \A k \in Nat : WordAt(l, o) < k * WordsPerLine <=> l < k
<1>1. l * WordsPerLine + o \in 0..(Lines * WordsPerLine - 1)
  BY PlaceBelow DEF Offset, Line
<1>2. (l * WordsPerLine + o) % WordsPerLine = o
  BY PlaceOf DEF Offset, Line
<1>3. \A k \in Nat : l * WordsPerLine + o < k * WordsPerLine <=> l < k
  BY PlaceBefore DEF Offset, Line
<1> QED
  BY <1>1, <1>2, <1>3 DEF WordAt, Column, Word

\* Every word of a column is that of a line.
LEMMA ColumnWord ==
  ASSUME NEW o \in Offset, NEW w \in Column(o)
  PROVE  /\ w \in Word /\ w \in Nat
         /\ w \div WordsPerLine \in Line /\ w = WordAt(w \div WordsPerLine, o)
<1>1. w \in Nat /\ w \in Word /\ w < Lines * WordsPerLine /\ w % WordsPerLine = o
  BY DEF Column, Word
<1> DEFINE q == w \div WordsPerLine
<1>2. w = q * WordsPerLine + o /\ q \in Nat
  BY <1>1, IndexIsPlace
<1> HIDE DEF q
<1>3. q < Lines
  BY <1>1, <1>2, PlaceBefore DEF Offset
<1> QED
  BY <1>1, <1>2, <1>3 DEF q, WordAt, Line

\* In the first line a column has one word, and others after it.
LEMMA FirstOfColumn ==
  ASSUME NEW o \in Offset
  PROVE  /\ o \in Column(o) /\ o < WordsPerLine
         /\ \A w \in Column(o) : w < WordsPerLine => w = o
         /\ Remaining(o, 1) = {o}
         /\ \E w \in Column(o) : w # o
         /\ IsFiniteSet(Column(o))
<1>1. 0 \in Line /\ 1 \in Line
  BY DEF Line
<1>2. WordAt(0, o) = o /\ o \in Nat /\ o < WordsPerLine
  BY DEF WordAt, Offset
<1>3. o \in Column(o)
  BY <1>1, <1>2, WordAtFacts
<1>4. \A w \in Column(o) : w < WordsPerLine => w = o
  <2> TAKE w \in Column(o)
  <2>1. w \in Nat /\ w % WordsPerLine = o
    BY DEF Column, Word
  <2>2. w < WordsPerLine => w % WordsPerLine = w
    BY <2>1, SMTT(30)
  <2> QED
    BY <2>1, <2>2
<1>5. Remaining(o, 1) = {o}
  BY <1>2, <1>3, <1>4 DEF Remaining
<1>6. WordAt(1, o) \in Column(o) /\ WordAt(1, o) # o
  BY <1>1, <1>2, WordAtFacts DEF WordAt
<1>7. IsFiniteSet(Column(o))
  <2>1. IsFiniteSet(Word)
    BY FS_Interval DEF Word
  <2> QED
    BY <2>1, FS_Subset DEF Column
<1> QED
  BY <1>2, <1>3, <1>4, <1>5, <1>6, <1>7

\* The words that remain of a column, at its shuffle's beginning and after a turn.
LEMMA RemainingFacts ==
  ASSUME NEW o \in Offset
  PROVE  /\ Remaining(o, Lines) = Column(o)
         /\ \A k \in 2..Lines :
              Remaining(o, k) \ {WordAt(k - 1, o)} = Remaining(o, k - 1)
<1>1. Remaining(o, Lines) = Column(o)
  BY DEF Remaining, Column, Word
<1>2. ASSUME NEW k \in 2..Lines
      PROVE  Remaining(o, k) \ {WordAt(k - 1, o)} = Remaining(o, k - 1)
  <2>1. k \in Nat /\ k - 1 \in Nat /\ k - 1 \in Line
    BY DEF Line
  <2>2. ASSUME NEW w \in Column(o)
        PROVE  (w < k * WordsPerLine /\ w # WordAt(k - 1, o)) <=> w < (k - 1) * WordsPerLine
    <3> DEFINE q == w \div WordsPerLine
    <3>1. q \in Line /\ w = WordAt(q, o)
      BY ColumnWord
    <3> HIDE DEF q
    <3>2. (w < k * WordsPerLine <=> q < k) /\ (w < (k - 1) * WordsPerLine <=> q < k - 1)
      BY <2>1, <3>1, WordAtFacts
    <3>3. w = WordAt(k - 1, o) <=> q = k - 1
      <4>1. ~(WordAt(k - 1, o) < (k - 1) * WordsPerLine)
        BY <2>1, WordAtFacts
      <4>2. WordAt(k - 1, o) < k * WordsPerLine
        <5>1. WordAt(k - 1, o) < k * WordsPerLine <=> k - 1 < k
          BY <2>1, WordAtFacts
        <5> QED
          BY <2>1, <5>1
      <4>3. q \in Nat
        BY <3>1 DEF Line
      <4> QED
        BY <2>1, <3>1, <3>2, <4>1, <4>2, <4>3
    <3> QED
      BY <2>1, <3>1, <3>2, <3>3 DEF Line
  <2> QED
    BY <2>2 DEF Remaining
<1> QED
  BY <1>1, <1>2

\* Columns have no word in common.
LEMMA ColumnsApart ==
  ASSUME NEW o \in Offset, NEW q \in Offset, o # q, NEW w \in Column(o)
  PROVE  w \notin Column(q)
  BY DEF Column

\* Every word is in a column.
LEMMA WordInColumn ==
  ASSUME NEW w \in Word
  PROVE  w % WordsPerLine \in Offset /\ w \in Column(w % WordsPerLine)
<1>1. w \in Nat
  BY DEF Word
<1>2. w % WordsPerLine \in 0..(WordsPerLine - 1)
  BY <1>1, IndexIsPlace
<1> QED
  BY <1>2 DEF Offset, Column

-----------------------------------------------------------------------------
(***************************************************************************)
(* FillPatternArr64.                                                       *)
(***************************************************************************)

\* The first loop of an offset writes the words of its column, and no others.
LEMMA NumberOffsetFacts ==
  ASSUME NEW o \in Offset, NEW a \in [Word -> Word]
  PROVE  /\ NumberOffset(a, o) \in [Word -> Word]
         /\ \A w \in Column(o) : NumberOffset(a, o)[w] = w
         /\ \A q \in Offset : q # o => \A w \in Column(q) : NumberOffset(a, o)[w] = a[w]
  BY DEF NumberOffset, Column

LEMMA InitAsmInv == Init => AsmInv
<1> SUFFICES ASSUME Init PROVE AsmInv
  OBVIOUS
<1> DEFINE zero == [w \in Word |-> 0]
<1>1. 0 \in Word /\ 0 \in Offset /\ 0 \in 0..ScaledIterations /\ ScaledIterations \in 0..ScaledIterations
  <2>1. Lines * WordsPerLine > 0 /\ Lines * WordsPerLine \in Nat
    BY SMTT(30)
  <2> QED
    BY <2>1 DEF Word, Offset
<1>2. zero \in [Word -> Word]
  BY <1>1
<1>3. A \in [Word -> Word] /\ \A w \in Column(0) : A[w] = w
  <2> HIDE DEF zero
  <2>1. A = NumberOffset(zero, 0)
    BY DEF Init, zero
  <2> QED
    BY <1>1, <1>2, <2>1, NumberOffsetFacts
<1>4. Shuffled(A, Remaining(offset, iter), Column(offset))
  <2>1. Shuffled(A, Column(0), Column(0))
    BY <1>3, IdentityIsShuffled
  <2> QED
    BY <1>1, <2>1, RemainingFacts DEF Init
<1>5. FillInv
  BY <1>4 DEF FillInv, Init, Offset
<1>6. TypeOK
  BY <1>1, <1>3 DEF Init, TypeOK, Offset
<1> QED
  BY <1>5, <1>6 DEF AsmInv, WalkInv, Init

\* A turn of the shuffle keeps the loop invariant.
LEMMA FillStepAsmInv ==
  ASSUME AsmInv, FillStep
  PROVE  AsmInv'
<1>1. /\ pc = "fill" /\ pc' = "fill" /\ iter \in 2..Lines /\ iter' = iter - 1
      /\ offset \in Offset /\ A \in [Word -> Word]
      /\ UNCHANGED <<longpattern, offset, r15, rax, rcx, touched>>
      /\ Shuffled(A, Remaining(offset, iter), Column(offset))
      /\ touched = {} /\ rax = 0 /\ rcx = ScaledIterations /\ TypeOK
  BY DEF AsmInv, TypeOK, FillInv, FillStep, Offset
<1>2. PICK r \in RandIndex(iter - 1) :
        A' = Swap(A, WordAt(iter - 1, offset), WordAt(r, offset))
  BY DEF FillStep
<1>3. /\ iter - 1 \in Line /\ r \in Line /\ r < iter - 1 /\ iter \in Nat
      /\ iter - 1 \in Nat
  BY <1>1, RandIndexBelow DEF Line
<1> DEFINE p == WordAt(iter - 1, offset)
           s == WordAt(r, offset)
<1>4. p \in Remaining(offset, iter) /\ s \in Remaining(offset, iter)
  <2>1. /\ p \in Column(offset) /\ s \in Column(offset)
        /\ p < iter * WordsPerLine <=> iter - 1 < iter
        /\ s < iter * WordsPerLine <=> r < iter
    BY <1>1, <1>3, WordAtFacts
  <2>2. iter - 1 < iter /\ r < iter
    BY <1>3 DEF Line
  <2> HIDE DEF p, s
  <2> QED
    BY <2>1, <2>2 DEF Remaining
<1>5. p # s
  <2>1. s < (iter - 1) * WordsPerLine /\ ~(p < (iter - 1) * WordsPerLine)
    BY <1>1, <1>3, WordAtFacts
  <2> QED
    BY <2>1
<1>6. Remaining(offset, iter) \in SUBSET Column(offset) /\ Column(offset) \in SUBSET Word
  BY DEF Remaining, Column
<1>7. Remaining(offset, iter) \ {p} = Remaining(offset, iter')
  BY <1>1, RemainingFacts
<1> HIDE DEF p, s
<1>8. A' = Swap(A, p, s)
  BY <1>2 DEF p, s
<1>9. Shuffled(A', Remaining(offset, iter'), Column(offset))
  <2> DEFINE L == Remaining(offset, iter)
             D == Column(offset)
  <2>1. L \in SUBSET D /\ D \in SUBSET Word /\ p \in L /\ s \in L /\ Shuffled(A, L, D)
    BY <1>1, <1>4, <1>6
  <2> HIDE DEF L, D
  <2>2. Shuffled(Swap(A, p, s), L \ {p}, D)
    BY <1>1, <1>5, <2>1, SwapMergesCycles
  <2> QED
    BY <1>7, <1>8, <2>2 DEF L, D
<1>10. /\ A' \in [Word -> Word]
       /\ \A w \in Word : w # p /\ w # s => A'[w] = A[w]
  <2>1. p \in Word /\ s \in Word
    BY <1>4, <1>6
  <2>2. /\ Swap(A, p, s) \in [Word -> Word]
        /\ \A w \in Word : w # p /\ w # s => Swap(A, p, s)[w] = A[w]
    BY <1>1, <1>5, <2>1 DEF Swap
  <2> QED
    BY <1>8, <2>2
<1>11. ASSUME NEW o \in Offset, o < offset
       PROVE  Shuffled(A', Remaining(o, 1), Column(o))
  <2>1. o # offset
    BY <1>11, <1>1 DEF Offset
  <2>2. \A w \in Column(o) : w \in Word /\ w # p /\ w # s
    BY <1>1, <1>4, <1>6, <2>1, ColumnsApart DEF Column
  <2>3. Shuffled(A, Remaining(o, 1), Column(o))
    BY <1>1, <1>11 DEF AsmInv, FillInv, Leads
  <2>4. \A w \in Column(o) : A'[w] = A[w]
    BY <1>10, <2>2
  <2> QED
    BY <2>3, <2>4, ShuffledSameValues
<1>12. FillInv'
  BY <1>1, <1>9, <1>11 DEF FillInv, Leads, Offset, Remaining, Column, Word
<1>13. TypeOK'
  BY <1>1, <1>10 DEF TypeOK
<1> QED
  BY <1>1, <1>12, <1>13 DEF AsmInv, WalkInv

\* So does the step to the next offset, or out of the loop over them.
LEMMA NextOffsetAsmInv ==
  ASSUME AsmInv, NextOffset
  PROVE  AsmInv'
<1>1. /\ pc = "fill" /\ iter = 1 /\ offset \in Offset /\ A \in [Word -> Word]
      /\ UNCHANGED <<longpattern, r15, rax, rcx, touched>>
      /\ touched = {} /\ rax = 0 /\ rcx = ScaledIterations /\ TypeOK
  BY DEF AsmInv, TypeOK, NextOffset, Offset
<1>2. \A o \in Offset : o <= offset => Shuffled(A, Remaining(o, 1), Column(o))
  BY <1>1 DEF AsmInv, FillInv, Leads, Offset
<1>3. CASE MoreOffsets(offset)
  <2>1. /\ offset' = offset + 1 /\ offset' \in Offset /\ iter' = Lines
        /\ A' = NumberOffset(A, offset + 1) /\ pc' = "fill"
    BY <1>1, <1>3 DEF NextOffset, MoreOffsets, Offset
  <2>2. /\ A' \in [Word -> Word]
        /\ \A w \in Column(offset') : A'[w] = w
        /\ \A q \in Offset : q # offset' => \A w \in Column(q) : A'[w] = A[w]
    BY <1>1, <2>1, NumberOffsetFacts
  <2>3. Shuffled(A', Remaining(offset', iter'), Column(offset'))
    <3>1. Shuffled(A', Column(offset'), Column(offset'))
      BY <2>2, IdentityIsShuffled
    <3> QED
      BY <2>1, <3>1, RemainingFacts
  <2>4. ASSUME NEW o \in Offset, o < offset'
        PROVE  Shuffled(A', Remaining(o, 1), Column(o))
    <3>1. o <= offset /\ o # offset'
      BY <1>1, <2>1, <2>4 DEF Offset
    <3>2. Shuffled(A, Remaining(o, 1), Column(o)) /\ \A w \in Column(o) : A'[w] = A[w]
      BY <1>2, <2>2, <3>1
    <3> QED
      BY <3>2, ShuffledSameValues
  <2>5. FillInv'
    BY <2>1, <2>3, <2>4 DEF FillInv, Leads, Offset, Remaining, Column, Word
  <2>6. TypeOK'
    BY <1>1, <2>1, <2>2 DEF TypeOK, Offset
  <2> QED
    BY <1>1, <2>1, <2>5, <2>6 DEF AsmInv, WalkInv
<1>4. CASE ~MoreOffsets(offset)
  <2>1. UNCHANGED <<offset, iter, A>> /\ pc' = "filled"
    BY <1>4 DEF NextOffset
  <2>2. \A o \in Offset : o <= offset
    BY <1>1, <1>4 DEF MoreOffsets, Offset
  <2>3. FillInv'
    BY <1>2, <2>1, <2>2 DEF FillInv, Leads, Offset, Remaining, Column, Word
  <2>4. TypeOK'
    BY <1>1, <2>1 DEF TypeOK
  <2> QED
    BY <1>1, <2>1, <2>3, <2>4 DEF AsmInv, WalkInv
<1> QED
  BY <1>3, <1>4

\* The pointers of preplatencyarr lead where the indexes did.
LEMMA PreplatencyAsmInv ==
  ASSUME AsmInv, preplatencyarr
  PROVE  AsmInv'
<1>1. /\ pc = "filled" /\ pc' = "ready" /\ A \in [Word -> Word]
      /\ UNCHANGED <<longpattern, offset, iter, r15, rax, rcx, touched>>
      /\ A' = [w \in Word |-> ArrayStart + A[w]]
      /\ touched = {} /\ rax = 0 /\ rcx = ScaledIterations /\ TypeOK
  BY DEF AsmInv, TypeOK, preplatencyarr, PointerTo
<1>2. \A w \in Word : A[w] \in Nat /\ ArrayStart + A[w] \in Address
  BY <1>1 DEF Word, Address
<1>3. Leads' = Leads
  <2>1. Leads' = [w \in Word |-> A'[w] - ArrayStart] /\ Leads = A
    BY <1>1 DEF Leads
  <2>2. \A w \in Word : A'[w] - ArrayStart = A[w]
    BY <1>1, <1>2
  <2> QED
    BY <1>1, <2>1, <2>2
<1>4. FillInv'
  BY <1>1, <1>3 DEF AsmInv, FillInv, Offset, Remaining, Column, Word
<1>5. A' \in [Word -> Address]
  BY <1>1, <1>2
<1>6. TypeOK'
  BY <1>1, <1>5 DEF TypeOK
<1> QED
  BY <1>1, <1>4, <1>6 DEF AsmInv, WalkInv

-----------------------------------------------------------------------------
(***************************************************************************)
(* The order in which the words follow each other, once the array is       *)
(* filled.                                                                 *)
(***************************************************************************)

\* Every column of a filled array is one cycle.
LEMMA ColumnIsOneCycle ==
  ASSUME AsmInv, pc # "fill", NEW o \in Offset
  PROVE  /\ IsOneCycle(Leads, Column(o))
         /\ ClosedUnder(Leads, Column(o)) /\ InjectiveOn(Leads, Column(o))
<1>1. Shuffled(Leads, {o}, Column(o))
  BY FirstOfColumn DEF AsmInv, FillInv
<1>2. IsFiniteSet(Column(o)) /\ o \in Column(o)
  BY FirstOfColumn
<1> HIDE DEF Leads, Column
<1> QED
  BY <1>1, <1>2, OneLabelIsOneCycle DEF Shuffled

\* A word leads to another of its column, and no two to the same.
LEMMA LeadsFacts ==
  ASSUME AsmInv, pc # "fill", NEW w \in Word
  PROVE  /\ Leads[w] \in Word /\ Leads[w] % WordsPerLine = w % WordsPerLine
         /\ Leads[w] # w
         /\ \A v \in Word : Leads[v] = Leads[w] => v = w
<1> DEFINE o == w % WordsPerLine
<1>1. o \in Offset /\ w \in Column(o)
  BY WordInColumn
<1>2. /\ IsOneCycle(Leads, Column(o))
      /\ ClosedUnder(Leads, Column(o)) /\ InjectiveOn(Leads, Column(o))
  BY <1>1, ColumnIsOneCycle
<1>3. Leads[w] \in Column(o)
  BY <1>1, <1>2 DEF ClosedUnder
<1>4. Leads[w] # w
  <2> SUFFICES ASSUME Leads[w] = w PROVE FALSE
    OBVIOUS
  <2>1. {w} \in SUBSET Column(o) /\ {w} # {} /\ ClosedUnder(Leads, {w})
    BY <1>1 DEF ClosedUnder
  <2>2. {w} = Column(o)
    BY <1>2, <2>1 DEF IsOneCycle
  <2>3. o \in Column(o) /\ \E x \in Column(o) : x # o
    BY <1>1, FirstOfColumn
  <2> HIDE DEF o
  <2> QED
    BY <2>2, <2>3
<1>5. ASSUME NEW v \in Word, Leads[v] = Leads[w] PROVE v = w
  <2>1. v % WordsPerLine \in Offset /\ v \in Column(v % WordsPerLine)
    BY WordInColumn
  <2>2. Leads[v] \in Column(v % WordsPerLine)
    BY <2>1, ColumnIsOneCycle DEF ClosedUnder
  <2>3. v \in Column(o)
    BY <1>3, <1>5, <2>1, <2>2 DEF Column
  <2> QED
    BY <1>1, <1>2, <1>5, <2>3 DEF InjectiveOn
<1> QED
  BY <1>3, <1>4, <1>5 DEF Column

\* What the assembly loads, in words.
LEMMA LoadFacts ==
  ASSUME AsmInv, pc \in {"ready", "walk", "done"}, NEW w \in Word
  PROVE  Load(ArrayStart + w) = ArrayStart + Leads[w]
<1>1. A \in [Word -> Address] /\ Leads = [x \in Word |-> A[x] - ArrayStart]
  BY DEF AsmInv, TypeOK, Leads
<1>2. A[w] \in Nat /\ Leads[w] = A[w] - ArrayStart
  BY <1>1 DEF Address
<1>4. Load(ArrayStart + w) = A[w]
  <2>1. Load(ArrayStart + w) = A[(ArrayStart + w) - ArrayStart]
    BY Zenon DEF Load
  <2>2. w \in Nat /\ ArrayStart \in Nat
    BY DEF Word
  <2>3. (ArrayStart + w) - ArrayStart = w
    BY <2>2
  <2> QED
    BY <2>1, <2>3, Zenon
<1>5. A[w] = ArrayStart + Leads[w]
  BY <1>2
<1> QED
  BY <1>4, <1>5

\* A word of the first line is what the comparison of line addresses tells.
LEMMA LineAddressFacts ==
  ASSUME NEW w \in Word
  PROVE  /\ LineAddress(ArrayStart + w) = LineAddress(ArrayStart) <=> w < WordsPerLine
         /\ LineAddress(ArrayStart) = ArrayStart
<1> DEFINE m == WordsPerLine
           k == ArrayStart \div m
           q == w \div m
           o == w % m
<1>1. w \in Nat /\ m \in Nat \ {0} /\ ArrayStart \in Nat
  BY DEF Word
<1>2. /\ ArrayStart = k * m + 0 /\ k \in Nat
      /\ w = q * m + o /\ q \in Nat /\ o \in 0..(m - 1)
  BY <1>1, IndexIsPlace
<1> HIDE DEF m, k, q, o
<1>3. (ArrayStart + w) % m = o
  <2>1. ArrayStart + w = (k + q) * m + o
    <3>1. (k + q) * m = k * m + q * m
      BY <1>1, <1>2, SMTT(30)
    <3>2. k * m \in Nat /\ q * m \in Nat
      BY <1>1, <1>2
    <3> QED
      BY <1>2, <3>1, <3>2
  <2>2. k + q \in Nat
    BY <1>2
  <2> QED
    BY <1>1, <1>2, <2>1, <2>2, PlaceOf
<1>4. ArrayStart % m = 0
  BY DEF m
<1>5. LineAddress(ArrayStart) = ArrayStart
  BY <1>1, <1>4 DEF LineAddress, m
<1>6. LineAddress(ArrayStart + w) = ArrayStart + w - o
  <2>1. (ArrayStart + w) % WordsPerLine = o
    BY <1>3 DEF m
  <2>2. LineAddress(ArrayStart + w) = (ArrayStart + w) - ((ArrayStart + w) % WordsPerLine)
    BY Zenon DEF LineAddress
  <2> DEFINE x == (ArrayStart + w) % WordsPerLine
  <2>3. LineAddress(ArrayStart + w) = (ArrayStart + w) - x /\ x = o
    BY <2>1, <2>2
  <2> HIDE DEF x
  <2> QED
    BY <1>1, <1>2, <2>3
<1>7. w < m <=> w = o
  <2>1. w < m => w = o
    BY <1>1, SMTT(30) DEF o
  <2> QED
    BY <1>1, <1>2, <2>1
<1> QED
  BY <1>1, <1>2, <1>5, <1>6, <1>7 DEF m

\* The next word of a line.
LEMMA NextIndexFacts ==
  ASSUME NEW o \in Offset
  PROVE  /\ NextIndex(o) \in Offset
         /\ o + 1 < WordsPerLine => NextIndex(o) = o + 1
         /\ o + 1 = WordsPerLine => NextIndex(o) = 0
         /\ NextIndex(o) \in Word /\ NextIndex(o) % WordsPerLine = NextIndex(o)
<1>1. /\ o + 1 < WordsPerLine => (o + 1) % WordsPerLine = o + 1
      /\ o + 1 = WordsPerLine => (o + 1) % WordsPerLine = 0
      /\ o + 1 < WordsPerLine \/ o + 1 = WordsPerLine
  BY DEF Offset
<1>2. NextIndex(o) \in Offset
  BY <1>1 DEF NextIndex, Offset
<1>3. NextIndex(o) \in Column(NextIndex(o))
  BY <1>2, FirstOfColumn
<1> QED
  BY <1>1, <1>2, <1>3 DEF NextIndex, Column

\* The walk keeps to the words that it is to visit.
LEMMA FollowerFacts ==
  ASSUME AsmInv, pc # "fill", NEW w \in Walked
  PROVE  /\ w \in Word /\ Follower(w) \in Walked
         /\ Leads[w] < WordsPerLine => Follower(w) < WordsPerLine
<1>1. w \in Word
  BY DEF Walked, Column
<1>2. /\ Leads[w] \in Word /\ Leads[w] % WordsPerLine = w % WordsPerLine
      /\ w % WordsPerLine \in Offset
  BY <1>1, LeadsFacts, WordInColumn
<1>3. CASE longpattern
  BY <1>1, <1>2, <1>3, NextIndexFacts DEF Follower, Walked, Offset
<1>4. CASE ~longpattern
  <2>1. 0 \in Offset /\ 0 \in Column(0)
    <3>1. 0 \in Offset
      BY DEF Offset
    <3> QED
      BY <3>1, FirstOfColumn
  <2>2. Leads[w] \in Column(0)
    BY <1>2, <1>4 DEF Walked, Column
  <2> QED
    BY <1>1, <1>4, <2>1, <2>2 DEF Follower, Walked
<1> QED
  BY <1>3, <1>4

\* A set of naturals that has an element has a least one.
LEMMA LeastNatural ==
  ASSUME NEW T \in SUBSET Nat, T # {}
  PROVE  \E m \in T : \A n \in T : m <= n
<1>1. PICK m \in T : \A n \in T : <<n, m>> \notin OpToRel(<, Nat)
  BY NatLessThanWellFounded, WFMin
<1>2. \A n \in T : ~(n < m)
  BY <1>1 DEF OpToRel
<1> QED
  BY <1>2

\* From one offset the steps of NextIndex come to every other.
LEMMA NextIndexIsOneCycle ==
  ASSUME NEW S \in SUBSET Offset, S # {}, \A o \in S : NextIndex(o) \in S
  PROVE  S = Offset
<1>1. ASSUME NEW a \in S, NEW b \in Offset, a <= b
      PROVE  b \in S
  <2> SUFFICES ASSUME b \notin S PROVE FALSE
    OBVIOUS
  <2> DEFINE T == {x \in Offset : x >= a /\ x \notin S}
  <2>1. T \in SUBSET Nat /\ T # {}
    BY <1>1 DEF Offset
  <2>2. PICK m \in T : \A n \in T : m <= n
    BY <2>1, LeastNatural
  <2>3. m - 1 \in Offset /\ m - 1 >= a
    BY <1>1, <2>2 DEF Offset
  <2>4. m - 1 \in S
    BY <2>1, <2>2, <2>3
  <2>5. NextIndex(m - 1) = m
    <3>1. m - 1 + 1 = m /\ m < WordsPerLine
      BY <2>2 DEF Offset
    <3> QED
      BY <2>3, <3>1, NextIndexFacts
  <2> QED
    BY <2>2, <2>4, <2>5
<1>2. WordsPerLine - 1 \in S
  <2>1. PICK a \in S : TRUE
    OBVIOUS
  <2>2. WordsPerLine - 1 \in Offset /\ a <= WordsPerLine - 1
    BY <2>1 DEF Offset
  <2> QED
    BY <1>1, <2>1, <2>2
<1>3. 0 \in S
  <2>1. WordsPerLine - 1 \in Offset /\ WordsPerLine - 1 + 1 = WordsPerLine
    BY DEF Offset
  <2>2. NextIndex(WordsPerLine - 1) = 0
    BY <2>1, NextIndexFacts
  <2> QED
    BY <1>2, <2>2
<1>4. ASSUME NEW b \in Offset PROVE b \in S
  <2>1. 0 <= b
    BY DEF Offset
  <2> QED
    BY <1>1, <1>3, <2>1
<1> QED
  BY <1>4

\* What the walk never leaves is everything that it is to visit.
LEMMA WalkIsOneCycle ==
  ASSUME AsmInv, pc # "fill", NEW S \in SUBSET Walked, S # {},
         \A w \in S : Follower(w) \in S
  PROVE  S = Walked
<1>1. 0 \in Offset
  BY DEF Offset
<1>2. CASE ~longpattern
  <2>1. S \in SUBSET Column(0)
    BY <1>2 DEF Walked
  <2>2. ASSUME NEW w \in S PROVE Leads[w] \in S
    <3>1. w \in Column(0) /\ Leads[w] \in Column(0)
      BY <1>1, <2>1, ColumnIsOneCycle DEF ClosedUnder
    <3>2. Leads[w] < WordsPerLine => Leads[w] = 0
      BY <1>1, <3>1, FirstOfColumn
    <3> QED
      BY <1>2, <3>2 DEF Follower
  <2>3. IsOneCycle(Leads, Column(0)) /\ ClosedUnder(Leads, S)
    BY <1>1, <2>2, ColumnIsOneCycle DEF ClosedUnder
  <2>4. S = Column(0)
    BY <2>1, <2>3 DEF IsOneCycle
  <2> QED
    BY <1>2, <2>4 DEF Walked
<1>3. CASE longpattern
  <2>1. S \in SUBSET Word /\ \A w \in S : w \in Word
    BY <1>3 DEF Walked
  <2> DEFINE Part(o) == {w \in S : w % WordsPerLine = o}
  <2>2. \A o \in Offset : Part(o) \in SUBSET Column(o)
    BY <2>1 DEF Column
  \* A column that the set has a word of is left by the set for the next.
  <2>3. ASSUME NEW o \in Offset, Part(o) # {}
        PROVE  NextIndex(o) \in S
    <3>1. PICK w \in Part(o) : Leads[w] < WordsPerLine
      <4> SUFFICES ASSUME \A w \in Part(o) : ~(Leads[w] < WordsPerLine)
                   PROVE  FALSE
        OBVIOUS
      <4>1. ASSUME NEW w \in Part(o) PROVE Leads[w] \in Part(o)
        <5>1. Follower(w) = Leads[w] /\ w \in S /\ w \in Word
          BY <2>1 DEF Follower
        <5>2. Leads[w] % WordsPerLine = w % WordsPerLine
          BY <5>1, LeadsFacts
        <5> QED
          BY <5>1, <5>2
      <4>2. ClosedUnder(Leads, Part(o))
        BY <4>1 DEF ClosedUnder
      <4> HIDE DEF Part
      <4>3. Part(o) = Column(o)
        BY <2>2, <2>3, <4>2, ColumnIsOneCycle DEF IsOneCycle
      <4>4. o \in Column(o) /\ IsFiniteSet(Column(o)) /\ o < WordsPerLine
        BY FirstOfColumn
      <4>5. ClosedUnder(Leads, Column(o)) /\ InjectiveOn(Leads, Column(o))
        BY ColumnIsOneCycle
      <4>6. PICK w \in Column(o) : Leads[w] = o
        BY <4>4, <4>5, InjectiveIsOnto
      <4> QED
        BY <4>3, <4>4, <4>6
    <3>2. w \in S /\ w % WordsPerLine = o
      BY <3>1
    <3>3. Follower(w) = NextIndex(o)
      BY <1>3, <3>1, <3>2 DEF Follower
    <3> QED
      BY <3>2, <3>3
  <2>4. S \cap Offset = Offset
    <3> DEFINE T == {o \in Offset : Part(o) # {}}
    <3>1. T \in SUBSET Offset
      OBVIOUS
    <3>2. T # {}
      <4>1. PICK w \in S : TRUE
        OBVIOUS
      <4>2. w \in Part(w % WordsPerLine) /\ w % WordsPerLine \in Offset
        BY <2>1, <4>1, WordInColumn
      <4> QED
        BY <4>2
    <3>3. ASSUME NEW o \in T PROVE NextIndex(o) \in T
      <4>1. NextIndex(o) \in S
        BY <2>3
      <4>2. NextIndex(o) \in Offset /\ NextIndex(o) % WordsPerLine = NextIndex(o)
        BY NextIndexFacts
      <4>3. NextIndex(o) \in Part(NextIndex(o))
        BY <4>1, <4>2
      <4> QED
        BY <4>2, <4>3
    <3> HIDE DEF T
    <3>4. T = Offset
      BY <3>1, <3>2, <3>3, NextIndexIsOneCycle
    <3>5. ASSUME NEW o \in Offset PROVE o \in S
      <4>1. ASSUME NEW q \in Offset PROVE NextIndex(q) \in S
        BY <2>3, <3>4 DEF T
      <4>2. CASE o = 0
        <5>1. WordsPerLine - 1 \in Offset /\ WordsPerLine - 1 + 1 = WordsPerLine
          BY DEF Offset
        <5> QED
          BY <4>1, <4>2, <5>1, NextIndexFacts
      <4>3. CASE o # 0
        <5>1. o - 1 \in Offset /\ o - 1 + 1 = o /\ o < WordsPerLine
          BY <4>3 DEF Offset
        <5> QED
          BY <4>1, <5>1, NextIndexFacts
      <4> QED
        BY <4>2, <4>3
    <3> QED
      BY <3>5
  \* And what it has of a column is closed: the column's word in the first
  \* line is in it.
  <2>5. ASSUME NEW o \in Offset PROVE Column(o) \in SUBSET S
    <3>1. ASSUME NEW w \in Part(o) PROVE Leads[w] \in Part(o)
      <4>1. w \in S /\ w \in Word /\ w % WordsPerLine = o
        BY <2>1
      <4>2. Leads[w] \in Word /\ Leads[w] % WordsPerLine = o
        BY <4>1, LeadsFacts
      <4>3. Leads[w] < WordsPerLine => Leads[w] = o
        BY <4>2, FirstOfColumn DEF Column
      <4>4. Leads[w] \in S
        BY <2>4, <4>1, <4>3 DEF Follower
      <4> QED
        BY <4>2, <4>4
    <3>2. o \in Part(o)
      BY <2>4, FirstOfColumn DEF Column
    <3>3. ClosedUnder(Leads, Part(o)) /\ Part(o) # {}
      BY <3>1, <3>2 DEF ClosedUnder
    <3>4. Part(o) \in SUBSET S
      OBVIOUS
    <3> HIDE DEF Part
    <3>5. Part(o) = Column(o)
      BY <2>2, <3>3, ColumnIsOneCycle DEF IsOneCycle
    <3> QED
      BY <3>4, <3>5
  <2>6. \A w \in Word : w \in S
    BY <2>5, WordInColumn
  <2> QED
    BY <1>3, <2>1, <2>6 DEF Walked
<1> QED
  BY <1>2, <1>3

-----------------------------------------------------------------------------
(***************************************************************************)
(* The walk.                                                               *)
(***************************************************************************)

\* The round is whole when it has seen all that it is to visit.
LEMMA SeenFacts ==
  ASSUME AsmInv, NEW w \in Word
  PROVE  /\ touched = Region <=> Seen = Walked
         /\ ArrayStart + w \in touched <=> w \in Seen
<1>1. Region = {ArrayStart + v : v \in Walked}
  <2>1. CASE longpattern
    <3>1. \A a \in Address : a - ArrayStart \in Word /\ a = ArrayStart + (a - ArrayStart)
      BY DEF Address, Word
    <3>2. \A v \in Word : ArrayStart + v \in Address
      BY DEF Address, Word
    <3> QED
      BY <2>1, <3>1, <3>2 DEF Region, Walked
  <2>2. CASE ~longpattern
    <3>1. 0 \in Offset
      BY DEF Offset
    <3>2. \A l \in Line : WordAt(l, 0) \in Column(0)
      BY <3>1, WordAtFacts
    <3>3. \A v \in Column(0) : v \div WordsPerLine \in Line /\ v = WordAt(v \div WordsPerLine, 0)
      BY <3>1, ColumnWord
    <3> QED
      BY <2>2, <3>2, <3>3 DEF Region, Walked
  <2> QED
    BY <2>1, <2>2
<1>2. touched \subseteq Address
  BY DEF AsmInv, TypeOK
<1>3. \A a \in Address : a - ArrayStart \in Word /\ a = ArrayStart + (a - ArrayStart)
  BY DEF Address, Word
<1>4. touched = {ArrayStart + v : v \in Seen}
  BY <1>2, <1>3 DEF Seen
<1>5. Walked \subseteq Word /\ Seen \subseteq Word
  BY DEF Walked, Column, Seen
<1>6. \A u, v \in Word : ArrayStart + u = ArrayStart + v => u = v
  BY DEF Word
<1>7. touched = Region => Seen = Walked
  <2> HAVE touched = Region
  <2>1. \A v \in Seen : v \in Walked
    BY <1>1, <1>4, <1>5, <1>6
  <2>2. \A v \in Walked : v \in Seen
    BY <1>1, <1>5 DEF Seen
  <2> QED
    BY <2>1, <2>2
<1>8. Seen = Walked => touched = Region
  BY <1>1, <1>4
<1> QED
  BY <1>7, <1>8 DEF Seen

\* A round that is not whole has not visited the word it is at.
LEMMA HereIsFresh ==
  ASSUME AsmInv, pc = "walk"
  PROVE  /\ Here \in Word /\ r15 = ArrayStart + Here
         /\ Here \in Seen => Seen = Walked
<1>1. r15 \in Address /\ WalkInv
  BY DEF AsmInv, TypeOK
<1>2. Here \in Word /\ r15 = ArrayStart + Here
  BY <1>1 DEF Here, Address, Word
<1>3. Here \in Seen => Seen = Walked
  <2> HAVE Here \in Seen
  <2>1. \A w \in Seen : Follower(w) \in Seen
    BY <1>1 DEF WalkInv
  <2>2. Seen \in SUBSET Walked /\ Seen # {}
    BY <1>1 DEF WalkInv
  <2> HIDE DEF Seen, Walked, Follower
  <2> QED
    BY <2>1, <2>2, WalkIsOneCycle
<1> QED
  BY <1>2, <1>3

\* A load visits the word the walk is at, and goes on to the one that follows.
Visits ==
  /\ touched' = RoundAfter(r15)
  /\ Here' = Follower(Here)
  /\ UNCHANGED <<longpattern, pc, offset, iter, A>>

\* Both loops do, and keep in rax the offset of the word.
LEMMA LoopVisits ==
  ASSUME AsmInv, LatencyTestLoad \/ LongPatternLoad
  PROVE  /\ Visits /\ pc = "walk"
         /\ r15' \in Address
         /\ rax' \in Offset /\ Here' % WordsPerLine = rax'
<1>1. /\ pc = "walk" /\ pc' = pc /\ Here \in Word /\ r15 = ArrayStart + Here /\ Here \in Walked
      /\ Here % WordsPerLine = rax /\ rax \in Offset
      /\ UNCHANGED <<longpattern, pc, offset, iter, A>> /\ touched' = RoundAfter(r15)
  BY HereIsFresh DEF AsmInv, WalkInv, TypeOK, LatencyTestLoad, LongPatternLoad, Offset
<1> DEFINE n == Leads[Here]
<1>2. n \in Word /\ n % WordsPerLine = rax /\ Load(r15) = ArrayStart + n
  BY <1>1, LeadsFacts, LoadFacts
<1>3. n < WordsPerLine => n = rax
  BY <1>1, <1>2, FirstOfColumn DEF Column
<1>4. \A v \in Word : ArrayStart + v \in Address /\ ArrayStart + v - ArrayStart = v
  BY DEF Word, Address
<1> HIDE DEF n
<1>5. CASE LatencyTestLoad
  <2>1. ~longpattern /\ rax' = rax /\ r15' = ArrayStart + n /\ rax = 0
    BY <1>1, <1>2, <1>5 DEF LatencyTestLoad, Walked, Column
  <2>2. Here' = n
    <3>1. Here' = (ArrayStart + n) - ArrayStart
      BY <2>1, Zenon DEF Here
    <3> QED
      BY <1>2, <3>1 DEF Word
  <2>3. Follower(Here) = n
    BY <1>2, <1>3, <2>1 DEF Follower, n
  <2> QED
    BY <1>1, <1>2, <1>4, <2>1, <2>2, <2>3 DEF Visits
<1>6. CASE LongPatternLoad
  <2>1. /\ LineAddress(ArrayStart + n) = LineAddress(ArrayStart) <=> n < WordsPerLine
        /\ LineAddress(ArrayStart) = ArrayStart
    BY <1>2, LineAddressFacts
  <2>2. CASE n < WordsPerLine
    <3>1. rax' = NextIndex(rax) /\ r15' = ArrayStart + NextIndex(rax) /\ longpattern
      BY <1>2, <1>6, <2>1, <2>2 DEF LongPatternLoad
    <3>2. /\ NextIndex(rax) \in Offset /\ NextIndex(rax) \in Word
          /\ NextIndex(rax) % WordsPerLine = NextIndex(rax)
      BY <1>1, NextIndexFacts
    <3>3. Here' = NextIndex(rax)
      <4>1. Here' = (ArrayStart + NextIndex(rax)) - ArrayStart
        BY <3>1, Zenon DEF Here
      <4> QED
        BY <3>2, <4>1 DEF Word
    <3>4. Follower(Here) = NextIndex(rax)
      BY <1>1, <2>2, <3>1 DEF Follower, n
    <3> QED
      BY <1>1, <1>4, <3>1, <3>2, <3>3, <3>4 DEF Visits
  <2>3. CASE ~(n < WordsPerLine)
    <3>1. rax' = rax /\ r15' = ArrayStart + n
      BY <1>2, <1>6, <2>1, <2>3 DEF LongPatternLoad
    <3>2. Here' = n
      <4>1. Here' = (ArrayStart + n) - ArrayStart
        BY <3>1, Zenon DEF Here
      <4> QED
        BY <1>2, <4>1 DEF Word
    <3>3. Follower(Here) = n
      BY <2>3 DEF Follower, n
    <3> QED
      BY <1>1, <1>2, <1>4, <3>1, <3>2, <3>3 DEF Visits
  <2> QED
    BY <2>2, <2>3
<1> QED
  BY <1>5, <1>6

\* What Seen is after a load.
LEMMA SeenAfterVisit ==
  ASSUME AsmInv, Visits, pc = "walk"
  PROVE  /\ Seen' = IF Seen = Walked THEN {Here} ELSE Seen \union {Here}
         /\ touched' \subseteq Address
         /\ Leads' = Leads /\ Walked' = Walked /\ \A w : Follower(w)' = Follower(w)
<1>1. Here \in Word /\ r15 = ArrayStart + Here /\ r15 \in Address /\ touched \subseteq Address
  BY HereIsFresh DEF AsmInv, TypeOK
<1>2. touched = Region <=> Seen = Walked
  BY <1>1, SeenFacts
<1>3. \A u \in Word : ArrayStart + u = ArrayStart + Here <=> u = Here
  BY <1>1 DEF Word
<1>4. Seen' = {w \in Word : ArrayStart + w \in touched'}
  BY DEF Seen, Word
<1>5. touched' = IF touched = Region THEN {r15} ELSE touched \union {r15}
  BY DEF Visits, RoundAfter
<1>6. ASSUME touched = Region
      PROVE  Seen' = IF Seen = Walked THEN {Here} ELSE Seen \union {Here}
  <2>1. touched' = {r15} /\ r15 = ArrayStart + Here
    BY <1>1, <1>5, <1>6
  <2>2. \A w \in Word : ArrayStart + w \in touched' <=> w = Here
    BY <1>3, <2>1
  <2>3. Seen' = {Here}
    BY <1>1, <1>4, <2>2
  <2> QED
    BY <1>2, <1>6, <2>3
<1>7. ASSUME touched # Region
      PROVE  Seen' = IF Seen = Walked THEN {Here} ELSE Seen \union {Here}
  <2>1. \A w \in Word : ArrayStart + w \in touched' <=> w \in Seen \/ w = Here
    BY <1>1, <1>3, <1>5, <1>7 DEF Seen
  <2>2. Seen' = Seen \union {Here}
    BY <1>1, <1>4, <2>1 DEF Seen
  <2> QED
    BY <1>2, <1>7, <2>2
<1>8. Leads' = Leads /\ Walked' = Walked
  BY DEF Visits, Leads, Walked, Column, Word
<1>9. \A w : Follower(w)' = Follower(w)
  BY <1>8 DEF Visits, Follower
<1>10. touched' \subseteq Address
  BY <1>1, <1>5
<1> QED
  BY <1>6, <1>7, <1>8, <1>9, <1>10

\* The load keeps what the walk knows of its round.
LEMMA VisitKeepsWalkInv ==
  ASSUME AsmInv, Visits, pc = "walk", Here' % WordsPerLine = rax'
  PROVE  WalkInv'
<1>1. /\ Here \in Walked /\ Seen \subseteq Walked /\ Seen # {}
      /\ \A w \in Seen : Follower(w) \in Seen \union {Here}
      /\ \A w \in Walked :
           Leads[w] \in Seen \union {Here} /\ Leads[w] >= WordsPerLine => w \in Seen
      /\ Seen = Walked => Here < WordsPerLine
  BY DEF AsmInv, WalkInv
<1>2. Seen' = IF Seen = Walked THEN {Here} ELSE Seen \union {Here}
  BY SeenAfterVisit
<1>3. Leads' = Leads /\ Walked' = Walked /\ \A w : Follower(w)' = Follower(w)
  BY SeenAfterVisit
<1>4. Here' = Follower(Here) /\ Here' \in Walked
  BY <1>1, FollowerFacts DEF Visits
<1>5. \A w \in Walked : w \in Word
  BY <1>1, FollowerFacts
<1>6. /\ Leads[Here] \in Word /\ Leads[Here] # Here /\ Here \in Word
      /\ \A v \in Word : Leads[v] = Leads[Here] => v = Here
  BY <1>1, <1>5, LeadsFacts
<1>7. Here \in Seen => Seen = Walked
  BY HereIsFresh
<1>8. \A w \in Walked : Leads[w] >= WordsPerLine <=> ~(Leads[w] < WordsPerLine)
  BY <1>5, LeadsFacts DEF Word
<1>9. Leads[Here] < WordsPerLine => Here' < WordsPerLine
  BY <1>1, <1>4, FollowerFacts
<1>10. ~(Leads[Here] < WordsPerLine) => Here' = Leads[Here]
  BY <1>4 DEF Follower
<1>11. ASSUME NEW w \in Walked, Leads[w] = Here', Leads[w] >= WordsPerLine
       PROVE  w \in Seen'
  <2>1. ~(Here' < WordsPerLine)
    BY <1>8, <1>11
  <2>2. w = Here
    BY <1>5, <1>6, <1>9, <1>10, <1>11, <2>1
  <2> QED
    BY <1>2, <2>2
<1>12. /\ Seen' \subseteq Walked /\ Seen' # {} /\ Here \in Seen'
       /\ \A w \in Seen' : Follower(w) \in Seen' \union {Here'}
  BY <1>1, <1>2, <1>4
<1>13. ASSUME NEW w \in Walked, Leads[w] \in Seen' \union {Here'}, Leads[w] >= WordsPerLine
       PROVE  w \in Seen'
  <2>1. CASE Seen = Walked
    <3>1. Leads[w] # Here
      BY <1>1, <1>8, <1>13, <2>1
    <3> QED
      BY <1>2, <1>11, <1>13, <2>1, <3>1
  <2>2. CASE Seen # Walked
    <3>1. Leads[w] \in Seen \union {Here} => w \in Seen
      BY <1>1, <1>13
    <3> QED
      BY <1>2, <1>11, <1>13, <2>2, <3>1
  <2> QED
    BY <2>1, <2>2
<1>14. Seen' = Walked => Here' < WordsPerLine
  <2> SUFFICES ASSUME Seen' = Walked, ~(Leads[Here] < WordsPerLine)
               PROVE  FALSE
    BY <1>9
  <2>1. Here' = Leads[Here] /\ Leads[Here] \in Walked
    BY <1>4, <1>10
  <2>2. Seen # Walked
    BY <1>2, <1>6, <2>1
  <2>3. Leads[Here] \in Seen
    BY <1>2, <1>6, <2>1, <2>2
  <2>4. Here \in Seen
    BY <1>1, <1>8, <2>3
  <2> QED
    BY <1>7, <2>2, <2>4
<1> HIDE DEF Seen, Walked, Follower, Leads, Here
<1> QED
  BY <1>3, <1>4, <1>12, <1>13, <1>14 DEF WalkInv

LEMMA LoopAsmInv ==
  ASSUME AsmInv, LatencyTestLoad \/ LongPatternLoad
  PROVE  AsmInv'
<1>1. /\ Visits /\ pc = "walk" /\ pc' = "walk" /\ r15' \in Address
      /\ rax' \in Offset /\ Here' % WordsPerLine = rax'
  BY LoopVisits DEF Visits
<1>2. touched' \subseteq Address /\ Leads' = Leads
  BY <1>1, SeenAfterVisit
<1>3. WalkInv'
  BY <1>1, VisitKeepsWalkInv
<1>4. UNCHANGED <<longpattern, pc, offset, iter, A>> /\ rcx' = rcx - 1 /\ rcx > 0
  BY DEF LatencyTestLoad, LongPatternLoad
<1>5. TypeOK'
  BY <1>1, <1>2, <1>4 DEF AsmInv, TypeOK, Offset
<1>6. FillInv'
  BY <1>1, <1>2, <1>4 DEF AsmInv, FillInv, Offset, Remaining, Column, Word
<1> QED
  BY <1>1, <1>3, <1>5, <1>6 DEF AsmInv

\* The load before the loops is of the first word.
LEMMA EnterTestAsmInv ==
  ASSUME AsmInv, EnterTest
  PROVE  AsmInv' /\ touched = {} /\ touched' = {ArrayStart} /\ touched # Region
<1>1. /\ pc = "ready" /\ pc' = "walk" /\ touched = {} /\ TypeOK /\ FillInv
      /\ r15' = Load(ArrayStart) /\ rax' = 0 /\ touched' = RoundAfter(ArrayStart)
      /\ UNCHANGED <<longpattern, offset, iter, A, rcx>>
  BY DEF EnterTest, AsmInv
<1>2. 0 \in Offset /\ 0 \in Word /\ 0 \in Walked /\ 0 \in Column(0) /\ 0 < WordsPerLine
  <2>1. 0 \in Offset
    BY DEF Offset
  <2>2. 0 \in Column(0)
    BY <2>1, FirstOfColumn
  <2> QED
    BY <2>1, <2>2 DEF Column, Walked
<1>3. Seen = {}
  BY <1>1 DEF Seen
<1>4. touched # Region
  BY <1>2, <1>3, SeenFacts
<1>5. touched' = {ArrayStart}
  BY <1>1, <1>4 DEF RoundAfter
<1> DEFINE n == Leads[0]
<1>6. /\ n \in Word /\ n % WordsPerLine = 0 /\ n # 0
      /\ \A v \in Word : Leads[v] = n => v = 0
  <2>1. 0 % WordsPerLine = 0
    BY <1>2 DEF Column
  <2> QED
    BY <1>1, <1>2, <2>1, LeadsFacts
<1>7. Load(ArrayStart) = ArrayStart + n
  <2>1. Load(ArrayStart + 0) = ArrayStart + n
    BY <1>1, <1>2, LoadFacts
  <2> QED
    BY <2>1
<1>8. ~(n < WordsPerLine)
  BY <1>2, <1>6, FirstOfColumn DEF Column
<1>9. n \in Walked
  BY <1>6 DEF Walked, Column
<1>10. Leads' = Leads /\ Walked' = Walked /\ Follower(0)' = Follower(0) /\ Follower(0) = n
  <2>1. Leads' = Leads
    BY <1>1 DEF Leads, Word
  <2> QED
    BY <1>1, <1>8, <2>1 DEF Follower, Walked, Column, Word
<1> HIDE DEF n
<1>11. Here' = n /\ Seen' = {0} /\ r15' \in Address
  <2>1. Here' = (ArrayStart + n) - ArrayStart
    BY <1>1, <1>7, Zenon DEF Here
  <2>2. Seen' = {w \in Word : ArrayStart + w \in {ArrayStart}}
    BY <1>5 DEF Seen, Word
  <2> QED
    BY <1>1, <1>2, <1>6, <1>7, <2>1, <2>2 DEF Word, Address
<1>12. \A w \in Walked : w \in Word
  BY DEF Walked, Column
<1>13. WalkInv'
  <2>1. \A w \in Walked : Leads[w] \in {0, n} /\ Leads[w] >= WordsPerLine => w = 0
    BY <1>2, <1>6, <1>12
  <2>2. {0} # Walked
    BY <1>6, <1>9
  <2> HIDE DEF Seen, Walked, Follower, Leads, Here
  <2> QED
    BY <1>1, <1>2, <1>6, <1>9, <1>10, <1>11, <2>1, <2>2 DEF WalkInv
<1>14. TypeOK'
  <2>1. ArrayStart \in Address
    <3>1. Lines * WordsPerLine > 0
      BY SMTT(30)
    <3> QED
      BY <3>1 DEF Address
  <2> QED
    BY <1>1, <1>2, <1>5, <1>11, <2>1 DEF TypeOK, Offset
<1>15. FillInv'
  BY <1>1, <1>10 DEF FillInv, Offset, Remaining, Column, Word
<1> QED
  BY <1>1, <1>4, <1>5, <1>13, <1>14, <1>15 DEF AsmInv

\* The routines' return, and the steps of something else, change nothing of it.
LEMMA StutterAsmInv ==
  ASSUME AsmInv, Return \/ UNCHANGED vars
  PROVE  AsmInv'
<1>1. /\ UNCHANGED <<longpattern, offset, iter, A, r15, rax, rcx, touched>>
      /\ pc' = pc \/ (pc = "walk" /\ pc' = "done")
  BY DEF Return, vars
<1>2. Leads' = Leads /\ Walked' = Walked /\ Seen' = Seen /\ Here' = Here
  BY <1>1 DEF Leads, Walked, Seen, Here, Column, Word
<1>3. \A w : Follower(w)' = Follower(w)
  BY <1>1, <1>2 DEF Follower
<1>4. TypeOK'
  BY <1>1 DEF AsmInv, TypeOK
<1>5. FillInv'
  BY <1>1, <1>2 DEF AsmInv, FillInv, Offset, Remaining, Column, Word
<1>6. WalkInv'
  <2> HIDE DEF Seen, Walked, Follower, Leads, Here
  <2> QED
    BY <1>1, <1>2, <1>3 DEF AsmInv, WalkInv
<1> QED
  BY <1>1, <1>4, <1>5, <1>6 DEF AsmInv

LEMMA AsmInvariant == Spec => []AsmInv
<1>1. AsmInv /\ [Next]_vars => AsmInv'
  BY FillStepAsmInv, NextOffsetAsmInv, PreplatencyAsmInv, EnterTestAsmInv, LoopAsmInv,
     StutterAsmInv DEF Next
<1> QED
  BY <1>1, InitAsmInv, PTL DEF Spec

-----------------------------------------------------------------------------
\* Whatever rand() returns, the array of RunAsmTest holds indexes of its own
\* words and then addresses of them, and r15 stays within the array.
THEOREM AsmTypeCorrect == Spec => []TypeOK
<1>1. AsmInv => TypeOK
  BY DEF AsmInv
<1> QED
  BY <1>1, AsmInvariant, PTL

\* A load of a word that is fresh in the round, or of any when the round is
\* whole, is a step of FreshRounds.
LEMMA VisitRefines ==
  ASSUME NEW a \in Region, touched' = RoundAfter(a), a \in touched => touched = Region,
         LoadsMade' = LoadsMade + 1, longpattern' = longpattern
  PROVE  Fresh!FreshNext
<1>1. Region' = Region
  BY DEF Region, Address, Line, WordAt
<1>2. Fresh!Counted(0)
  BY <1>1 DEF Fresh!Counted
<1>3. CASE touched = Region
  <2>1. Fresh!NewRound(0, a)
    BY <1>2, <1>3 DEF Fresh!NewRound, RoundAfter
  <2> QED
    BY <2>1 DEF Fresh!FreshNext
<1>4. CASE touched # Region
  <2>1. Fresh!Touch(0, a)
    BY <1>2, <1>4 DEF Fresh!Touch, RoundAfter
  <2> QED
    BY <2>1 DEF Fresh!FreshNext
<1> QED
  BY <1>3, <1>4

\* Every step of the test is a step of FreshRounds or leaves it alone.
LEMMA AsmStepRefines ==
  ASSUME AsmInv, [Next]_vars
  PROVE  [Fresh!FreshNext]_(Fresh!freshVars)
<1>1. CASE EnterTest
  <2>1. touched = {} /\ touched' = RoundAfter(ArrayStart)
    BY <1>1, EnterTestAsmInv DEF EnterTest
  <2>2. ArrayStart \in Region
    <3>1. Lines * WordsPerLine > 0 /\ 0 \in Line /\ ArrayStart + WordAt(0, 0) = ArrayStart
      BY SMTT(30) DEF Line, WordAt
    <3> QED
      BY <3>1 DEF Region, Address
  <2>3. LoadsMade' = LoadsMade + 1
    BY <1>1 DEF EnterTest, LoadsMade, AsmInv, TypeOK
  <2> QED
    BY <1>1, <2>1, <2>2, <2>3, VisitRefines DEF EnterTest
<1>2. CASE LatencyTestLoad \/ LongPatternLoad
  <2>1. /\ pc = "walk" /\ pc' = "walk" /\ touched' = RoundAfter(r15)
        /\ longpattern' = longpattern /\ rcx' = rcx - 1
    BY <1>2 DEF LatencyTestLoad, LongPatternLoad
  <2>2. LoadsMade' = LoadsMade + 1
    BY <2>1 DEF LoadsMade, AsmInv, TypeOK
  <2>3. /\ Here \in Word /\ r15 = ArrayStart + Here /\ Here \in Walked
        /\ Here \in Seen => Seen = Walked
    BY <2>1, HereIsFresh DEF AsmInv, WalkInv
  <2>4. r15 \in touched => touched = Region
    BY <2>3, SeenFacts
  <2>5. r15 \in Region
    <3>1. CASE longpattern
      BY <2>1, <3>1 DEF Region, AsmInv, TypeOK
    <3>2. CASE ~longpattern
      <4>1. 0 \in Offset /\ Here \in Column(0)
        BY <2>3, <3>2 DEF Offset, Walked
      <4> QED
        BY <2>3, <3>2, <4>1, ColumnWord DEF Region
    <3> QED
      BY <3>1, <3>2
  <2> QED
    BY <2>1, <2>2, <2>4, <2>5, VisitRefines
<1>3. CASE FillStep \/ NextOffset \/ preplatencyarr \/ Return \/ UNCHANGED vars
  <2>1. UNCHANGED <<longpattern, touched, rcx>> /\ (pc' \in {"walk", "done"} <=> pc \in {"walk", "done"})
    BY <1>3 DEF FillStep, NextOffset, preplatencyarr, Return, vars
  <2> QED
    BY <2>1 DEF Fresh!freshVars, LoadsMade, Region, Address, Line, WordAt
<1> QED
  BY <1>1, <1>2, <1>3 DEF Next

\* RunAsmTest implements FreshRounds, for every number and length of the lines
\* and every pattern: latencytest loads from every line before it comes back
\* to one, and longpatternlatencytest from every word of every line.
THEOREM AsmWalksImplementFreshRounds == Spec => VisitsAllBeforeRepeat
<1>1. Init => Fresh!FreshInit
  BY DEF Init, Fresh!FreshInit, LoadsMade
<1> QED
  BY <1>1, AsmInvariant, AsmStepRefines, PTL DEF Spec, VisitsAllBeforeRepeat, Fresh!FreshSpec

\* The long pattern comes back to the first line only when it has visited, at
\* the offset it is at, the word of every line.
THEOREM LongPatternReturnsLast == Spec => ReturnsAfterEveryLine
<1> DEFINE Return1 ==
      pc = "walk" /\ pc' = "walk" /\ LineAddress(Load(r15)) = LineAddress(ArrayStart)
      => \A l \in Line : ArrayStart + WordAt(l, rax) \in touched'
<1>1. ASSUME AsmInv, [Next]_vars PROVE [Return1]_vars
  <2> SUFFICES ASSUME Next, pc = "walk", pc' = "walk",
                      LineAddress(Load(r15)) = LineAddress(ArrayStart)
               PROVE  \A l \in Line : ArrayStart + WordAt(l, rax) \in touched'
    BY <1>1
  <2>1. LatencyTestLoad \/ LongPatternLoad
    BY DEF Next, FillStep, NextOffset, preplatencyarr, EnterTest, Return
  <2>2. /\ Here \in Word /\ r15 = ArrayStart + Here /\ Here \in Walked
        /\ Here % WordsPerLine = rax /\ rax \in Offset
        /\ Here \in Seen => Seen = Walked
        /\ Seen = Walked => Here < WordsPerLine
        /\ \A w \in Walked :
             Leads[w] \in Seen \union {Here} /\ Leads[w] >= WordsPerLine => w \in Seen
    BY <1>1, HereIsFresh DEF AsmInv, WalkInv, TypeOK, Offset
  <2>3. /\ Leads[Here] \in Word /\ Leads[Here] # Here
        /\ Leads[Here] % WordsPerLine = rax
        /\ \A v \in Word : Leads[v] = Leads[Here] => v = Here
    BY <1>1, <2>2, LeadsFacts
  <2>4. Leads[Here] < WordsPerLine
    <3>1. Load(r15) = ArrayStart + Leads[Here]
      BY <1>1, <2>2, LoadFacts
    <3> QED
      BY <2>3, <3>1, LineAddressFacts
  <2>5. Leads[Here] = rax
    BY <2>2, <2>3, <2>4, FirstOfColumn DEF Column
  <2>6. Seen # Walked
    <3> SUFFICES ASSUME Here < WordsPerLine PROVE FALSE
      BY <2>2
    <3>1. Here = rax
      BY <2>2, FirstOfColumn DEF Column
    <3> QED
      BY <2>3, <2>5, <3>1
  <2>7. Column(rax) \subseteq Walked
    <3>1. CASE longpattern
      BY <3>1 DEF Walked, Column
    <3>2. CASE ~longpattern
      BY <2>2, <3>2 DEF Walked, Column
    <3> QED
      BY <3>1, <3>2
  \* What is left of the column would lead to itself only.
  <2> DEFINE left == Column(rax) \ (Seen \union {Here})
  <2>8. ASSUME NEW w \in left PROVE Leads[w] \in left
    <3>1. w \in Column(rax) /\ w \in Word /\ w \in Walked /\ w \notin Seen /\ w # Here
      BY <2>7 DEF Column
    <3>2. Leads[w] \in Column(rax) /\ Leads[w] \in Word
      BY <1>1, <2>2, <3>1, LeadsFacts DEF Column
    <3>3. Leads[w] # rax
      BY <2>3, <2>5, <3>1
    <3>4. Leads[w] >= WordsPerLine
      <4>1. ~(Leads[w] < WordsPerLine)
        BY <2>2, <3>2, <3>3, FirstOfColumn
      <4> QED
        BY <3>2, <4>1 DEF Word
    <3>5. Leads[w] \notin Seen \union {Here}
      BY <2>2, <3>1, <3>4
    <3> QED
      BY <3>2, <3>5
  <2>9. left = {}
    <3>1. left \in SUBSET Column(rax) /\ left # Column(rax)
      BY <2>2 DEF Column
    <3>2. ClosedUnder(Leads, left)
      BY <2>8 DEF ClosedUnder
    <3>3. IsOneCycle(Leads, Column(rax))
      BY <1>1, <2>2, ColumnIsOneCycle
    <3> HIDE DEF left
    <3> QED
      BY <3>1, <3>2, <3>3 DEF IsOneCycle
  <2>10. Seen' = Seen \union {Here}
    BY <1>1, <2>1, <2>6, LoopVisits, SeenAfterVisit
  <2>11. ASSUME NEW l \in Line PROVE ArrayStart + WordAt(l, rax) \in touched'
    <3>1. WordAt(l, rax) \in Column(rax)
      BY <2>2, WordAtFacts
    <3>2. WordAt(l, rax) \in Seen'
      BY <2>9, <2>10, <3>1
    <3> QED
      BY <3>2 DEF Seen
  <2> QED
    BY <2>11
<1> QED
  BY <1>1, AsmInvariant, PTL DEF Spec, ReturnsAfterEveryLine
============================================================================
