------------------------------ MODULE AsmWalk ------------------------------
(***************************************************************************)
(* RunAsmTest of src/src/MemoryLatency.c ("-test asm" and "-test           *)
(* longpattern") on x86-64: FillPatternArr64 gives every word of a cache   *)
(* line a shuffle of its own, preplatencyarr turns the indexes into        *)
(* pointers, and latencytest or longpatternlatencytest follows them.       *)
(*                                                                         *)
(* Memory is an array of 8-byte words; an address counts words, and the    *)
(* code's masks of the low six address bits are remainders of a line here. *)
(***************************************************************************)
EXTENDS PatternShuffle

CONSTANTS
  Lines,             \* element_count: the cache lines of the region
  WordsPerLine,      \* increment: the 64-bit words of a line
  ArrayStart,        \* the address of A
  ScaledIterations   \* scaled_iterations; a bound of the run for TLC

\* Every default_test_sizes entry is at least 2 KB, 32 lines.
ASSUME LinesAssumption == Lines \in Nat \ {0, 1}

ASSUME WordsPerLineAssumption == WordsPerLine \in Nat \ {0}

\* posix_memalign with 64 bytes, or a mapping of huge pages.
ASSUME ArrayStartAssumption ==
  ArrayStart \in Nat /\ ArrayStart % WordsPerLine = 0

\* The loops count down before they test: a count of 0 is not one they stop at.
ASSUME ScaledIterationsAssumption == ScaledIterations \in Nat \ {0}

Line    == 0..(Lines - 1)
Word    == 0..(Lines * WordsPerLine - 1)
Address == ArrayStart..(ArrayStart + Lines * WordsPerLine - 1)

VARIABLES
  longpattern,   \* -test longpattern
  pc,            \* "fill", "filled", "ready", "walk", "done"
  offset,        \* increment_offset: the word of each line being shuffled
  iter,          \* the shuffle's countdown
  A,             \* the array: indexes while it is filled, then addresses
  r15,           \* the pointer being chased
  rax,           \* longpatternlatencytest's index into the line
  rcx,           \* the loads left to make
  touched        \* history: the words loaded in the current round

vars == <<longpattern, pc, offset, iter, A, r15, rax, rcx, touched>>

\* Type correctness; in particular the array holds indexes while it is filled and
\* only addresses of the region once it is followed.
TypeOK ==
  /\ longpattern \in BOOLEAN
  /\ pc \in {"fill", "filled", "ready", "walk", "done"}
  /\ offset \in 0..(WordsPerLine - 1)
  /\ iter \in 1..Lines
  /\ A \in [Word -> IF pc \in {"fill", "filled"} THEN Word ELSE Address]
  /\ pc \in {"walk", "done"} => r15 \in Address
  /\ rax \in 0..(WordsPerLine - 1)
  /\ rcx \in 0..ScaledIterations
  /\ touched \subseteq Address

-----------------------------------------------------------------------------
\* FillPatternArr64.

\* The word of line l that a shuffle at this offset moves.
WordAt(l, o) == l * WordsPerLine + o

\* The array once the words of one offset hold their own indexes.
NumberOffset(a, o) == [w \in Word |-> IF w % WordsPerLine = o THEN w ELSE a[w]]

\* memset, and the first loop of the first offset.
Init ==
  /\ longpattern \in BOOLEAN
  /\ pc = "fill"
  /\ offset = 0
  /\ iter = Lines
  /\ A = NumberOffset([w \in Word |-> 0], 0)
  /\ r15 = 0
  /\ rax = 0
  /\ rcx = ScaledIterations
  /\ touched = {}

\* One turn of while (iter > 1).
FillStep ==
  /\ pc = "fill"
  /\ iter > 1
  /\ iter' = iter - 1
  /\ \E r \in RandIndex(iter - 1) :
       A' = Swap(A, WordAt(iter - 1, offset), WordAt(r, offset))
  /\ UNCHANGED <<longpattern, pc, offset, r15, rax, rcx, touched>>

\* Plausible bug: the loop over the offsets stops one short.
MoreOffsetsShort(o) == o + 2 < WordsPerLine

\* increment_offset++ < increment.
MoreOffsets(o) == o + 1 < WordsPerLine

NextOffset ==
  /\ pc = "fill"
  /\ iter <= 1
  /\ IF MoreOffsets(offset)
     THEN /\ offset' = offset + 1
          /\ iter' = Lines
          /\ A' = NumberOffset(A, offset + 1)
          /\ pc' = pc
     ELSE /\ pc' = "filled"
          /\ UNCHANGED <<offset, iter, A>>
  /\ UNCHANGED <<longpattern, r15, rax, rcx, touched>>

-----------------------------------------------------------------------------
\* The assembly routines.

\* Plausible bug: the loop of preplatencyarr leaves out the last element.
PointerToSkipsLast(a, w) ==
  IF w = Lines * WordsPerLine - 1 THEN a[w] ELSE ArrayStart + a[w]

\* lea (%rcx,%r14,8): the address of the element whose index a word holds.
PointerTo(a, w) == ArrayStart + a[w]

preplatencyarr ==
  /\ pc = "filled"
  /\ pc' = "ready"
  /\ A' = [w \in Word |-> PointerTo(A, w)]
  /\ UNCHANGED <<longpattern, offset, iter, r15, rax, rcx, touched>>

Load(a) == A[a - ArrayStart]

\* The first byte of the line that an address is in: and with not 63.
LineAddress(a) == a - (a % WordsPerLine)

\* The words that the test is to visit: all of them, or the first of a line.
Region ==
  IF longpattern THEN Address ELSE {ArrayStart + WordAt(l, 0) : l \in Line}

\* The history after a load of address a.
RoundAfter(a) == IF touched = Region THEN {a} ELSE touched \union {a}

\* Both routines begin with mov (%rdx), %r15, outside the loop.
EnterTest ==
  /\ pc = "ready"
  /\ pc' = "walk"
  /\ r15' = Load(ArrayStart)
  /\ rax' = 0
  /\ touched' = RoundAfter(ArrayStart)
  /\ UNCHANGED <<longpattern, offset, iter, A, rcx>>

\* A turn of latencytest_loop.
LatencyTestLoad ==
  /\ pc = "walk"
  /\ ~longpattern
  /\ rcx > 0
  /\ r15' = Load(r15)
  /\ touched' = RoundAfter(r15)
  /\ rcx' = rcx - 1
  /\ UNCHANGED <<longpattern, pc, offset, iter, A, rax>>

\* Plausible bug: the index into the line does not move.
NextIndexStays(x) == x

\* add $8, and $63: the next word of a line, after the last the first.
NextIndex(x) == (x + 1) % WordsPerLine

\* A turn of longpatternlatencytest_loop: back at the first line, the walk
\* goes on with the next word of that line.
LongPatternLoad ==
  /\ pc = "walk"
  /\ longpattern
  /\ rcx > 0
  /\ LET next == Load(r15)
     IN  IF LineAddress(next) = LineAddress(ArrayStart)
         THEN /\ rax' = NextIndex(rax)
              /\ r15' = LineAddress(next) + NextIndex(rax)
         ELSE /\ r15' = next
              /\ rax' = rax
  /\ touched' = RoundAfter(r15)
  /\ rcx' = rcx - 1
  /\ UNCHANGED <<longpattern, pc, offset, iter, A>>

Return ==
  /\ pc = "walk"
  /\ rcx = 0
  /\ pc' = "done"
  /\ UNCHANGED <<longpattern, offset, iter, A, r15, rax, rcx, touched>>

Next ==
  \/ FillStep \/ NextOffset
  \/ preplatencyarr
  \/ EnterTest \/ LatencyTestLoad \/ LongPatternLoad \/ Return

Spec == Init /\ [][Next]_vars

-----------------------------------------------------------------------------
\* The loads made, the first of them before the loop.
LoadsMade == (ScaledIterations - rcx) + (IF pc \in {"walk", "done"} THEN 1 ELSE 0)

\* latencytest visits every line of the region before it visits one again,
\* and longpatternlatencytest every word of every line: the separate patterns
\* of the words, and the walk's way from one to the next, never make it
\* shorter.
Fresh == INSTANCE FreshRounds
           WITH Walkers <- {0}, lines <- Region, touched <- [k \in {0} |-> touched],
                loads <- [k \in {0} |-> LoadsMade]

VisitsAllBeforeRepeat == Fresh!FreshSpec

\* The long pattern never profits from a line it has just loaded: the walk
\* comes back to the first line only when it has visited, at the word it is
\* at, every other line, so two visits to one line are a whole turn apart.
ReturnsAfterEveryLine ==
  [][ pc = "walk" /\ pc' = "walk" /\ LineAddress(Load(r15)) = LineAddress(ArrayStart)
      => \A l \in Line : ArrayStart + WordAt(l, rax) \in touched' ]_vars
=============================================================================
