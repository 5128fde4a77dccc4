--------------------------- MODULE ShuffleProofs ---------------------------
(***************************************************************************)
(* Why the shuffle of MemoryLatency.c leaves one cycle, for any set D of   *)
(* elements that it may shuffle: the lines of a region, the pages, or the  *)
(* words at one offset of their lines.                                     *)
(*                                                                         *)
(* While iter counts down, every cycle of the pattern holds exactly one of *)
(* the elements L that are still to be exchanged.  A turn exchanges one of *)
(* them, p, with another, r: their two cycles become one, and p is taken   *)
(* from L.  "In a cycle" is said without counting steps, with sets of      *)
(* elements that the pattern never leaves.                                 *)
(***************************************************************************)
EXTENDS PatternShuffle, FiniteSetTheorems, TLAPS

InjectiveOn(f, D) == \A x, y \in D : f[x] = f[y] => x = y

OneLabelPerCycle(f, L, D) ==
  /\ \A S \in SUBSET D : S # {} /\ ClosedUnder(f, S) => S \cap L # {}
  /\ \A x \in L : \E C \in SUBSET D : x \in C /\ ClosedUnder(f, C) /\ C \cap L = {x}

\* The loop invariant of the shuffle.
Shuffled(f, L, D) ==
  /\ ClosedUnder(f, D)
  /\ InjectiveOn(f, D)
  /\ OneLabelPerCycle(f, L, D)

\* Of the indexes 0..n-1 those that the countdown k has not passed yet.
Below(n, k) == {x \in 0..(n - 1) : x < k}

\* The random index is an element strictly below the one it is swapped with.
LEMMA RandIndexBelow ==
  ASSUME NEW k \in Nat, k >= 1, NEW r \in RandIndex(k)
  PROVE  r \in Nat /\ r < k
  BY DEF RandIndex

\* What an exchange writes, and that it writes nothing else.
LEMMA SwapValues ==
  ASSUME NEW X, NEW Y, NEW f \in [X -> Y], NEW p \in X, NEW r \in X, p # r
  PROVE  /\ Swap(f, p, r) \in [X -> Y]
         /\ Swap(f, p, r)[p] = f[r]
         /\ Swap(f, p, r)[r] = f[p]
         /\ \A x \in X : x # p /\ x # r => Swap(f, p, r)[x] = f[x]
  BY DEF Swap

\* Before the first turn every element is a cycle of its own.
LEMMA IdentityIsShuffled ==
  ASSUME NEW f, NEW D, \A x \in D : f[x] = x
  PROVE  Shuffled(f, D, D)
<1>1. ASSUME NEW x \in D PROVE {x} \in SUBSET D /\ ClosedUnder(f, {x}) /\ {x} \cap D = {x}
  BY DEF ClosedUnder
<1> QED
  BY <1>1 DEF Shuffled, ClosedUnder, InjectiveOn, OneLabelPerCycle

\* Of the pattern only its values on D matter.
LEMMA ShuffledSameValues ==
  ASSUME NEW f, NEW g, NEW L, NEW D, Shuffled(f, L, D), \A x \in D : g[x] = f[x]
  PROVE  Shuffled(g, L, D)
<1>1. \A S \in SUBSET D : ClosedUnder(g, S) <=> ClosedUnder(f, S)
  BY DEF ClosedUnder
<1>2. ClosedUnder(g, D) /\ InjectiveOn(g, D)
  BY <1>1 DEF Shuffled, InjectiveOn
<1>3. OneLabelPerCycle(f, L, D)
  BY DEF Shuffled
<1>4. OneLabelPerCycle(g, L, D)
  BY <1>1, <1>3 DEF OneLabelPerCycle
<1> QED
  BY <1>2, <1>4 DEF Shuffled

\* A turn of the shuffle merges the cycles of p and r into one.
LEMMA SwapMergesCycles ==
  ASSUME NEW X, NEW Y, NEW f \in [X -> Y], NEW D \in SUBSET X, NEW L \in SUBSET D,
         NEW p \in L, NEW r \in L, p # r, Shuffled(f, L, D)
  PROVE  Shuffled(Swap(f, p, r), L \ {p}, D)
<1> DEFINE g == Swap(f, p, r)
<1>0. p \in X /\ r \in X /\ \A x \in D : x \in X
  OBVIOUS
<1>1. g[p] = f[r] /\ g[r] = f[p] /\ \A x \in D : x # p /\ x # r => g[x] = f[x]
  BY <1>0 DEF Swap
<1> HIDE DEF g
<1>2. ClosedUnder(g, D)
  BY <1>1 DEF Shuffled, ClosedUnder
<1>3. InjectiveOn(g, D)
  BY <1>1 DEF Shuffled, InjectiveOn
<1>4. OneLabelPerCycle(f, L, D)
  BY DEF Shuffled
\* The cycles of p and of r, whose only labels they are.
<1>5. PICK P \in SUBSET D : p \in P /\ ClosedUnder(f, P) /\ P \cap L = {p}
  BY <1>4 DEF OneLabelPerCycle
<1>6. PICK R \in SUBSET D : r \in R /\ ClosedUnder(f, R) /\ R \cap L = {r}
  BY <1>4 DEF OneLabelPerCycle
<1>7. ASSUME NEW S \in SUBSET D, S # {}, ClosedUnder(g, S)
      PROVE  S \cap (L \ {p}) # {}
  <2>1. CASE r \in S
    BY <2>1
  <2>2. CASE r \notin S /\ p \notin S
    <3>1. ClosedUnder(f, S)
      BY <1>1, <1>7, <2>2 DEF ClosedUnder
    <3> QED
      BY <1>4, <1>7, <2>2, <3>1 DEF OneLabelPerCycle
  \* g leads from p into r's cycle, and in there follows f: it would meet r.
  <2>3. CASE r \notin S /\ p \in S
    <3> DEFINE T == S \cap R
    <3>1. f[r] \in T
      BY <1>1, <1>6, <1>7, <2>3 DEF ClosedUnder
    <3>2. p \notin R
      BY <1>6
    <3>3. ClosedUnder(f, T)
      BY <1>1, <1>6, <1>7, <2>3, <3>2 DEF ClosedUnder
    <3>4. T \cap L # {}
      <4>1. T \in SUBSET D /\ T # {}
        BY <3>1
      <4> HIDE DEF T
      <4> QED
        BY <1>4, <3>3, <4>1 DEF OneLabelPerCycle
    <3> QED
      BY <1>6, <2>3, <3>4
  <2> QED
    BY <2>1, <2>2, <2>3
<1>8. ASSUME NEW x \in L \ {p}
      PROVE  \E C \in SUBSET D : x \in C /\ ClosedUnder(g, C) /\ C \cap (L \ {p}) = {x}
  <2>1. CASE x = r
    <3>1. ClosedUnder(g, P \union R)
      BY <1>1, <1>5, <1>6 DEF ClosedUnder
    <3>2. x \in P \union R /\ (P \union R) \cap (L \ {p}) = {x}
      BY <1>5, <1>6, <2>1
    <3> QED
      BY <3>1, <3>2
  <2>2. CASE x # r
    <3>1. PICK C \in SUBSET D : x \in C /\ ClosedUnder(f, C) /\ C \cap L = {x}
      BY <1>4 DEF OneLabelPerCycle
    <3>2. p \notin C /\ r \notin C
      BY <1>8, <2>2, <3>1
    <3>3. ClosedUnder(g, C) /\ C \cap (L \ {p}) = {x}
      BY <1>1, <3>1, <3>2 DEF ClosedUnder
    <3> QED
      BY <3>1, <3>3
  <2> QED
    BY <2>1, <2>2
<1>9. OneLabelPerCycle(g, L \ {p}, D)
  BY <1>7, <1>8 DEF OneLabelPerCycle
<1> QED
  BY <1>2, <1>3, <1>9 DEF Shuffled, g

\* One turn of the loop, for elements that are the indexes 0..n-1.
LEMMA TurnKeepsShuffled ==
  ASSUME NEW n \in Nat, NEW f \in [0..(n - 1) -> 0..(n - 1)], NEW k \in 2..n,
         NEW r \in RandIndex(k - 1), Shuffled(f, Below(n, k), 0..(n - 1))
  PROVE  /\ Swap(f, k - 1, r) \in [0..(n - 1) -> 0..(n - 1)]
         /\ Shuffled(Swap(f, k - 1, r), Below(n, k - 1), 0..(n - 1))
<1>1. k - 1 \in Nat /\ r \in Nat /\ r < k - 1
  BY RandIndexBelow
<1>2. k - 1 \in Below(n, k) /\ r \in Below(n, k) /\ k - 1 # r
  BY <1>1 DEF Below
<1>3. Below(n, k) \in SUBSET 0..(n - 1) /\ Below(n, k) \ {k - 1} = Below(n, k - 1)
  BY <1>1 DEF Below
<1>4. Swap(f, k - 1, r) \in [0..(n - 1) -> 0..(n - 1)]
  BY <1>2, <1>3, SwapValues
<1>5. Shuffled(Swap(f, k - 1, r), Below(n, k) \ {k - 1}, 0..(n - 1))
  BY <1>2, <1>3, SwapMergesCycles
<1> QED
  BY <1>3, <1>4, <1>5

\* All the indexes are to be exchanged at first, and in the end only 0 is.
LEMMA BelowEnds ==
  ASSUME NEW n \in Nat \ {0}
  PROVE  Below(n, n) = 0..(n - 1) /\ Below(n, 1) = {0} /\ 0 \in 0..(n - 1)
  BY DEF Below

\* An injective pattern that does not leave a finite set reaches all of it.
LEMMA InjectiveIsOnto ==
  ASSUME NEW f, NEW S, IsFiniteSet(S), ClosedUnder(f, S), InjectiveOn(f, S)
  PROVE  \A y \in S : \E x \in S : f[x] = y
<1> SUFFICES ASSUME NEW y \in S, \A x \in S : f[x] # y PROVE FALSE
  OBVIOUS
<1> DEFINE g == [x \in S |-> f[x]]
           T == S \ {y}
<1>1. g \in [S -> T]
  BY DEF ClosedUnder
<1>2. IsFiniteSet(T) /\ Cardinality(T) = Cardinality(S) - 1 /\ Cardinality(S) \in Nat
  BY FS_RemoveElement, FS_CardinalityType
<1>3. \A x, z \in S : g[x] = g[z] => x = z
  BY DEF InjectiveOn
<1> HIDE DEF g, T
<1>4. Cardinality(T) < Cardinality(S)
  BY <1>2
<1>5. \E x, z \in S : x # z /\ g[x] = g[z]
  BY <1>1, <1>2, <1>4, FS_PigeonHole
<1> QED
  BY <1>3, <1>5

\* With one label left there is one cycle: what is outside a set that the
\* pattern never leaves is another such set, and only one of them has the label.
LEMMA OneLabelIsOneCycle ==
  ASSUME NEW f, NEW D, IsFiniteSet(D), NEW z \in D, Shuffled(f, {z}, D)
  PROVE  IsOneCycle(f, D)
<1> SUFFICES ASSUME NEW S \in SUBSET D, S # {}, ClosedUnder(f, S) PROVE S = D
  BY DEF IsOneCycle
<1>1. IsFiniteSet(S) /\ InjectiveOn(f, S)
  BY FS_Subset DEF Shuffled, InjectiveOn
<1>2. \A y \in S : \E x \in S : f[x] = y
  BY <1>1, InjectiveIsOnto
<1>3. ClosedUnder(f, D \ S)
  BY <1>2 DEF Shuffled, ClosedUnder, InjectiveOn
<1>4. \A T \in SUBSET D : T # {} /\ ClosedUnder(f, T) => T \cap {z} # {}
  BY DEF Shuffled, OneLabelPerCycle
<1>5. z \in S
  BY <1>4
<1> QED
  BY <1>3, <1>4, <1>5

\* The shuffle of n elements leaves one cycle through them.
LEMMA ShuffledOnce ==
  ASSUME NEW n \in Nat \ {0}, NEW f, Shuffled(f, Below(n, 1), 0..(n - 1))
  PROVE  IsOneCycle(f, 0..(n - 1))
<1>1. IsFiniteSet(0..(n - 1))
  BY FS_Interval
<1> QED
  BY <1>1, BelowEnds, OneLabelIsOneCycle

-----------------------------------------------------------------------------
\* Where an element is: the r-th place of the k-th page, or line, of m places.
LEMMA PlaceOf ==
  ASSUME NEW m \in Nat \ {0}, NEW k \in Nat, NEW r \in 0..(m - 1)
  PROVE  (k * m + r) \div m = k /\ (k * m + r) % m = r
  BY SMTT(30)

\* Every index is such a place.
LEMMA IndexIsPlace ==
  ASSUME NEW m \in Nat \ {0}, NEW a \in Nat
  PROVE  a = (a \div m) * m + (a % m) /\ a % m \in 0..(m - 1) /\ a \div m \in Nat
  BY SMTT(30)

\* The places of the k-th page lie before the end of n pages if k is below n.
LEMMA PlaceBelow ==
  ASSUME NEW m \in Nat \ {0}, NEW n \in Nat, NEW k \in 0..(n - 1), NEW r \in 0..(m - 1)
  PROVE  k * m + r \in 0..(n * m - 1)
<1>1. (k + 1) * m <= n * m /\ (k + 1) * m = k * m + m /\ k * m \in Nat
  BY SMTT(30)
<1> QED
  BY <1>1
=============================================================================
