------------------------- MODULE PatternWalkProofs -------------------------
(***************************************************************************)
(* Proofs about PatternWalk for every region size, parallelism and number  *)
(* of iterations: the shuffle leaves one cycle through the whole region,   *)
(* RunMlpTest's chains never merge, and all three walks visit every line   *)
(* before they visit one again (they implement FreshRounds).  TlbWalk      *)
(* implements PatternWalk as far as its reference goes, and its own walk   *)
(* does the same with pages, whose elements it spreads evenly.             *)
(***************************************************************************)
EXTENDS TlbWalk, ShuffleProofs, FunctionTheorems

USE ElementCountAssumption, ParallelismAssumption, ScaledIterationsAssumption

-----------------------------------------------------------------------------
\* The shuffle's loop invariant.
ShuffleInv == Shuffled(pattern, Below(ElementCount, iter), Line)

\* Two elements never lead to one line.
LEMMA ShuffleIsInjective == ShuffleInv => InjectiveOn(pattern, Line)
  BY DEF ShuffleInv, Shuffled

\* Every line is led to.
LEMMA ShuffleIsOnto ==
  ASSUME ShuffleInv
  PROVE  \A y \in Line : \E x \in Line : pattern[x] = y
<1>1. ClosedUnder(pattern, Line) /\ InjectiveOn(pattern, Line)
  BY DEF ShuffleInv, Shuffled
<1>2. IsFiniteSet(Line)
  BY FS_Interval DEF Line
<1> QED
  BY <1>1, <1>2, InjectiveIsOnto

\* When one line is left to exchange, the pattern is one cycle.
LEMMA LastLineIsOneCycle ==
  ASSUME TypeOK, ShuffleInv
  PROVE  SingleCycle
  BY ShuffledOnce DEF SingleCycle, ShuffleInv, Line

-----------------------------------------------------------------------------
(***************************************************************************)
(* What the walks keep true.  The lines a chain touched in its round lead  *)
(* only to each other and to where the chain stands, so if the chain       *)
(* stands on a touched line the round is a set the pattern never leaves.   *)
(* RunAopTest's round is the image of the pointers it has passed.          *)
(***************************************************************************)
Chasing == test \in {"c", "mlp"} /\ pc # "fill"

RoundsLeadOn ==
  \A k \in Chain : \A x \in touched[k] : pattern[x] \in touched[k] \union {pos[k]}

PointersPassed(p) == {pattern[x] : x \in {y \in Line : y < p}}

AopRound ==
  \/ pos[0] = 0 /\ touched[0] \in {{}, Line}
  \/ pos[0] > 0 /\ touched[0] = PointersPassed(pos[0])

(***************************************************************************)
(* Chains below j have taken this turn's load and the others have not.     *)
(* Chains on the same side stand on different lines, and no chain that has *)
(* loaded stands where one that has not is about to go.                    *)
(***************************************************************************)
ChainsApart ==
  /\ \A k, l \in Chain : k # l /\ (k < j <=> l < j) => pos[k] # pos[l]
  /\ \A k, l \in Chain : k < j /\ ~(l < j) => pos[k] # pattern[pos[l]]

IInv ==
  /\ TypeOK
  /\ ShuffleInv
  /\ pc = "fill" => touched = [k \in Chain |-> {}] /\ j = 0
  /\ pc # "fill" => iter = 1
  /\ Chasing => RoundsLeadOn
  /\ test = "aop" /\ pc # "fill" => AopRound
  /\ test = "mlp" /\ pc # "fill" => ChainsApart

\* There is a line and a chain numbered 0.
LEMMA ConstantFacts ==
  /\ 0 \in Line /\ 0 \in Chain
  /\ Line \subseteq Nat /\ Chain \subseteq Nat /\ Chain \subseteq Line
  BY DEF Line, Chain

\* The lines of a round are lines of the region.
LEMMA RoundAfterType ==
  ASSUME NEW t \in SUBSET Line, NEW l \in Line
  PROVE  RoundAfter(t, l) \in SUBSET Line
  BY DEF RoundAfter

\* NextChain and NextPointer stay inside the arrays they index.
LEMMA NextChainInChain ==
  ASSUME NEW k \in Chain
  PROVE  /\ NextChain(k) \in Chain
         /\ NextChain(k) # 0 => NextChain(k) = k + 1
         /\ NextChain(k) = 0 => k = Parallelism - 1
  BY DEF NextChain, Chain

\* The next pointer of RunAopTest is one of the array's.
LEMMA NextPointerInLine ==
  ASSUME NEW p \in Line
  PROVE  /\ NextPointer(p) \in Line
         /\ NextPointer(p) # 0 => NextPointer(p) = p + 1
         /\ NextPointer(p) = 0 => p = ElementCount - 1
  BY DEF NextPointer, Line

\* The chains share the iterations: none makes more than all of them.
LEMMA MlpRoundsBound == MlpRounds \in Nat /\ MlpRounds <= ScaledIterations
<1>1. ScaledIterations \in Nat /\ Parallelism \in Nat /\ Parallelism > 0
  OBVIOUS
<1> QED
  BY <1>1, SMT DEF MlpRounds

\* The tests start with the right types.
LEMMA InitTypeOK == Init => TypeOK
  BY ConstantFacts DEF Init, TypeOK, Line

\* Every step of a test keeps the types: an action a step.
LEMMA NextTypeOK ==
  ASSUME TypeOK, [Next]_vars
  PROVE  TypeOK'
<1> USE DEF TypeOK
<1>1. CASE FillStep
  <2>1. iter - 1 \in Line /\ iter - 1 \in Nat /\ iter - 1 >= 1
    BY <1>1 DEF FillStep, Line
  <2>2. PICK r \in RandIndex(iter - 1) : pattern' = Swap(pattern, iter - 1, r)
    BY <1>1 DEF FillStep
  <2>3. r \in Line /\ r # iter - 1
    BY <2>1, RandIndexBelow DEF Line
  <2>4. pattern' \in [Line -> Line]
    BY <2>1, <2>2, <2>3, SwapValues
  <2> QED
    BY <1>1, <2>1, <2>4 DEF FillStep
<1>2. CASE StartRunTest
  BY <1>2, ConstantFacts, RoundAfterType DEF StartRunTest
<1>3. CASE StartRunMlpTest
  BY <1>3, ConstantFacts DEF StartRunMlpTest, StartOffset
<1>4. CASE StartRunAopTest
  BY <1>4, ConstantFacts DEF StartRunAopTest
<1>5. ASSUME NEW k \in Chain, Chase(k)
      PROVE  pos' \in [Chain -> Line] /\ touched' \in [Chain -> SUBSET Line]
  BY <1>5, RoundAfterType DEF Chase
<1>6. CASE RunTestLoad
  BY <1>6, <1>5, ConstantFacts DEF RunTestLoad
<1>7. CASE RunMlpTestLoad
  <2>1. i + 1 \in 0..ScaledIterations
    BY <1>7, MlpRoundsBound DEF RunMlpTestLoad
  <2> QED
    BY <1>7, <1>5, <2>1, NextChainInChain DEF RunMlpTestLoad
<1>8. CASE RunAopTestLoad
  <2>1. pos[0] \in Line /\ pattern[pos[0]] \in Line
    BY ConstantFacts
  <2>2. pos' \in [Chain -> Line]
    BY <1>8, <2>1, NextPointerInLine DEF RunAopTestLoad
  <2>3. touched' \in [Chain -> SUBSET Line]
    BY <1>8, <2>1, RoundAfterType DEF RunAopTestLoad
  <2> QED
    BY <1>8, <2>2, <2>3 DEF RunAopTestLoad
<1>9. CASE StopClock
  BY <1>9 DEF StopClock
<1>10. CASE UNCHANGED vars
  BY <1>10 DEF vars
<1> QED
  BY <1>1, <1>2, <1>3, <1>4, <1>6, <1>7, <1>8, <1>9, <1>10 DEF Next, Load

\* Type correctness of the three tests: no walk ever stands outside the
\* region, whatever its size, the parallelism and the number of loads.
THEOREM TypeCorrect == Spec => []TypeOK
<1> QED
  BY InitTypeOK, NextTypeOK, PTL DEF Spec

-----------------------------------------------------------------------------
\* What the invariant says about the two walks at the moment of a load.

\* A chain that stands on a line of its round has completed the round.
LEMMA StandingOnTouched ==
  ASSUME TypeOK, ShuffleInv, iter = 1, RoundsLeadOn, NEW k \in Chain,
         pos[k] \in touched[k]
  PROVE  touched[k] = Line
<1>1. touched[k] \in SUBSET Line /\ touched[k] # {}
  BY DEF TypeOK
<1>2. ClosedUnder(pattern, touched[k])
  BY DEF RoundsLeadOn, ClosedUnder
<1> QED
  BY <1>1, <1>2, LastLineIsOneCycle DEF SingleCycle, IsOneCycle

\* A pointer that points into its round has completed the round.
LEMMA PointingAtTouched ==
  ASSUME TypeOK, ShuffleInv, AopRound, pattern[pos[0]] \in touched[0]
  PROVE  touched[0] = Line
<1>1. pos[0] \in Line /\ pos[0] \in Nat
  BY ConstantFacts DEF TypeOK
<1>2. CASE pos[0] = 0
  BY <1>2 DEF AopRound
<1>3. CASE pos[0] > 0
  <2>1. touched[0] = PointersPassed(pos[0])
    BY <1>3 DEF AopRound
  <2>2. PICK x \in Line : x < pos[0] /\ pattern[pos[0]] = pattern[x]
    BY <2>1 DEF PointersPassed
  <2>3. x = pos[0]
  BY <1>1, <2>2, ShuffleIsInjective DEF InjectiveOn
  <2> QED
    BY <1>1, <2>2, <2>3
<1> QED
  BY <1>1, <1>2, <1>3

-----------------------------------------------------------------------------
\* IInv is inductive: one lemma per conjunct that a step can disturb.

\* Before the shuffle each line is a cycle of its own and nothing is visited.
LEMMA InitIInv == Init => IInv
<1> SUFFICES ASSUME Init PROVE IInv
  OBVIOUS
<1>1. Below(ElementCount, iter) = Line
  BY BelowEnds DEF Init, Line
<1>2. \A x \in Line : pattern[x] = x
  BY DEF Init
<1>3. ShuffleInv
  BY <1>1, <1>2, IdentityIsShuffled DEF ShuffleInv
<1> QED
  BY <1>3, InitTypeOK DEF Init, IInv, Chasing

\* A turn of the shuffle merges two cycles, and no other step writes the pattern.
LEMMA NextShuffleInv ==
  ASSUME IInv, [Next]_vars
  PROVE  ShuffleInv'
<1>1. CASE FillStep
  <2>1. PICK r \in RandIndex(iter - 1) : pattern' = Swap(pattern, iter - 1, r)
    BY <1>1 DEF FillStep
  <2>2. iter \in 2..ElementCount /\ iter' = iter - 1 /\ ElementCount \in Nat
    BY <1>1 DEF FillStep, IInv, TypeOK
  <2>3. pattern \in [Line -> Line] /\ Shuffled(pattern, Below(ElementCount, iter), Line)
    BY DEF IInv, TypeOK, ShuffleInv
  <2> QED
    BY <2>1, <2>2, <2>3, TurnKeepsShuffled DEF ShuffleInv, Line
<1>2. CASE ~FillStep
  <2>1. pattern' = pattern /\ iter' = iter
    BY <1>2 DEF Next, Load, StartRunTest, StartRunMlpTest, StartRunAopTest,
       RunTestLoad, RunMlpTestLoad, RunAopTestLoad, StopClock, vars
  <2> QED
    BY <2>1 DEF IInv, ShuffleInv
<1> QED
  BY <1>1, <1>2

\* A load through chain k keeps every chain's round leading on.
LEMMA ChaseRoundsLeadOn ==
  ASSUME TypeOK, ShuffleInv, iter = 1, RoundsLeadOn, NEW k \in Chain, Chase(k),
         pattern' = pattern
  PROVE  RoundsLeadOn'
<1> SUFFICES ASSUME NEW l \in Chain, NEW x \in touched'[l]
             PROVE  pattern[x] \in touched'[l] \union {pos'[l]}
  BY DEF RoundsLeadOn
<1>1. CASE l # k
  BY <1>1 DEF TypeOK, Chase, RoundsLeadOn
<1>2. CASE l = k
  <2>1. pos'[k] = pattern[pos[k]] /\ touched'[k] = RoundAfter(touched[k], pos[k])
    BY DEF TypeOK, Chase
  <2>2. x = pos[k] \/ (touched[k] # Line /\ x \in touched[k])
    BY <1>2, <2>1 DEF RoundAfter
  <2>3. CASE x = pos[k]
    BY <1>2, <2>1, <2>3
  <2>4. CASE touched[k] # Line /\ x \in touched[k]
    <3>1. pattern[x] \in touched[k] \union {pos[k]}
      BY <2>4 DEF RoundsLeadOn
    <3> QED
      BY <1>2, <2>1, <2>4, <3>1 DEF RoundAfter
  <2> QED
    BY <2>2, <2>3, <2>4
<1> QED
  BY <1>1, <1>2

\* Every step keeps the rounds of RunTest and RunMlpTest leading on.
LEMMA NextRoundsLeadOn ==
  ASSUME IInv, [Next]_vars, Chasing'
  PROVE  RoundsLeadOn'
<1> USE DEF IInv
<1>1. CASE StartRunTest
  <2>1. touched = [k \in Chain |-> {}] /\ 0 \in Chain
    BY <1>1, ConstantFacts DEF StartRunTest
  <2>2. touched'[0] = {0} /\ pos'[0] = pattern[0] /\ pattern' = pattern
    BY <1>1, <2>1, ConstantFacts DEF StartRunTest, RoundAfter, TypeOK
  <2>3. \A k \in Chain : k # 0 => touched'[k] = {}
    BY <1>1, <2>1 DEF StartRunTest
  <2> QED
    BY <2>2, <2>3 DEF RoundsLeadOn
<1>2. CASE StartRunMlpTest
  BY <1>2 DEF StartRunMlpTest, RoundsLeadOn
<1>3. CASE RunTestLoad
  BY <1>3, ChaseRoundsLeadOn, ConstantFacts DEF RunTestLoad, Chasing
<1>4. CASE RunMlpTestLoad
  BY <1>4, ChaseRoundsLeadOn DEF RunMlpTestLoad, Chasing, TypeOK
<1>5. CASE StopClock
  BY <1>5 DEF StopClock, Chasing, RoundsLeadOn
<1>6. CASE UNCHANGED vars
  BY <1>6 DEF vars, Chasing, RoundsLeadOn
<1>7. CASE FillStep \/ StartRunAopTest \/ RunAopTestLoad
  BY <1>7 DEF FillStep, StartRunAopTest, RunAopTestLoad, Chasing
<1> QED
  BY <1>1, <1>2, <1>3, <1>4, <1>5, <1>6, <1>7 DEF Next, Load

\* The pointers passed after one more are those before it and this one.
LEMMA PassOnePointer ==
  ASSUME TypeOK, NEW p \in Line
  PROVE  /\ PointersPassed(p + 1) = PointersPassed(p) \union {pattern[p]}
         /\ PointersPassed(0) = {}
         /\ ShuffleInv => PointersPassed(ElementCount) = Line
<1>1. \A x \in Line : x \in Nat /\ x < ElementCount
  BY DEF Line
<1>2. \A x \in Line : x < p + 1 <=> x < p \/ x = p
  BY <1>1
<1>3. PointersPassed(p + 1) = PointersPassed(p) \union {pattern[p]}
  BY <1>2 DEF PointersPassed
<1>4. PointersPassed(0) = {}
  BY <1>1 DEF PointersPassed
<1>5. ShuffleInv => PointersPassed(ElementCount) = Line
  BY <1>1, ShuffleIsOnto DEF PointersPassed, TypeOK
<1> QED
  BY <1>3, <1>4, <1>5

\* Every step keeps RunAopTest's round to the pointers passed.
LEMMA NextAopRound ==
  ASSUME IInv, [Next]_vars, test' = "aop", pc' # "fill"
  PROVE  AopRound'
<1> USE DEF IInv
<1>1. CASE StartRunAopTest
  <2>1. touched'[0] = {} /\ pos'[0] = 0
    BY <1>1, ConstantFacts DEF StartRunAopTest, TypeOK
  <2> QED
    BY <2>1 DEF AopRound
<1>2. CASE RunAopTestLoad
  <2> DEFINE p == pos[0]
  <2>1. p \in Line /\ p \in Nat /\ pattern' = pattern
    BY <1>2, ConstantFacts DEF TypeOK, RunAopTestLoad
  <2>2. pos'[0] = NextPointer(p) /\ touched'[0] = RoundAfter(touched[0], pattern[p])
    BY <1>2, ConstantFacts DEF TypeOK, RunAopTestLoad
  <2>3. AopRound
    BY <1>2 DEF RunAopTestLoad
  <2>4. touched'[0] = PointersPassed(p + 1)
    <3>1. CASE touched[0] = Line
      <4>1. p = 0
        <5>1. CASE p > 0
          <6>1. touched[0] = PointersPassed(p)
            BY <5>1, <2>3 DEF AopRound
          <6>2. PICK x \in Line : x < p /\ pattern[x] = pattern[p]
            BY <6>1, <3>1, <2>1 DEF PointersPassed, TypeOK
          <6> QED
            BY <6>2, <2>1, ShuffleIsInjective DEF InjectiveOn
        <5> QED
          BY <5>1, <2>1
      <4>2. PointersPassed(p + 1) = {pattern[p]}
        BY <2>1, <4>1, PassOnePointer
      <4> QED
        BY <2>2, <3>1, <4>2 DEF RoundAfter
    <3>2. CASE touched[0] # Line
      <4>1. touched[0] = PointersPassed(p)
        BY <2>1, <2>3, <3>2, PassOnePointer DEF AopRound
      <4> QED
        BY <2>1, <2>2, <3>2, <4>1, PassOnePointer DEF RoundAfter
    <3> QED
      BY <3>1, <3>2
  <2>5. CASE NextPointer(p) # 0
    <3>1. pos'[0] = p + 1 /\ pos'[0] > 0
      BY <2>1, <2>2, <2>5, NextPointerInLine
    <3> QED
      BY <2>1, <2>4, <3>1 DEF AopRound, PointersPassed
  <2>6. CASE NextPointer(p) = 0
    <3>1. p + 1 = ElementCount
      BY <2>1, <2>6, NextPointerInLine
    <3>2. touched'[0] = Line
      BY <2>1, <2>4, <3>1, PassOnePointer
    <3> QED
      BY <2>2, <2>6, <3>2 DEF AopRound
  <2> QED
    BY <2>5, <2>6
<1>3. CASE StopClock \/ UNCHANGED vars
  <2>1. /\ pos' = pos /\ touched' = touched /\ pattern' = pattern /\ test = "aop"
        /\ pc # "fill"
    BY <1>3 DEF StopClock, vars
  <2> QED
    BY <2>1 DEF AopRound, PointersPassed
<1>4. CASE FillStep \/ StartRunTest \/ StartRunMlpTest \/ RunTestLoad \/ RunMlpTestLoad
  BY <1>4 DEF FillStep, StartRunTest, StartRunMlpTest, RunTestLoad, RunMlpTestLoad
<1> QED
  BY <1>1, <1>2, <1>3, <1>4 DEF Next, Load

\* Every step of RunMlpTest keeps its chains apart: the pattern is injective.
LEMMA NextChainsApart ==
  ASSUME IInv, [Next]_vars, test' = "mlp", pc' # "fill"
  PROVE  ChainsApart'
<1> USE DEF IInv
<1>1. CASE StartRunMlpTest
  <2>1. j' = 0 /\ \A k \in Chain : pos'[k] = k /\ ~(k < j')
    BY <1>1, ConstantFacts DEF StartRunMlpTest, StartOffset
  <2> QED
    BY <2>1 DEF ChainsApart
<1>2. CASE RunMlpTestLoad
  <2>1. /\ ChainsApart /\ j \in Chain /\ j \in Nat /\ pattern' = pattern
        /\ pos \in [Chain -> Line]
    BY <1>2, ConstantFacts DEF RunMlpTestLoad, TypeOK
  <2>2. pos'[j] = pattern[pos[j]] /\ \A k \in Chain : k # j => pos'[k] = pos[k]
    BY <1>2, <2>1 DEF RunMlpTestLoad, Chase
  <2>3. j' = NextChain(j) /\ Chain \subseteq Nat
    BY <1>2, ConstantFacts DEF RunMlpTestLoad
  <2>4. InjectiveOn(pattern, Line)
    BY ShuffleIsInjective
  \* Before the index moves on: chains up to and including j have loaded.
  <2>5. ASSUME NEW k \in Chain, NEW l \in Chain, k # l, k <= j <=> l <= j
        PROVE  pos'[k] # pos'[l]
    <3>1. CASE k # j /\ l # j
      BY <2>1, <2>2, <2>3, <2>5, <3>1 DEF ChainsApart
    <3>2. CASE k = j
      <4>1. l < j
        BY <2>1, <2>3, <2>5, <3>2
      <4> QED
        BY <2>1, <2>2, <2>3, <2>5, <3>2, <4>1 DEF ChainsApart
    <3>3. CASE l = j
      <4>1. k < j
        BY <2>1, <2>3, <2>5, <3>3
      <4> QED
        BY <2>1, <2>2, <2>3, <2>5, <3>3, <4>1 DEF ChainsApart
    <3> QED
      BY <3>1, <3>2, <3>3
  <2>6. ASSUME NEW k \in Chain, NEW l \in Chain, k <= j, ~(l <= j)
        PROVE  pos'[k] # pattern[pos'[l]]
    <3>1. l # j /\ ~(l < j) /\ pos'[l] = pos[l]
      BY <2>1, <2>2, <2>3, <2>6
    <3>2. CASE k = j
      <4>1. pos[j] # pos[l]
        BY <2>1, <3>1 DEF ChainsApart
      <4> QED
        BY <2>1, <2>2, <2>4, <3>1, <3>2, <4>1 DEF InjectiveOn
    <3>3. CASE k # j
      <4>1. k < j
        BY <2>1, <2>3, <2>6, <3>3
      <4> QED
        BY <2>1, <2>2, <3>1, <3>3, <4>1 DEF ChainsApart
    <3> QED
      BY <3>2, <3>3
  <2>7. CASE NextChain(j) # 0
    <3>1. j' = j + 1
      BY <2>1, <2>3, <2>7, NextChainInChain
    <3>2. \A k \in Chain : k < j' <=> k <= j
      BY <2>1, <2>3, <3>1
    <3> QED
      BY <2>1, <2>5, <2>6, <3>2 DEF ChainsApart
  <2>8. CASE NextChain(j) = 0
    <3>1. j' = 0 /\ j = Parallelism - 1
      BY <2>1, <2>3, <2>8, NextChainInChain
    <3>2. \A k \in Chain : k <= j /\ ~(k < j')
      BY <2>3, <3>1 DEF Chain
    <3> QED
      BY <2>1, <2>5, <3>2 DEF ChainsApart
  <2> QED
    BY <2>7, <2>8
<1>3. CASE StopClock \/ UNCHANGED vars
  <2>1. /\ pos' = pos /\ j' = j /\ pattern' = pattern /\ test = "mlp"
        /\ pc # "fill"
    BY <1>3 DEF StopClock, vars
  <2> QED
    BY <2>1 DEF ChainsApart
<1>4. CASE FillStep \/ StartRunTest \/ StartRunAopTest \/ RunTestLoad \/ RunAopTestLoad
  BY <1>4 DEF FillStep, StartRunTest, StartRunAopTest, RunTestLoad, RunAopTestLoad
<1> QED
  BY <1>1, <1>2, <1>3, <1>4 DEF Next, Load

\* The inductive step, from those of the conjuncts.
LEMMA NextIInv ==
  ASSUME IInv, [Next]_vars
  PROVE  IInv'
<1>1. pc' = "fill" => touched' = [k \in Chain |-> {}] /\ j' = 0
  BY DEF IInv, Next, Load, FillStep, StartRunTest, StartRunMlpTest, StartRunAopTest,
     RunTestLoad, RunMlpTestLoad, RunAopTestLoad, StopClock, vars
<1>2. pc' # "fill" => iter' = 1
  BY DEF IInv, TypeOK, Next, Load, FillStep, StartRunTest, StartRunMlpTest,
     StartRunAopTest, RunTestLoad, RunMlpTestLoad, RunAopTestLoad, StopClock, vars
<1>3. TypeOK'
  BY NextTypeOK DEF IInv
<1> QED
  BY <1>1, <1>2, <1>3, NextShuffleInv, NextRoundsLeadOn, NextAopRound, NextChainsApart
     DEF IInv, Chasing

\* The loop invariant of the shuffle and of the three walks.
LEMMA Invariance == Spec => []IInv
<1> QED
  BY InitIInv, NextIInv, PTL DEF Spec

-----------------------------------------------------------------------------
\* FillPatternArr leaves one cycle through the whole region, whatever rand()
\* returns: no test measures a smaller region than it names.
THEOREM ShuffleMakesOneCycle == Spec => []SingleCycle
<1>1. IInv => SingleCycle
  BY LastLineIsOneCycle DEF IInv
<1> QED
  BY <1>1, Invariance, PTL

\* RunMlpTest's chains stay on different lines for every parallelism.
THEOREM MlpChainsNeverMerge == Spec => []ChainsNeverMerge
<1>1. IInv => ChainsNeverMerge
  <2> SUFFICES ASSUME IInv, test = "mlp", pc # "fill", j = 0,
                      NEW k \in Chain, NEW l \in Chain, k # l
               PROVE  pos[k] # pos[l]
    BY DEF ChainsNeverMerge
  <2>1. ~(k < j) /\ ~(l < j)
    BY ConstantFacts
  <2> QED
    BY <2>1 DEF IInv, ChainsApart
<1> QED
  BY <1>1, Invariance, PTL

\* This step is one more load of chain k, and of no other.
CountsLoad(k) ==
  \A m \in Chain : LoadsOf(m)' = IF m = k THEN LoadsOf(m) + 1 ELSE LoadsOf(m)

\* The counters of RunMlpTest's two loops count the loads of each chain.
LEMMA MlpCountsLoad ==
  ASSUME TypeOK, RunMlpTestLoad
  PROVE  CountsLoad(j)
<1>1. j \in 0..(Parallelism - 1) /\ i \in Nat /\ Parallelism \in Nat \ {0}
  BY DEF TypeOK, Chain
<1>2. /\ test = "mlp" /\ test' = "mlp"
      /\ j' = NextChain(j)
      /\ i' = IF NextChain(j) = 0 THEN i + 1 ELSE i
  BY DEF RunMlpTestLoad
<1> QED
  BY <1>1, <1>2 DEF CountsLoad, LoadsOf, NextChain, Chain

\* A load of a line that is fresh, or of any line when the round is complete,
\* is a step of FreshRounds.
LEMMA LoadRefines ==
  ASSUME TypeOK, NEW k \in Chain, NEW l \in Line,
         touched' = [touched EXCEPT ![k] = RoundAfter(@, l)],
         l \in touched[k] => touched[k] = Line,
         CountsLoad(k)
  PROVE  Fresh!FreshNext
<1>1. Fresh!Counted(k)
  BY DEF CountsLoad, Fresh!Counted, Line
<1>2. CASE touched[k] = Line
  <2>1. Fresh!NewRound(k, l)
    BY <1>2, <1>1 DEF Fresh!NewRound, Line, RoundAfter, TypeOK
  <2> QED
    BY <2>1 DEF Fresh!FreshNext
<1>3. CASE touched[k] # Line
  <2>1. Fresh!Touch(k, l)
    BY <1>3, <1>1 DEF Fresh!Touch, Line, RoundAfter, TypeOK
  <2> QED
    BY <2>1 DEF Fresh!FreshNext
<1> QED
  BY <1>2, <1>3

\* Every step of the three tests is a step of FreshRounds or leaves it alone.
LEMMA StepRefines ==
  ASSUME IInv, [Next]_vars
  PROVE  [Fresh!FreshNext]_(Fresh!freshVars)
<1> USE DEF IInv
<1>1. CASE StartRunTest
  <2>1. touched[0] = {} /\ 0 \in Chain /\ 0 \in Line
    BY <1>1, ConstantFacts DEF StartRunTest
  <2>2. CountsLoad(0)
    BY <1>1 DEF StartRunTest, CountsLoad, LoadsOf, TypeOK
  <2> QED
    BY <1>1, <2>1, <2>2, LoadRefines DEF StartRunTest
<1>2. CASE RunTestLoad
  <2>1. 0 \in Chain /\ pos[0] \in Line /\ Chase(0) /\ RoundsLeadOn /\ iter = 1
    BY <1>2, ConstantFacts DEF RunTestLoad, TypeOK, Chasing
  <2>2. CountsLoad(0)
    BY <1>2 DEF RunTestLoad, CountsLoad, LoadsOf, TypeOK
  <2> QED
    BY <2>1, <2>2, StandingOnTouched, LoadRefines DEF Chase
<1>3. CASE RunMlpTestLoad
  <2>1. j \in Chain /\ pos[j] \in Line /\ Chase(j) /\ RoundsLeadOn /\ iter = 1
    BY <1>3 DEF RunMlpTestLoad, TypeOK, Chasing
  <2>2. CountsLoad(j)
    BY <1>3, MlpCountsLoad
  <2> QED
    BY <2>1, <2>2, StandingOnTouched, LoadRefines DEF Chase
<1>4. CASE RunAopTestLoad
  <2>1. 0 \in Chain /\ pattern[pos[0]] \in Line /\ AopRound
    BY <1>4, ConstantFacts DEF RunAopTestLoad, TypeOK
  <2>2. CountsLoad(0)
    BY <1>4 DEF RunAopTestLoad, CountsLoad, LoadsOf, TypeOK
  <2> QED
    BY <1>4, <2>1, <2>2, PointingAtTouched, LoadRefines DEF RunAopTestLoad
<1>5. CASE FillStep \/ StartRunMlpTest \/ StartRunAopTest \/ StopClock \/ UNCHANGED vars
  BY <1>5 DEF FillStep, StartRunMlpTest, StartRunAopTest, StopClock, vars,
     Fresh!freshVars, LoadsOf
<1> QED
  BY <1>1, <1>2, <1>3, <1>4, <1>5 DEF Next, Load

\* RunTest, RunMlpTest and RunAopTest implement FreshRounds: whatever the
\* region and the random pattern, every line is loaded before one is loaded
\* again, by each chain.
THEOREM WalksImplementFreshRounds == Spec => VisitsAllBeforeRepeat
<1>1. Init => Fresh!FreshInit
  BY DEF Init, Fresh!FreshInit, LoadsOf, Chain
<1> QED
  BY <1>1, Invariance, StepRefines, PTL
     DEF Spec, VisitsAllBeforeRepeat, Fresh!FreshSpec

-----------------------------------------------------------------------------
(***************************************************************************)
(* RunTlbTest, for every number of pages: the pattern tests keep their     *)
(* promises when it runs one of them (TlbWalk implements PatternWalk), and *)
(* its own walk keeps the same one page by page.                           *)
(***************************************************************************)

\* Every step of RunTlbTest is a step of the test it calls, or none of it.
LEMMA TlbStepRefines ==
  ASSUME [TlbNext]_<<vars, tlbVars>>
  PROVE  [Next]_vars
<1>1. CASE PatternTest
  BY <1>1 DEF PatternTest
<1>2. CASE TlbFillStep \/ PlaceElements \/ TlbFirstLoad \/ TlbLoopLoad \/ CallRunTest
  BY <1>2 DEF TlbFillStep, PlaceElements, TlbFirstLoad, TlbLoopLoad, CallRunTest
<1>3. CASE UNCHANGED <<vars, tlbVars>>
  BY <1>3
<1> QED
  BY <1>1, <1>2, <1>3 DEF TlbNext

\* Whether main() or RunTlbTest calls RunTest, what runs is a pattern test.
THEOREM TlbImplementsPatternWalk == TlbSpec => Spec
<1>1. TlbInit => Init
  BY DEF TlbInit
<1> QED
  BY <1>1, TlbStepRefines, PTL DEF TlbSpec, Spec

\* RunTlbTest's reference too is measured on one cycle through its region.
THEOREM ReferenceIsOneCycle == TlbSpec => []SingleCycle
<1> QED
  BY TlbImplementsPatternWalk, ShuffleMakesOneCycle, PTL

\* RunTlbTest's reference comes back to no line before it has loaded them all.
THEOREM ReferenceVisitsAll == TlbSpec => VisitsAllBeforeRepeat
<1> QED
  BY TlbImplementsPatternWalk, WalksImplementFreshRounds, PTL

\* An element is in its own page, and an array of that many pages holds it.
LEMMA PlacementInPage ==
  ASSUME NEW p \in Page
  PROVE  /\ Placement(p) \in RegionLine
         /\ Placement(p) \div PageLines = p
         /\ Placement(p) % PageLines = p % PageLines
<1>1. PageLines \in Nat \ {0} /\ p \in Nat /\ element_count \in Nat
  BY TlbAssumption, SMTT(30) DEF PageLines, Page, element_count
<1>2. p % PageLines \in 0..(PageLines - 1)
  BY <1>1, IndexIsPlace
<1>3. CASE SizeKb \div PageKb = 0
  <2>1. p = 0
    BY <1>3 DEF Page, element_count
  <2>2. SizeKb * KbLines \in Nat \ {0}
    BY TlbAssumption, SMTT(30)
  <2> QED
    BY <2>1, <2>2, <1>1, <1>2, PlaceOf DEF Placement, RegionLine, RegionLines
<1>4. CASE SizeKb \div PageKb # 0
  <2>1. Placement(p) \in 0..(element_count * PageLines - 1)
    BY <1>1, <1>2, PlaceBelow DEF Placement, Page
  <2>2. element_count * PageKb <= SizeKb
    BY <1>4, TlbAssumption, SMTT(30) DEF element_count
  <2>3. element_count * PageLines <= RegionLines
    BY <1>1, <2>2, TlbAssumption, SMTT(30) DEF PageLines, RegionLines
  <2>4. RegionLines \in Nat
    BY TlbAssumption, SMTT(30) DEF RegionLines
  <2>5. Placement(p) \in RegionLine
    <3> HIDE DEF PageLines, RegionLines, Placement
    <3> QED
    BY <2>1, <2>3, <2>4, <1>1, SMTT(30) DEF RegionLine
  <2> QED
    BY <2>5, <1>1, <1>2, PlaceOf DEF Placement
<1> QED
  BY <1>3, <1>4

(***************************************************************************)
(* What RunTlbTest keeps true: the shuffle's invariant, over the pages; an *)
(* array that, once filled, holds the pattern page by page and no other    *)
(* index; and a round of pages that lead only to each other and to the     *)
(* page the walk stands in.                                                *)
(***************************************************************************)
ElementsPlaced ==
  /\ tlbIter = 1
  /\ \A p \in Page : A[Placement(p)] = Placement(tlbPattern[p])
  /\ \A l \in RegionLine : A[l] >= 0 => \E p \in Page : l = Placement(p)

TlbRoundLeadsOn ==
  \E q \in Page :
    /\ tlbCurrent = Placement(q)
    /\ tlbTouched # {}
    /\ \A p \in tlbTouched : tlbPattern[p] \in tlbTouched \union {q}

TlbInv ==
  /\ TlbTypeOK
  /\ tlbPc \in {"fill", "start", "walk"} =>
       Shuffled(tlbPattern, Below(element_count, tlbIter), Page)
  /\ tlbPc \in {"off", "fill", "start"} =>
       tlbTouched = {} /\ tlbCurrent = 0 /\ tlbLoads = 0
  /\ IF tlbPc \in {"start", "walk"} THEN ElementsPlaced ELSE A = NoArray
  /\ tlbPc = "walk" => TlbRoundLeadsOn

\* There is a page, and page 0's element is the first of the array.
LEMMA PageFacts ==
  /\ element_count \in Nat \ {0} /\ Page = 0..(element_count - 1)
  /\ 0 \in Page /\ Placement(0) = 0 /\ 0 \in RegionLine
<1>1. element_count \in Nat \ {0}
  BY TlbAssumption, SMTT(30) DEF element_count
<1>2. PageLines \in Nat \ {0}
  BY TlbAssumption, SMTT(30) DEF PageLines
<1>3. 0 \in Page /\ Placement(0) = 0
  BY <1>1, <1>2, SMTT(30) DEF Page, Placement
<1> QED
  BY <1>1, <1>3, PlacementInPage DEF Page

\* RunTlbTest begins with the pages in order.
LEMMA InitTlbInv == TlbInit => TlbInv
<1> SUFFICES ASSUME TlbInit PROVE TlbInv
  OBVIOUS
<1>1. TlbTypeOK
  BY PageFacts, TlbAssumption DEF TlbInit, TlbTypeOK, NoArray
<1>2. Shuffled(tlbPattern, Page, Page)
  BY IdentityIsShuffled DEF TlbInit
<1>3. Below(element_count, tlbIter) = Page
  BY PageFacts, BelowEnds DEF TlbInit
<1> QED
  BY <1>1, <1>2, <1>3 DEF TlbInv, TlbInit

\* A load made while the walk stands in page q moves it to the page that the
\* pattern names, and keeps its round leading on.
LEMMA TlbLoadLeadsOn ==
  ASSUME TlbTypeOK, ElementsPlaced, NEW q \in Page, TlbLoad(Placement(q)),
         \A p \in tlbTouched : tlbPattern[p] \in tlbTouched \union {q},
         tlbPattern' = tlbPattern
  PROVE  /\ tlbTouched' = TlbRoundAfter(tlbTouched, q)
         /\ tlbTouched' \subseteq Page
         /\ tlbCurrent' \in RegionLine
         /\ TlbRoundLeadsOn'
<1>1. Placement(q) \in RegionLine /\ Placement(q) \div PageLines = q
  BY PlacementInPage
<1>2. tlbTouched' = TlbRoundAfter(tlbTouched, q)
  BY <1>1 DEF TlbLoad
<1>3. tlbCurrent' = Placement(tlbPattern[q]) /\ tlbPattern[q] \in Page
  BY <1>1 DEF TlbLoad, ElementsPlaced, TlbTypeOK
<1>4. tlbTouched' \subseteq Page
  BY <1>2 DEF TlbRoundAfter, TlbTypeOK
<1>5. tlbTouched' # {} /\ \A p \in tlbTouched' : tlbPattern[p] \in tlbTouched' \union {tlbPattern[q]}
  BY <1>2 DEF TlbRoundAfter
<1> QED
  BY <1>2, <1>3, <1>4, <1>5, PlacementInPage DEF TlbRoundLeadsOn

\* Every step of RunTlbTest keeps what it keeps true.
LEMMA NextTlbInv ==
  ASSUME TlbInv, [TlbNext]_<<vars, tlbVars>>
  PROVE  TlbInv'
<1> USE DEF TlbInv
<1>1. CASE TlbFillStep
  <2>1. PICK r \in RandIndex(tlbIter - 1) : tlbPattern' = Swap(tlbPattern, tlbIter - 1, r)
    BY <1>1 DEF TlbFillStep
  <2>2. tlbIter \in 2..element_count /\ tlbIter' = tlbIter - 1
    BY <1>1, PageFacts DEF TlbFillStep, TlbTypeOK
  <2>3. tlbPattern \in [Page -> Page] /\ Shuffled(tlbPattern, Below(element_count, tlbIter), Page)
    BY <1>1 DEF TlbFillStep, TlbTypeOK
  <2>4. /\ tlbPattern' \in [Page -> Page]
        /\ Shuffled(tlbPattern', Below(element_count, tlbIter'), Page)
    BY <2>1, <2>2, <2>3, PageFacts, TurnKeepsShuffled
  <2>5. /\ UNCHANGED <<caller, tlbPc, A, tlbCurrent, tlbLoads, tlbTouched>>
        /\ tlbPc = "fill"
    BY <1>1 DEF TlbFillStep, tlbWalk
  <2>6. TlbTypeOK'
    <3>1. TlbTypeOK /\ tlbIter' \in 1..element_count
      BY <2>2, PageFacts
    <3> QED
      BY <2>4, <2>5, <3>1 DEF TlbTypeOK
  <2> QED
    BY <2>4, <2>5, <2>6 DEF NoArray
<1>2. CASE PlaceElements
  <2>1. tlbIter = 1 /\ tlbPc = "fill" /\ tlbPattern \in [Page -> Page]
    BY <1>2 DEF PlaceElements, TlbTypeOK
  <2>2. /\ UNCHANGED <<caller, tlbIter, tlbPattern, tlbCurrent, tlbLoads, tlbTouched>>
        /\ tlbPc' = "start"
    BY <1>2 DEF PlaceElements
  <2>3. ASSUME NEW p \in Page
        PROVE  Placement(p) \in RegionLine /\ A'[Placement(p)] = Placement(tlbPattern[p])
    <3>1. \A q \in Page : Placement(q) = Placement(p) => q = p
      BY PlacementInPage
    <3>2. Placement(p) \in RegionLine
      BY PlacementInPage
    <3>3. (CHOOSE q \in Page : Placement(q) = Placement(p)) = p
      BY <3>1
    <3> QED
      BY <1>2, <3>2, <3>3 DEF PlaceElements
  <2>4. ASSUME NEW l \in RegionLine, \A p \in Page : Placement(p) # l
        PROVE  A'[l] \in {Poison, Unwritten}
    BY <1>2, <2>4 DEF PlaceElements
  <2>5. \A p \in Page : Placement(tlbPattern[p]) \in RegionLine
    BY <2>1, PlacementInPage
  <2>6. A' \in [RegionLine -> RegionLine \union {Poison, Unwritten}]
    <3>1. \A l \in RegionLine : A'[l] \in RegionLine \union {Poison, Unwritten}
      BY <2>3, <2>4, <2>5
    <3>2. A' = [l \in RegionLine |-> A'[l]]
      BY <1>2 DEF PlaceElements
    <3> QED
      BY <3>1, <3>2
  <2>7. TlbTypeOK'
    BY <2>2, <2>6 DEF TlbTypeOK
  <2>8. ElementsPlaced'
    <3>1. ~(Poison >= 0) /\ ~(Unwritten >= 0)
      BY DEF Poison, Unwritten
    <3> QED
      BY <2>1, <2>2, <2>3, <2>4, <3>1 DEF ElementsPlaced
  <2> QED
    BY <2>1, <2>2, <2>7, <2>8
<1>3. CASE TlbFirstLoad
  <2>1. /\ tlbPc = "start" /\ tlbPc' = "walk" /\ TlbLoad(Placement(0)) /\ 0 \in Page
        /\ UNCHANGED <<caller, tlbIter, tlbPattern, A>>
    BY <1>3, PageFacts DEF TlbFirstLoad
  <2>2. tlbTouched = {} /\ tlbLoads = 0 /\ ElementsPlaced
    BY <2>1
  <2>3. tlbTouched' \subseteq Page /\ tlbCurrent' \in RegionLine /\ TlbRoundLeadsOn'
    BY <2>1, <2>2, TlbLoadLeadsOn
  <2>4. tlbLoads' \in 0..(TlbIterations + 1)
    BY <2>1, <2>2, TlbAssumption DEF TlbLoad
  <2>5. TlbTypeOK'
    BY <2>1, <2>3, <2>4 DEF TlbTypeOK
  <2> QED
    BY <2>1, <2>2, <2>3, <2>5 DEF ElementsPlaced
<1>4. CASE TlbLoopLoad
  <2>1. /\ tlbPc = "walk" /\ tlbPc' = "walk" /\ TlbLoad(tlbCurrent)
        /\ tlbLoads <= TlbIterations
        /\ UNCHANGED <<caller, tlbIter, tlbPattern, A>>
    BY <1>4 DEF TlbLoopLoad
  <2>2. PICK q \in Page :
          /\ tlbCurrent = Placement(q)
          /\ \A p \in tlbTouched : tlbPattern[p] \in tlbTouched \union {q}
    BY <2>1 DEF TlbRoundLeadsOn
  <2>3. ElementsPlaced /\ TlbLoad(Placement(q))
    BY <2>1, <2>2
  <2>4. tlbTouched' \subseteq Page /\ tlbCurrent' \in RegionLine /\ TlbRoundLeadsOn'
    BY <2>1, <2>2, <2>3, TlbLoadLeadsOn
  <2>5. tlbLoads' \in 0..(TlbIterations + 1)
    BY <2>1, TlbAssumption DEF TlbLoad, TlbTypeOK
  <2>6. TlbTypeOK'
    BY <2>1, <2>4, <2>5 DEF TlbTypeOK
  <2> QED
    BY <2>1, <2>3, <2>4, <2>6 DEF ElementsPlaced
<1>5. CASE CallRunTest
  <2>1. TlbTypeOK'
    BY <1>5, PageFacts DEF CallRunTest, TlbTypeOK, NoArray
  <2> QED
    BY <1>5, <2>1 DEF CallRunTest, NoArray
<1>6. CASE PatternTest \/ UNCHANGED <<vars, tlbVars>>
  <2>1. UNCHANGED <<caller, tlbPc, tlbIter, tlbPattern, A, tlbCurrent, tlbLoads, tlbTouched>>
    BY <1>6 DEF PatternTest, tlbVars, tlbWalk
  <2> QED
    BY <2>1 DEF TlbTypeOK, ElementsPlaced, TlbRoundLeadsOn, NoArray
<1> QED
  BY <1>1, <1>2, <1>3, <1>4, <1>5, <1>6 DEF TlbNext

\* What RunTlbTest keeps true from its first step to its last.
LEMMA TlbInvariance == TlbSpec => []TlbInv
<1> QED
  BY InitTlbInv, NextTlbInv, PTL DEF TlbSpec

\* Type correctness of RunTlbTest: for every region the walk follows no poison
\* and no element that was never written, and stays in the array.
THEOREM TlbTypeCorrect == TlbSpec => []TlbTypeOK
<1>1. TlbInv => TlbTypeOK
  BY DEF TlbInv
<1> QED
  BY <1>1, TlbInvariance, PTL

\* A load from the page where the walk stands is a step of FreshRounds.
LEMMA TlbLoadRefines ==
  ASSUME TlbTypeOK, NEW q \in Page, TlbLoad(Placement(q)),
         tlbTouched' = TlbRoundAfter(tlbTouched, q),
         q \in tlbTouched => tlbTouched = Page
  PROVE  FreshPages!FreshNext
<1>1. tlbLoads' = tlbLoads + 1
  BY DEF TlbLoad
<1>2. FreshPages!Counted("tlb")
  BY <1>1 DEF FreshPages!Counted, Page
<1>3. CASE tlbTouched = Page
  <2>1. FreshPages!NewRound("tlb", q)
    BY <1>3, <1>2 DEF FreshPages!NewRound, TlbRoundAfter, Page
  <2> QED
    BY <2>1 DEF FreshPages!FreshNext
<1>4. CASE tlbTouched # Page
  <2>1. FreshPages!Touch("tlb", q)
    BY <1>4, <1>2 DEF FreshPages!Touch, TlbRoundAfter
  <2> QED
    BY <2>1 DEF FreshPages!FreshNext
<1> QED
  BY <1>3, <1>4

\* Every step of RunTlbTest is a load of a fresh page, or not a load.
LEMMA TlbStepIsFresh ==
  ASSUME TlbInv, [TlbNext]_<<vars, tlbVars>>
  PROVE  [FreshPages!FreshNext]_(FreshPages!freshVars)
<1> USE DEF TlbInv
<1>1. CASE TlbFirstLoad
  <2>1. /\ TlbLoad(Placement(0)) /\ 0 \in Page /\ tlbTouched = {} /\ ElementsPlaced
        /\ tlbPattern' = tlbPattern
    BY <1>1, PageFacts DEF TlbFirstLoad
  <2>2. tlbTouched' = TlbRoundAfter(tlbTouched, 0)
    BY <2>1, TlbLoadLeadsOn
  <2> QED
    BY <2>1, <2>2, TlbLoadRefines
<1>2. CASE TlbLoopLoad
  <2>1. /\ TlbLoad(tlbCurrent) /\ ElementsPlaced /\ TlbRoundLeadsOn
        /\ tlbPattern' = tlbPattern /\ tlbIter = 1
        /\ Shuffled(tlbPattern, Below(element_count, 1), Page)
    BY <1>2 DEF TlbLoopLoad, ElementsPlaced
  <2>2. PICK q \in Page :
          /\ tlbCurrent = Placement(q)
          /\ tlbTouched # {}
          /\ \A p \in tlbTouched : tlbPattern[p] \in tlbTouched \union {q}
    BY <2>1 DEF TlbRoundLeadsOn
  <2>3. tlbTouched' = TlbRoundAfter(tlbTouched, q)
    BY <2>1, <2>2, TlbLoadLeadsOn
  <2>4. q \in tlbTouched => tlbTouched = Page
    <3> HAVE q \in tlbTouched
    <3>1. ClosedUnder(tlbPattern, tlbTouched) /\ tlbTouched \in SUBSET Page
      BY <2>2 DEF ClosedUnder, TlbTypeOK
    <3>2. IsOneCycle(tlbPattern, Page)
      BY <2>1, PageFacts, ShuffledOnce
    <3> QED
      BY <2>2, <3>1, <3>2 DEF IsOneCycle
  <2> QED
    BY <2>1, <2>2, <2>3, <2>4, TlbLoadRefines
<1>3. CASE TlbFillStep \/ PlaceElements \/ CallRunTest \/ PatternTest \/ UNCHANGED <<vars, tlbVars>>
  <2>1. tlbTouched' = tlbTouched /\ tlbLoads' = tlbLoads
    BY <1>3 DEF TlbFillStep, PlaceElements, CallRunTest, PatternTest, tlbVars, tlbWalk
  <2> QED
    BY <2>1 DEF FreshPages!freshVars, Page
<1> QED
  BY <1>1, <1>2, <1>3 DEF TlbNext

\* RunTlbTest loads from every page of the region before it loads from one
\* again: its walk implements FreshRounds over the pages, for every size.
THEOREM TlbWalkImplementsFreshRounds == TlbSpec => OneElementPerPage
<1>1. TlbInit => FreshPages!FreshInit
  BY DEF TlbInit, FreshPages!FreshInit
<1> QED
  BY <1>1, TlbInvariance, TlbStepIsFresh, PTL
     DEF TlbSpec, OneElementPerPage, FreshPages!FreshSpec

\* The last page, if any, that is before page p and has its element at offset q
\* of the page, m being the offsets there are.
Nearby(m, p, q) == p + (q - (p % m)) - (IF q < p % m THEN 0 ELSE m)

\* A page has a page before it with its element at another given offset, except
\* the first of the pages with their element where this page has it.
LEMMA NearbyPage ==
  ASSUME NEW m \in Nat \ {0}, NEW p \in Nat, NEW q \in 0..(m - 1),
         p # p % m, p % m # q
  PROVE  Nearby(m, p, q) \in 0..p /\ Nearby(m, p, q) % m = q
<1> USE DEF Nearby
<1> DEFINE o == p % m
           k == p \div m
<1>1. p = k * m + o /\ o \in 0..(m - 1) /\ k \in Nat
  BY IndexIsPlace
<1> HIDE DEF o, k
<1>2. k # 0
  BY <1>1, SMTT(30) DEF o
<1>3. k * m = (k - 1) * m + m /\ (k - 1) * m \in Nat /\ k - 1 \in Nat
  BY <1>1, <1>2, SMTT(30)
<1>4. CASE q < o
  <2>1. (k * m + q) % m = q
    BY <1>1, PlaceOf
  <2>2. k * m \in Nat
    BY <1>3
  <2> DEFINE b == k * m
  <2>3. p = b + o /\ b \in Nat /\ (b + q) % m = q
    BY <1>1, <2>1, <2>2
  <2> HIDE DEF b
  <2>4. p + (q - o) - 0 = b + q /\ b + q \in 0..p
    BY <1>1, <1>4, <2>3
  <2> QED
    BY <1>4, <2>3, <2>4 DEF o
<1>5. CASE ~(q < o)
  <2>1. ((k - 1) * m + q) % m = q
    BY <1>3, PlaceOf
  <2> DEFINE b == (k - 1) * m
  <2>2. p = b + m + o /\ b \in Nat /\ (b + q) % m = q
    BY <1>1, <1>3, <2>1
  <2> HIDE DEF b
  <2>3. p + (q - o) - m = b + q /\ b + q \in 0..p
    BY <1>1, <2>2
  <2> QED
    BY <1>5, <2>2, <2>3 DEF o
<1> QED
  BY <1>4, <1>5

\* No offset in a page is that of two elements more than another, whatever the
\* size of the region: the elements are spread over the sets of a cache.
THEOREM TlbElementsSpread == TlbSpec => []SpreadOverSets
<1>1. ASSUME TlbInv PROVE SpreadOverSets
  <2> DEFINE m == PageLines
             At(o) == {l \in RegionLine : A[l] >= 0 /\ l % m = o}
  <2> SUFFICES ASSUME NEW o \in 0..(m - 1), NEW q \in 0..(m - 1)
               PROVE  Cardinality(At(o)) <= Cardinality(At(q)) + 1
    BY DEF SpreadOverSets
  <2>1. RegionLines \in Nat /\ m \in Nat \ {0}
    BY TlbAssumption, SMTT(30) DEF RegionLines, PageLines
  <2>2. IsFiniteSet(RegionLine)
    BY <2>1, FS_Interval DEF RegionLine
  <2>3. \A x \in 0..(m - 1) : IsFiniteSet(At(x)) /\ Cardinality(At(x)) \in Nat
    <3> TAKE x \in 0..(m - 1)
    <3>1. At(x) \in SUBSET RegionLine
      OBVIOUS
    <3> HIDE DEF At
    <3> QED
      BY <3>1, <2>2, FS_Subset, FS_CardinalityType
  <2>4. CASE tlbPc \notin {"start", "walk"}
    <3>1. \A l \in RegionLine : A[l] = Unwritten
      BY <1>1, <2>4 DEF TlbInv, NoArray
    <3>2. At(o) = {}
      BY <3>1 DEF Unwritten
    <3>3. Cardinality(At(o)) = 0
      BY <3>2, FS_EmptySet
    <3> HIDE DEF At
    <3> QED
      BY <2>3, <3>3
  <2>5. CASE o = q
    <3> HIDE DEF At
    <3> QED
      BY <2>3, <2>5
  <2>6. CASE tlbPc \in {"start", "walk"} /\ o # q
    <3> DEFINE first == Placement(o)
               r(l) == Nearby(m, l \div m, q)
               f == [l \in At(o) \ {first} |-> Placement(r(l))]
    <3>1. ASSUME NEW l \in At(o) \ {first}
          PROVE  /\ l \div m \in Page /\ l = Placement(l \div m)
                 /\ r(l) \in Page /\ Placement(r(l)) \in At(q)
      <4>1. l \in RegionLine /\ A[l] >= 0 /\ l % m = o /\ l # first
        OBVIOUS
      <4>2. PICK p \in Page : l = Placement(p)
        BY <1>1, <2>6, <4>1 DEF TlbInv, ElementsPlaced
      <4>3. p = l \div m /\ p % m = o /\ p # o
        BY <4>1, <4>2, PlacementInPage
      <4>4. p \in 0..(element_count - 1) /\ element_count \in Nat
        BY PageFacts
      <4> HIDE DEF m
      <4>5. r(l) \in Page /\ r(l) % m = q
        <5>1. p \in Nat /\ p # p % m /\ p % m # q
          BY <2>6, <4>3, <4>4
        <5>2. Nearby(m, p, q) \in 0..p /\ Nearby(m, p, q) % m = q
          BY <2>1, <5>1, NearbyPage
        <5>3. Nearby(m, p, q) \in Page
          BY <4>4, <5>2, PageFacts
        <5> QED
          BY <4>3, <5>2, <5>3
      <4> HIDE DEF r
      <4>6. Placement(r(l)) \in RegionLine /\ Placement(r(l)) % m = q
        BY <4>5, PlacementInPage DEF m
      <4>7. A[Placement(r(l))] = Placement(tlbPattern[r(l)]) /\ tlbPattern[r(l)] \in Page
        <5>1. ElementsPlaced /\ tlbPattern \in [Page -> Page]
          BY <1>1, <2>6 DEF TlbInv, TlbTypeOK
        <5> QED
          BY <4>5, <5>1 DEF ElementsPlaced
      <4>8. A[Placement(r(l))] >= 0
        BY <4>7, <2>1, PlacementInPage DEF RegionLine
      <4> QED
        BY <4>2, <4>3, <4>5, <4>6, <4>8
    <3>2. ASSUME NEW k \in At(o) \ {first}, NEW l \in At(o) \ {first}, f[k] = f[l]
          PROVE  k = l
      <4> HIDE DEF At, m
      <4>1. f[k] = Placement(r(k)) /\ f[l] = Placement(r(l))
        OBVIOUS
      <4>2. r(k) \in Page /\ r(l) \in Page
        BY <3>1
      <4> HIDE DEF f
      <4>3. r(k) = r(l)
        <5> HIDE DEF r
        <5> QED
          BY <3>2, <4>1, <4>2, PlacementInPage
      <4>4. k \div m \in Nat /\ l \div m \in Nat
        BY <3>1, PageFacts
      <4>5. k \div m = l \div m
        <5>1. k % m = o /\ l % m = o
          BY DEF At
        <5>2. (k \div m) % m = o /\ (l \div m) % m = o
          BY <3>1, <5>1, PlacementInPage DEF m
        <5> DEFINE a == k \div m
                   b == l \div m
                   d == IF q < o THEN 0 ELSE m
        <5>3. r(k) = a + (q - o) - d /\ r(l) = b + (q - o) - d
          BY <5>2 DEF Nearby
        <5>4. a \in Nat /\ b \in Nat /\ d \in Nat /\ q \in Nat /\ o \in Nat
          BY <2>1, <4>4
        <5>5. r(k) = r(l)
          BY <4>3
        <5> HIDE DEF a, b, d, r
        <5>6. a = b
          BY <5>3, <5>4, <5>5
        <5> QED
          BY <5>6 DEF a, b
      <4> QED
        BY <3>1, <4>5
    <3>3. f \in Injection(At(o) \ {first}, At(q))
      <4> HIDE DEF At, r
      <4>1. f \in [At(o) \ {first} -> At(q)]
        BY <3>1
      <4> QED
        BY <3>2, <4>1, Fun_IsInj
    <3> HIDE DEF At, f, first
    <3>4. Cardinality(At(o) \ {first}) <= Cardinality(At(q))
      BY <2>3, <3>3, FS_Injection
    <3>5. Cardinality(At(o) \ {first})
             = IF first \in At(o) THEN Cardinality(At(o)) - 1 ELSE Cardinality(At(o))
      BY <2>3, FS_RemoveElement
    <3> QED
      BY <2>3, <3>4, <3>5
  <2> QED
    BY <2>4, <2>5, <2>6
<1> QED
  BY <1>1, TlbInvariance, PTL
=============================================================================
