---------------------------- MODULE CacheProofs -----------------------------
(***************************************************************************)
(* Proofs about CacheControl, CacheProbes and LoadedLatency: cacheflush    *)
(* reaches every line of its range, wherever it begins, the times printed  *)
(* are of the level that their heading names, and the threads of the load  *)
(* and cache_other_xis stay where they should.                             *)
(***************************************************************************)
EXTENDS LoadedLatency, TLAPS

\* A number lies in the stretch of a line's size that its quotient counts.
LEMMA Division ==
  ASSUME NEW n \in Nat
  PROVE  /\ n \div CACHE_LINE_SIZE \in Nat
         /\ CACHE_LINE_SIZE * (n \div CACHE_LINE_SIZE) <= n
         /\ n < CACHE_LINE_SIZE * (n \div CACHE_LINE_SIZE) + CACHE_LINE_SIZE
<1> DEFINE q == n \div CACHE_LINE_SIZE
<1>1. q \in Nat
  BY LineAssumption
<1>2. q * CACHE_LINE_SIZE <= n
  BY LineAssumption
<1>3. n < q * CACHE_LINE_SIZE + CACHE_LINE_SIZE
  BY LineAssumption
<1>4. q * CACHE_LINE_SIZE = CACHE_LINE_SIZE * q
  BY <1>1, LineAssumption
<1> HIDE DEF q
<1>5. CACHE_LINE_SIZE * q <= n /\ n < CACHE_LINE_SIZE * q + CACHE_LINE_SIZE
  BY <1>2, <1>3, <1>4
<1> QED
  BY <1>1, <1>5 DEF q

\* A quotient is known by its product and remainder.
LEMMA Quotient ==
  ASSUME NEW q \in Nat, NEW r \in 0..(CACHE_LINE_SIZE - 1)
  PROVE  /\ (CACHE_LINE_SIZE * q + r) \div CACHE_LINE_SIZE = q
         /\ (CACHE_LINE_SIZE * q + r) % CACHE_LINE_SIZE = r
  BY LineAssumption

\* A later byte is in no earlier line.
LEMMA LinesAscend ==
  ASSUME NEW m \in Nat, NEW n \in Nat, m <= n
  PROVE  LineOf(m) <= LineOf(n)
  BY LineAssumption DEF LineOf

\* A line further on is the next line.
LEMMA NextLine ==
  ASSUME NEW n \in Nat
  PROVE  LineOf(n + CACHE_LINE_SIZE) = LineOf(n) + 1
  BY LineAssumption DEF LineOf

\* cacheflush (lines 14-16 of cache.hpp) reaches the line of every byte of its
\* range, and no other line, wherever in a line the range begins and ends: the
\* loop alone would leave out a last line.
THEOREM FlushCoversTheRange ==
  ASSUME NEW address \in Nat, NEW num_bytes \in Nat \ {0}
  PROVE  FlushedLines(address, num_bytes) = LinesOf(address, num_bytes)
<1> DEFINE L == CACHE_LINE_SIZE
<1>0. L \in Nat \ {0}
  BY LineAssumption
<1>1. FlushedLines(address, num_bytes) \subseteq LinesOf(address, num_bytes)
  BY DEF FlushedLines, LinesOf
<1>2. ASSUME NEW n \in 0..(num_bytes - 1)
      PROVE  LineOf(address + n) \in FlushedLines(address, num_bytes)
  <2> DEFINE q == n \div L
             m == L * q
  <2>1. q \in Nat /\ m \in Nat /\ m <= n /\ n < m + L
    BY <1>0, Division
  <2>2. m % L = 0 /\ (m + L) % L = 0
    <3>1. m = L * q + 0 /\ m + L = L * (q + 1) + 0
      BY <1>0, <2>1
    <3>2. (L * q + 0) % L = 0
      BY <1>0, <2>1, Quotient
    <3>3. (L * (q + 1) + 0) % L = 0
      BY <1>0, <2>1, Quotient
    <3> QED
      BY <3>1, <3>2, <3>3
  <2>3. LineOf(address + m) \in FlushedLines(address, num_bytes)
    BY <2>1, <2>2 DEF FlushedLines
  <2>4. /\ LineOf(address + m) <= LineOf(address + n)
        /\ LineOf(address + n) <= LineOf(address + m) + 1
        /\ LineOf(address + m) \in Nat /\ LineOf(address + n) \in Nat
    <3> HIDE DEF m, q
    <3>1. address + m \in Nat /\ address + n \in Nat /\ address + m <= address + n
      BY <2>1
    <3>2. LineOf(address + n) <= LineOf((address + m) + L)
      BY <1>0, <2>1, <3>1, LinesAscend
    <3>3. LineOf((address + m) + L) = LineOf(address + m) + 1
      BY <3>1, NextLine
    <3>4. LineOf(address + m) \in Nat /\ LineOf(address + n) \in Nat
      BY <3>1, Division DEF LineOf
    <3>5. LineOf(address + m) <= LineOf(address + n)
      BY <3>1, LinesAscend
    <3> QED
      BY <3>2, <3>3, <3>4, <3>5
  <2>5. CASE LineOf(address + n) = LineOf(address + m)
    BY <2>3, <2>5
  <2>6. CASE LineOf(address + n) = LineOf(address + m) + 1
    <3> HIDE DEF m, q
    <3>1. LineOf(address + (m + L)) = LineOf(address + n)
      BY <2>1, <2>6, <1>0, NextLine
    <3>2. CASE m + L <= num_bytes - 1
      BY <1>0, <2>1, <2>2, <3>1, <3>2 DEF FlushedLines
    <3>3. CASE num_bytes - 1 < m + L
      <4>1. /\ address + (num_bytes - 1) \in Nat /\ address + n \in Nat
            /\ address + (m + L) \in Nat
            /\ address + n <= address + (num_bytes - 1)
            /\ address + (num_bytes - 1) <= address + (m + L)
        BY <1>0, <2>1, <3>3
      <4>2. LineOf(address + n) <= LineOf(address + (num_bytes - 1))
        BY <4>1, LinesAscend
      <4>3. LineOf(address + (num_bytes - 1)) <= LineOf(address + (m + L))
        BY <4>1, LinesAscend
      <4>4. LineOf(address + (num_bytes - 1)) \in Nat
        BY <4>1, Division DEF LineOf
      <4>5. LineOf(address + num_bytes - 1) = LineOf(address + n)
        <5>1. address + num_bytes - 1 = address + (num_bytes - 1)
          OBVIOUS
        <5>2. LineOf(address + (num_bytes - 1)) = LineOf(address + n)
          BY <2>4, <3>1, <4>2, <4>3, <4>4
        <5> QED
          BY <5>1, <5>2
      <4> QED
        BY <4>5 DEF FlushedLines
    <3> QED
      BY <1>0, <2>1, <3>2, <3>3
  <2> QED
    BY <2>4, <2>5, <2>6
<1> QED
  BY <1>1, <1>2 DEF LinesOf

-----------------------------------------------------------------------------
Heading == Phases[program][phase].heading
FromRam == Heading = "RAM"

\* Where the program is, and what it may have under way: flushes are issued in
\* the second step of cacheflush and are complete when the third is over; from
\* then to the timed load the line is in no cache; and it is in one otherwise,
\* but for what others do.
LineInv ==
  /\ program \in Program
  /\ pc \in {"start", "team", "trials", "printed", "exited"}
  /\ phase \in 1..Headings
  /\ step \in 1..(Len(Prepare) + 1)
  /\ pc \in {"start", "team"} => step = 1
  /\ program # "latency_vs_bandwidth" => num_threads = team
  /\ where \in Level
  /\ flushing # {} => pc = "trials" /\ FromRam /\ step = 3
  /\ pc = "trials" /\ FromRam /\ step = 3 => where = Memory \/ LineOf(X) \in flushing
  /\ pc = "trials" /\ FromRam /\ step = 4 => where = Memory
  /\ pc = "trials" /\ ~moved /\ where = Memory => FromRam /\ step \in 3..4

\* The strengthening of TimesMeanWhatTheySay.
Inv == LineInv /\ TimesMeanWhatTheySay

\* The preparations: that of "RAM" is cacheflush, the others flush nothing.
LEMMA PhaseFacts ==
  ASSUME NEW p \in Program, NEW n \in 1..Len(Phases[p])
  PROVE  /\ Len(Phases[p]) \in Nat
         /\ Phases[p][n].heading # "none"
         /\ Len(Phases[p][n].prepare) \in Nat
         /\ Phases[p][n].heading = "RAM" =>
              /\ Len(Phases[p][n].prepare) = 3
              /\ Phases[p][n].prepare[1] = "fence"
              /\ Phases[p][n].prepare[2] = "flush"
              /\ Phases[p][n].prepare[3] = "fence"
         /\ Phases[p][n].heading # "RAM" =>
              \A s \in 1..Len(Phases[p][n].prepare) : Phases[p][n].prepare[s] # "flush"
<1>1. p \in {"basiccache", "l1_replacement_strategy", "latency_vs_bandwidth"}
  BY DEF Program, Phases
<1>2. CASE p = "basiccache"
  <2>1. Len(Phases[p]) = 5
    BY <1>2 DEF Phases, BasicHeadings
  <2>2. CASE n \in {1, 2}
    BY <1>2, <2>1, <2>2 DEF Phases, BasicHeadings, cacheflush
  <2>3. CASE n \in {3, 4, 5}
    BY <1>2, <2>1, <2>3 DEF Phases, BasicHeadings, cacheflush
  <2> QED
    BY <2>1, <2>2, <2>3
<1>3. CASE p = "l1_replacement_strategy"
  <2>1. Len(Phases[p]) = 3
    BY <1>3 DEF Phases, ReplacementHeadings
  <2> QED
    <3>1. CASE n = 1
      BY <1>3, <2>1, <3>1 DEF Phases, ReplacementHeadings, cacheflush
    <3>2. CASE n = 2
      BY <1>3, <2>1, <3>2 DEF Phases, ReplacementHeadings, cacheflush
    <3>3. CASE n = 3
      BY <1>3, <2>1, <3>3 DEF Phases, ReplacementHeadings, cacheflush
    <3> QED
      BY <2>1, <3>1, <3>2, <3>3
<1>4. CASE p = "latency_vs_bandwidth"
  <2>1. Len(Phases[p]) = 1
    BY <1>4 DEF Phases, LoadedHeadings
  <2> QED
    BY <1>4, <2>1 DEF Phases, LoadedHeadings, cacheflush
<1> QED
  BY <1>1, <1>2, <1>3, <1>4

\* No program starts with a flush under way.
LEMMA InitInv == Init => Inv
<1> SUFFICES ASSUME Init PROVE Inv
  OBVIOUS
<1>1. /\ program \in Program /\ pc = "start" /\ phase = 1 /\ step = 1
      /\ where = Memory /\ flushing = {} /\ moved = FALSE /\ last.heading = "none"
      /\ program # "latency_vs_bandwidth" => num_threads = team
  BY DEF Init, ProbeInit
<1>2. phase \in 1..Headings /\ Len(Prepare) \in Nat
  <2>1. Len(Phases[program]) \in Nat \ {0}
    BY <1>1 DEF Program, Phases, BasicHeadings, ReplacementHeadings, LoadedHeadings
  <2>2. phase \in 1..Headings
    BY <1>1, <2>1 DEF Headings
  <2> QED
    BY <1>1, <2>2, PhaseFacts DEF Headings, Prepare
<1>3. TimesMeanWhatTheySay
  BY <1>1 DEF TimesMeanWhatTheySay
<1>4. LineInv
  BY <1>1, <1>2 DEF LineInv, Level, L1, Memory
<1> QED
  BY <1>3, <1>4 DEF Inv

\* What the preparation of the heading at hand is.
LEMMA PrepareFacts ==
  ASSUME LineInv
  PROVE  /\ Headings \in Nat /\ phase \in 1..Headings
         /\ Len(Prepare) \in Nat
         /\ Heading # "none"
         /\ FromRam => /\ Len(Prepare) = 3
                       /\ Prepare[1] = "fence" /\ Prepare[2] = "flush" /\ Prepare[3] = "fence"
         /\ ~FromRam => \A s \in 1..Len(Prepare) : Prepare[s] # "flush"
  BY PhaseFacts DEF LineInv, Headings, Prepare, FromRam, Heading

\* cacheflush(x, 8) reaches the line of x.
LEMMA FlushReachesX == LineOf(X) \in FlushedLines(X, 8)
<1>1. FlushedLines(X, 8) = LinesOf(X, 8)
  BY FlushCoversTheRange, LineAssumption
<1>2. LineOf(X + 0) \in LinesOf(X, 8)
  BY DEF LinesOf
<1>3. X + 0 = X
  BY LineAssumption
<1> QED
  BY <1>1, <1>2, <1>3

\* A step of the preparation.
LEMMA PrepareLineInv ==
  ASSUME Inv, PrepareLine, UNCHANGED loadVars
  PROVE  Inv'
<1>0. /\ pc = "trials" /\ step \in 1..Len(Prepare) /\ step' = step + 1
      /\ UNCHANGED <<program, pc, phase, last, num_threads, team>>
  BY DEF PrepareLine, Prepared, InTrial, Inv, LineInv, loadVars
<1>1. Prepare' = Prepare /\ Headings' = Headings /\ FromRam' = FromRam
  BY <1>0 DEF Prepare, Headings, FromRam, Heading
<1>2. TimesMeanWhatTheySay'
  BY <1>0 DEF Inv, TimesMeanWhatTheySay
<1>3. /\ program' \in Program /\ pc' = "trials" /\ phase' \in 1..Headings'
      /\ step' \in 1..(Len(Prepare') + 1)
  BY <1>0, <1>1, PrepareFacts DEF Inv, LineInv
<1>4. CASE InTrial("fence") /\ Fence
  <2>1. flushing = {} /\ UNCHANGED line
    BY <1>4 DEF Fence
  <2>2. FromRam => step \in {1, 3}
    <3>1. Prepare[step] = "fence"
      BY <1>4 DEF InTrial
    <3>2. FromRam => step \in 1..3 /\ Prepare[2] = "flush"
      BY <1>0, PrepareFacts DEF Inv
    <3> QED
      BY <3>1, <3>2
  <2> QED
    BY <1>0, <1>1, <1>2, <1>3, <2>1, <2>2 DEF Inv, LineInv, line
<1>5. CASE InTrial("flush") /\ Flush
  <2>1. FromRam /\ step = 2
    BY <1>0, <1>5, PrepareFacts DEF InTrial, Inv
  <2>2. LineOf(X) \in flushing' /\ UNCHANGED <<where, moved>>
    BY <1>5, FlushReachesX DEF Flush
  <2> QED
    BY <1>0, <1>1, <1>2, <1>3, <2>1, <2>2 DEF Inv, LineInv
<1>6. CASE InTrial("read") /\ Read
  <2>1. ~FromRam
    BY <1>0, <1>6, PrepareFacts DEF InTrial, Inv
  <2>2. where' = L1 /\ moved' = FALSE /\ flushing' = flushing
    BY <1>6 DEF Read
  <2> QED
    BY <1>0, <1>1, <1>2, <1>3, <2>1, <2>2 DEF Inv, LineInv, Level, L1, Memory
<1>7. CASE InTrial("demote") /\ Demote
  <2>1. ~FromRam
    BY <1>0, <1>7, PrepareFacts DEF InTrial, Inv
  <2>2. /\ where' \in Level /\ (where # Memory => where' # Memory)
        /\ UNCHANGED <<flushing, moved>>
    BY <1>7 DEF Demote, Inv, LineInv, Level, L1, L3, Memory
  <2> QED
    BY <1>0, <1>1, <1>2, <1>3, <2>1, <2>2 DEF Inv, LineInv
<1>8. CASE InTrial("overwrite") /\ Disturb
  <2>1. ~FromRam
    BY <1>0, <1>8, PrepareFacts DEF InTrial, Inv
  <2>2. where' \in Level /\ moved' = TRUE /\ flushing' = flushing
    BY <1>8 DEF Disturb, Inv, LineInv, Level, L1, Memory
  <2> QED
    BY <1>0, <1>1, <1>2, <1>3, <2>1, <2>2 DEF Inv, LineInv
<1> QED
  BY <1>4, <1>5, <1>6, <1>7, <1>8 DEF PrepareLine

\* The loop of cache_other_xis.
LEMMA OthersInv ==
  ASSUME Inv, TouchOther \/ OthersTouched, UNCHANGED loadVars
  PROVE  Inv'
<1>0. /\ pc = "trials" /\ step \in 1..Len(Prepare) /\ Prepare[step] = "others"
      /\ UNCHANGED <<program, pc, phase, last, num_threads, team>>
  BY DEF TouchOther, OthersTouched, Prepared, InTrial, Inv, LineInv, loadVars
<1>1. Prepare' = Prepare /\ Headings' = Headings /\ FromRam' = FromRam /\ ~FromRam
  BY <1>0, PrepareFacts DEF Prepare, Headings, FromRam, Heading, Inv
<1>2. TimesMeanWhatTheySay'
  BY <1>0 DEF Inv, TimesMeanWhatTheySay
<1>3. CASE TouchOther
  <2>1. where' \in Level /\ moved' = TRUE /\ flushing' = flushing /\ step' = step
    BY <1>3 DEF TouchOther, Disturb, Inv, LineInv, Level, L1, Memory
  <2> QED
    BY <1>0, <1>1, <1>2, <2>1 DEF Inv, LineInv
<1>4. CASE OthersTouched
  <2>1. UNCHANGED <<where, moved, flushing>> /\ step' = step + 1
    BY <1>4 DEF OthersTouched, Prepared, line
  <2> QED
    BY <1>0, <1>1, <1>2, <2>1, PrepareFacts DEF Inv, LineInv
<1> QED
  BY <1>3, <1>4

\* The timed load.
LEMMA TimeInv ==
  ASSUME Inv, Time, UNCHANGED loadVars
  PROVE  Inv'
<1>0. /\ pc = "trials" /\ step = Len(Prepare) + 1 /\ step' = 1
      /\ where' = L1 /\ moved' = FALSE /\ flushing' = flushing
      /\ last' = [heading |-> Heading, from |-> where, moved |-> moved]
      /\ UNCHANGED <<program, num_threads, team>>
  BY PrepareFacts DEF Time, Read, Heading, Inv, LineInv, loadVars
<1>1. /\ pc' \in {"trials", "printed"} /\ phase' \in 1..Headings'
  <2>1. Headings' = Headings
    BY <1>0 DEF Headings
  <2>2. phase' \in 1..Headings
    BY <2>1, PrepareFacts DEF Time, Inv
  <2> QED
    BY <1>0, <2>1, <2>2 DEF Time
<1>2. /\ FromRam => where = Memory
      /\ ~FromRam /\ ~moved => where # Memory
  <2>1. FromRam => step = 4
    <3> SUFFICES ASSUME FromRam PROVE step = 4
      OBVIOUS
    <3>1. Len(Prepare) = 3
      BY PrepareFacts DEF Inv
    <3>2. step = Len(Prepare) + 1
      BY <1>0
    <3> QED
      BY <3>1, <3>2
  <2>2. FromRam => where = Memory
    BY <1>0, <2>1 DEF Inv, LineInv
  <2>3. ~FromRam /\ ~moved => where # Memory
    BY <1>0 DEF Inv, LineInv
  <2> QED
    BY <2>2, <2>3
<1>3. TimesMeanWhatTheySay'
  BY <1>0, <1>1, <1>2, PrepareFacts DEF TimesMeanWhatTheySay, FromRam, Inv
<1>4. flushing = {}
  BY <1>0, PrepareFacts DEF Inv, LineInv
<1>5. Len(Prepare') \in Nat
  BY <1>0, <1>1, PhaseFacts DEF Prepare, Headings, Inv, LineInv
<1> QED
  BY <1>0, <1>1, <1>3, <1>4, <1>5 DEF Inv, LineInv, Level, L1, Memory

\* The warm-up, with a team or without.
LEMMA WarmupInv ==
  ASSUME Inv, NEW from \in {"start", "team"}, Warmup(from), UNCHANGED loadVars,
         num_threads = team
  PROVE  Inv'
<1>0. /\ pc = from /\ pc' = "trials" /\ where' \in Level /\ moved' = (where' # L1)
      /\ UNCHANGED <<program, flushing, phase, step, last, num_threads, team>>
  BY DEF Warmup, loadVars
<1>1. Prepare' = Prepare /\ Headings' = Headings /\ FromRam' = FromRam
  BY <1>0 DEF Prepare, Headings, FromRam, Heading
<1>2. flushing = {}
  BY <1>0 DEF Inv, LineInv
<1>3. ~moved' => where' # Memory
  <2>1. ~moved' => where' = L1
    BY <1>0
  <2> QED
    BY <2>1 DEF L1, Memory
<1>4. step' = 1
  BY <1>0 DEF Inv, LineInv
<1>5. TimesMeanWhatTheySay'
  BY <1>0 DEF Inv, TimesMeanWhatTheySay
<1> QED
  BY <1>0, <1>1, <1>2, <1>3, <1>4, <1>5 DEF Inv, LineInv

\* Thread 0 between its trials, the load, and the machine.
LEMMA NextInv ==
  ASSUME Inv, [Next]_vars
  PROVE  Inv'
<1>1. CASE Fork
  <2>1. /\ pc = "start" /\ pc' = "team" /\ program = "latency_vs_bandwidth"
        /\ UNCHANGED <<program, phase, step, where, flushing, moved, last>>
    BY <1>1 DEF Fork, trialVars, line
  <2>2. Prepare' = Prepare /\ Headings' = Headings /\ FromRam' = FromRam
    BY <2>1 DEF Prepare, Headings, FromRam, Heading
  <2> QED
    BY <2>1, <2>2 DEF Inv, LineInv, TimesMeanWhatTheySay
<1>2. CASE Alone
  <2>1. num_threads = team
    BY <1>2 DEF Alone, Inv, LineInv
  <2> QED
    BY <1>2, <2>1, WarmupInv DEF Alone
<1>3. CASE Measure
  BY <1>3, WarmupInv DEF Measure, TeamAccepted
<1>4. CASE Refuse \/ Finish
  <2>1. /\ pc # "trials" /\ pc' = "exited"
        /\ UNCHANGED <<program, phase, step, where, flushing, moved, last, num_threads, team>>
    BY <1>4 DEF Refuse, Finish, Exit, trialVars, line, loadVars
  <2>2. Prepare' = Prepare /\ Headings' = Headings /\ FromRam' = FromRam
    BY <2>1 DEF Prepare, Headings, FromRam, Heading
  <2> QED
    BY <2>1, <2>2 DEF Inv, LineInv, TimesMeanWhatTheySay
<1>5. CASE Trial
  BY <1>5, PrepareLineInv, OthersInv, TimeInv DEF Trial
<1>6. CASE Loaders \/ UNCHANGED vars
  <2>1. UNCHANGED <<program, pc, phase, step, where, flushing, moved, last, num_threads, team>>
    BY <1>6 DEF Loaders, EnterKernel, Load, vars, probeVars, trialVars, line, loadVars
  <2>2. Prepare' = Prepare /\ Headings' = Headings /\ FromRam' = FromRam
    BY <2>1 DEF Prepare, Headings, FromRam, Heading
  <2> QED
    BY <2>1, <2>2 DEF Inv, LineInv, TimesMeanWhatTheySay
<1>7. CASE Evict
  <2>1. /\ where' \in where..Memory /\ moved' = TRUE
        /\ UNCHANGED <<program, pc, phase, step, flushing, last, num_threads, team>>
    BY <1>7 DEF Evict, Pushed, Disturb, loadVars
  <2>2. Prepare' = Prepare /\ Headings' = Headings /\ FromRam' = FromRam
    BY <2>1 DEF Prepare, Headings, FromRam, Heading
  <2>3. where' \in Level /\ (where = Memory => where' = Memory)
    BY <2>1 DEF Inv, LineInv, Level, L1, Memory
  <2> QED
    BY <2>1, <2>2, <2>3 DEF Inv, LineInv, TimesMeanWhatTheySay
<1>8. CASE \E l \in FlushedLines(X, 8) : CompleteFlush(l)
  <2> PICK l \in FlushedLines(X, 8) : CompleteFlush(l)
    BY <1>8
  <2>1. /\ l \in flushing /\ flushing' = flushing \ {l}
        /\ where' = IF l = LineOf(X) THEN Memory ELSE where
        /\ UNCHANGED <<program, pc, phase, step, moved, last, num_threads, team>>
    BY DEF CompleteFlush, Flushed, FlushDone, loadVars
  <2>2. Prepare' = Prepare /\ Headings' = Headings /\ FromRam' = FromRam
    BY <2>1 DEF Prepare, Headings, FromRam, Heading
  <2>3. pc = "trials" /\ FromRam /\ step = 3
    BY <2>1 DEF Inv, LineInv
  <2>4. where' \in Level /\ (where' = Memory \/ LineOf(X) \in flushing')
    BY <2>1, <2>3 DEF Inv, LineInv, Level, L1, Memory
  <2> QED
    BY <2>1, <2>2, <2>3, <2>4 DEF Inv, LineInv, TimesMeanWhatTheySay
<1> QED
  BY <1>1, <1>2, <1>3, <1>4, <1>5, <1>6, <1>7, <1>8 DEF Next, Thread0

\* For every size of a line, number of trials and threads, and whatever the
\* other programs of the machine do: the loads that are timed as loads from
\* memory are, the others are not unless something has interfered, and a
\* loaded latency is printed only of a whole team.
THEOREM TimesAreOfTheirLevel == Spec => []TimesMeanWhatTheySay
<1>1. Inv => TimesMeanWhatTheySay
  BY DEF Inv
<1> QED
  BY <1>1, InitInv, NextInv, PTL DEF Spec

-----------------------------------------------------------------------------
\* Type correctness: the elements that cache_other_xis uses, and the segments
\* of the load.

\* The rivals are whole pages of doubles away from x, and the load's threads
\* are at work only in a team that has begun.
ProbeInv ==
  /\ flushing \subseteq FlushedLines(X, 8) /\ moved \in BOOLEAN
  /\ trial \in 0..(Trials - 1)
  /\ j \in 0..(Repeats * Pages * Pages + Pages - 1)
  /\ \E m \in 1..(Pages - 1) : rival = RivalAddress(m)

LoadInv ==
  /\ num_threads \in 1..MaxThreads /\ team \in 1..num_threads
  /\ kernel \in [Loader -> {"idle", "loop", "barrier"}]
  /\ i \in [Loader -> Nat]
  /\ it \in [Loader -> 0..num_iterations]
  /\ pc = "start" => \A t \in Loader : kernel[t] = "idle"
  /\ \A t \in Loader :
       /\ kernel[t] # "idle" => t < team /\ i[t] \in Lower(t)..Upper(t)
       /\ kernel[t] # "barrier" => it[t] < num_iterations

\* The address of a rival is as many whole rounds of the sets away from x as
\* there are in its pages.
LEMMA RivalRounds ==
  \E q \in Nat \ {0} :
    \A m \in Nat : RivalAddress(m) = X + CACHE_LINE_SIZE * (L1Sets * (q * m))
<1> DEFINE L == CACHE_LINE_SIZE
           S == L1Sets
           p == 8 * pg_size
<1>1. L \in Nat \ {0} /\ S \in Nat \ {0} /\ p \in Nat \ {0} /\ pg_size \in Nat \ {0} /\ X \in Nat
  BY LineAssumption, PagesAssumption
<1>2. p % (L * S) = 0
  BY PagesAssumption
<1>3. \A m \in Nat : RivalAddress(m) = X + p * m
  BY <1>1 DEF RivalAddress
<1> DEFINE r == L * S
           q == p \div r
<1>4. r \in Nat \ {0}
  <2> HIDE DEF L, S
  <2> QED
    BY <1>1
<1> HIDE DEF L, S, p, r
<1>5. q \in Nat /\ p = r * q
  <2>1. p % r = 0
    BY <1>2 DEF r
  <2> QED
    BY <1>1, <1>4, <2>1
<1> HIDE DEF q
<1>6. q # 0
  BY <1>1, <1>4, <1>5
<1>7. \A m \in Nat : p * m = L * (S * (q * m))
  <2> TAKE m \in Nat
  <2>1. p = L * (S * q)
    BY <1>1, <1>5 DEF r
  <2>2. S * q \in Nat /\ (L * (S * q)) * m = L * ((S * q) * m)
    BY <1>1, <1>5
  <2>3. (S * q) * m = S * (q * m)
    BY <1>1, <1>5
  <2> QED
    BY <2>1, <2>2, <2>3
<1>8. q \in Nat \ {0}
  BY <1>5, <1>6
<1>9. \A m \in Nat : RivalAddress(m) = X + L * (S * (q * m))
  BY <1>3, <1>7
<1> QED
  BY <1>8, <1>9 DEF L, S

\* So many lines further on is in so many lines' line.
LEMMA LinesFurther ==
  ASSUME NEW n \in Nat, NEW k \in Nat
  PROVE  LineOf(n + CACHE_LINE_SIZE * k) = LineOf(n) + k
<1> DEFINE L == CACHE_LINE_SIZE
           d == n \div L
           r == n % L
<1>1. L \in Nat \ {0}
  BY LineAssumption
<1>2. d \in Nat /\ r \in 0..(L - 1) /\ n = L * d + r
  <2> HIDE DEF L
  <2> QED
    BY <1>1
<1>3. n + L * k = L * (d + k) + r
  <2> HIDE DEF L, d, r
  <2>1. L * (d + k) = L * d + L * k /\ L * d \in Nat /\ L * k \in Nat
    BY <1>1, <1>2
  <2> QED
    BY <1>2, <2>1
<1>4. (L * (d + k) + r) \div L = d + k
  <2> HIDE DEF d, r
  <2>1. d + k \in Nat
    BY <1>2
  <2> QED
    BY <1>2, <2>1, Quotient
<1> QED
  BY <1>3, <1>4 DEF LineOf

\* Adding whole rounds leaves a remainder as it is.
LEMMA SameRemainder ==
  ASSUME NEW S \in Nat \ {0}, NEW n \in Nat, NEW k \in Nat
  PROVE  (n + S * k) % S = n % S
<1> DEFINE d == n \div S
           r == n % S
<1>1. d \in Nat /\ r \in 0..(S - 1) /\ n = S * d + r
  OBVIOUS
<1> HIDE DEF d, r
<1>2. S * d \in Nat /\ S * k \in Nat /\ S * (d + k) = S * d + S * k
  BY <1>1
<1>3. n + S * k = S * (d + k) + r
  BY <1>1, <1>2
<1>4. ASSUME NEW e \in Nat PROVE (S * e + r) % S = r
  BY <1>1
<1>5. (S * (d + k) + r) % S = r
  BY <1>1, <1>4
<1> QED
  BY <1>3, <1>5 DEF r

\* A rival is of x's set and not of its line, and within the array.
LEMMA RivalFacts ==
  ASSUME NEW m \in 1..(Pages - 1)
  PROVE  /\ SetOf(RivalAddress(m)) = SetOf(X)
         /\ LineOf(RivalAddress(m)) # LineOf(X)
         /\ RivalAddress(m) + 8 <= RivalAddress(Pages)
<1>1. PICK q \in Nat \ {0} :
        \A n \in Nat : RivalAddress(n) = X + CACHE_LINE_SIZE * (L1Sets * (q * n))
  BY RivalRounds
<1>2. m \in Nat \ {0} /\ m <= Pages - 1 /\ Pages \in Nat /\ L1Sets \in Nat \ {0} /\ X \in Nat
      /\ pg_size \in Nat \ {0}
  BY PagesAssumption, LineAssumption
<1> DEFINE k == q * m
           s == L1Sets * k
<1>3. k \in Nat \ {0}
  BY <1>2
<1>4. s \in Nat \ {0}
  <2> HIDE DEF k
  <2> QED
    BY <1>2, <1>3
<1>5. RivalAddress(m) = X + CACHE_LINE_SIZE * s
  BY <1>1, <1>2
<1>6. LineOf(RivalAddress(m)) = LineOf(X) + s
  <2> HIDE DEF s
  <2> QED
    BY <1>2, <1>4, <1>5, LinesFurther
<1>7. LineOf(X) \in Nat
  BY <1>2, Division DEF LineOf
<1>8. (LineOf(X) + L1Sets * k) % L1Sets = LineOf(X) % L1Sets
  <2> HIDE DEF k
  <2> QED
    BY <1>2, <1>3, <1>7, SameRemainder
<1>9. SetOf(RivalAddress(m)) = SetOf(X)
  BY <1>6, <1>8 DEF SetOf
<1>10. LineOf(RivalAddress(m)) # LineOf(X)
  <2> HIDE DEF s
  <2> QED
    BY <1>4, <1>6, <1>7
<1>11. RivalAddress(m) + 8 <= RivalAddress(Pages)
  <2>1. m * pg_size \in Nat /\ (m + 1) * pg_size = m * pg_size + pg_size
    BY <1>2
  <2>2. (m + 1) * pg_size <= Pages * pg_size /\ Pages * pg_size \in Nat
    BY <1>2
  <2> DEFINE x == m * pg_size
             y == Pages * pg_size
  <2>3. x \in Nat /\ y \in Nat /\ x + pg_size <= y
    BY <2>1, <2>2
  <2> HIDE DEF x, y
  <2>4. X + 8 * x + 8 <= X + 8 * y
    BY <1>2, <2>3
  <2> QED
    BY <2>4 DEF x, y, RivalAddress
<1> QED
  BY <1>9, <1>10, <1>11

\* The segments of the load divide the arrays among the threads asked for.
LEMMA SegmentFacts ==
  ASSUME num_threads \in 1..MaxThreads
  PROVE  /\ Segment \in Nat
         /\ \A t \in Nat :
              /\ Lower(t) \in Nat /\ Upper(t) \in Nat /\ Lower(t) <= Upper(t)
              /\ t < num_threads => Upper(t) <= N
<1>1. num_threads \in Nat \ {0} /\ N \in Nat
  BY LoadAssumption
<1>2. Segment \in Nat /\ Segment * num_threads <= N
  BY <1>1 DEF Segment
<1>3. ASSUME NEW t \in Nat
      PROVE  /\ Lower(t) \in Nat /\ Upper(t) \in Nat /\ Lower(t) <= Upper(t)
             /\ t < num_threads => Upper(t) <= N
  <2> DEFINE s == Segment
  <2>1. s \in Nat /\ s * num_threads <= N
    BY <1>2
  <2> HIDE DEF s
  <2>2. s * t \in Nat /\ s * (t + 1) = s * t + s
    BY <2>1
  <2>3. t < num_threads => s * (t + 1) <= s * num_threads
    BY <1>1, <2>1
  <2> DEFINE x == s * t
             y == s * (t + 1)
             z == s * num_threads
  <2>4. x \in Nat /\ y = x + s /\ (t < num_threads => y <= z) /\ z <= N /\ z \in Nat
    BY <1>1, <2>1, <2>2, <2>3
  <2> HIDE DEF x, y, z
  <2>5. x <= y /\ y \in Nat /\ (t < num_threads => y <= N)
    BY <1>1, <2>1, <2>4
  <2> QED
    BY <2>4, <2>5 DEF x, y, s, Lower, Upper
<1> QED
  BY <1>2, <1>3

\* The programs begin with the first rival and with every thread idle.
LEMMA InitTypeInv == Init => ProbeInv /\ LoadInv
<1> SUFFICES ASSUME Init PROVE ProbeInv /\ LoadInv
  OBVIOUS
<1>1. ProbeInv
  <2>1. /\ flushing = {} /\ moved = FALSE /\ trial = 0 /\ j = 0 /\ rival = RivalAddress(1)
    BY DEF Init, ProbeInit
  <2>2. 0 \in 0..(Trials - 1) /\ 1 \in 1..(Pages - 1)
    BY TrialsAssumption, PagesAssumption
  <2>3. Repeats * Pages * Pages + Pages - 1 \in Nat
    <3> DEFINE p == Repeats * Pages * Pages
    <3>1. p \in Nat /\ Pages \in Nat /\ Pages >= 2
      BY PagesAssumption
    <3> HIDE DEF p
    <3> QED
      BY <3>1 DEF p
  <2>4. moved \in BOOLEAN
    BY <2>1, Zenon
  <2>5. j \in 0..(Repeats * Pages * Pages + Pages - 1)
    BY <2>1, <2>3
  <2> QED
    BY <2>1, <2>2, <2>4, <2>5 DEF ProbeInv
<1>2. LoadInv
  <2>1. num_threads \in 1..MaxThreads
    BY LoadAssumption DEF Init
  <2>2. team \in 1..num_threads
    BY <2>1, LoadAssumption DEF Init
  <2>3. \A t \in Loader : kernel[t] = "idle" /\ it[t] = 0
    BY DEF Init
  <2>4. kernel \in [Loader -> {"idle", "loop", "barrier"}] /\ i \in [Loader -> Nat]
        /\ it \in [Loader -> 0..num_iterations]
    BY LoadAssumption DEF Init
  <2> QED
    BY <2>1, <2>2, <2>3, <2>4, LoadAssumption DEF LoadInv
<1> QED
  BY <1>1, <1>2

\* What the steps do to the probes' counters, rivals and flushes.
LEMMA NextProbeInv ==
  ASSUME LineInv, ProbeInv, [Next]_vars
  PROVE  ProbeInv'
<1> USE DEF ProbeInv
<1>1. ASSUME UNCHANGED <<flushing, trial, j, rival>>, moved' \in BOOLEAN
      PROVE  ProbeInv'
  BY <1>1
<1>2. CASE Fork \/ Refuse \/ Finish \/ Loaders \/ UNCHANGED vars
  <2>1. UNCHANGED <<flushing, trial, j, rival, moved>>
    BY <1>2 DEF Fork, Refuse, Finish, Exit, Loaders, EnterKernel, Load, vars, probeVars,
                trialVars, line
  <2> QED
    BY <1>1, <2>1
<1>3. CASE Alone \/ Measure
  <2>1. UNCHANGED <<flushing, trial, j, rival>> /\ moved' \in BOOLEAN
    BY <1>3 DEF Alone, Measure, Warmup
  <2> QED
    BY <1>1, <2>1
<1>4. CASE Evict
  <2>1. UNCHANGED <<flushing, trial, j, rival>> /\ moved' = TRUE
    BY <1>4 DEF Evict, Pushed, Disturb
  <2> QED
    BY <1>1, <2>1
<1>5. CASE \E l \in FlushedLines(X, 8) : CompleteFlush(l)
  <2>1. UNCHANGED <<trial, j, rival, moved>> /\ flushing' \subseteq flushing
    BY <1>5 DEF CompleteFlush, Flushed, FlushDone
  <2> QED
    BY <2>1
<1>6. CASE PrepareLine
  <2>1. UNCHANGED <<trial, j, rival>>
    BY <1>6 DEF PrepareLine, Prepared
  <2>2. flushing' \subseteq FlushedLines(X, 8) /\ moved' \in BOOLEAN
    BY <1>6 DEF PrepareLine, Fence, Flush, Read, Demote, Disturb, line
  <2> QED
    BY <2>1, <2>2
<1>7. CASE TouchOther
  <2>1. /\ UNCHANGED <<flushing, trial>> /\ moved' = TRUE /\ j' = j + 1
        /\ \E r \in 0..(Pages - 1) : j < Repeats * Pages * Pages + r
        /\ \E r \in 0..(Pages - 2) : rival' = RivalAddress(1 + r)
    BY <1>7 DEF TouchOther, Disturb, Rival
  <2>2. \E m \in 1..(Pages - 1) : rival' = RivalAddress(m)
    <3>1. PICK r \in 0..(Pages - 2) : rival' = RivalAddress(1 + r)
      BY <2>1
    <3>2. 1 + r \in 1..(Pages - 1)
      BY PagesAssumption
    <3> QED
      BY <3>1, <3>2
  <2>3. j' \in 0..(Repeats * Pages * Pages + Pages - 1)
    <3> DEFINE p == Repeats * Pages * Pages
    <3>1. p \in Nat /\ Pages \in Nat
      BY PagesAssumption
    <3>2. j \in 0..(p + Pages - 1) /\ \E r \in 0..(Pages - 1) : j < p + r
      BY <2>1
    <3> HIDE DEF p
    <3>3. j + 1 \in 0..(p + Pages - 1)
      BY <3>1, <3>2
    <3> QED
      BY <2>1, <3>3 DEF p
  <2> QED
    BY <2>1, <2>2, <2>3
<1>8. CASE OthersTouched
  <2>1. UNCHANGED <<flushing, moved, trial, rival>> /\ j' = 0
    BY <1>8 DEF OthersTouched, Prepared, line
  <2>2. 0 \in 0..(Repeats * Pages * Pages + Pages - 1)
    <3> DEFINE p == Repeats * Pages * Pages
    <3>1. p \in Nat /\ Pages \in Nat /\ Pages >= 2
      BY PagesAssumption
    <3> HIDE DEF p
    <3> QED
      BY <3>1 DEF p
  <2> QED
    BY <2>1, <2>2
<1>9. CASE Time
  <2>1. UNCHANGED <<flushing, j, rival>> /\ moved' = FALSE /\ trial' \in {0, trial + 1}
        /\ (trial' = trial + 1 => trial < Trials - 1 \/ trial' = 0)
    BY <1>9 DEF Time, Read
  <2>2. trial' \in 0..(Trials - 1)
    BY <2>1, TrialsAssumption
  <2>3. moved' \in BOOLEAN
    BY <2>1, Zenon
  <2> QED
    BY <2>1, <2>2, <2>3
<1> QED
  BY <1>2, <1>3, <1>4, <1>5, <1>6, <1>7, <1>8, <1>9 DEF Next, Thread0, Trial

\* The load's threads keep to their segments, and count no further than they
\* are to.
LEMMA NextLoadInv ==
  ASSUME LineInv, LoadInv, [Next]_vars
  PROVE  LoadInv'
<1> USE DEF LoadInv
<1>1. CASE Fork
  <2>1. /\ pc = "start" /\ pc' = "team" /\ team' \in 1..num_threads
        /\ UNCHANGED <<num_threads, kernel, i, it>>
    BY <1>1 DEF Fork
  <2> QED
    BY <2>1 DEF Lower, Upper, Segment
<1>2. ASSUME NEW t \in Loader, EnterKernel(t) PROVE LoadInv'
  <2>1. /\ pc # "start" /\ t < team /\ kernel[t] = "idle"
        /\ kernel' = [kernel EXCEPT ![t] = "loop"] /\ i' = [i EXCEPT ![t] = Lower(t)]
        /\ UNCHANGED <<pc, num_threads, team, it>>
    BY <1>2 DEF EnterKernel, Running, probeVars
  <2>2. Lower(t) \in Nat /\ Upper(t) \in Nat /\ Lower(t) <= Upper(t)
    BY SegmentFacts DEF Loader
  <2>3. \A u : Lower(u)' = Lower(u) /\ Upper(u)' = Upper(u)
    BY <2>1 DEF Lower, Upper, Segment
  <2>4. kernel' \in [Loader -> {"idle", "loop", "barrier"}] /\ i' \in [Loader -> Nat]
    BY <2>1, <2>2
  <2>5. ASSUME NEW u \in Loader
        PROVE  /\ kernel'[u] # "idle" => u < team /\ i'[u] \in Lower(u)..Upper(u)
               /\ kernel'[u] # "barrier" => it[u] < num_iterations
    <3>1. CASE u = t
      BY <2>1, <2>2, <3>1
    <3>2. CASE u # t
      BY <2>1, <3>2
    <3> QED
      BY <3>1, <3>2
  <2> QED
    BY <2>1, <2>3, <2>4, <2>5
<1>3. ASSUME NEW t \in Loader, Load(t) PROVE LoadInv'
  <2>1. /\ pc # "start" /\ t < team /\ kernel[t] = "loop"
        /\ UNCHANGED <<pc, num_threads, team>>
    BY <1>3 DEF Load, Running, probeVars
  <2>2. /\ Lower(t) \in Nat /\ Upper(t) \in Nat /\ Lower(t) <= Upper(t)
        /\ i[t] \in Lower(t)..Upper(t) /\ it[t] < num_iterations /\ it[t] \in Nat
        /\ num_iterations \in Nat
    <3>1. Lower(t) \in Nat /\ Upper(t) \in Nat /\ Lower(t) <= Upper(t)
      BY SegmentFacts DEF Loader
    <3>2. i[t] \in Lower(t)..Upper(t) /\ it[t] < num_iterations
      BY <2>1, Zenon
    <3>3. it[t] \in 0..num_iterations /\ num_iterations \in Nat
      BY LoadAssumption
    <3> QED
      BY <3>1, <3>2, <3>3
  <2>3. \A u : Lower(u)' = Lower(u) /\ Upper(u)' = Upper(u)
    BY <2>1 DEF Lower, Upper, Segment
  <2>4. /\ kernel' \in [Loader -> {"idle", "loop", "barrier"}] /\ i' \in [Loader -> Nat]
        /\ it' \in [Loader -> 0..num_iterations]
        /\ \A u \in Loader : u # t => kernel'[u] = kernel[u] /\ i'[u] = i[u] /\ it'[u] = it[u]
        /\ kernel'[t] \in {"loop", "barrier"} /\ i'[t] \in Lower(t)..Upper(t)
        /\ kernel'[t] # "barrier" => it'[t] < num_iterations
    <3>1. CASE i[t] < Upper(t)
      <4>1. i' = [i EXCEPT ![t] = i[t] + 1] /\ kernel' = kernel /\ it' = it
        BY <1>3, <3>1 DEF Load
      <4> QED
        BY <2>1, <2>2, <3>1, <4>1
    <3>2. CASE ~(i[t] < Upper(t))
      <4>1. /\ it' = [it EXCEPT ![t] = it[t] + 1] /\ it'[t] = it[t] + 1
            /\ IF it'[t] < num_iterations
               THEN i' = [i EXCEPT ![t] = Lower(t)] /\ kernel' = kernel
               ELSE kernel' = [kernel EXCEPT ![t] = "barrier"] /\ i' = i
        BY <1>3, <3>2 DEF Load
      <4>2. it' \in [Loader -> 0..num_iterations]
        BY <2>2, <4>1
      <4>3. CASE it'[t] < num_iterations
        <5>1. i' = [i EXCEPT ![t] = Lower(t)] /\ kernel' = kernel
          BY <4>1, <4>3
        <5> QED
          BY <2>1, <2>2, <4>1, <4>2, <4>3, <5>1
      <4>4. CASE ~(it'[t] < num_iterations)
        <5>1. kernel' = [kernel EXCEPT ![t] = "barrier"] /\ i' = i
          BY <4>1, <4>4
        <5> QED
          BY <2>1, <2>2, <4>1, <4>2, <5>1
      <4> QED
        BY <4>3, <4>4
    <3> QED
      BY <3>1, <3>2
  <2>5. ASSUME NEW u \in Loader
        PROVE  /\ kernel'[u] # "idle" => u < team /\ i'[u] \in Lower(u)..Upper(u)
               /\ kernel'[u] # "barrier" => it'[u] < num_iterations
    BY <2>1, <2>4
  <2> QED
    BY <2>1, <2>3, <2>4, <2>5
<1>4. ASSUME UNCHANGED loadVars, pc' = "start" => pc = "start" PROVE LoadInv'
  BY <1>4 DEF loadVars, Lower, Upper, Segment
<1>5. CASE Alone \/ Measure \/ Refuse \/ Finish
  <2>1. UNCHANGED loadVars /\ pc' # "start"
    BY <1>5 DEF Alone, Measure, Warmup, Refuse, Finish, Exit
  <2> QED
    BY <1>4, <2>1
<1>6. CASE Trial
  <2>1. UNCHANGED loadVars /\ pc' # "start"
    BY <1>6 DEF Trial, PrepareLine, Prepared, InTrial, TouchOther, OthersTouched, Time
  <2> QED
    BY <1>4, <2>1
<1>7. CASE Evict \/ UNCHANGED vars \/ \E l \in FlushedLines(X, 8) : CompleteFlush(l)
  <2>1. UNCHANGED loadVars /\ pc' = pc
    BY <1>7 DEF Evict, Pushed, CompleteFlush, Flushed, vars, probeVars
  <2> QED
    BY <1>4, <2>1
<1> QED
  BY <1>1, <1>2, <1>3, <1>5, <1>6, <1>7 DEF Next, Thread0, Loaders

\* The threads of the load keep to segments that no other shares and that end
\* within the arrays, however many there are, and cache_other_xis to elements of
\* x's set and of other lines than x's, for every number of pages and sets.
THEOREM LoadedTypeCorrect == Spec => []TypeOK
<1>1. ASSUME Inv, ProbeInv, LoadInv PROVE TypeOK
  <2>1. /\ SetOf(rival) = SetOf(X) /\ LineOf(rival) # LineOf(X)
        /\ rival + 8 <= RivalAddress(Pages)
    <3>1. PICK m \in 1..(Pages - 1) : rival = RivalAddress(m)
      BY <1>1 DEF ProbeInv
    <3> QED
      BY <3>1, RivalFacts
  <2>2. ASSUME NEW t \in Loader
        PROVE  /\ it[t] \in 0..num_iterations
               /\ kernel[t] \in {"idle", "loop", "barrier"}
               /\ kernel[t] # "idle" =>
                    i[t] \in (Segment * t)..(Segment * (t + 1)) /\ i[t] <= N
    <3>1. it[t] \in 0..num_iterations /\ kernel[t] \in {"idle", "loop", "barrier"}
      BY <1>1 DEF LoadInv
    <3>2. ASSUME kernel[t] # "idle"
          PROVE  i[t] \in (Segment * t)..(Segment * (t + 1)) /\ i[t] <= N
      <4>1. i[t] \in Lower(t)..Upper(t) /\ t < team /\ t \in Nat
        BY <1>1, <3>2 DEF LoadInv, Loader
      <4>2. t < num_threads
        BY <1>1, <4>1 DEF LoadInv
      <4>3. Lower(t) \in Nat /\ Upper(t) \in Nat /\ Upper(t) <= N
        BY <1>1, <4>1, <4>2, SegmentFacts DEF LoadInv
      <4>4. i[t] <= N
        BY <4>1, <4>3, LoadAssumption
      <4> QED
        BY <4>1, <4>4 DEF Lower, Upper
    <3> QED
      BY <3>1, <3>2
  <2>3. num_threads \in 1..MaxThreads /\ team \in 1..num_threads
    BY <1>1 DEF LoadInv
  <2>4. /\ where \in Level /\ program \in Program
        /\ pc \in {"start", "team", "trials", "printed", "exited"}
        /\ phase \in 1..Headings /\ step \in 1..(Len(Prepare) + 1)
    BY <1>1 DEF Inv, LineInv
  <2>5. /\ flushing \subseteq FlushedLines(X, 8) /\ moved \in BOOLEAN
        /\ trial \in 0..(Trials - 1)
        /\ j \in 0..(Repeats * Pages * Pages + Pages - 1)
    BY <1>1 DEF ProbeInv
  <2> QED
    BY <2>1, <2>2, <2>3, <2>4, <2>5 DEF TypeOK
<1>2. Init => Inv /\ ProbeInv /\ LoadInv
  BY InitInv, InitTypeInv
<1>3. Inv /\ ProbeInv /\ LoadInv /\ [Next]_vars => (Inv /\ ProbeInv /\ LoadInv)'
  BY NextInv, NextProbeInv, NextLoadInv DEF Inv
<1> QED
  BY <1>1, <1>2, <1>3, PTL DEF Spec
=============================================================================
