---------------------------- MODULE CacheProbes -----------------------------
(***************************************************************************)
(* src/src/basiccache.cpp, src/src/l1-replacement-strategy.cpp and the     *)
(* measuring thread of src/src/latency-vs-bandwidth.cpp.  Each has rows of *)
(* trials under a heading: a trial prepares the line of x for the level    *)
(* that the heading names, and takes the time of one load.                 *)
(***************************************************************************)
EXTENDS CacheControl

CONSTANTS
  Trials,   \* num_trials: 16, in latency-vs-bandwidth.cpp 1000
  Pages,    \* N of l1-replacement-strategy.cpp, 8
  pg_size,  \* 4096, by which that program counts doubles
  Repeats,  \* the 100 of cache_other_xis
  L1Sets    \* the sets of the L1 cache, 64

ASSUME TrialsAssumption == Trials \in Nat \ {0}
ASSUME PagesAssumption ==
  /\ Pages \in Nat /\ Pages >= 2 /\ Repeats \in Nat
  /\ pg_size \in Nat \ {0} /\ L1Sets \in Nat \ {0}
  /\ (8 * pg_size) % (CACHE_LINE_SIZE * L1Sets) = 0

VARIABLES
  program,  \* which of the three it is
  pc,       \* "start", "team", "trials", "printed", "exited"
  phase,    \* the heading it is under
  trial,    \* i
  step,     \* of the trial's preparation
  j,        \* of cache_other_xis
  rival,    \* the address that function used last
  last      \* history: the trial that was timed last

trialVars == <<line, phase, trial, step, j, rival, last>>
probeVars == <<program, pc, trialVars>>

\* Plausible bug: the flushes are not waited for.
cacheflushUnfenced == <<"fence", "flush">>

cacheflush == <<"fence", "flush", "fence">>

\* The headings of each program and the preparation of their trials.

BasicHeadings ==
  <<[heading |-> "L1", prepare |-> <<>>],
    [heading |-> "RAM", prepare |-> cacheflush],
    [heading |-> "L2/L3?", prepare |-> <<"demote">>],
    [heading |-> "L2?", prepare |-> <<"overwrite">>],
    [heading |-> "L3?", prepare |-> <<"overwrite">>]>>

ReplacementHeadings ==
  <<[heading |-> "L1", prepare |-> <<"read">>],
    [heading |-> "RAM", prepare |-> cacheflush],
    [heading |-> "L2?", prepare |-> <<"read", "fence", "others">>]>>

LoadedHeadings == <<[heading |-> "RAM", prepare |-> cacheflush]>>

Phases ==
  [basiccache |-> BasicHeadings,
   l1_replacement_strategy |-> ReplacementHeadings,
   latency_vs_bandwidth |-> LoadedHeadings]

Program  == DOMAIN Phases
Headings == Len(Phases[program])
Prepare  == Phases[program][phase].prepare

-----------------------------------------------------------------------------
\* cache_other_xis

\* The element of a random number below Pages - 1.
Rival(r) == 1 + r

RivalAddress(i) == X + 8 * (i * pg_size)

SetOf(address) == LineOf(address) % L1Sets

ProbeInit ==
  /\ program \in Program
  /\ pc = "start"
  /\ where = Memory /\ flushing = {} /\ moved = FALSE
  /\ phase = 1 /\ trial = 0 /\ step = 1
  /\ j = 0 /\ rival = RivalAddress(1)
  /\ last = [heading |-> "none", from |-> Memory, moved |-> FALSE]

InTrial(what) == pc = "trials" /\ step <= Len(Prepare) /\ Prepare[step] = what

Prepared ==
  /\ step' = step + 1
  /\ UNCHANGED <<program, pc, phase, trial, rival, last>>

\* The steps of the preparation that are one operation.
PrepareLine ==
  /\ \/ InTrial("fence") /\ Fence
     \/ InTrial("flush") /\ Flush
     \/ InTrial("read") /\ Read
     \/ InTrial("demote") /\ Demote
     \/ InTrial("overwrite") /\ Disturb
  /\ UNCHANGED j
  /\ Prepared

\* A turn of the loop of cache_other_xis, whose bound is drawn at each turn.
TouchOther ==
  /\ InTrial("others")
  /\ \E r \in 0..(Pages - 1) : j < Repeats * Pages * Pages + r
  /\ \E r \in 0..(Pages - 2) : rival' = RivalAddress(Rival(r))
  /\ Disturb
  /\ j' = j + 1
  /\ UNCHANGED <<program, pc, phase, trial, step, last>>

OthersTouched ==
  /\ InTrial("others")
  /\ \E r \in 0..(Pages - 1) : j >= Repeats * Pages * Pages + r
  /\ j' = 0
  /\ UNCHANGED line
  /\ Prepared

\* The timed load.
Time ==
  /\ pc = "trials"
  /\ step > Len(Prepare)
  /\ last' = [heading |-> Phases[program][phase].heading, from |-> where, moved |-> moved]
  /\ Read
  /\ step' = 1
  /\ IF trial < Trials - 1
     THEN trial' = trial + 1 /\ UNCHANGED <<phase, pc>>
     ELSE /\ trial' = 0
          /\ IF phase < Headings
             THEN phase' = phase + 1 /\ UNCHANGED pc
             ELSE pc' = "printed" /\ UNCHANGED phase
  /\ UNCHANGED <<program, j, rival>>

\* The "warmup" of the TLB also brings the line in, if nothing takes it away.
Warmup(from) ==
  /\ pc = from
  /\ pc' = "trials"
  /\ where' \in Level
  /\ moved' = (where' # L1)
  /\ UNCHANGED <<program, flushing, phase, trial, step, j, rival, last>>

\* What the machine does meanwhile.

Pushed ==
  /\ pc # "exited"
  /\ Disturb
  /\ UNCHANGED <<program, pc, phase, trial, step, j, rival, last>>

Flushed(l) ==
  /\ pc # "exited"
  /\ FlushDone(l)
  /\ UNCHANGED <<program, pc, phase, trial, step, j, rival, last>>
=============================================================================
