---------------------------- MODULE CacheControl ----------------------------
(***************************************************************************)
(* src/src/cache.hpp: what the probes do to the line of the cache that     *)
(* holds their variable x, and what the machine may do to it.              *)
(*                                                                         *)
(* Of the caches nothing is taken but what the code relies on: a load      *)
(* brings the line to L1; clflushopt takes it out of all caches, at any    *)
(* time after it was issued, and mfence waits for that; cldemote is a      *)
(* hint; and whatever else runs on the machine may push the line out, but  *)
(* never brings it in.                                                     *)
(***************************************************************************)
EXTENDS Integers, Sequences

CONSTANTS
  CACHE_LINE_SIZE,  \* 64
  X                 \* the address of x

ASSUME LineAssumption == CACHE_LINE_SIZE \in Nat \ {0} /\ X \in Nat

VARIABLES
  where,     \* the level that holds the line of x
  flushing,  \* the lines whose clflushopt is issued and not complete
  moved      \* history: something other than the program's cacheflush and
             \* cldemote may have moved the line since the program read it

line == <<where, flushing, moved>>

L1     == 1
L3     == 3
Memory == 4
Level  == L1..Memory

LineOf(address) == address \div CACHE_LINE_SIZE

\* The lines with a byte of the range.
LinesOf(address, num_bytes) == {LineOf(address + n) : n \in 0..(num_bytes - 1)}

\* The lines that cacheflush flushes: every CACHE_LINE_SIZE bytes from the
\* first, and the line of the last byte.
FlushedLines(address, num_bytes) ==
  {LineOf(address + idx) : idx \in {n \in 0..(num_bytes - 1) : n % CACHE_LINE_SIZE = 0}}
    \union {LineOf(address + num_bytes - 1)}

\* cacheflush(x, 8): the clflushopt instructions.
Flush ==
  /\ flushing' = flushing \union FlushedLines(X, 8)
  /\ UNCHANGED <<where, moved>>

\* One of them completes.
FlushDone(l) ==
  /\ l \in flushing
  /\ flushing' = flushing \ {l}
  /\ where' = IF l = LineOf(X) THEN Memory ELSE where
  /\ UNCHANGED moved

\* mfence
Fence ==
  /\ flushing = {}
  /\ UNCHANGED line

\* clread(x)
Read ==
  /\ where' = L1
  /\ moved' = FALSE
  /\ UNCHANGED flushing

\* cldemote(x)
Demote ==
  /\ where' \in where..(IF where = Memory THEN Memory ELSE L3)
  /\ UNCHANGED <<flushing, moved>>

\* Accesses to other lines, by this program or another: they may push the line
\* out as far as they like.
Disturb ==
  /\ where' \in where..Memory
  /\ moved' = TRUE
  /\ UNCHANGED flushing
=============================================================================
