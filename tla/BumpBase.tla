------------------------------ MODULE BumpBase ------------------------------
(* What LinearArena and StackAllocator share: a buffer, the requests made of *)
(* it and the rounding of an offset (memory_allocators.cpp:9-17).            *)
EXTENDS Integers

CONSTANTS
  Capacity,   \* capacity_, a multiple of kCacheLineAlign
  MinAlign,   \* the least alignment, 16 bytes
  Sizes,      \* the sizes asked for
  Aligns      \* the alignments asked for

ASSUME BumpAssumption ==
  /\ Capacity \in Nat \ {0}
  /\ MinAlign \in Nat \ {0}
  /\ Sizes \subseteq Nat \ {0}
  /\ Aligns \subseteq Nat

IsPow2(v) == \E k \in 0 .. v : v = 2 ^ k
NormalizeAlign(a) == IF a < MinAlign \/ ~IsPow2(a) THEN MinAlign ELSE a

\* align_up: the next multiple of a
AlignUp(v, a) == v + ((a - (v % a)) % a)

Greater(a, b) == IF a >= b THEN a ELSE b

\* no two of the blocks [lo, hi) share a byte, and all lie below used
Apart(blocks, used) ==
  /\ \A b \in blocks : b.lo < b.hi /\ b.hi <= used
  /\ \A b, c \in blocks : b # c => b.hi <= c.lo \/ c.hi <= b.lo
=============================================================================
