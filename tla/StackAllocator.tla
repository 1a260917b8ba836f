--------------------------- MODULE StackAllocator ---------------------------
(***************************************************************************)
(* StackAllocator (memory_allocators.cpp:188-230): one thread cuts blocks  *)
(* from the front of a buffer, takes markers and rewinds to them.  Markers *)
(* are kept and used in any order, stale ones included.                    *)
(*                                                                         *)
(* A rewind gives up what was allocated since the marker was taken; the    *)
(* numbers of the blocks and of the markers stand for that order.          *)
(***************************************************************************)
EXTENDS BumpBase

CONSTANT MaxBlocks   \* bound on the calls of allocate

ASSUME StackAssumption == MaxBlocks \in Nat

VARIABLES
  top,      \* offset_
  kept,     \* history: the blocks allocated and not given up, numbered
  made,     \* history: how many blocks have been allocated
  markers   \* the markers taken, with the number of blocks made by then

stackVars == <<top, kept, made, markers>>

StackInit ==
  /\ top = 0
  /\ kept = {}
  /\ made = 0
  /\ markers = {}

\* Mutant: the padding is not counted.
Allocate_NoPadding(n, a) ==
  /\ made < MaxBlocks
  /\ LET lo == AlignUp(top, NormalizeAlign(a)) IN
     /\ lo + n <= Capacity
     /\ top' = top + n
     /\ kept' = kept \cup {[id |-> made + 1, lo |-> lo, hi |-> lo + n]}
  /\ made' = made + 1
  /\ UNCHANGED markers

\* a request that does not fit changes nothing
Allocate(n, a) ==
  /\ made < MaxBlocks
  /\ LET lo == AlignUp(top, NormalizeAlign(a)) IN
     /\ lo + n <= Capacity
     /\ top' = lo + n
     /\ kept' = kept \cup {[id |-> made + 1, lo |-> lo, hi |-> lo + n]}
  /\ made' = made + 1
  /\ UNCHANGED markers

TakeMarker ==
  /\ markers' = markers \cup {[offset |-> top, made |-> made]}
  /\ UNCHANGED <<top, kept, made>>

\* a marker above top is stale and ignored
Rewind(m) ==
  /\ top' = IF m.offset <= top THEN m.offset ELSE top
  /\ kept' = {b \in kept : b.id <= m.made}
  /\ UNCHANGED <<made, markers>>

ResetStack ==
  /\ top' = 0
  /\ kept' = {}
  /\ UNCHANGED <<made, markers>>

StackNext ==
  \/ \E n \in Sizes, a \in Aligns : Allocate(n, a)
  \/ TakeMarker
  \/ \E m \in markers : Rewind(m)
  \/ ResetStack

StackSpec == StackInit /\ [][StackNext]_stackVars

-----------------------------------------------------------------------------
StackTypeOK ==
  /\ top \in Nat /\ made \in Nat
  /\ kept \subseteq [id : Nat, lo : Nat, hi : Nat]
  /\ markers \subseteq [offset : Nat, made : Nat]

\* No rewind, to a stale marker either, frees a block older than the marker: the
\* blocks the caller may still use are apart and below offset_.
StackDisjoint ==
  /\ Apart(kept, top)
  /\ top <= Capacity
=============================================================================
