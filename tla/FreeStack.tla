----------------------------- MODULE FreeStack -----------------------------
(***************************************************************************)
(* What PoolAllocator promises: a stack of free blocks, each of which is   *)
(* either free or taken.  The block freed last is the next to be taken.    *)
(***************************************************************************)
EXTENDS Sequences, SequencesExt

CONSTANT Block

VARIABLES
  free,     \* the free blocks, the top one first
  taken     \* the blocks somebody holds

vars == <<free, taken>>

Init ==
  /\ free \in Seq(Block)
  /\ \A b \in Block : \E i \in DOMAIN free : free[i] = b
  /\ IsInjective(free)
  /\ taken = {}

Take ==
  /\ free # <<>>
  /\ taken' = taken \cup {Head(free)}
  /\ free' = Tail(free)

Give(b) ==
  /\ b \in taken
  /\ taken' = taken \ {b}
  /\ free' = <<b>> \o free

Next == Take \/ \E b \in Block : Give(b)

Spec == Init /\ [][Next]_vars
=============================================================================
