--------------------------- MODULE PoolAllocator ---------------------------
(***************************************************************************)
(* PoolAllocator (memory_allocators.cpp:99-186): a lock-free stack of the  *)
(* indices of free blocks, linked through next_index_, with a tag in the   *)
(* head that every change of it advances.  One action per access of head_, *)
(* next_index_ or allocated_, for threads that allocate and free blocks,   *)
(* each other's included.                                                  *)
(*                                                                         *)
(* The tag has 32 bits and wraps (TagMod).  The algorithm is right as long *)
(* as the head does not change a whole lap of the tag during one attempt   *)
(* of allocate; OneLap is that assumption.                                 *)
(***************************************************************************)
EXTENDS Integers, FiniteSets, SequencesExt

CONSTANTS
  Thread,
  BlockCount,   \* block_count_
  Null,         \* kNullIndex
  TagMod        \* 2^32

Block == 0 .. (BlockCount - 1)

ASSUME PoolAssumption ==
  /\ BlockCount \in Nat \ {0}
  /\ Null \notin Block
  /\ TagMod \in Nat \ {0, 1}
  /\ IsFiniteSet(Thread)

VARIABLES
  headIdx, headTag,   \* head_, unpacked
  next,               \* next_index_
  allocated,          \* allocated_
  pc,                 \* where each thread is in allocate or deallocate
  oldIdx, oldTag,     \* its old_head, unpacked
  nxt,                \* its nxt
  blk,                \* the block it is returning or freeing
  held,               \* history: the blocks handed out and not given back
  free,               \* history: the free blocks, top first
  behind              \* history: changes of head_ since each thread loaded it

headVars == <<headIdx, headTag, next>>
localVars == <<oldIdx, oldTag, nxt, blk>>
vars == <<headIdx, headTag, next, allocated, pc, oldIdx, oldTag, nxt, blk, held,
          free, behind>>

MaybeBlock == Block \cup {Null}
AllocPC == {"alloc_next", "alloc_cas"}
FreePC == {"free_next", "free_cas"}

Init ==
  /\ headIdx = 0 /\ headTag = 0
  /\ next = [b \in Block |-> IF b + 1 \in Block THEN b + 1 ELSE Null]
  /\ allocated = 0
  /\ pc = [th \in Thread |-> "idle"]
  /\ oldIdx = [th \in Thread |-> Null]
  /\ oldTag = [th \in Thread |-> 0]
  /\ nxt = [th \in Thread |-> Null]
  /\ blk = [th \in Thread |-> Null]
  /\ held = {}
  /\ free = [i \in 1 .. BlockCount |-> i - 1]
  /\ behind = [th \in Thread |-> 0]

NextTag(t) == IF t = TagMod - 1 THEN 0 ELSE t + 1

Goto(th, where) == pc' = [pc EXCEPT ![th] = where]

LoadHead(th) ==
  /\ oldIdx' = [oldIdx EXCEPT ![th] = headIdx]
  /\ oldTag' = [oldTag EXCEPT ![th] = headTag]
  /\ behind' = [behind EXCEPT ![th] = 0]

OneLap(th) ==
  \A t \in Thread \ {th} : pc[t] \in AllocPC => behind[t] + 1 < TagMod

\* Mutant: only the index is compared, not the tag.
SwapHead_IndexOnly(th, idx) ==
  /\ headIdx = oldIdx[th]
  /\ OneLap(th)
  /\ headIdx' = idx
  /\ headTag' = NextTag(oldTag[th])
  /\ behind' = [t \in Thread |-> IF pc[t] \in AllocPC THEN behind[t] + 1 ELSE 0]

\* Mutant: the tag stays as it is.
SwapHead_TagKept(th, idx) ==
  /\ headIdx = oldIdx[th] /\ headTag = oldTag[th]
  /\ OneLap(th)
  /\ headIdx' = idx
  /\ headTag' = oldTag[th]
  /\ behind' = [t \in Thread |-> IF pc[t] \in AllocPC THEN behind[t] + 1 ELSE 0]

\* a compare-and-swap of head_ that succeeds
SwapHead(th, idx) ==
  /\ headIdx = oldIdx[th] /\ headTag = oldTag[th]
  /\ OneLap(th)
  /\ headIdx' = idx
  /\ headTag' = NextTag(oldTag[th])
  /\ behind' = [t \in Thread |-> IF pc[t] \in AllocPC THEN behind[t] + 1 ELSE 0]

-----------------------------------------------------------------------------
(* allocate                                                                *)

CallAllocate(th) ==
  /\ pc[th] = "idle"
  /\ LoadHead(th)
  /\ Goto(th, "alloc_next")
  /\ UNCHANGED <<headVars, allocated, nxt, blk, held, free>>

\* Mutant: a failed attempt is counted.
AllocNull_Counted(th) ==
  /\ pc[th] = "alloc_next"
  /\ oldIdx[th] = Null
  /\ allocated' = allocated + 1
  /\ Goto(th, "idle")
  /\ UNCHANGED <<headVars, localVars, held, free, behind>>

AllocNull(th) ==
  /\ pc[th] = "alloc_next"
  /\ oldIdx[th] = Null
  /\ Goto(th, "idle")
  /\ UNCHANGED <<headVars, allocated, localVars, held, free, behind>>

\* The block may be taken by now, and its next_index_ being written.
AllocNext(th) ==
  /\ pc[th] = "alloc_next"
  /\ oldIdx[th] # Null
  /\ nxt' = [nxt EXCEPT ![th] = next[oldIdx[th]]]
  /\ Goto(th, "alloc_cas")
  /\ UNCHANGED <<headVars, allocated, oldIdx, oldTag, blk, held, free, behind>>

AllocCas(th) ==
  /\ pc[th] = "alloc_cas"
  /\ SwapHead(th, nxt[th])
  /\ blk' = [blk EXCEPT ![th] = oldIdx[th]]
  /\ free' = Tail(free)
  /\ Goto(th, "alloc_count")
  /\ UNCHANGED <<next, allocated, oldIdx, oldTag, nxt, held>>

\* the weak compare-and-swap may also fail for no reason
AllocRetry(th) ==
  /\ pc[th] = "alloc_cas"
  /\ LoadHead(th)
  /\ Goto(th, "alloc_next")
  /\ UNCHANGED <<headVars, allocated, nxt, blk, held, free>>

AllocReturn(th) ==
  /\ pc[th] = "alloc_count"
  /\ allocated' = allocated + 1
  /\ held' = held \cup {blk[th]}
  /\ Goto(th, "idle")
  /\ UNCHANGED <<headVars, localVars, free, behind>>

-----------------------------------------------------------------------------
(* deallocate, for a pointer allocate returned; others it ignores          *)

CallDeallocate(th, b) ==
  /\ pc[th] = "idle"
  /\ b \in held
  /\ held' = held \ {b}
  /\ blk' = [blk EXCEPT ![th] = b]
  /\ LoadHead(th)
  /\ Goto(th, "free_next")
  /\ UNCHANGED <<headVars, allocated, nxt, free>>

\* Mutant: the block keeps the link it had.
FreeNext_KeepsLink(th) ==
  /\ pc[th] = "free_next"
  /\ Goto(th, "free_cas")
  /\ UNCHANGED <<headVars, allocated, localVars, held, free, behind>>

FreeNext(th) ==
  /\ pc[th] = "free_next"
  /\ next' = [next EXCEPT ![blk[th]] = oldIdx[th]]
  /\ Goto(th, "free_cas")
  /\ UNCHANGED <<headIdx, headTag, allocated, localVars, held, free, behind>>

FreeCas(th) ==
  /\ pc[th] = "free_cas"
  /\ SwapHead(th, blk[th])
  /\ free' = <<blk[th]>> \o free
  /\ Goto(th, "free_count")
  /\ UNCHANGED <<next, allocated, localVars, held>>

\* Mutant: the block is not linked to the head that made the swap fail.
FreeRetry_NotRelinked(th) ==
  /\ pc[th] = "free_cas"
  /\ LoadHead(th)
  /\ UNCHANGED <<headVars, allocated, pc, nxt, blk, held, free>>

FreeRetry(th) ==
  /\ pc[th] = "free_cas"
  /\ LoadHead(th)
  /\ Goto(th, "free_next")
  /\ UNCHANGED <<headVars, allocated, nxt, blk, held, free>>

FreeReturn(th) ==
  /\ pc[th] = "free_count"
  /\ allocated' = allocated - 1
  /\ Goto(th, "idle")
  /\ UNCHANGED <<headVars, localVars, held, free, behind>>

Step(th) ==
  \/ CallAllocate(th) \/ AllocNull(th) \/ AllocNext(th) \/ AllocCas(th)
  \/ AllocRetry(th) \/ AllocReturn(th)
  \/ (\E b \in held : CallDeallocate(th, b))
  \/ FreeNext(th) \/ FreeCas(th) \/ FreeRetry(th) \/ FreeReturn(th)

Next == \E th \in Thread : Step(th)

Spec == Init /\ [][Next]_vars

-----------------------------------------------------------------------------
TypeOK ==
  /\ headIdx \in MaybeBlock
  /\ headTag \in 0 .. (TagMod - 1)
  /\ next \in [Block -> MaybeBlock]
  /\ allocated \in Int
  /\ pc \in [Thread -> {"idle", "alloc_count", "free_count"} \cup AllocPC \cup FreePC]
  /\ oldIdx \in [Thread -> MaybeBlock]
  /\ oldTag \in [Thread -> 0 .. (TagMod - 1)]
  /\ nxt \in [Thread -> MaybeBlock]
  /\ blk \in [Thread -> MaybeBlock]
  /\ held \subseteq Block
  /\ free \in Seq(Block)
  /\ behind \in [Thread -> Nat]

\* the threads that have a block in their hands
Carries(th) == pc[th] \in {"alloc_count"} \cup FreePC

\* No block is in two hands, or in a hand and in the list: allocate never
\* returns a block that is in use, through whatever races on head_ and on the
\* next_index_ of blocks that are taken and freed meanwhile (ABA).
NoBlockTwice ==
  /\ \A th \in Thread : Carries(th) =>
       blk[th] \in Block /\ blk[th] \notin held \cup Range(free)
  /\ \A t, u \in Thread : Carries(t) /\ Carries(u) /\ blk[t] = blk[u] => t = u
  /\ held \cap Range(free) = {}
  /\ \A i, j \in DOMAIN free : free[i] = free[j] => i = j

\* ... and none is lost: what is not free is held or in the hand of a thread.
Taken == held \cup {blk[th] : th \in {t \in Thread : Carries(t)}}
NoBlockLost == Range(free) \cup Taken = Block

\* head_ and next_index_ link the free blocks, top first.
Linked ==
  /\ headIdx = IF free = <<>> THEN Null ELSE free[1]
  /\ \A i \in DOMAIN free :
       next[free[i]] = IF i = Len(free) THEN Null ELSE free[i + 1]

\* A thread's copy of the tag tells how often the head has changed since, up to
\* one lap; while it has not, its copy of the index is the head and its nxt is
\* the head's successor.
TagCounts ==
  \A th \in Thread : pc[th] \in AllocPC =>
    /\ behind[th] < TagMod
    /\ headTag - oldTag[th] \in {behind[th], behind[th] - TagMod}
    /\ behind[th] = 0 => oldIdx[th] = headIdx
    /\ behind[th] = 0 /\ pc[th] = "alloc_cas" => oldIdx[th] # Null /\ nxt[th] = next[oldIdx[th]]
FreeLinks ==
  \A th \in Thread : pc[th] = "free_cas" => next[blk[th]] = oldIdx[th]

PoolInv == TypeOK /\ NoBlockTwice /\ NoBlockLost /\ Linked /\ TagCounts /\ FreeLinks

\* allocated_count() is exact when no call is under way, and counts each block
\* from before it is handed out until after it is back in the list.
CountExact ==
  allocated = Cardinality(held)
              + Cardinality({th \in Thread : pc[th] \in FreePC \cup {"free_count"}})

Stack == INSTANCE FreeStack WITH taken <- Taken

\* The lock-free list is a stack: a successful compare-and-swap takes exactly
\* the top block or puts a block on top, and nothing else changes it.
ImplementsStack == Stack!Spec
=============================================================================
