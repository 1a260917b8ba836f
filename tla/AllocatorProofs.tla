-------------------------- MODULE AllocatorProofs --------------------------
(***************************************************************************)
(* The three allocators, for any threads, sizes and alignments.            *)
(*                                                                         *)
(* PoolAllocator: under OneLap a successful compare-and-swap always acts   *)
(* on the head it saw, so the list implements a stack and no block is ever *)
(* in two hands, and the count is the one of the blocks handed out.        *)
(*                                                                         *)
(* LinearArena: whichever threads allocate, reset and re-base the mark of  *)
(* one arena, its blocks stay apart and the high-water mark is exact at    *)
(* rest.  StackAllocator: for every use of markers, stale ones included,   *)
(* the blocks its caller may use stay apart.                               *)
(***************************************************************************)
EXTENDS PoolAllocator, LinearArena, StackAllocator, FiniteSetTheorems, TLAPS

-----------------------------------------------------------------------------
(* What makes HighWaterExact and StackDisjoint inductive.                  *)

\* A thread between its swap and the mark is all that
\* can hold the mark back, what it has loaded of the mark was no more than the
\* mark is now, and whoever is to store the mark alone knows all that is in use.
MarkInv ==
  /\ offset <= peak /\ highWater <= peak
  /\ highWater = peak \/ \E th \in Caller : call[th].at \in Marks /\ Hi(th) = peak
  /\ \A th \in Caller :
       /\ call[th].at \in Marks => Hi(th) <= peak /\ call[th].mark <= highWater
       /\ call[th].at = "store_mark" => offset <= call[th].cur

ArenaInv ==
  /\ ArenaTypeOK /\ BlocksDisjoint
  /\ overlapped \/ (MarkInv /\ ~Beside(call))

\* a marker lies above the blocks made before it
MarkersAbove ==
  \A m \in markers, b \in kept : b.id <= m.made => b.hi <= m.offset

StackInv ==
  /\ StackTypeOK /\ StackDisjoint /\ MarkersAbove
  /\ \A b \in kept : b.id <= made
  /\ \A m \in markers : m.made <= made

-----------------------------------------------------------------------------
(* PoolAllocator                                                           *)

\* A swap that succeeds has seen every change of the head: the tag would tell.
LEMMA SwapIsFresh ==
  ASSUME PoolInv, NEW th \in Thread, pc[th] \in AllocPC, headTag = oldTag[th]
  PROVE  behind[th] = 0
<1>1. /\ behind[th] \in Nat /\ behind[th] < TagMod
      /\ headTag - oldTag[th] \in {behind[th], behind[th] - TagMod}
      /\ oldTag[th] \in Int /\ TagMod \in Nat
  BY PoolAssumption DEF PoolInv, TypeOK, TagCounts
<1>2. QED
  BY <1>1

\* A change of the head puts every other allocating thread one step further
\* behind, also when the tag wraps.
LEMMA SwapCounts ==
  ASSUME PoolInv, NEW th \in Thread, NEW idx \in MaybeBlock, SwapHead(th, idx),
         NEW t \in Thread, t # th, pc[t] \in AllocPC
  PROVE  /\ headTag' \in 0 .. (TagMod - 1)
         /\ behind'[t] \in 1 .. (TagMod - 1)
         /\ headTag' - oldTag[t] \in {behind'[t], behind'[t] - TagMod}
<1>1. /\ TagMod \in Nat /\ TagMod > 1
      /\ headTag \in 0 .. (TagMod - 1)
      /\ oldTag[t] \in 0 .. (TagMod - 1)
      /\ behind[t] \in Nat
      /\ headTag - oldTag[t] \in {behind[t], behind[t] - TagMod}
  BY PoolAssumption DEF PoolInv, TypeOK, TagCounts
<1>2. /\ behind[t] + 1 < TagMod
      /\ behind'[t] = behind[t] + 1
      /\ headTag' = NextTag(headTag)
  BY DEF SwapHead, OneLap
<1>3. CASE headTag = TagMod - 1
  BY <1>1, <1>2, <1>3 DEF NextTag
<1>4. CASE headTag # TagMod - 1
  BY <1>1, <1>2, <1>4 DEF NextTag
<1>5. QED
  BY <1>3, <1>4

LEMMA SwapTypes ==
  ASSUME TypeOK, NEW th \in Thread, NEW idx \in MaybeBlock, SwapHead(th, idx)
  PROVE  /\ headIdx' \in MaybeBlock
         /\ headTag' \in 0 .. (TagMod - 1)
         /\ behind' \in [Thread -> Nat]
<1>1. headTag \in 0 .. (TagMod - 1) /\ TagMod \in Nat /\ headTag' = NextTag(headTag)
  BY PoolAssumption DEF TypeOK, SwapHead
<1>2. headTag' \in 0 .. (TagMod - 1)
  <2>1. CASE headTag = TagMod - 1
    BY <1>1, <2>1 DEF NextTag
  <2>2. CASE headTag # TagMod - 1
    BY <1>1, <2>2 DEF NextTag
  <2>3. QED
    BY <2>1, <2>2
<1>3. behind' \in [Thread -> Nat]
  BY DEF TypeOK, SwapHead
<1>4. QED
  BY <1>2, <1>3 DEF SwapHead

\* Taking the top block off a sequence, and putting one on.
LEMMA Popped ==
  ASSUME NEW S, NEW s \in Seq(S), s # <<>>
  PROVE  /\ Tail(s) \in Seq(S)
         /\ Len(s) \in Nat \ {0}
         /\ DOMAIN s = 1 .. Len(s)
         /\ DOMAIN Tail(s) = 1 .. (Len(s) - 1)
         /\ Len(Tail(s)) = Len(s) - 1
         /\ \A i \in 1 .. (Len(s) - 1) : Tail(s)[i] = s[i + 1]
OBVIOUS

LEMMA Pushed ==
  ASSUME NEW S, NEW s \in Seq(S), NEW b \in S
  PROVE  /\ <<b>> \o s \in Seq(S)
         /\ Len(s) \in Nat
         /\ DOMAIN s = 1 .. Len(s)
         /\ DOMAIN (<<b>> \o s) = 1 .. (Len(s) + 1)
         /\ Len(<<b>> \o s) = Len(s) + 1
         /\ (<<b>> \o s)[1] = b
         /\ \A i \in 1 .. Len(s) : (<<b>> \o s)[i + 1] = s[i]
OBVIOUS

\* Steps after which the same threads carry the same blocks.
LEMMA SameHands ==
  ASSUME PoolInv, UNCHANGED <<blk, held, free>>,
         \A t \in Thread : Carries(t)' <=> Carries(t)
  PROVE  NoBlockTwice' /\ NoBlockLost' /\ Taken' = Taken
<1>1. Taken' = Taken
  BY DEF Taken
<1>2. NoBlockTwice'
  BY DEF PoolInv, NoBlockTwice
<1>3. NoBlockLost'
  BY <1>1 DEF PoolInv, NoBlockLost
<1>4. QED
  BY <1>1, <1>2, <1>3

LEMMA SameList ==
  ASSUME PoolInv, UNCHANGED <<headIdx, next, free>>
  PROVE  Linked'
BY DEF PoolInv, Linked

-----------------------------------------------------------------------------
(* The steps of allocate.                                                  *)

\* CallAllocate and AllocRetry: the thread loads the head and starts over.
LEMMA LoadInv ==
  ASSUME PoolInv, NEW th \in Thread, LoadHead(th), Goto(th, "alloc_next"),
         pc[th] \in {"idle", "alloc_cas"},
         UNCHANGED <<headVars, allocated, nxt, blk, held, free>>
  PROVE  PoolInv' /\ Taken' = Taken
<1>1. TypeOK'
  BY PoolAssumption DEF PoolInv, TypeOK, LoadHead, Goto, headVars, AllocPC
<1>2. \A t \in Thread : pc'[t] = IF t = th THEN "alloc_next" ELSE pc[t]
  BY DEF PoolInv, TypeOK, Goto
<1>3. \A t \in Thread : Carries(t)' <=> Carries(t)
  BY <1>2 DEF Carries, FreePC
<1>4. NoBlockTwice' /\ NoBlockLost' /\ Taken' = Taken
  BY <1>3, SameHands
<1>5. Linked'
  BY SameList DEF headVars
<1>6. TagCounts'
  <2> SUFFICES ASSUME NEW t \in Thread, pc'[t] \in AllocPC
               PROVE  /\ behind'[t] < TagMod
                      /\ headTag' - oldTag'[t] \in {behind'[t], behind'[t] - TagMod}
                      /\ behind'[t] = 0 => oldIdx'[t] = headIdx'
                      /\ behind'[t] = 0 /\ pc'[t] = "alloc_cas" =>
                           oldIdx'[t] # Null /\ nxt'[t] = next'[oldIdx'[t]]
    BY DEF TagCounts
  <2>1. CASE t = th
    <3>1. behind'[t] = 0 /\ headTag' = oldTag'[t] /\ oldIdx'[t] = headIdx'
      BY <2>1 DEF PoolInv, TypeOK, LoadHead, headVars
    <3>2. pc'[t] # "alloc_cas"
      BY <1>2, <2>1
    <3>3. headTag' - oldTag'[t] = behind'[t]
      <4>1. headTag' \in Int
        BY <1>1, PoolAssumption DEF TypeOK
      <4>2. QED
        BY <3>1, <4>1
    <3>4. behind'[t] < TagMod
      BY <3>1, PoolAssumption
    <3>5. QED
      BY <3>1, <3>2, <3>3, <3>4
  <2>2. CASE t # th
    <3>1. /\ pc'[t] = pc[t] /\ behind'[t] = behind[t] /\ oldTag'[t] = oldTag[t]
          /\ oldIdx'[t] = oldIdx[t]
      BY <1>2, <2>2 DEF PoolInv, TypeOK, LoadHead
    <3>2. QED
      BY <3>1 DEF PoolInv, TagCounts, headVars
  <2>3. QED
    BY <2>1, <2>2
<1>7. FreeLinks'
  <2> SUFFICES ASSUME NEW t \in Thread, pc'[t] = "free_cas"
               PROVE  next'[blk'[t]] = oldIdx'[t]
    BY DEF FreeLinks
  <2>1. t # th /\ pc[t] = "free_cas" /\ oldIdx'[t] = oldIdx[t]
    BY <1>2 DEF PoolInv, TypeOK, LoadHead
  <2>2. QED
    BY <2>1 DEF PoolInv, FreeLinks, headVars
<1>8. QED
  BY <1>1, <1>4, <1>5, <1>6, <1>7 DEF PoolInv

LEMMA AllocNextInv ==
  ASSUME PoolInv, NEW th \in Thread, AllocNext(th)
  PROVE  PoolInv' /\ Taken' = Taken
<1>1. /\ pc[th] = "alloc_next" /\ oldIdx[th] \in Block
      /\ nxt' = [nxt EXCEPT ![th] = next[oldIdx[th]]]
      /\ pc' = [pc EXCEPT ![th] = "alloc_cas"]
      /\ UNCHANGED <<headIdx, headTag, next, allocated, oldIdx, oldTag, blk, held, free, behind>>
  BY DEF PoolInv, TypeOK, AllocNext, Goto, headVars, MaybeBlock
<1>2. TypeOK'
  BY <1>1 DEF PoolInv, TypeOK, AllocPC
<1>3. \A t \in Thread : pc'[t] = IF t = th THEN "alloc_cas" ELSE pc[t]
  BY <1>1 DEF PoolInv, TypeOK
<1>4. \A t \in Thread : Carries(t)' <=> Carries(t)
  BY <1>1, <1>3 DEF Carries, FreePC
<1>5. NoBlockTwice' /\ NoBlockLost' /\ Taken' = Taken
  BY <1>1, <1>4, SameHands
<1>6. Linked'
  BY <1>1, SameList
<1>7. TagCounts'
  <2> SUFFICES ASSUME NEW t \in Thread, pc'[t] \in AllocPC
               PROVE  /\ behind[t] < TagMod
                      /\ headTag - oldTag[t] \in {behind[t], behind[t] - TagMod}
                      /\ behind[t] = 0 => oldIdx[t] = headIdx
                      /\ behind[t] = 0 /\ pc'[t] = "alloc_cas" =>
                           oldIdx[t] # Null /\ nxt'[t] = next[oldIdx[t]]
    BY <1>1 DEF TagCounts
  <2>1. pc[t] \in AllocPC
    BY <1>1, <1>3 DEF AllocPC
  <2>2. CASE t = th
    <3>1. oldIdx[t] # Null /\ nxt'[t] = next[oldIdx[t]]
      BY <1>1, <2>2, PoolAssumption DEF PoolInv, TypeOK
    <3>2. QED
      BY <2>1, <3>1 DEF PoolInv, TagCounts
  <2>3. CASE t # th
    <3>1. pc'[t] = pc[t] /\ nxt'[t] = nxt[t]
      BY <1>1, <1>3, <2>3 DEF PoolInv, TypeOK
    <3>2. QED
      BY <2>1, <3>1 DEF PoolInv, TagCounts
  <2>4. QED
    BY <2>2, <2>3
<1>8. FreeLinks'
  <2>1. \A t \in Thread : pc'[t] = "free_cas" => pc[t] = "free_cas"
    BY <1>3
  <2>2. QED
    BY <1>1, <2>1 DEF PoolInv, FreeLinks
<1>9. QED
  BY <1>2, <1>5, <1>6, <1>7, <1>8 DEF PoolInv

\* AllocNull, AllocReturn and FreeReturn: the thread leaves the call.
LEMMA AllocNullInv ==
  ASSUME PoolInv, NEW th \in Thread, AllocNull(th)
  PROVE  PoolInv' /\ Taken' = Taken
<1>1. /\ pc[th] = "alloc_next"
      /\ pc' = [pc EXCEPT ![th] = "idle"]
      /\ UNCHANGED <<headIdx, headTag, next, allocated, oldIdx, oldTag, nxt, blk, held, free, behind>>
  BY DEF AllocNull, Goto, headVars, localVars
<1>2. TypeOK'
  BY <1>1 DEF PoolInv, TypeOK
<1>3. \A t \in Thread : pc'[t] = IF t = th THEN "idle" ELSE pc[t]
  BY <1>1 DEF PoolInv, TypeOK
<1>4. \A t \in Thread : Carries(t)' <=> Carries(t)
  BY <1>1, <1>3 DEF Carries, FreePC
<1>5. NoBlockTwice' /\ NoBlockLost' /\ Taken' = Taken
  BY <1>1, <1>4, SameHands
<1>6. Linked'
  BY <1>1, SameList
<1>7. \A t \in Thread : pc'[t] \in AllocPC \cup FreePC => pc'[t] = pc[t]
  BY <1>3 DEF AllocPC, FreePC
<1>8. TagCounts' /\ FreeLinks'
  BY <1>1, <1>7 DEF PoolInv, TagCounts, FreeLinks, FreePC
<1>9. QED
  BY <1>2, <1>5, <1>6, <1>8 DEF PoolInv

LEMMA FreeReturnInv ==
  ASSUME PoolInv, NEW th \in Thread, FreeReturn(th)
  PROVE  PoolInv' /\ Taken' = Taken
<1>1. /\ pc[th] = "free_count"
      /\ pc' = [pc EXCEPT ![th] = "idle"]
      /\ allocated' = allocated - 1
      /\ UNCHANGED <<headIdx, headTag, next, oldIdx, oldTag, nxt, blk, held, free, behind>>
  BY DEF FreeReturn, Goto, headVars, localVars
<1>2. TypeOK'
  BY <1>1 DEF PoolInv, TypeOK
<1>3. \A t \in Thread : pc'[t] = IF t = th THEN "idle" ELSE pc[t]
  BY <1>1 DEF PoolInv, TypeOK
<1>4. \A t \in Thread : Carries(t)' <=> Carries(t)
  BY <1>1, <1>3 DEF Carries, FreePC
<1>5. NoBlockTwice' /\ NoBlockLost' /\ Taken' = Taken
  BY <1>1, <1>4, SameHands
<1>6. Linked'
  BY <1>1, SameList
<1>7. \A t \in Thread : pc'[t] \in AllocPC \cup FreePC => pc'[t] = pc[t]
  BY <1>3 DEF AllocPC, FreePC
<1>8. TagCounts' /\ FreeLinks'
  BY <1>1, <1>7 DEF PoolInv, TagCounts, FreeLinks, FreePC
<1>9. QED
  BY <1>2, <1>5, <1>6, <1>8 DEF PoolInv

\* The block goes from the thread's hand to the client.
LEMMA AllocReturnInv ==
  ASSUME PoolInv, NEW th \in Thread, AllocReturn(th)
  PROVE  PoolInv' /\ Taken' = Taken
<1>1. /\ pc[th] = "alloc_count"
      /\ pc' = [pc EXCEPT ![th] = "idle"]
      /\ allocated' = allocated + 1
      /\ held' = held \cup {blk[th]}
      /\ UNCHANGED <<headIdx, headTag, next, oldIdx, oldTag, nxt, blk, free, behind>>
  BY DEF AllocReturn, Goto, headVars, localVars
<1>2. \A t \in Thread : pc'[t] = IF t = th THEN "idle" ELSE pc[t]
  BY <1>1 DEF PoolInv, TypeOK
<1>3. /\ Carries(th) /\ ~Carries(th)'
      /\ \A t \in Thread \ {th} : Carries(t)' <=> Carries(t)
  BY <1>1, <1>2 DEF Carries, FreePC
<1>4. blk[th] \in Block
  BY <1>3 DEF PoolInv, NoBlockTwice
<1>5. TypeOK'
  BY <1>1, <1>4 DEF PoolInv, TypeOK
<1>6. NoBlockTwice'
  <2>1. \A t \in Thread : Carries(t)' =>
          Carries(t) /\ t # th /\ blk[t] # blk[th]
    BY <1>3 DEF PoolInv, NoBlockTwice
  <2>2. \A t \in Thread : Carries(t)' =>
          blk'[t] \in Block /\ blk'[t] \notin held' \cup Range(free')
    BY <1>1, <2>1 DEF PoolInv, NoBlockTwice
  <2>3. \A t, u \in Thread : Carries(t)' /\ Carries(u)' /\ blk'[t] = blk'[u] => t = u
    BY <1>1, <2>1 DEF PoolInv, NoBlockTwice
  <2>4. held' \cap Range(free') = {}
    BY <1>1, <1>3 DEF PoolInv, NoBlockTwice
  <2>5. \A i, j \in DOMAIN free' : free'[i] = free'[j] => i = j
    BY <1>1 DEF PoolInv, NoBlockTwice
  <2>6. QED
    BY <2>2, <2>3, <2>4, <2>5 DEF NoBlockTwice
<1>7. Taken' = Taken
  BY <1>1, <1>3 DEF Taken
<1>8. NoBlockLost'
  BY <1>1, <1>7 DEF PoolInv, NoBlockLost
<1>9. Linked'
  BY <1>1, SameList
<1>10. \A t \in Thread : pc'[t] \in AllocPC \cup FreePC => pc'[t] = pc[t]
  BY <1>2 DEF AllocPC, FreePC
<1>11. TagCounts' /\ FreeLinks'
  BY <1>1, <1>10 DEF PoolInv, TagCounts, FreeLinks, FreePC
<1>12. QED
  BY <1>5, <1>6, <1>7, <1>8, <1>9, <1>11 DEF PoolInv

\* A head that is not Null is the top free block.
LEMMA HeadIsTop ==
  ASSUME PoolInv, headIdx # Null
  PROVE  /\ free # <<>> /\ free \in Seq(Block)
         /\ headIdx = free[1]
         /\ headIdx \in Range(free)
         /\ headIdx \in Block
<1>1. free # <<>> /\ free \in Seq(Block) /\ headIdx = free[1]
  BY DEF PoolInv, Linked, TypeOK
<1>2. 1 \in DOMAIN free
  BY <1>1
<1>3. QED
  BY <1>1, <1>2 DEF Range

\* The swap takes the top block: it is fresh, so nxt is the block behind.
LEMMA AllocCasInv ==
  ASSUME PoolInv, NEW th \in Thread, AllocCas(th)
  PROVE  /\ PoolInv'
         /\ free # <<>> /\ free' = Tail(free)
         /\ Taken' = Taken \cup {Head(free)}
<1>1. /\ pc[th] = "alloc_cas"
      /\ headIdx = oldIdx[th] /\ headTag = oldTag[th]
      /\ headIdx' = nxt[th]
      /\ SwapHead(th, nxt[th])
      /\ pc' = [pc EXCEPT ![th] = "alloc_count"]
      /\ blk' = [blk EXCEPT ![th] = oldIdx[th]]
      /\ free' = Tail(free)
      /\ UNCHANGED <<next, allocated, oldIdx, oldTag, nxt, held>>
  BY DEF AllocCas, SwapHead, Goto
<1>2. behind[th] = 0
  BY <1>1, SwapIsFresh DEF AllocPC
<1>3. headIdx # Null /\ nxt[th] = next[headIdx]
  BY <1>1, <1>2 DEF PoolInv, TagCounts, AllocPC
<1>4. /\ free # <<>> /\ free \in Seq(Block) /\ headIdx = free[1]
      /\ headIdx \in Range(free) /\ headIdx \in Block
  BY <1>3, HeadIsTop
<1>5. /\ free' \in Seq(Block)
      /\ Len(free) \in Nat \ {0}
      /\ DOMAIN free = 1 .. Len(free)
      /\ DOMAIN free' = 1 .. (Len(free) - 1)
      /\ Len(free') = Len(free) - 1
      /\ \A i \in 1 .. (Len(free) - 1) : free'[i] = free[i + 1]
  BY <1>1, <1>4, Popped
<1>6. \A t \in Thread : pc'[t] = IF t = th THEN "alloc_count" ELSE pc[t]
  BY <1>1 DEF PoolInv, TypeOK
<1>7. TypeOK'
  <2>1. nxt[th] \in MaybeBlock
    BY DEF PoolInv, TypeOK
  <2>2. headIdx' \in MaybeBlock /\ headTag' \in 0 .. (TagMod - 1) /\ behind' \in [Thread -> Nat]
    BY <1>1, <2>1, SwapTypes DEF PoolInv
  <2>3. QED
    BY <1>1, <1>5, <2>2 DEF PoolInv, TypeOK
<1>8. /\ ~Carries(th) /\ Carries(th)' /\ blk'[th] = headIdx
      /\ \A t \in Thread \ {th} : (Carries(t)' <=> Carries(t)) /\ blk'[t] = blk[t]
  BY <1>1, <1>6 DEF PoolInv, TypeOK, Carries, FreePC
<1>9. Range(free') = Range(free) \ {headIdx}
  <2>1. \A i, j \in 1 .. Len(free) : free[i] = free[j] => i = j
    BY <1>5 DEF PoolInv, NoBlockTwice
  <2>2. ASSUME NEW i \in 1 .. (Len(free) - 1)
        PROVE  free'[i] \in Range(free) \ {headIdx}
    <3>1. i + 1 \in 1 .. Len(free) /\ i + 1 # 1 /\ 1 \in 1 .. Len(free)
      BY <1>5
    <3>2. free[i + 1] # free[1]
      BY <2>1, <3>1
    <3>3. QED
      BY <1>4, <1>5, <3>1, <3>2 DEF Range
  <2>3. ASSUME NEW i \in 1 .. Len(free), free[i] # headIdx
        PROVE  free[i] \in Range(free')
    <3>1. i # 1
      BY <1>4, <2>3
    <3>2. i - 1 \in 1 .. (Len(free) - 1) /\ (i - 1) + 1 = i
      BY <1>5, <3>1
    <3>3. free'[i - 1] = free[i]
      BY <1>5, <3>2
    <3>4. QED
      BY <1>5, <3>2, <3>3 DEF Range
  <2>4. Range(free') \subseteq Range(free) \ {headIdx}
    BY <1>5, <2>2 DEF Range
  <2>5. Range(free) \ {headIdx} \subseteq Range(free')
    BY <1>5, <2>3 DEF Range
  <2>6. QED
    BY <2>4, <2>5
<1>10. NoBlockTwice'
  <2>1. \A t \in Thread : Carries(t)' =>
          \/ t = th /\ blk'[t] = headIdx
          \/ t # th /\ Carries(t) /\ blk'[t] = blk[t] /\ blk[t] # headIdx
    BY <1>4, <1>8 DEF PoolInv, NoBlockTwice
  <2>2. headIdx \notin held
    BY <1>4 DEF PoolInv, NoBlockTwice
  <2>3. \A t \in Thread : Carries(t)' =>
          blk'[t] \in Block /\ blk'[t] \notin held' \cup Range(free')
    BY <1>1, <1>4, <1>9, <2>1, <2>2 DEF PoolInv, NoBlockTwice
  <2>4. \A t, u \in Thread : Carries(t)' /\ Carries(u)' /\ blk'[t] = blk'[u] => t = u
    BY <2>1 DEF PoolInv, NoBlockTwice
  <2>5. held' \cap Range(free') = {}
    BY <1>1, <1>9 DEF PoolInv, NoBlockTwice
  <2>6. \A i, j \in DOMAIN free' : free'[i] = free'[j] => i = j
    <3>1. \A i, j \in 1 .. Len(free) : free[i] = free[j] => i = j
      BY <1>5 DEF PoolInv, NoBlockTwice
    <3>2. \A i \in 1 .. (Len(free) - 1) : i \in Int /\ i + 1 \in 1 .. Len(free)
      BY <1>5
    <3>3. QED
      BY <1>5, <3>1, <3>2
  <2>7. QED
    BY <2>3, <2>4, <2>5, <2>6 DEF NoBlockTwice
<1>11. Taken' = Taken \cup {headIdx}
  BY <1>1, <1>8 DEF Taken
<1>12. NoBlockLost'
  BY <1>4, <1>9, <1>11 DEF PoolInv, NoBlockLost
<1>13. Linked'
  <2>1. \A i \in 1 .. Len(free) :
          next[free[i]] = IF i = Len(free) THEN Null ELSE free[i + 1]
    BY <1>5 DEF PoolInv, Linked
  <2>2. next[free[1]] = headIdx'
    BY <1>1, <1>3, <1>4
  <2>3. CASE Len(free) = 1
    <3>1. free' = <<>>
      BY <1>5, <2>3
    <3>2. headIdx' = Null /\ DOMAIN free' = {}
      BY <1>5, <2>1, <2>2, <2>3
    <3>3. QED
      BY <3>1, <3>2 DEF Linked
  <2>4. CASE Len(free) # 1
    <3>1. free' # <<>> /\ free'[1] = headIdx'
      <4>1. free' # <<>> /\ free'[1] = free[2]
        BY <1>5, <2>4
      <4>2. next[free[1]] = free[2]
        <5>1. 1 \in 1 .. Len(free)
          BY <1>5
        <5>2. next[free[1]] = IF 1 = Len(free) THEN Null ELSE free[1 + 1]
          BY <2>1, <5>1
        <5>3. QED
          BY <2>4, <5>2
      <4>3. QED
        BY <2>2, <4>1, <4>2
    <3>2. ASSUME NEW i \in DOMAIN free'
          PROVE  next'[free'[i]] = IF i = Len(free') THEN Null ELSE free'[i + 1]
      <4>1. i \in 1 .. (Len(free) - 1) /\ i + 1 \in 1 .. Len(free) /\ free'[i] = free[i + 1]
        BY <1>5
      <4>2. next[free[i + 1]] = IF i + 1 = Len(free) THEN Null ELSE free[i + 2]
        BY <2>1, <4>1
      <4>3. CASE i = Len(free) - 1
        BY <1>1, <1>5, <4>1, <4>2, <4>3
      <4>4. CASE i # Len(free) - 1
        <5>1. i + 1 \in 1 .. (Len(free) - 1) /\ free'[i + 1] = free[i + 2]
          BY <1>5, <4>1, <4>4
        <5>2. QED
          BY <1>1, <1>5, <4>1, <4>2, <4>4, <5>1
      <4>5. QED
        BY <4>3, <4>4
    <3>3. QED
      BY <3>1, <3>2 DEF Linked
  <2>5. QED
    BY <2>3, <2>4
<1>14. TagCounts'
  <2> SUFFICES ASSUME NEW t \in Thread, pc'[t] \in AllocPC
               PROVE  /\ behind'[t] < TagMod
                      /\ headTag' - oldTag[t] \in {behind'[t], behind'[t] - TagMod}
                      /\ behind'[t] # 0
    BY <1>1 DEF TagCounts
  <2>1. t # th /\ pc[t] \in AllocPC
    BY <1>6 DEF AllocPC
  <2>2. nxt[th] \in MaybeBlock
    BY DEF PoolInv, TypeOK
  <2>3. /\ behind'[t] \in 1 .. (TagMod - 1)
        /\ headTag' - oldTag[t] \in {behind'[t], behind'[t] - TagMod}
    BY <1>1, <2>1, <2>2, SwapCounts
  <2>4. QED
    BY <2>3, PoolAssumption
<1>15. FreeLinks'
  <2>1. \A t \in Thread : pc'[t] = "free_cas" => pc[t] = "free_cas" /\ blk'[t] = blk[t]
    BY <1>1, <1>6, <1>8
  <2>2. QED
    BY <1>1, <2>1 DEF PoolInv, FreeLinks
<1>16. Head(free) = headIdx
  BY <1>4
<1>17. QED
  BY <1>1, <1>4, <1>7, <1>10, <1>11, <1>12, <1>13, <1>14, <1>15, <1>16 DEF PoolInv

-----------------------------------------------------------------------------
(* The steps of deallocate.                                                *)

\* The client gives the block to the thread.
LEMMA CallDeallocateInv ==
  ASSUME PoolInv, NEW th \in Thread, NEW b \in held, CallDeallocate(th, b)
  PROVE  PoolInv' /\ Taken' = Taken
<1>1. /\ pc[th] = "idle"
      /\ held' = held \ {b}
      /\ blk' = [blk EXCEPT ![th] = b]
      /\ oldIdx' = [oldIdx EXCEPT ![th] = headIdx]
      /\ oldTag' = [oldTag EXCEPT ![th] = headTag]
      /\ behind' = [behind EXCEPT ![th] = 0]
      /\ pc' = [pc EXCEPT ![th] = "free_next"]
      /\ UNCHANGED <<headIdx, headTag, next, allocated, nxt, free>>
  BY DEF CallDeallocate, LoadHead, Goto, headVars
<1>2. \A t \in Thread : pc'[t] = IF t = th THEN "free_next" ELSE pc[t]
  BY <1>1 DEF PoolInv, TypeOK
<1>3. b \in Block
  BY DEF PoolInv, TypeOK
<1>4. TypeOK'
  BY <1>1, <1>3 DEF PoolInv, TypeOK, FreePC, MaybeBlock
<1>5. /\ ~Carries(th) /\ Carries(th)' /\ blk'[th] = b
      /\ \A t \in Thread \ {th} : (Carries(t)' <=> Carries(t)) /\ blk'[t] = blk[t]
  BY <1>1, <1>2 DEF PoolInv, TypeOK, Carries, FreePC
<1>6. NoBlockTwice'
  <2>1. \A t \in Thread : Carries(t)' =>
          \/ t = th /\ blk'[t] = b
          \/ t # th /\ Carries(t) /\ blk'[t] = blk[t] /\ blk[t] # b
    BY <1>5 DEF PoolInv, NoBlockTwice
  <2>2. b \notin Range(free)
    BY DEF PoolInv, NoBlockTwice
  <2>3. Range(free') = Range(free)
    BY <1>1
  <2>4. \A t \in Thread : Carries(t)' =>
          blk'[t] \in Block /\ blk'[t] \notin held' \cup Range(free')
    BY <1>1, <1>3, <2>1, <2>2, <2>3 DEF PoolInv, NoBlockTwice
  <2>5. \A t, u \in Thread : Carries(t)' /\ Carries(u)' /\ blk'[t] = blk'[u] => t = u
    BY <2>1 DEF PoolInv, NoBlockTwice
  <2>6. held' \cap Range(free') = {}
    BY <1>1, <2>3 DEF PoolInv, NoBlockTwice
  <2>7. \A i, j \in DOMAIN free' : free'[i] = free'[j] => i = j
    BY <1>1 DEF PoolInv, NoBlockTwice
  <2>8. QED
    BY <2>4, <2>5, <2>6, <2>7 DEF NoBlockTwice
<1>7. Taken' = Taken
  BY <1>1, <1>5 DEF Taken
<1>8. NoBlockLost'
  BY <1>1, <1>7 DEF PoolInv, NoBlockLost
<1>9. Linked'
  BY <1>1, SameList
<1>10. \A t \in Thread : pc'[t] \in AllocPC \cup {"free_cas"} =>
         /\ pc'[t] = pc[t] /\ behind'[t] = behind[t] /\ blk'[t] = blk[t]
         /\ oldIdx'[t] = oldIdx[t] /\ oldTag'[t] = oldTag[t]
  BY <1>1, <1>2 DEF PoolInv, TypeOK, AllocPC
<1>11. TagCounts' /\ FreeLinks'
  BY <1>1, <1>10 DEF PoolInv, TagCounts, FreeLinks
<1>12. QED
  BY <1>4, <1>6, <1>7, <1>8, <1>9, <1>11 DEF PoolInv

\* Only the block in the thread's hand is linked: it is not in the list, so no
\* other thread's nxt depends on it as long as that thread is not behind.
LEMMA FreeNextInv ==
  ASSUME PoolInv, NEW th \in Thread, FreeNext(th)
  PROVE  PoolInv' /\ Taken' = Taken
<1>1. /\ pc[th] = "free_next"
      /\ next' = [next EXCEPT ![blk[th]] = oldIdx[th]]
      /\ pc' = [pc EXCEPT ![th] = "free_cas"]
      /\ UNCHANGED <<headIdx, headTag, allocated, oldIdx, oldTag, nxt, blk, held, free, behind>>
  BY DEF FreeNext, Goto, localVars
<1>2. Carries(th)
  BY <1>1 DEF Carries, FreePC
<1>3. /\ blk[th] \in Block /\ blk[th] \notin Range(free)
      /\ \A t \in Thread \ {th} : Carries(t) => blk[t] # blk[th]
  BY <1>2 DEF PoolInv, NoBlockTwice
<1>4. TypeOK'
  BY <1>1, <1>3 DEF PoolInv, TypeOK, FreePC
<1>5. /\ next'[blk[th]] = oldIdx[th]
      /\ \A b \in Block \ {blk[th]} : next'[b] = next[b]
  BY <1>1, <1>3 DEF PoolInv, TypeOK
<1>6. \A t \in Thread : pc'[t] = IF t = th THEN "free_cas" ELSE pc[t]
  BY <1>1 DEF PoolInv, TypeOK
<1>7. \A t \in Thread : Carries(t)' <=> Carries(t)
  BY <1>1, <1>6 DEF Carries, FreePC
<1>8. NoBlockTwice' /\ NoBlockLost' /\ Taken' = Taken
  BY <1>1, <1>7, SameHands
<1>9. Linked'
  <2>1. \A i \in DOMAIN free : free[i] \in Block \ {blk[th]}
    BY <1>3 DEF PoolInv, TypeOK, Range
  <2>2. \A i \in DOMAIN free : next'[free[i]] = next[free[i]]
    BY <1>5, <2>1
  <2>3. QED
    BY <1>1, <2>2 DEF PoolInv, Linked
<1>10. TagCounts'
  <2> SUFFICES ASSUME NEW t \in Thread, pc'[t] \in AllocPC
               PROVE  /\ behind[t] < TagMod
                      /\ headTag - oldTag[t] \in {behind[t], behind[t] - TagMod}
                      /\ behind[t] = 0 => oldIdx[t] = headIdx
                      /\ behind[t] = 0 /\ pc'[t] = "alloc_cas" =>
                           oldIdx[t] # Null /\ nxt[t] = next'[oldIdx[t]]
    BY <1>1 DEF TagCounts
  <2>1. pc[t] = pc'[t]
    BY <1>6 DEF AllocPC
  <2>2. ASSUME behind[t] = 0, pc[t] = "alloc_cas"
        PROVE  oldIdx[t] # Null /\ nxt[t] = next'[oldIdx[t]]
    <3>1. oldIdx[t] = headIdx /\ oldIdx[t] # Null /\ nxt[t] = next[oldIdx[t]]
      BY <2>2 DEF PoolInv, TagCounts, AllocPC
    <3>2. headIdx \in Range(free) /\ headIdx \in Block
      BY <3>1, HeadIsTop
    <3>3. next'[headIdx] = next[headIdx]
      BY <1>3, <1>5, <3>2
    <3>4. QED
      BY <3>1, <3>3
  <2>3. QED
    BY <2>1, <2>2 DEF PoolInv, TagCounts
<1>11. FreeLinks'
  <2> SUFFICES ASSUME NEW t \in Thread, pc'[t] = "free_cas"
               PROVE  next'[blk[t]] = oldIdx[t]
    BY <1>1 DEF FreeLinks
  <2>1. CASE t = th
    BY <1>5, <2>1
  <2>2. CASE t # th
    <3>1. pc[t] = "free_cas"
      BY <1>6, <2>2
    <3>2. blk[t] \in Block \ {blk[th]}
      BY <1>3, <2>2, <3>1 DEF PoolInv, NoBlockTwice, Carries, FreePC
    <3>3. QED
      BY <1>5, <3>1, <3>2 DEF PoolInv, FreeLinks
  <2>3. QED
    BY <2>1, <2>2
<1>12. QED
  BY <1>4, <1>8, <1>9, <1>10, <1>11 DEF PoolInv

LEMMA FreeRetryInv ==
  ASSUME PoolInv, NEW th \in Thread, FreeRetry(th)
  PROVE  PoolInv' /\ Taken' = Taken
<1>1. /\ pc[th] = "free_cas"
      /\ oldIdx' = [oldIdx EXCEPT ![th] = headIdx]
      /\ oldTag' = [oldTag EXCEPT ![th] = headTag]
      /\ behind' = [behind EXCEPT ![th] = 0]
      /\ pc' = [pc EXCEPT ![th] = "free_next"]
      /\ UNCHANGED <<headIdx, headTag, next, allocated, nxt, blk, held, free>>
  BY DEF FreeRetry, LoadHead, Goto, headVars
<1>2. \A t \in Thread : pc'[t] = IF t = th THEN "free_next" ELSE pc[t]
  BY <1>1 DEF PoolInv, TypeOK
<1>3. TypeOK'
  BY <1>1 DEF PoolInv, TypeOK, FreePC
<1>4. \A t \in Thread : Carries(t)' <=> Carries(t)
  BY <1>1, <1>2 DEF Carries, FreePC
<1>5. NoBlockTwice' /\ NoBlockLost' /\ Taken' = Taken
  BY <1>1, <1>4, SameHands
<1>6. Linked'
  BY <1>1, SameList
<1>7. \A t \in Thread : pc'[t] \in AllocPC \cup {"free_cas"} =>
        /\ pc'[t] = pc[t] /\ behind'[t] = behind[t]
        /\ oldIdx'[t] = oldIdx[t] /\ oldTag'[t] = oldTag[t]
  BY <1>1, <1>2 DEF PoolInv, TypeOK, AllocPC
<1>8. TagCounts' /\ FreeLinks'
  BY <1>1, <1>7 DEF PoolInv, TagCounts, FreeLinks
<1>9. QED
  BY <1>3, <1>5, <1>6, <1>8 DEF PoolInv

\* The swap puts the block on top: its link is the head it replaces.
LEMMA FreeCasInv ==
  ASSUME PoolInv, NEW th \in Thread, FreeCas(th)
  PROVE  /\ PoolInv'
         /\ blk[th] \in Taken
         /\ free' = <<blk[th]>> \o free
         /\ Taken' = Taken \ {blk[th]}
<1>1. /\ pc[th] = "free_cas"
      /\ headIdx = oldIdx[th]
      /\ headIdx' = blk[th]
      /\ SwapHead(th, blk[th])
      /\ pc' = [pc EXCEPT ![th] = "free_count"]
      /\ free' = <<blk[th]>> \o free
      /\ UNCHANGED <<next, allocated, oldIdx, oldTag, nxt, blk, held>>
  BY DEF FreeCas, SwapHead, Goto, localVars
<1>2. Carries(th)
  BY <1>1 DEF Carries, FreePC
<1>3. /\ blk[th] \in Block /\ blk[th] \in Taken
      /\ blk[th] \notin held /\ blk[th] \notin Range(free)
      /\ \A t \in Thread \ {th} : Carries(t) => blk[t] # blk[th]
  BY <1>2 DEF PoolInv, NoBlockTwice, Taken
<1>4. free \in Seq(Block)
  BY DEF PoolInv, TypeOK
<1>5. /\ free' \in Seq(Block)
      /\ Len(free) \in Nat
      /\ DOMAIN free = 1 .. Len(free)
      /\ DOMAIN free' = 1 .. (Len(free) + 1)
      /\ Len(free') = Len(free) + 1
      /\ free'[1] = blk[th]
      /\ \A i \in 1 .. Len(free) : free'[i + 1] = free[i]
  BY <1>1, <1>3, <1>4, Pushed
<1>6. \A i \in 1 .. (Len(free) + 1) :
        \/ i = 1 /\ free'[i] = blk[th]
        \/ i - 1 \in 1 .. Len(free) /\ free'[i] = free[i - 1] /\ (i - 1) + 1 = i
  BY <1>5
<1>7. \A t \in Thread : pc'[t] = IF t = th THEN "free_count" ELSE pc[t]
  BY <1>1 DEF PoolInv, TypeOK
<1>8. TypeOK'
  <2>1. blk[th] \in MaybeBlock
    BY DEF PoolInv, TypeOK
  <2>2. headIdx' \in MaybeBlock /\ headTag' \in 0 .. (TagMod - 1) /\ behind' \in [Thread -> Nat]
    BY <1>1, <2>1, SwapTypes DEF PoolInv
  <2>3. QED
    BY <1>1, <1>5, <2>2 DEF PoolInv, TypeOK
<1>9. /\ ~Carries(th)'
      /\ \A t \in Thread \ {th} : Carries(t)' <=> Carries(t)
  BY <1>1, <1>7 DEF Carries, FreePC
<1>10. Range(free') = Range(free) \cup {blk[th]}
  <2>1. ASSUME NEW i \in 1 .. (Len(free) + 1)
        PROVE  free'[i] \in Range(free) \cup {blk[th]}
    <3>1. CASE i = 1
      BY <1>5, <3>1
    <3>2. CASE i # 1
      <4>1. i - 1 \in DOMAIN free /\ free'[i] = free[i - 1]
        BY <1>5, <1>6, <3>2
      <4>2. QED
        BY <4>1 DEF Range
    <3>3. QED
      BY <3>1, <3>2
  <2>2. blk[th] \in Range(free')
    <3>1. 1 \in 1 .. (Len(free) + 1)
      BY <1>5
    <3>2. QED
      BY <1>5, <3>1 DEF Range
  <2>3. ASSUME NEW i \in 1 .. Len(free)
        PROVE  free[i] \in Range(free')
    <3>1. i + 1 \in 1 .. (Len(free) + 1)
      BY <1>5
    <3>2. QED
      BY <1>5, <3>1 DEF Range
  <2>4. Range(free') \subseteq Range(free) \cup {blk[th]}
    BY <1>5, <2>1 DEF Range
  <2>5. Range(free) \subseteq Range(free')
    BY <1>5, <2>3 DEF Range
  <2>6. QED
    BY <2>2, <2>4, <2>5
<1>11. NoBlockTwice'
  <2>1. \A t \in Thread : Carries(t)' => t # th /\ Carries(t) /\ blk[t] # blk[th]
    BY <1>3, <1>9
  <2>2. \A t \in Thread : Carries(t)' =>
          blk'[t] \in Block /\ blk'[t] \notin held' \cup Range(free')
    BY <1>1, <1>10, <2>1 DEF PoolInv, NoBlockTwice
  <2>3. \A t, u \in Thread : Carries(t)' /\ Carries(u)' /\ blk'[t] = blk'[u] => t = u
    BY <1>1, <2>1 DEF PoolInv, NoBlockTwice
  <2>4. held' \cap Range(free') = {}
    BY <1>1, <1>3, <1>10 DEF PoolInv, NoBlockTwice
  <2>5. \A i, j \in DOMAIN free' : free'[i] = free'[j] => i = j
    <3>1. \A i, j \in 1 .. Len(free) : free[i] = free[j] => i = j
      BY <1>5 DEF PoolInv, NoBlockTwice
    <3>2. \A i \in 1 .. Len(free) : free[i] # blk[th]
      BY <1>3, <1>5 DEF Range
    <3>3. \A i, j \in 1 .. (Len(free) + 1) : free'[i] = free'[j] => i = j
      <4> SUFFICES ASSUME NEW i \in 1 .. (Len(free) + 1), NEW j \in 1 .. (Len(free) + 1),
                          free'[i] = free'[j]
                   PROVE  i = j
        OBVIOUS
      <4>1. CASE i = 1
        BY <1>6, <3>2, <4>1
      <4>2. CASE j = 1
        BY <1>6, <3>2, <4>2
      <4>3. CASE i # 1 /\ j # 1
        <5>1. /\ i - 1 \in 1 .. Len(free) /\ j - 1 \in 1 .. Len(free)
              /\ free[i - 1] = free[j - 1]
          BY <1>6, <4>3
        <5>2. i - 1 = j - 1
          BY <3>1, <5>1
        <5>3. QED
          BY <1>6, <4>3, <5>2
      <4>4. QED
        BY <4>1, <4>2, <4>3
    <3>4. QED
      BY <1>5, <3>3
  <2>6. QED
    BY <2>2, <2>3, <2>4, <2>5 DEF NoBlockTwice
<1>12. Taken' = Taken \ {blk[th]}
  BY <1>1, <1>3, <1>9 DEF Taken
<1>13. NoBlockLost'
  BY <1>3, <1>10, <1>12 DEF PoolInv, NoBlockLost
<1>14. Linked'
  <2>1. /\ headIdx = IF free = <<>> THEN Null ELSE free[1]
        /\ \A i \in 1 .. Len(free) :
             next[free[i]] = IF i = Len(free) THEN Null ELSE free[i + 1]
    BY <1>5 DEF PoolInv, Linked
  <2>2. next[blk[th]] = headIdx
    BY <1>1 DEF PoolInv, FreeLinks
  <2>3. ASSUME NEW i \in 1 .. (Len(free) + 1)
        PROVE  next[free'[i]] = IF i = Len(free) + 1 THEN Null ELSE free'[i + 1]
    <3>1. CASE i = 1 /\ Len(free) = 0
      <4>1. free = <<>>
        BY <1>4, <3>1
      <4>2. QED
        BY <1>5, <2>1, <2>2, <3>1, <4>1
    <3>2. CASE i = 1 /\ Len(free) # 0
      <4>1. free # <<>> /\ 1 \in 1 .. Len(free)
        BY <1>5, <3>2
      <4>2. free'[1 + 1] = free[1]
        BY <1>5, <4>1
      <4>3. next[free'[i]] = headIdx /\ headIdx = free[1]
        BY <1>5, <2>1, <2>2, <3>2, <4>1
      <4>4. free'[i + 1] = free[1] /\ i # Len(free) + 1
        BY <1>5, <3>2, <4>2
      <4>5. QED
        BY <4>3, <4>4
    <3>3. CASE i # 1
      <4>1. i - 1 \in 1 .. Len(free) /\ free'[i] = free[i - 1]
        BY <1>6, <3>3
      <4>2. next[free[i - 1]] = IF i - 1 = Len(free) THEN Null ELSE free[i]
        BY <2>1, <4>1
      <4>3. CASE i = Len(free) + 1
        <5>1. i - 1 = Len(free)
          BY <1>5, <4>3
        <5>2. QED
          BY <4>1, <4>2, <4>3, <5>1
      <4>4. CASE i # Len(free) + 1
        <5>1. i \in 1 .. Len(free) /\ i - 1 # Len(free)
          BY <1>5, <4>1, <4>4
        <5>2. free'[i + 1] = free[i]
          BY <1>5, <5>1
        <5>3. QED
          BY <4>1, <4>2, <4>4, <5>1, <5>2
      <4>5. QED
        BY <4>3, <4>4
    <3>4. QED
      BY <3>1, <3>2, <3>3
  <2>4. free' # <<>> /\ headIdx' = free'[1]
    BY <1>1, <1>5
  <2>5. QED
    BY <1>1, <1>5, <2>3, <2>4 DEF Linked
<1>15. TagCounts'
  <2> SUFFICES ASSUME NEW t \in Thread, pc'[t] \in AllocPC
               PROVE  /\ behind'[t] < TagMod
                      /\ headTag' - oldTag[t] \in {behind'[t], behind'[t] - TagMod}
                      /\ behind'[t] # 0
    BY <1>1 DEF TagCounts
  <2>1. t # th /\ pc[t] \in AllocPC
    BY <1>7 DEF AllocPC
  <2>2. blk[th] \in MaybeBlock
    BY <1>3 DEF MaybeBlock
  <2>3. /\ behind'[t] \in 1 .. (TagMod - 1)
        /\ headTag' - oldTag[t] \in {behind'[t], behind'[t] - TagMod}
    BY <1>1, <2>1, <2>2, SwapCounts
  <2>4. QED
    BY <2>3, PoolAssumption
<1>16. FreeLinks'
  <2>1. \A t \in Thread : pc'[t] = "free_cas" => pc[t] = "free_cas"
    BY <1>7
  <2>2. QED
    BY <1>1, <2>1 DEF PoolInv, FreeLinks
<1>17. QED
  BY <1>1, <1>3, <1>8, <1>11, <1>12, <1>13, <1>14, <1>15, <1>16 DEF PoolInv

-----------------------------------------------------------------------------
(* The theorems.                                                           *)

LEMMA InitInv == Init => PoolInv
<1> SUFFICES ASSUME Init PROVE PoolInv
  OBVIOUS
<1>1. BlockCount \in Nat \ {0} /\ Null \notin Block /\ TagMod \in Nat \ {0, 1}
  BY PoolAssumption
<1>2. /\ free = [i \in 1 .. BlockCount |-> i - 1]
      /\ \A i \in 1 .. BlockCount : i - 1 \in Block
  BY <1>1 DEF Init, Block
<1>3. /\ free \in Seq(Block) /\ Len(free) = BlockCount /\ DOMAIN free = 1 .. BlockCount
      /\ \A i \in 1 .. BlockCount : free[i] = i - 1
  BY <1>1, <1>2
<1>4. TypeOK
  <2>1. 0 \in Block
    BY <1>1 DEF Block
  <2>2. next \in [Block -> MaybeBlock]
    BY DEF Init, MaybeBlock
  <2>3. QED
    BY <1>1, <1>3, <2>1, <2>2 DEF Init, TypeOK, MaybeBlock
<1>5. \A t \in Thread : ~Carries(t)
  BY DEF Init, Carries, FreePC
<1>6. Range(free) = Block
  <2>1. ASSUME NEW b \in Block
        PROVE  b \in Range(free)
    <3>1. b + 1 \in 1 .. BlockCount /\ (b + 1) - 1 = b
      BY <1>1 DEF Block
    <3>2. QED
      BY <1>3, <3>1 DEF Range
  <2>2. Range(free) \subseteq Block
    BY <1>2, <1>3 DEF Range
  <2>3. QED
    BY <2>1, <2>2
<1>7. Taken = {}
  BY <1>5 DEF Init, Taken
<1>8. NoBlockTwice
  <2>1. \A i, j \in DOMAIN free : free[i] = free[j] => i = j
    BY <1>1, <1>3
  <2>2. held = {}
    BY DEF Init
  <2>3. QED
    BY <1>5, <2>1, <2>2 DEF NoBlockTwice
<1>9. NoBlockLost
  BY <1>6, <1>7 DEF NoBlockLost
<1>10. Linked
  <2>1. free # <<>> /\ free[1] = 0
    BY <1>1, <1>3
  <2>2. ASSUME NEW i \in 1 .. BlockCount
        PROVE  next[free[i]] = IF i = Len(free) THEN Null ELSE free[i + 1]
    <3>1. i - 1 \in Block /\ next[i - 1] = IF (i - 1) + 1 \in Block THEN (i - 1) + 1 ELSE Null
      BY <1>2 DEF Init
    <3>2. CASE i = BlockCount
      <4>1. (i - 1) + 1 \notin Block
        BY <1>1, <3>2 DEF Block
      <4>2. QED
        BY <1>3, <3>1, <3>2, <4>1
    <3>3. CASE i # BlockCount
      <4>1. (i - 1) + 1 \in Block /\ i + 1 \in 1 .. BlockCount /\ (i - 1) + 1 = (i + 1) - 1
        BY <1>1, <3>3 DEF Block
      <4>2. free[i + 1] = (i - 1) + 1
        BY <1>3, <4>1
      <4>3. QED
        BY <1>3, <3>1, <3>3, <4>1, <4>2
    <3>4. QED
      BY <3>2, <3>3
  <2>3. QED
    BY <1>3, <2>1, <2>2 DEF Init, Linked
<1>11. TagCounts /\ FreeLinks
  BY DEF Init, TagCounts, FreeLinks, AllocPC
<1>12. QED
  BY <1>4, <1>8, <1>9, <1>10, <1>11 DEF PoolInv

\* Every step keeps the invariant and is a step of the stack or none.
LEMMA StepInv ==
  ASSUME PoolInv, [Next]_vars
  PROVE  PoolInv' /\ [Stack!Next]_(Stack!vars)
<1>1. CASE UNCHANGED vars
  <2>1. /\ UNCHANGED <<headIdx, headTag, next, allocated, pc, oldIdx, oldTag, nxt, blk>>
        /\ UNCHANGED <<held, free, behind>>
    BY <1>1 DEF vars
  <2>2. \A t \in Thread : Carries(t)' <=> Carries(t)
    BY <2>1 DEF Carries
  <2>3. NoBlockTwice' /\ NoBlockLost' /\ Taken' = Taken
    BY <2>1, <2>2, SameHands
  <2>4. TypeOK' /\ TagCounts' /\ FreeLinks'
    BY <2>1 DEF PoolInv, TypeOK, TagCounts, FreeLinks
  <2>5. Linked'
    BY <2>1, SameList
  <2>6. QED
    BY <2>1, <2>3, <2>4, <2>5 DEF PoolInv, Stack!vars
<1>2. ASSUME NEW th \in Thread, Step(th)
      PROVE  PoolInv' /\ [Stack!Next]_(Stack!vars)
  <2>1. CASE CallAllocate(th) \/ AllocRetry(th)
    <3>1. /\ LoadHead(th) /\ Goto(th, "alloc_next") /\ pc[th] \in {"idle", "alloc_cas"}
          /\ UNCHANGED <<headVars, allocated, nxt, blk, held, free>>
      BY <2>1 DEF CallAllocate, AllocRetry
    <3>2. QED
      BY <3>1, LoadInv DEF Stack!vars
  <2>2. CASE AllocNull(th)
    BY <2>2, AllocNullInv DEF AllocNull, Stack!vars
  <2>3. CASE AllocNext(th)
    BY <2>3, AllocNextInv DEF AllocNext, Stack!vars
  <2>4. CASE AllocCas(th)
    BY <2>4, AllocCasInv DEF Stack!Next, Stack!Take
  <2>5. CASE AllocReturn(th)
    BY <2>5, AllocReturnInv DEF AllocReturn, Stack!vars
  <2>6. CASE \E b \in held : CallDeallocate(th, b)
    BY <2>6, CallDeallocateInv DEF CallDeallocate, Stack!vars
  <2>7. CASE FreeNext(th)
    BY <2>7, FreeNextInv DEF FreeNext, Stack!vars
  <2>8. CASE FreeCas(th)
    <3>1. blk[th] \in Block
      BY <2>8 DEF PoolInv, NoBlockTwice, FreeCas, Carries, FreePC
    <3>2. QED
      BY <2>8, <3>1, FreeCasInv DEF Stack!Next, Stack!Give
  <2>9. CASE FreeRetry(th)
    BY <2>9, FreeRetryInv DEF FreeRetry, Stack!vars
  <2>10. CASE FreeReturn(th)
    BY <2>10, FreeReturnInv DEF FreeReturn, Stack!vars
  <2>11. QED
    BY <1>2, <2>1, <2>2, <2>3, <2>4, <2>5, <2>6, <2>7, <2>8, <2>9, <2>10 DEF Step
<1>3. QED
  BY <1>1, <1>2 DEF Next

\* The inductive invariant of the free list: types, blocks in exactly one place,
\* links, and what each thread's copies of head and tag are worth.
THEOREM PoolInvariant == Spec => []PoolInv
<1>1. PoolInv /\ [Next]_vars => PoolInv'
  BY StepInv
<1>2. QED
  BY <1>1, InitInv, PTL DEF Spec

\* allocate never returns a block that is in use, however the threads race on
\* head_ and on the next_index_ of blocks taken and freed meanwhile.
THEOREM PoolNoBlockTwice == Spec => []NoBlockTwice
<1>1. PoolInv => NoBlockTwice
  BY DEF PoolInv
<1>2. QED
  BY <1>1, PoolInvariant, PTL

\* A block that is not in the list is held or in the hand of a thread.
THEOREM PoolNoBlockLost == Spec => []NoBlockLost
<1>1. PoolInv => NoBlockLost
  BY DEF PoolInv
<1>2. QED
  BY <1>1, PoolInvariant, PTL

\* The lock-free list of head_ and next_index_ implements a stack of blocks.
THEOREM PoolImplementsStack == Spec => ImplementsStack
<1>1. Init => Stack!Init
  <2> SUFFICES ASSUME Init PROVE Stack!Init
    OBVIOUS
  <2>1. PoolInv
    BY InitInv
  <2>2. free \in Seq(Block) /\ IsInjective(free)
    BY <2>1 DEF PoolInv, TypeOK, NoBlockTwice, IsInjective
  <2>3. Taken = {}
    BY DEF Init, Taken, Carries, FreePC
  <2>4. \A b \in Block : b \in Range(free)
    BY <2>1, <2>3 DEF PoolInv, NoBlockLost
  <2>5. \A b \in Block : \E i \in DOMAIN free : free[i] = b
    BY <2>4 DEF Range
  <2>6. QED
    BY <2>2, <2>3, <2>5 DEF Stack!Init, Stack!IsInjective, IsInjective
<1>2. PoolInv /\ [Next]_vars => [Stack!Next]_(Stack!vars)
  BY StepInv
<1>3. QED
  BY <1>1, <1>2, PoolInvariant, PTL DEF Spec, ImplementsStack, Stack!Spec

-----------------------------------------------------------------------------
(* The count.                                                              *)

\* the threads that have given a block back and have yet to count it
Returning == {th \in Thread : pc[th] \in FreePC \cup {"free_count"}}

LEMMA CountsAreNumbers ==
  ASSUME PoolInv
  PROVE  /\ allocated \in Int
         /\ IsFiniteSet(held) /\ Cardinality(held) \in Nat
         /\ IsFiniteSet(Returning) /\ Cardinality(Returning) \in Nat
<1>1. allocated \in Int /\ held \subseteq Block /\ IsFiniteSet(Thread)
  BY PoolAssumption DEF PoolInv, TypeOK
<1>2. IsFiniteSet(Block)
  <2>1. 0 \in Int /\ BlockCount - 1 \in Int
    BY PoolAssumption
  <2>2. QED
    BY <2>1, FS_Interval DEF Block
<1>3. IsFiniteSet(held) /\ IsFiniteSet(Returning)
  BY <1>1, <1>2, FS_Subset DEF Returning
<1>4. QED
  BY <1>1, <1>3, FS_CardinalityType

\* Steps that count nothing and move no block into or out of the callers' hands.
LEMMA CountStays ==
  ASSUME PoolInv, CountExact, NEW th \in Thread, UNCHANGED <<allocated, held>>,
         \A t \in Thread \ {th} : pc'[t] = pc[t],
         pc'[th] \in FreePC \cup {"free_count"} <=> pc[th] \in FreePC \cup {"free_count"}
  PROVE  CountExact'
<1>1. Returning' = Returning
  BY DEF Returning
<1>2. QED
  BY <1>1 DEF CountExact, Returning

LEMMA CountStep ==
  ASSUME PoolInv, CountExact, NEW th \in Thread, Step(th)
  PROVE  CountExact'
<1>1. /\ allocated \in Int
      /\ IsFiniteSet(held) /\ Cardinality(held) \in Nat
      /\ IsFiniteSet(Returning) /\ Cardinality(Returning) \in Nat
      /\ allocated = Cardinality(held) + Cardinality(Returning)
  BY CountsAreNumbers DEF CountExact, Returning
<1>2. pc \in [Thread -> {"idle", "alloc_count", "free_count"} \cup AllocPC \cup FreePC]
  BY DEF PoolInv, TypeOK
<1>3. CASE AllocReturn(th)
  <2>1. /\ pc[th] = "alloc_count" /\ pc' = [pc EXCEPT ![th] = "idle"]
        /\ allocated' = allocated + 1 /\ held' = held \cup {blk[th]}
    BY <1>3 DEF AllocReturn, Goto
  <2>2. blk[th] \notin held
    BY <2>1 DEF PoolInv, NoBlockTwice, Carries
  <2>3. Cardinality(held') = Cardinality(held) + 1
    BY <1>1, <2>1, <2>2, FS_AddElement
  <2>4. Returning' = Returning
    BY <1>2, <2>1 DEF Returning, FreePC
  <2>5. allocated' = Cardinality(held') + Cardinality(Returning')
    BY <1>1, <2>1, <2>3, <2>4
  <2>6. QED
    BY <2>5 DEF CountExact, Returning
<1>4. CASE \E b \in held : CallDeallocate(th, b)
  <2>1. PICK b \in held : CallDeallocate(th, b)
    BY <1>4
  <2>2. /\ pc[th] = "idle" /\ pc' = [pc EXCEPT ![th] = "free_next"]
        /\ allocated' = allocated /\ held' = held \ {b}
    BY <2>1 DEF CallDeallocate, Goto
  <2>3. Cardinality(held') = Cardinality(held) - 1
    BY <1>1, <2>2, FS_RemoveElement
  <2>4. Returning' = Returning \cup {th} /\ th \notin Returning
    BY <1>2, <2>2 DEF Returning, FreePC
  <2>5. Cardinality(Returning') = Cardinality(Returning) + 1
    BY <1>1, <2>4, FS_AddElement
  <2>6. allocated' = Cardinality(held') + Cardinality(Returning')
    BY <1>1, <2>2, <2>3, <2>5
  <2>7. QED
    BY <2>6 DEF CountExact, Returning
<1>5. CASE FreeReturn(th)
  <2>1. /\ pc[th] = "free_count" /\ pc' = [pc EXCEPT ![th] = "idle"]
        /\ allocated' = allocated - 1 /\ held' = held
    BY <1>5 DEF FreeReturn, Goto
  <2>2. Returning' = Returning \ {th} /\ th \in Returning
    BY <1>2, <2>1 DEF Returning, FreePC
  <2>3. Cardinality(Returning') = Cardinality(Returning) - 1
    BY <1>1, <2>2, FS_RemoveElement
  <2>4. allocated' = Cardinality(held') + Cardinality(Returning')
    BY <1>1, <2>1, <2>3
  <2>5. QED
    BY <2>4 DEF CountExact, Returning
<1>6. CASE CallAllocate(th) \/ AllocRetry(th) \/ AllocNull(th) \/ AllocNext(th) \/ AllocCas(th)
  <2>1. /\ pc[th] \in {"idle", "alloc_next", "alloc_cas"}
        /\ \E where \in {"idle", "alloc_next", "alloc_cas", "alloc_count"} :
             pc' = [pc EXCEPT ![th] = where]
        /\ UNCHANGED <<allocated, held>>
    BY <1>6 DEF CallAllocate, AllocRetry, AllocNull, AllocNext, AllocCas, Goto
  <2>2. /\ pc'[th] \notin FreePC \cup {"free_count"}
        /\ pc[th] \notin FreePC \cup {"free_count"}
        /\ \A t \in Thread \ {th} : pc'[t] = pc[t]
    BY <1>2, <2>1 DEF FreePC
  <2>3. QED
    BY <2>1, <2>2, CountStays
<1>7. CASE FreeNext(th) \/ FreeCas(th) \/ FreeRetry(th)
  <2>1. /\ pc[th] \in FreePC
        /\ \E where \in FreePC \cup {"free_count"} : pc' = [pc EXCEPT ![th] = where]
        /\ UNCHANGED <<allocated, held>>
    BY <1>7 DEF FreeNext, FreeCas, FreeRetry, Goto, FreePC
  <2>2. /\ pc'[th] \in FreePC \cup {"free_count"}
        /\ pc[th] \in FreePC \cup {"free_count"}
        /\ \A t \in Thread \ {th} : pc'[t] = pc[t]
    BY <1>2, <2>1
  <2>3. QED
    BY <2>1, <2>2, CountStays
<1>8. QED
  BY <1>3, <1>4, <1>5, <1>6, <1>7 DEF Step

\* allocated_count() counts each block from before it is handed out until after it
\* is back in the list: exactly the blocks held and those being returned.
THEOREM PoolCountExact == Spec => []CountExact
<1>1. Init => CountExact
  <2> SUFFICES ASSUME Init PROVE CountExact
    OBVIOUS
  <2>1. allocated = 0 /\ held = {} /\ Returning = {}
    BY DEF Init, Returning, FreePC
  <2>2. QED
    BY <2>1, FS_EmptySet DEF CountExact, Returning
<1>2. PoolInv /\ CountExact /\ [Next]_vars => CountExact'
  <2> SUFFICES ASSUME PoolInv, CountExact, [Next]_vars PROVE CountExact'
    OBVIOUS
  <2>1. CASE UNCHANGED vars
    BY <2>1 DEF vars, CountExact
  <2>2. CASE \E th \in Thread : Step(th)
    BY <2>2, CountStep
  <2>3. QED
    BY <2>1, <2>2 DEF Next
<1>3. QED
  BY <1>1, <1>2, PoolInvariant, PTL DEF Spec

-----------------------------------------------------------------------------
(* LinearArena and StackAllocator                                          *)

\* An alignment that was normalized is a positive number.
LEMMA NormalizedAlign ==
  ASSUME NEW a \in Nat
  PROVE  NormalizeAlign(a) \in Nat \ {0}
BY BumpAssumption DEF NormalizeAlign

\* align_up never goes back, whatever the offset and the alignment.
LEMMA AlignUpAbove ==
  ASSUME NEW v \in Nat, NEW a \in Nat \ {0}
  PROVE  AlignUp(v, a) \in Nat /\ AlignUp(v, a) >= v
<1>1. v % a \in 0 .. a - 1
  OBVIOUS
<1>2. (a - (v % a)) % a \in 0 .. a - 1
  BY <1>1
<1>3. QED
  BY <1>2 DEF AlignUp

\* A block cut at or above what is in use is apart from the blocks below.
LEMMA ApartGrows ==
  ASSUME NEW B, NEW used \in Nat, Apart(B, used),
         \A b \in B : b.lo \in Nat /\ b.hi \in Nat,
         NEW cut, cut.lo \in Nat, cut.hi \in Nat, cut.lo >= used, cut.lo < cut.hi
  PROVE  Apart(B \cup {cut}, cut.hi)
BY DEF Apart

\* Fewer blocks are apart too, below any offset they all lie below.
LEMMA ApartShrinks ==
  ASSUME NEW B, NEW C, NEW used, NEW less, Apart(B, used), C \subseteq B,
         \A c \in C : c.hi <= less
  PROVE  Apart(C, less)
BY DEF Apart

-----------------------------------------------------------------------------
(* The arena *)

Frames == [at : ArenaPC, size : Nat \ {0}, align : Nat \ {0}, cur : Nat, mark : Nat]

-----------------------------------------------------------------------------
(* Frames *)

LEMMA FrameFields ==
  ASSUME NEW at \in ArenaPC, NEW n \in Nat \ {0}, NEW a \in Nat \ {0},
         NEW c \in Nat, NEW hw \in Nat
  PROVE  /\ Frame(at, n, a, c, hw) \in Frames
         /\ Frame(at, n, a, c, hw).at = at
         /\ Frame(at, n, a, c, hw).size = n
         /\ Frame(at, n, a, c, hw).align = a
         /\ Frame(at, n, a, c, hw).cur = c
         /\ Frame(at, n, a, c, hw).mark = hw
BY DEF Frame, Frames

LEMMA IdleFields == Idle \in Frames /\ Idle.at = "idle"
BY BumpAssumption DEF Idle, Frame, Frames, ArenaPC

\* A thread's step leaves the frames of the others alone.
LEMMA GoSets ==
  ASSUME call \in [Caller -> Frames], NEW th \in Caller, NEW f \in Frames, Go(th, f)
  PROVE  /\ call' \in [Caller -> Frames]
         /\ call'[th] = f
         /\ \A u \in Caller : u # th => call'[u] = call[u] /\ Hi(u)' = Hi(u)
BY DEF Go, Hi, Lo

\* A thread on its way to the mark keeps its block.
LEMMA MarkingSets ==
  ASSUME call \in [Caller -> Frames], NEW th \in Caller, NEW at \in ArenaPC,
         NEW hw \in Nat, Marking(th, at, hw)
  PROVE  /\ call' \in [Caller -> Frames]
         /\ call'[th].at = at /\ call'[th].mark = hw /\ Hi(th)' = Hi(th)
         /\ \A u \in Caller : u # th => call'[u] = call[u] /\ Hi(u)' = Hi(u)
<1> DEFINE f == Frame(at, call[th].size, call[th].align, call[th].cur, hw)
<1>1. call[th] \in Frames
  OBVIOUS
<1>2. /\ call[th].size \in Nat \ {0} /\ call[th].align \in Nat \ {0}
      /\ call[th].cur \in Nat
  BY <1>1 DEF Frames
<1>3. /\ f \in Frames /\ f.at = at /\ f.mark = hw
      /\ f.size = call[th].size /\ f.align = call[th].align /\ f.cur = call[th].cur
  BY <1>2 DEF Frame, Frames
<1>4. Go(th, f)
  BY DEF Marking
<1> HIDE DEF f
<1>5. /\ call' \in [Caller -> Frames] /\ call'[th] = f
      /\ \A u \in Caller : u # th => call'[u] = call[u] /\ Hi(u)' = Hi(u)
  BY <1>3, <1>4, GoSets
<1>6. Hi(th)' = Hi(th)
  BY <1>3, <1>5 DEF Hi, Lo
<1>7. QED
  BY <1>3, <1>5, <1>6

\* Where a thread's attempt would cut its block.
LEMMA AttemptBounds ==
  ASSUME call \in [Caller -> Frames], NEW th \in Caller
  PROVE  /\ Lo(th) \in Nat /\ Hi(th) \in Nat /\ Lo(th) < Hi(th)
         /\ call[th].cur \in Nat /\ call[th].cur <= Lo(th)
         /\ call[th].mark \in Nat /\ call[th].at \in ArenaPC
<1>1. call[th] \in Frames
  OBVIOUS
<1>2. /\ call[th].size \in Nat \ {0} /\ call[th].align \in Nat \ {0}
      /\ call[th].cur \in Nat /\ call[th].mark \in Nat /\ call[th].at \in ArenaPC
  BY <1>1 DEF Frames
<1>3. Lo(th) \in Nat /\ Lo(th) >= call[th].cur
  BY <1>2, AlignUpAbove DEF Lo
<1>4. QED
  BY <1>2, <1>3 DEF Hi

LEMMA GreaterIs ==
  ASSUME NEW a \in Nat, NEW b \in Nat
  PROVE  /\ Greater(a, b) \in Nat /\ Greater(a, b) >= a /\ Greater(a, b) >= b
         /\ Greater(a, b) = a \/ Greater(a, b) = b
BY DEF Greater

-----------------------------------------------------------------------------
(* Blocks *)

ArenaSound == ArenaTypeOK /\ BlocksDisjoint

LEMMA TypeIs == ArenaTypeOK <=>
  /\ offset \in Nat /\ highWater \in Nat /\ peak \in Nat
  /\ call \in [Caller -> Frames]
  /\ live \subseteq [lo : Nat, hi : Nat]
  /\ overlapped \in BOOLEAN
BY DEF ArenaTypeOK, Frames

\* The swap succeeds only at the offset_ the block was placed above.
LEMMA SwapOffsetSound ==
  ASSUME ArenaSound, NEW th \in Caller, SwapOffset(th), overlapped' \in BOOLEAN
  PROVE  ArenaSound'
<1> DEFINE cut == [lo |-> Lo(th), hi |-> Hi(th)]
<1>1. /\ offset \in Nat /\ highWater \in Nat /\ peak \in Nat
      /\ call \in [Caller -> Frames] /\ live \subseteq [lo : Nat, hi : Nat]
  BY TypeIs DEF ArenaSound
<1>2. /\ Lo(th) \in Nat /\ Hi(th) \in Nat /\ Lo(th) < Hi(th) /\ call[th].cur <= Lo(th)
  BY <1>1, AttemptBounds
<1>3. /\ Hi(th) <= Capacity /\ offset = call[th].cur
      /\ offset' = Hi(th) /\ live' = live \cup {cut}
      /\ peak' = Greater(peak, Hi(th)) /\ highWater' = highWater
      /\ Marking(th, "load_mark", 0)
  BY DEF SwapOffset
<1>4. call' \in [Caller -> Frames]
  BY <1>1, <1>3, MarkingSets DEF ArenaPC
<1>5. cut \in [lo : Nat, hi : Nat] /\ cut.lo = Lo(th) /\ cut.hi = Hi(th)
  BY <1>2
<1> HIDE DEF cut
<1>6. Apart(live, offset) /\ \A b \in live : b.lo \in Nat /\ b.hi \in Nat
  BY <1>1 DEF ArenaSound, BlocksDisjoint
<1>7. cut.lo \in Nat /\ cut.hi \in Nat /\ cut.lo >= offset /\ cut.lo < cut.hi
  BY <1>2, <1>3, <1>5
<1>8. Apart(live \cup {cut}, cut.hi)
  BY <1>1, <1>6, <1>7, ApartGrows
<1>9. BlocksDisjoint'
  BY <1>3, <1>5, <1>8 DEF BlocksDisjoint
<1>10. peak' \in Nat
  BY <1>1, <1>2, <1>3, GreaterIs
<1>11. ArenaTypeOK'
  BY <1>1, <1>2, <1>3, <1>4, <1>5, <1>10 DEF ArenaTypeOK, Frames
<1>12. QED
  BY <1>9, <1>11 DEF ArenaSound

\* No other step cuts a block.
LEMMA OtherStepsSound ==
  ASSUME ArenaSound, NEW th \in Caller, overlapped' \in BOOLEAN,
         \/ BeginAllocate(th) \/ Exhausted(th) \/ SwapFails(th) \/ LoadMark(th)
         \/ RaiseMark(th) \/ Reset(th) \/ ResetMarkLoad(th) \/ ResetMarkStore(th)
  PROVE  ArenaSound'
<1>1. /\ offset \in Nat /\ highWater \in Nat /\ peak \in Nat
      /\ call \in [Caller -> Frames] /\ live \subseteq [lo : Nat, hi : Nat]
      /\ Apart(live, offset) /\ offset <= Capacity
  BY TypeIs DEF ArenaSound, BlocksDisjoint
<1>2. /\ call[th].cur \in Nat /\ call[th].mark \in Nat /\ Hi(th) \in Nat
      /\ call[th].size \in Nat \ {0} /\ call[th].align \in Nat \ {0}
  <2>1. call[th] \in Frames
    BY <1>1
  <2>2. QED
    BY <1>1, <2>1, AttemptBounds DEF Frames
<1>3. SUFFICES /\ offset' \in Nat /\ highWater' \in Nat /\ peak' \in Nat
               /\ call' \in [Caller -> Frames] /\ live' \subseteq [lo : Nat, hi : Nat]
               /\ Apart(live', offset') /\ offset' <= Capacity
  BY DEF ArenaSound, ArenaTypeOK, Frames, BlocksDisjoint
<1>4. CASE BeginAllocate(th)
  <2>1. PICK n \in Sizes, a \in Aligns :
          Go(th, Frame("swap", n, NormalizeAlign(a), offset, 0))
    BY <1>4 DEF BeginAllocate
  <2>2. n \in Nat \ {0} /\ a \in Nat
    BY BumpAssumption
  <2>3. Frame("swap", n, NormalizeAlign(a), offset, 0) \in Frames
    BY <1>1, <2>2, NormalizedAlign, FrameFields DEF ArenaPC
  <2>4. QED
    BY <1>1, <1>4, <2>1, <2>3, GoSets DEF BeginAllocate
<1>5. CASE Exhausted(th)
  BY <1>1, <1>5, IdleFields, GoSets DEF Exhausted
<1>6. CASE SwapFails(th)
  <2>1. Frame("swap", call[th].size, call[th].align, offset, 0) \in Frames
    BY <1>1, <1>2, FrameFields DEF ArenaPC
  <2>2. QED
    BY <1>1, <1>6, <2>1, GoSets DEF SwapFails, Attempt
<1>7. CASE LoadMark(th)
  BY <1>1, <1>7, MarkingSets DEF LoadMark, ArenaPC
<1>8. CASE RaiseMark(th)
  <2>1. CASE Go(th, Idle)
    BY <1>1, <1>2, <1>8, <2>1, IdleFields, GoSets DEF RaiseMark
  <2>2. CASE Marking(th, "swap_mark", highWater) /\ highWater' = highWater
    BY <1>1, <1>8, <2>2, MarkingSets DEF RaiseMark, ArenaPC
  <2>3. QED
    BY <1>8, <2>1, <2>2 DEF RaiseMark
<1>9. CASE Reset(th)
  BY <1>1, <1>9, BumpAssumption DEF Reset, Apart
<1>10. CASE ResetMarkLoad(th)
  <2>1. Frame("store_mark", 1, MinAlign, offset, 0) \in Frames
    BY <1>1, BumpAssumption, FrameFields DEF ArenaPC
  <2>2. QED
    BY <1>1, <1>10, <2>1, GoSets DEF ResetMarkLoad
<1>11. CASE ResetMarkStore(th)
  BY <1>1, <1>2, <1>11, IdleFields, GoSets DEF ResetMarkStore
<1>12. QED
  BY <1>4, <1>5, <1>6, <1>7, <1>8, <1>9, <1>10, <1>11

-----------------------------------------------------------------------------
(* The mark *)

\* MarkInv, spelt out for a step that changes the frame of th alone.
LEMMA MarkStep ==
  ASSUME ArenaSound, MarkInv, NEW th \in Caller,
         call' \in [Caller -> Frames],
         \A u \in Caller : u # th => call'[u] = call[u] /\ Hi(u)' = Hi(u),
         offset' <= peak', highWater' <= peak',
         highWater' = peak' \/ \E u \in Caller : call'[u].at \in Marks /\ Hi(u)' = peak',
         peak' >= peak, highWater' >= highWater, peak' \in Nat, highWater' \in Nat,
         call'[th].at \in Marks => Hi(th)' <= peak' /\ call'[th].mark <= highWater',
         \A u \in Caller : call'[u].at = "store_mark" => offset' <= call'[u].cur
  PROVE  MarkInv'
<1>1. peak \in Nat /\ highWater \in Nat /\ call \in [Caller -> Frames]
  BY TypeIs DEF ArenaSound
<1>2. ASSUME NEW u \in Caller, call'[u].at \in Marks
      PROVE  Hi(u)' <= peak' /\ call'[u].mark <= highWater'
  <2>1. CASE u = th
    BY <1>2, <2>1
  <2>2. CASE u # th
    <3>1. Hi(u)' = Hi(u) /\ call'[u] = call[u] /\ Hi(u) <= peak /\ call[u].mark <= highWater
      BY <1>2, <2>2 DEF MarkInv
    <3>2. Hi(u) \in Nat /\ call[u].mark \in Nat
      BY <1>1, AttemptBounds
    <3>3. QED
      BY <1>1, <3>1, <3>2
  <2>3. QED
    BY <2>1, <2>2
<1>3. QED
  BY <1>2 DEF MarkInv

\* A thread outside of Marks holds nothing back: whoever does goes on to do so.
LEMMA WitnessStays ==
  ASSUME MarkInv, NEW th \in Caller, highWater' = highWater, peak' = peak,
         call[th].at \notin Marks,
         \A u \in Caller : u # th => call'[u] = call[u] /\ Hi(u)' = Hi(u)
  PROVE  highWater' = peak' \/ \E u \in Caller : call'[u].at \in Marks /\ Hi(u)' = peak'
BY DEF MarkInv

\* Whoever stores the mark is alone in the arena.
LEMMA Alone ==
  ASSUME ~Beside(call), NEW th \in Caller, NEW u \in Caller, u # th,
         call[th].at # "idle"
  PROVE  call[u].at # "store_mark"
BY DEF Beside

\* A step outside of Marks, not the store of the mark, that leaves offset_.
LEMMA FrameStepMark ==
  ASSUME ArenaSound, MarkInv, NEW th \in Caller,
         call' \in [Caller -> Frames],
         \A u \in Caller : u # th => call'[u] = call[u] /\ Hi(u)' = Hi(u),
         call[th].at \notin Marks, call'[th].at \notin Marks,
         call'[th].at = "store_mark" => offset <= call'[th].cur,
         offset' = offset, highWater' = highWater, peak' = peak
  PROVE  MarkInv'
<1>1. peak \in Nat /\ highWater \in Nat /\ offset \in Nat
  BY TypeIs DEF ArenaSound
<1>2. highWater' = peak' \/ \E u \in Caller : call'[u].at \in Marks /\ Hi(u)' = peak'
  BY WitnessStays
<1>3. \A u \in Caller : call'[u].at = "store_mark" => offset' <= call'[u].cur
  BY DEF MarkInv
<1>4. offset' <= peak' /\ highWater' <= peak' /\ peak' >= peak /\ highWater' >= highWater
      /\ peak' \in Nat /\ highWater' \in Nat
  BY <1>1 DEF MarkInv
<1>5. QED
  BY <1>2, <1>3, <1>4, MarkStep

LEMMA BeginAllocateMark ==
  ASSUME ArenaSound, MarkInv, NEW th \in Caller, BeginAllocate(th)
  PROVE  MarkInv'
<1>1. offset \in Nat /\ call \in [Caller -> Frames]
  BY TypeIs DEF ArenaSound
<1>2. PICK n \in Sizes, a \in Aligns :
        Go(th, Frame("swap", n, NormalizeAlign(a), offset, 0))
  BY DEF BeginAllocate
<1>3. n \in Nat \ {0} /\ NormalizeAlign(a) \in Nat \ {0}
  BY BumpAssumption, NormalizedAlign
<1>4. /\ Frame("swap", n, NormalizeAlign(a), offset, 0) \in Frames
      /\ Frame("swap", n, NormalizeAlign(a), offset, 0).at = "swap"
  BY <1>1, <1>3 DEF Frame, Frames, ArenaPC
<1>5. /\ call' \in [Caller -> Frames] /\ call'[th].at = "swap"
      /\ \A u \in Caller : u # th => call'[u] = call[u] /\ Hi(u)' = Hi(u)
  BY <1>1, <1>2, <1>4, GoSets
<1>6. /\ call[th].at \notin Marks /\ call'[th].at \notin Marks
      /\ call'[th].at # "store_mark"
      /\ offset' = offset /\ highWater' = highWater /\ peak' = peak
  BY <1>5 DEF BeginAllocate, Marks
<1>7. QED
  BY <1>5, <1>6, FrameStepMark

LEMMA ExhaustedMark ==
  ASSUME ArenaSound, MarkInv, NEW th \in Caller, Exhausted(th)
  PROVE  MarkInv'
<1>1. call \in [Caller -> Frames] /\ Go(th, Idle)
  BY TypeIs DEF ArenaSound, Exhausted
<1>2. /\ call' \in [Caller -> Frames] /\ call'[th].at = "idle"
      /\ \A u \in Caller : u # th => call'[u] = call[u] /\ Hi(u)' = Hi(u)
  BY <1>1, IdleFields, GoSets
<1>3. /\ call[th].at \notin Marks /\ call'[th].at \notin Marks
      /\ call'[th].at # "store_mark"
      /\ offset' = offset /\ highWater' = highWater /\ peak' = peak
  BY <1>2 DEF Exhausted, Marks
<1>4. QED
  BY <1>2, <1>3, FrameStepMark

LEMMA SwapFailsMark ==
  ASSUME ArenaSound, MarkInv, NEW th \in Caller, SwapFails(th)
  PROVE  MarkInv'
<1>1. offset \in Nat /\ call \in [Caller -> Frames]
  BY TypeIs DEF ArenaSound
<1>2. call[th].size \in Nat \ {0} /\ call[th].align \in Nat \ {0}
  <2>1. call[th] \in Frames
    BY <1>1
  <2>2. QED
    BY <2>1 DEF Frames
<1>3. /\ Frame("swap", call[th].size, call[th].align, offset, 0) \in Frames
      /\ Frame("swap", call[th].size, call[th].align, offset, 0).at = "swap"
  BY <1>1, <1>2 DEF Frame, Frames, ArenaPC
<1>4. /\ call' \in [Caller -> Frames] /\ call'[th].at = "swap"
      /\ \A u \in Caller : u # th => call'[u] = call[u] /\ Hi(u)' = Hi(u)
  BY <1>1, <1>3, GoSets DEF SwapFails, Attempt
<1>5. /\ call[th].at \notin Marks /\ call'[th].at \notin Marks
      /\ call'[th].at # "store_mark"
      /\ offset' = offset /\ highWater' = highWater /\ peak' = peak
  BY <1>4 DEF SwapFails, Marks
<1>6. QED
  BY <1>4, <1>5, FrameStepMark

\* A new block may be the highest: then its thread is the one to raise the mark.
LEMMA SwapOffsetMark ==
  ASSUME ArenaSound, MarkInv, ~Beside(call), NEW th \in Caller, SwapOffset(th)
  PROVE  MarkInv'
<1>1. /\ peak \in Nat /\ highWater \in Nat /\ call \in [Caller -> Frames]
      /\ Hi(th) \in Nat
  BY TypeIs, AttemptBounds DEF ArenaSound
<1>2. /\ call[th].at = "swap" /\ offset' = Hi(th) /\ highWater' = highWater
      /\ peak' = Greater(peak, Hi(th)) /\ Marking(th, "load_mark", 0)
  BY DEF SwapOffset
<1>3. /\ peak' \in Nat /\ peak' >= peak /\ peak' >= Hi(th)
      /\ peak' = peak \/ peak' = Hi(th)
  BY <1>1, <1>2, GreaterIs
<1>4. /\ call' \in [Caller -> Frames] /\ call'[th].at = "load_mark"
      /\ call'[th].mark = 0 /\ Hi(th)' = Hi(th)
      /\ \A u \in Caller : u # th => call'[u] = call[u] /\ Hi(u)' = Hi(u)
  BY <1>1, <1>2, MarkingSets DEF ArenaPC
<1>5. highWater' = peak' \/ \E u \in Caller : call'[u].at \in Marks /\ Hi(u)' = peak'
  <2>1. CASE peak' = Hi(th)
    BY <1>4, <2>1 DEF Marks
  <2>2. CASE peak' = peak
    BY <1>2, <1>4, <2>2, WitnessStays DEF Marks
  <2>3. QED
    BY <1>3, <2>1, <2>2
<1>6. \A u \in Caller : call'[u].at # "store_mark"
  BY <1>2, <1>4, Alone
<1>7. offset' <= peak' /\ highWater' <= peak' /\ highWater' >= highWater /\ highWater' \in Nat
  BY <1>1, <1>2, <1>3 DEF MarkInv
<1>8. Hi(th)' <= peak' /\ call'[th].mark <= highWater'
  BY <1>1, <1>2, <1>3, <1>4
<1>9. QED
  BY <1>3, <1>4, <1>5, <1>6, <1>7, <1>8, MarkStep

LEMMA LoadMarkMark ==
  ASSUME ArenaSound, MarkInv, NEW th \in Caller, LoadMark(th)
  PROVE  MarkInv'
<1>1. /\ peak \in Nat /\ highWater \in Nat /\ offset \in Nat
      /\ call \in [Caller -> Frames]
  BY TypeIs DEF ArenaSound
<1>2. /\ call[th].at = "load_mark" /\ offset' = offset /\ highWater' = highWater
      /\ peak' = peak /\ Marking(th, "swap_mark", highWater)
  BY DEF LoadMark
<1>3. /\ call' \in [Caller -> Frames] /\ call'[th].at = "swap_mark"
      /\ call'[th].mark = highWater /\ Hi(th)' = Hi(th)
      /\ \A u \in Caller : u # th => call'[u] = call[u] /\ Hi(u)' = Hi(u)
  BY <1>1, <1>2, MarkingSets DEF ArenaPC
<1>4. /\ Hi(th) <= peak
      /\ highWater' = peak' \/ \E u \in Caller : call'[u].at \in Marks /\ Hi(u)' = peak'
  BY <1>2, <1>3 DEF MarkInv, Marks
<1>5. \A u \in Caller : call'[u].at = "store_mark" => offset' <= call'[u].cur
  BY <1>2, <1>3 DEF MarkInv
<1>6. /\ offset' <= peak' /\ highWater' <= peak' /\ peak' >= peak
      /\ highWater' >= highWater /\ peak' \in Nat /\ highWater' \in Nat
  BY <1>1, <1>2 DEF MarkInv
<1>7. Hi(th)' <= peak' /\ call'[th].mark <= highWater'
  BY <1>1, <1>2, <1>3, <1>4
<1>8. QED
  BY <1>3, <1>4, <1>5, <1>6, <1>7, MarkStep

\* The thread leaves the mark at least as high as its block.
LEMMA RaiseMarkMark ==
  ASSUME ArenaSound, MarkInv, NEW th \in Caller, RaiseMark(th)
  PROVE  MarkInv'
<1>1. /\ peak \in Nat /\ highWater \in Nat /\ offset \in Nat
      /\ call \in [Caller -> Frames] /\ Hi(th) \in Nat /\ call[th].mark \in Nat
  BY TypeIs, AttemptBounds DEF ArenaSound
<1>2. /\ call[th].at \in Marks /\ offset' = offset /\ peak' = peak
  BY DEF RaiseMark, Marks
<1>3. /\ offset <= peak /\ highWater <= peak /\ Hi(th) <= peak
      /\ call[th].mark <= highWater
  BY <1>2 DEF MarkInv
<1>4. ASSUME Go(th, Idle),
             (highWater' = highWater /\ Hi(th) <= highWater) \/ highWater' = Hi(th),
             highWater' >= highWater
      PROVE  MarkInv'
  <2>1. /\ call' \in [Caller -> Frames] /\ call'[th].at = "idle"
        /\ \A u \in Caller : u # th => call'[u] = call[u] /\ Hi(u)' = Hi(u)
    BY <1>1, <1>4, IdleFields, GoSets
  <2>2. highWater' \in Nat /\ highWater' <= peak'
    BY <1>1, <1>2, <1>3, <1>4
  <2>3. highWater' = peak' \/ \E u \in Caller : call'[u].at \in Marks /\ Hi(u)' = peak'
    <3>1. CASE highWater = peak
      BY <1>1, <1>2, <1>4, <2>2, <3>1
    <3>2. CASE Hi(th) = peak
      BY <1>1, <1>2, <1>3, <1>4, <3>2
    <3>3. CASE \E u \in Caller : u # th /\ call[u].at \in Marks /\ Hi(u) = peak
      BY <1>2, <2>1, <3>3
    <3>4. QED
      BY <3>1, <3>2, <3>3 DEF MarkInv
  <2>4. \A u \in Caller : call'[u].at = "store_mark" => offset' <= call'[u].cur
    BY <1>2, <2>1 DEF MarkInv
  <2>5. call'[th].at \notin Marks
    BY <2>1 DEF Marks
  <2>6. offset' <= peak' /\ peak' >= peak /\ peak' \in Nat
    BY <1>1, <1>2, <1>3
  <2>7. QED
    BY <1>4, <2>1, <2>2, <2>3, <2>4, <2>5, <2>6, MarkStep
<1>5. CASE Hi(th) <= call[th].mark /\ Go(th, Idle) /\ highWater' = highWater
  BY <1>1, <1>3, <1>4, <1>5
<1>6. CASE /\ Hi(th) > call[th].mark /\ highWater = call[th].mark
           /\ highWater' = Hi(th) /\ Go(th, Idle)
  BY <1>1, <1>4, <1>6
<1>7. CASE Marking(th, "swap_mark", highWater) /\ highWater' = highWater
  <2>1. /\ call' \in [Caller -> Frames] /\ call'[th].at = "swap_mark"
        /\ call'[th].mark = highWater /\ Hi(th)' = Hi(th)
        /\ \A u \in Caller : u # th => call'[u] = call[u] /\ Hi(u)' = Hi(u)
    BY <1>1, <1>7, MarkingSets DEF ArenaPC
  <2>2. highWater' = peak' \/ \E u \in Caller : call'[u].at \in Marks /\ Hi(u)' = peak'
    BY <1>2, <1>7, <2>1 DEF MarkInv, Marks
  <2>3. \A u \in Caller : call'[u].at = "store_mark" => offset' <= call'[u].cur
    BY <1>2, <2>1 DEF MarkInv
  <2>4. /\ offset' <= peak' /\ highWater' <= peak' /\ peak' >= peak
        /\ highWater' >= highWater /\ peak' \in Nat /\ highWater' \in Nat
    BY <1>1, <1>2, <1>3, <1>7
  <2>5. Hi(th)' <= peak' /\ call'[th].mark <= highWater'
    BY <1>1, <1>2, <1>3, <1>7, <2>1
  <2>6. QED
    BY <2>1, <2>2, <2>3, <2>4, <2>5, MarkStep
<1>8. QED
  BY <1>5, <1>6, <1>7 DEF RaiseMark

LEMMA ResetMark ==
  ASSUME ArenaSound, MarkInv, NEW th \in Caller, Reset(th)
  PROVE  MarkInv'
<1>1. /\ peak \in Nat /\ call \in [Caller -> Frames]
      /\ offset' = 0 /\ highWater' = highWater /\ peak' = peak /\ call' = call
  BY TypeIs DEF ArenaSound, Reset
<1>2. \A u \in Caller : Hi(u)' = Hi(u) /\ call[u].cur \in Nat
  BY <1>1, AttemptBounds DEF Hi, Lo
<1>3. QED
  BY <1>1, <1>2 DEF MarkInv

LEMMA ResetMarkLoadMark ==
  ASSUME ArenaSound, MarkInv, NEW th \in Caller, ResetMarkLoad(th)
  PROVE  MarkInv'
<1>1. offset \in Nat /\ call \in [Caller -> Frames]
  BY TypeIs DEF ArenaSound
<1>2. /\ Frame("store_mark", 1, MinAlign, offset, 0) \in Frames
      /\ Frame("store_mark", 1, MinAlign, offset, 0).at = "store_mark"
      /\ Frame("store_mark", 1, MinAlign, offset, 0).cur = offset
  BY <1>1, BumpAssumption DEF Frame, Frames, ArenaPC
<1>3. /\ call' \in [Caller -> Frames]
      /\ call'[th].at = "store_mark" /\ call'[th].cur = offset
      /\ \A u \in Caller : u # th => call'[u] = call[u] /\ Hi(u)' = Hi(u)
  BY <1>1, <1>2, GoSets DEF ResetMarkLoad
<1>4. /\ call[th].at \notin Marks /\ call'[th].at \notin Marks /\ offset <= call'[th].cur
      /\ offset' = offset /\ highWater' = highWater /\ peak' = peak
  BY <1>1, <1>3 DEF ResetMarkLoad, Marks
<1>5. QED
  BY <1>3, <1>4, FrameStepMark

\* The store is the only step that lowers the mark; nobody else is in a call.
LEMMA ResetMarkStoreMark ==
  ASSUME ArenaSound, MarkInv, ~Beside(call), NEW th \in Caller, ResetMarkStore(th)
  PROVE  MarkInv'
<1>1. /\ call \in [Caller -> Frames] /\ call[th].cur \in Nat
  BY TypeIs, AttemptBounds DEF ArenaSound
<1>2. /\ call[th].at = "store_mark" /\ highWater' = call[th].cur /\ peak' = call[th].cur
      /\ offset' = offset /\ Go(th, Idle)
  BY DEF ResetMarkStore
<1>3. \A u \in Caller : u # th => call[u].at = "idle"
  BY <1>2 DEF Beside
<1>4. \A u \in Caller : call'[u].at = "idle"
  BY <1>1, <1>2, <1>3, IdleFields, GoSets
<1>5. offset' <= peak'
  BY <1>2 DEF MarkInv
<1>6. QED
  BY <1>1, <1>2, <1>4, <1>5 DEF MarkInv, Marks

-----------------------------------------------------------------------------
(* The arena *)

LEMMA ArenaInitInv == ArenaInit => ArenaInv
<1> SUFFICES ASSUME ArenaInit
             PROVE  ArenaInv
  OBVIOUS
<1>1. /\ offset = 0 /\ highWater = 0 /\ peak = 0 /\ live = {} /\ overlapped = FALSE
      /\ call = [th \in Caller |-> Idle]
  BY DEF ArenaInit
<1>2. call \in [Caller -> Frames] /\ \A th \in Caller : call[th].at = "idle"
  BY <1>1, IdleFields
<1>3. ArenaTypeOK
  BY <1>1, <1>2, TypeIs
<1>4. BlocksDisjoint
  BY <1>1, BumpAssumption DEF BlocksDisjoint, Apart
<1>5. MarkInv /\ ~Beside(call)
  BY <1>1, <1>2 DEF MarkInv, Marks, Beside
<1>6. QED
  BY <1>3, <1>4, <1>5 DEF ArenaInv

LEMMA ArenaStepInv ==
  ASSUME ArenaInv, ArenaNext
  PROVE  ArenaInv'
<1>1. PICK th \in Caller : ArenaStep(th)
  BY DEF ArenaNext
<1>2. overlapped' = (overlapped \/ Beside(call')) /\ ArenaSound
  BY DEF ArenaNext, ArenaInv, ArenaSound
<1>3. overlapped' \in BOOLEAN
  BY <1>2 DEF Beside
<1>4. ArenaSound'
  BY <1>1, <1>2, <1>3, SwapOffsetSound, OtherStepsSound DEF ArenaStep
<1>5. ASSUME ~overlapped'
      PROVE  MarkInv' /\ ~Beside(call')
  <2>1. ~overlapped /\ ~Beside(call')
    BY <1>2, <1>5
  <2>2. MarkInv /\ ~Beside(call)
    BY <2>1 DEF ArenaInv
  <2>3. MarkInv'
    BY <1>1, <1>2, <2>2, BeginAllocateMark, ExhaustedMark, SwapOffsetMark,
       SwapFailsMark, LoadMarkMark, RaiseMarkMark, ResetMark, ResetMarkLoadMark,
       ResetMarkStoreMark DEF ArenaStep
  <2>4. QED
    BY <2>1, <2>3
<1>6. QED
  BY <1>4, <1>5 DEF ArenaInv, ArenaSound

LEMMA ArenaStutterInv ==
  ASSUME ArenaInv, UNCHANGED arenaVars
  PROVE  ArenaInv'
BY DEF arenaVars, ArenaInv, ArenaTypeOK, BlocksDisjoint, Apart, MarkInv, Beside, Hi, Lo

\* The inductive invariant of the arena (memory_allocators.cpp:58-97).
THEOREM ArenaInvariant == ArenaSpec => []ArenaInv
<1>1. ArenaInv /\ [ArenaNext]_arenaVars => ArenaInv'
  BY ArenaStepInv, ArenaStutterInv
<1>2. QED
  BY <1>1, ArenaInitInv, PTL DEF ArenaSpec

\* Concurrent allocations, resets beside them included, never overlap.
THEOREM ArenaKeepsApart == ArenaSpec => []BlocksDisjoint
<1>1. ArenaInv => BlocksDisjoint
  BY DEF ArenaInv
<1>2. QED
  BY <1>1, ArenaInvariant, PTL

\* Once every call has returned the high-water mark is the greatest extent any
\* frame has needed, as long as nobody re-based it beside another call.
THEOREM ArenaMarkExact == ArenaSpec => []HighWaterExact
<1>1. ArenaInv => HighWaterExact
  <2> SUFFICES ASSUME ArenaInv, ~overlapped, \A th \in Caller : call[th].at = "idle"
               PROVE  highWater = peak /\ offset <= highWater
    BY DEF HighWaterExact
  <2>1. MarkInv
    BY DEF ArenaInv
  <2>2. QED
    BY <2>1 DEF MarkInv, Marks
<1>2. QED
  BY <1>1, ArenaInvariant, PTL

-----------------------------------------------------------------------------
(* The stack *)

LEMMA StackInitInv ==
  ASSUME StackInit
  PROVE  StackInv
BY BumpAssumption DEF StackInit, StackInv, StackTypeOK, StackDisjoint, MarkersAbove, Apart

\* A block is cut above offset_, so above every block and every marker that can
\* still be told from it.
LEMMA AllocateInv ==
  ASSUME StackInv, NEW n \in Sizes, NEW a \in Aligns, Allocate(n, a)
  PROVE  StackInv'
<1> DEFINE lo == AlignUp(top, NormalizeAlign(a))
           cut == [id |-> made + 1, lo |-> lo, hi |-> lo + n]
<1>1. a \in Nat /\ n \in Nat \ {0} /\ Capacity \in Nat
  BY BumpAssumption
<1>2. top \in Nat /\ made \in Nat
  BY DEF StackInv, StackTypeOK
<1>3. lo \in Nat /\ lo >= top
  BY <1>1, <1>2, NormalizedAlign, AlignUpAbove
<1>4. /\ lo + n <= Capacity
      /\ top' = lo + n
      /\ kept' = kept \cup {cut}
      /\ made' = made + 1
      /\ markers' = markers
  BY DEF Allocate
<1> HIDE DEF lo
<1>5. cut.lo = lo /\ cut.hi = lo + n /\ cut.id = made + 1
  OBVIOUS
<1>6. \A b \in kept : b.lo \in Nat /\ b.hi \in Nat /\ b.id \in Nat /\ b.id <= made
  BY DEF StackInv, StackTypeOK
<1>7. \A m \in markers : m.made \in Nat /\ m.made <= made
  BY DEF StackInv, StackTypeOK
<1>8. StackTypeOK'
  <2>1. cut \in [id : Nat, lo : Nat, hi : Nat]
    BY <1>1, <1>2, <1>3
  <2>2. QED
    BY <1>1, <1>2, <1>3, <1>4, <2>1 DEF StackInv, StackTypeOK
<1>9. Apart(kept', top')
  <2>1. Apart(kept, top)
    BY DEF StackInv, StackDisjoint
  <2> HIDE DEF cut
  <2>2. cut.lo \in Nat /\ cut.hi \in Nat /\ cut.lo >= top /\ cut.lo < cut.hi
    BY <1>1, <1>3, <1>5
  <2>3. Apart(kept \cup {cut}, cut.hi)
    BY <1>2, <1>6, <2>1, <2>2, ApartGrows
  <2>4. QED
    BY <1>4, <1>5, <2>3
<1>10. MarkersAbove'
  <2> SUFFICES ASSUME NEW m \in markers, NEW b \in kept \cup {cut}, b.id <= m.made
               PROVE  b.hi <= m.offset
    BY <1>4 DEF MarkersAbove
  <2>1. b \in kept
    BY <1>2, <1>5, <1>7
  <2>2. QED
    BY <2>1 DEF StackInv, MarkersAbove
<1>11. (\A b \in kept : b.id <= made)' /\ (\A m \in markers : m.made <= made)'
  BY <1>2, <1>4, <1>5, <1>6, <1>7
<1>12. QED
  BY <1>1, <1>4, <1>8, <1>9, <1>10, <1>11 DEF StackInv, StackDisjoint

\* A new marker is at offset_, above every block.
LEMMA TakeMarkerInv ==
  ASSUME StackInv, TakeMarker
  PROVE  StackInv'
<1> DEFINE mk == [offset |-> top, made |-> made]
<1>1. top' = top /\ kept' = kept /\ made' = made /\ markers' = markers \cup {mk}
  BY DEF TakeMarker
<1>2. mk \in [offset : Nat, made : Nat] /\ mk.offset = top /\ mk.made = made
  BY DEF StackInv, StackTypeOK
<1>3. made \in Nat
  BY DEF StackInv, StackTypeOK
<1> HIDE DEF mk
<1>4. MarkersAbove'
  BY <1>1, <1>2 DEF StackInv, StackDisjoint, MarkersAbove, Apart
<1>5. QED
  BY <1>1, <1>2, <1>3, <1>4 DEF StackInv, StackTypeOK, StackDisjoint, Apart

\* A rewind keeps the blocks older than the marker, which all lie below it: be
\* the marker stale or not.
LEMMA RewindInv ==
  ASSUME StackInv, NEW m \in markers, Rewind(m)
  PROVE  StackInv'
<1>1. /\ top' = IF m.offset <= top THEN m.offset ELSE top
      /\ kept' = {b \in kept : b.id <= m.made}
      /\ made' = made /\ markers' = markers
  BY DEF Rewind
<1>2. m.offset \in Nat /\ top \in Nat /\ top <= Capacity /\ Capacity \in Nat
  BY BumpAssumption DEF StackInv, StackTypeOK, StackDisjoint
<1>3. top' \in Nat /\ top' <= Capacity
  BY <1>1, <1>2
<1>4. \A b \in kept' : b \in kept /\ b.hi <= m.offset /\ b.hi <= top
  BY <1>1 DEF StackInv, StackDisjoint, MarkersAbove, Apart
<1>5. \A b \in kept' : b.hi <= top'
  BY <1>1, <1>2, <1>4
<1>6. Apart(kept, top) /\ kept' \subseteq kept
  BY <1>1 DEF StackInv, StackDisjoint
<1>7. Apart(kept', top')
  BY <1>5, <1>6, ApartShrinks
<1>8. MarkersAbove'
  BY <1>1 DEF StackInv, MarkersAbove
<1>9. QED
  BY <1>1, <1>3, <1>7, <1>8 DEF StackInv, StackTypeOK, StackDisjoint

LEMMA ResetStackInv ==
  ASSUME StackInv, ResetStack
  PROVE  StackInv'
BY BumpAssumption
   DEF ResetStack, StackInv, StackTypeOK, StackDisjoint, MarkersAbove, Apart

LEMMA StackNextInv ==
  ASSUME StackInv, [StackNext]_stackVars
  PROVE  StackInv'
<1>1. ASSUME NEW n \in Sizes, NEW a \in Aligns, Allocate(n, a)
      PROVE  StackInv'
  BY <1>1, AllocateInv
<1>2. CASE TakeMarker
  BY <1>2, TakeMarkerInv
<1>3. ASSUME NEW m \in markers, Rewind(m)
      PROVE  StackInv'
  BY <1>3, RewindInv
<1>4. CASE ResetStack
  BY <1>4, ResetStackInv
<1>5. CASE UNCHANGED stackVars
  BY <1>5 DEF stackVars, StackInv, StackTypeOK, StackDisjoint, MarkersAbove, Apart
<1>6. QED
  BY <1>1, <1>2, <1>3, <1>4, <1>5 DEF StackNext

\* The inductive invariant of the stack allocator (memory_allocators.cpp:204-230).
THEOREM StackInvariant == StackSpec => []StackInv
<1>1. StackInit => StackInv
  BY StackInitInv
<1>2. StackInv /\ [StackNext]_stackVars => StackInv'
  BY StackNextInv
<1>3. QED
  BY <1>1, <1>2, PTL DEF StackSpec

\* Blocks older than any marker still taken are never handed out again: rewind's
\* one test, against the current offset_, is enough for them.
THEOREM StackKeepsApart == StackSpec => []StackDisjoint
<1>1. StackInv => StackDisjoint
  BY DEF StackInv
<1>2. QED
  BY <1>1, StackInvariant, PTL
=============================================================================
