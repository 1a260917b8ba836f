-------------------------- MODULE MpmcQueueProofs --------------------------
(* For any threads, nodes, ring size and number of laps: the sequence numbers *)
(* alone keep the queue's threads apart, and the code is the bounded queue of *)
(* Inbox.                                                                     *)
EXTENDS MpmcQueue, SequenceTheorems, TLAPS

-----------------------------------------------------------------------------
(* What makes NoItemRace and TakesPublished inductive.  A position is between *)
(* head_ and tail_ while its cell is reserved or published, and behind head_  *)
(* until its dequeuer has released the slot.                                  *)

Reading(th) == mq[th].pc \in {"deq_item", "deq_release"}

\* The sequence number tells a slot's state for the lap that tail_ or head_ is in:
\* reserved or published, and after that free or still to be released.
SlotsInStep ==
  /\ \A pos \in head .. (tail - 1) :
       \/ /\ seq[PlaceOf(pos)] = pos
          /\ \E th \in Thread : Writing(th) /\ mq[th].pos = pos
       \/ seq[PlaceOf(pos)] = pos + 1 /\ item[PlaceOf(pos)] \in Node
  /\ \A pos \in tail .. (head + QueueCap - 1) :
       \/ seq[PlaceOf(pos)] = pos
       \/ /\ seq[PlaceOf(pos)] = pos - QueueCap + 1
          /\ \E th \in Thread : Reading(th) /\ mq[th].pos = pos - QueueCap

\* the threads that have won a position, each its own
OwnersInStep ==
  /\ \A th \in Thread :
       /\ Writing(th) => /\ mq[th].pos \in head .. (tail - 1)
                         /\ seq[PlaceOf(mq[th].pos)] = mq[th].pos
                         /\ mq[th].pc = "enq_publish" =>
                              item[PlaceOf(mq[th].pos)] = mq[th].node
       /\ Reading(th) => /\ mq[th].pos \in (tail - QueueCap) .. (head - 1)
                         /\ seq[PlaceOf(mq[th].pos)] = mq[th].pos + 1
       /\ mq[th].pc = "deq_item" => item[PlaceOf(mq[th].pos)] \in Node
       /\ mq[th].pc = "deq_release" => mq[th].node \in Node
       /\ mq[th].pc \in EnqPC => mq[th].node \in Node
  /\ \A a, b \in Thread :
       a # b /\ mq[a].pos = mq[b].pos
         => ~(Writing(a) /\ Writing(b)) /\ ~(Reading(a) /\ Reading(b))

\* What a thread still in the loop knows of the position it has loaded: no sequence
\* number is ever taken back.
CopiesInStep ==
  /\ \A pos \in 0 .. (head - 1) : seq[PlaceOf(pos)] >= pos + 1
  /\ \A th \in Thread :
       /\ mq[th].pc \in {"enq_seq", "enq_cas"} => mq[th].pos <= tail
       /\ mq[th].pc \in {"deq_seq", "deq_cas"} => mq[th].pos <= head
       /\ mq[th].pc = "enq_cas" => seq[PlaceOf(mq[th].pos)] >= mq[th].pos
       /\ mq[th].pc = "deq_cas" => seq[PlaceOf(mq[th].pos)] >= mq[th].pos + 1

InStep ==
  /\ QueueTypeOK
  /\ head <= tail /\ tail <= head + QueueCap
  /\ SlotsInStep /\ OwnersInStep /\ CopiesInStep

-----------------------------------------------------------------------------
(* Places in the ring *)

LEMMA DivMod ==
  ASSUME NEW n \in Nat \ {0}, NEW p \in Nat
  PROVE  /\ p \div n \in Nat
         /\ p % n \in 0 .. n - 1
         /\ p = n * (p \div n) + (p % n)
OBVIOUS

LEMMA NextMultiple ==
  ASSUME NEW n \in Nat, NEW i \in Int, NEW j \in Int, i < j
  PROVE  n * i + n <= n * j
<1>1. j - i - 1 \in Nat
  OBVIOUS
<1>2. n * (j - i - 1) >= 0
  BY <1>1
<1>3. n * (j - i - 1) = n * j - n * i - n
  OBVIOUS
<1>4. n * i \in Int /\ n * j \in Int
  OBVIOUS
<1>5. QED
  BY <1>2, <1>3, <1>4

LEMMA EqualRemainders ==
  ASSUME NEW n \in Nat \ {0}, NEW p \in Nat, NEW q \in Nat, p % n = q % n, p < q
  PROVE  p + n <= q
<1> DEFINE i == p \div n
           j == q \div n
           r == p % n
<1>1. /\ i \in Nat /\ j \in Nat /\ r \in 0 .. n - 1
      /\ p = n * i + r /\ q = n * j + r
  BY DivMod
<1>2. n * i \in Int /\ n * j \in Int
  BY <1>1
<1> HIDE DEF i, j, r
<1>3. i < j
  <2>1. CASE j < i
    BY <1>1, <1>2, <2>1, NextMultiple
  <2>2. CASE i = j
    BY <1>1, <2>2
  <2>3. QED
    BY <1>1, <2>1, <2>2
<1>4. n * i + n <= n * j
  BY <1>1, <1>3, NextMultiple
<1>5. QED
  BY <1>1, <1>2, <1>4

LEMMA SameRemainder ==
  ASSUME NEW n \in Nat \ {0}, NEW p \in Nat
  PROVE  (p + n) % n = p % n
<1> DEFINE q == p + n
           i == p \div n
           j == q \div n
           r == p % n
           s == q % n
<1>1. /\ i \in Nat /\ j \in Nat /\ r \in 0 .. n - 1 /\ s \in 0 .. n - 1
      /\ p = n * i + r /\ q = n * j + s
  <2>1. i \in Nat /\ r \in 0 .. n - 1 /\ p = n * i + r
    BY DivMod
  <2>2. q \in Nat
    OBVIOUS
  <2>3. j \in Nat /\ s \in 0 .. n - 1 /\ q = n * j + s
    BY <2>2, DivMod
  <2>4. QED
    BY <2>1, <2>3
<1>2. n * i \in Int /\ n * j \in Int /\ n * (i + 1) = n * i + n
  BY <1>1
<1>3. q = p + n
  OBVIOUS
<1> HIDE DEF q, i, j, r, s
<1>4. j = i + 1
  <2>1. CASE j < i + 1
    <3>1. n * j + n <= n * (i + 1)
      BY <1>1, <2>1, NextMultiple
    <3>2. QED
      BY <1>1, <1>2, <1>3, <3>1
  <2>2. CASE i + 1 < j
    <3>1. n * (i + 1) + n <= n * j
      BY <1>1, <2>2, NextMultiple
    <3>2. QED
      BY <1>1, <1>2, <1>3, <3>1
  <2>3. QED
    BY <1>1, <2>1, <2>2
<1>5. r = s
  BY <1>1, <1>2, <1>3, <1>4
<1>6. QED
  BY <1>5 DEF q, r, s
LEMMA PlaceIsPlace ==
  ASSUME NEW p \in Nat
  PROVE  PlaceOf(p) \in Place
BY QueueAssumption DEF PlaceOf, Place

\* A position and the one a lap later share a slot, ...
LEMMA NextLap ==
  ASSUME NEW p \in Nat
  PROVE  PlaceOf(p + QueueCap) = PlaceOf(p)
BY SameRemainder, QueueAssumption DEF PlaceOf

\* ... and two that share a slot are at least a lap apart.
LEMMA LapsApart ==
  ASSUME NEW p \in Nat, NEW q \in Nat, p < q, q < p + QueueCap
  PROVE  PlaceOf(p) # PlaceOf(q)
<1>1. QueueCap \in Nat \ {0}
  BY QueueAssumption
<1>2. p % QueueCap = q % QueueCap => p + QueueCap <= q
  BY <1>1, EqualRemainders
<1>3. QED
  BY <1>1, <1>2 DEF PlaceOf

-----------------------------------------------------------------------------
(* Frames *)

PCs == EnqPC \cup DeqPC \cup {"idle"}
Frames == [pc : PCs, pos : Nat, node : MaybeNode]

\* a step of th leaves it here and every other thread where it was
Moved(th, pc, pos, node) ==
  /\ mq' \in [Thread -> Frames]
  /\ mq'[th].pc = pc /\ mq'[th].pos = pos /\ mq'[th].node = node
  /\ \A o \in Thread : o # th => mq'[o] = mq[o]

LEMMA FrameMoves ==
  ASSUME QueueTypeOK, NEW th \in Thread, NEW f \in Frames, mq' = [mq EXCEPT ![th] = f]
  PROVE  Moved(th, f.pc, f.pos, f.node)
BY DEF Moved, QueueTypeOK, Frames, PCs

LEMMA GotoMoves ==
  ASSUME QueueTypeOK, NEW th \in Thread, NEW pc \in PCs, NEW pos \in Nat, Goto(th, pc, pos)
  PROVE  Moved(th, pc, pos, mq[th].node)
<1> DEFINE f == [mq[th] EXCEPT !.pc = pc, !.pos = pos]
<1>1. mq[th] \in Frames /\ mq \in [Thread -> Frames]
  BY DEF QueueTypeOK, Frames, PCs
<1>2. f \in Frames /\ f.pc = pc /\ f.pos = pos /\ f.node = mq[th].node
  BY <1>1 DEF Frames
<1>3. mq' = [mq EXCEPT ![th] = f]
  BY DEF Goto
<1>4. QED
  BY <1>2, <1>3, FrameMoves

LEMMA LeaveMoves ==
  ASSUME QueueTypeOK, NEW th \in Thread, Leave(th)
  PROVE  Moved(th, "idle", 0, NoNode)
<1> DEFINE f == [pc |-> "idle", pos |-> 0, node |-> NoNode]
<1>1. f \in Frames
  BY DEF Frames, PCs, MaybeNode
<1>2. mq' = [mq EXCEPT ![th] = f]
  BY DEF Leave
<1>3. QED
  BY <1>1, <1>2, FrameMoves

LEMMA StartMoves ==
  ASSUME QueueTypeOK, NEW th \in Thread, NEW n \in Node, StartEnqueue(th, n)
  PROVE  Moved(th, "enq_load", 0, n)
<1> DEFINE f == [pc |-> "enq_load", pos |-> 0, node |-> n]
<1>1. f \in Frames
  BY DEF Frames, PCs, EnqPC, MaybeNode
<1>2. mq' = [mq EXCEPT ![th] = f]
  BY DEF StartEnqueue
<1>3. QED
  BY <1>1, <1>2, FrameMoves

LEMMA ItemMoves ==
  ASSUME QueueTypeOK, NEW th \in Thread, DeqItem(th)
  PROVE  Moved(th, "deq_release", mq[th].pos, item[PlaceOf(mq[th].pos)])
<1> DEFINE f == [mq[th] EXCEPT !.pc = "deq_release", !.node = item[PlaceOf(mq[th].pos)]]
<1>1. mq[th] \in Frames /\ mq \in [Thread -> Frames]
  BY DEF QueueTypeOK, Frames, PCs
<1>2. item[PlaceOf(mq[th].pos)] \in MaybeNode
  BY <1>1, PlaceIsPlace DEF QueueTypeOK, Frames
<1>3. /\ f \in Frames /\ f.pc = "deq_release" /\ f.pos = mq[th].pos
      /\ f.node = item[PlaceOf(mq[th].pos)]
  BY <1>1, <1>2 DEF Frames, PCs, DeqPC
<1>4. mq' = [mq EXCEPT ![th] = f]
  BY DEF DeqItem
<1>5. QED
  BY <1>3, <1>4, FrameMoves

-----------------------------------------------------------------------------
(* The sequence numbers *)

\* what the leaves below use of the types
LEMMA Types ==
  ASSUME InStep
  PROVE  /\ QueueCap \in Nat /\ QueueCap >= 2
         /\ head \in Nat /\ tail \in Nat /\ head <= tail /\ tail <= head + QueueCap
         /\ seq \in [Place -> Nat] /\ item \in [Place -> MaybeNode]
         /\ mq \in [Thread -> Frames]
         /\ \A th \in Thread : mq[th].pos \in Nat /\ mq[th].pc \in PCs
         /\ \A p \in Nat : PlaceOf(p) \in Place /\ seq[PlaceOf(p)] \in Nat
BY QueueAssumption, PlaceIsPlace DEF InStep, QueueTypeOK, Frames, PCs

LEMMA QueueInitInStep ==
  ASSUME QueueInit
  PROVE  InStep
<1>1. \A pos \in 0 .. QueueCap - 1 : PlaceOf(pos) = pos /\ seq[pos] = pos
  BY QueueAssumption DEF QueueInit, Place, PlaceOf
<1>2. QueueTypeOK
  BY QueueAssumption DEF QueueInit, QueueTypeOK, Place, MaybeNode
<1>3. \A th \in Thread : mq[th].pc = "idle"
  BY DEF QueueInit
<1>4. SlotsInStep
  BY <1>1, QueueAssumption DEF QueueInit, SlotsInStep
<1>5. OwnersInStep /\ CopiesInStep
  BY <1>3 DEF QueueInit, OwnersInStep, CopiesInStep, Writing, Reading, EnqPC
<1>6. QED
  BY <1>2, <1>4, <1>5, QueueAssumption DEF QueueInit, InStep

\* A step of a thread that owns no position and gets none.
LEMMA LocalStep ==
  ASSUME InStep, NEW th \in Thread, NEW pc \in PCs, NEW pos \in Nat, NEW node \in MaybeNode,
         Moved(th, pc, pos, node), UNCHANGED <<seq, item, head, tail>>,
         ~Writing(th), ~Reading(th),
         pc \notin {"enq_item", "enq_publish", "deq_item", "deq_release"},
         pc \in EnqPC => node \in Node,
         pc \in {"enq_seq", "enq_cas"} => pos <= tail,
         pc \in {"deq_seq", "deq_cas"} => pos <= head,
         pc = "enq_cas" => seq[PlaceOf(pos)] >= pos,
         pc = "deq_cas" => seq[PlaceOf(pos)] >= pos + 1
  PROVE  InStep'
<1>1. /\ \A o \in Thread : Writing(o)' <=> Writing(o)
      /\ \A o \in Thread : Reading(o)' <=> Reading(o)
      /\ \A o \in Thread : Writing(o) \/ Reading(o) => mq'[o] = mq[o]
  BY DEF Moved, Writing, Reading
<1>2. QueueTypeOK'
  BY DEF InStep, QueueTypeOK, Moved, Frames, PCs
<1>3. SlotsInStep'
  BY <1>1 DEF InStep, SlotsInStep
<1>4. OwnersInStep'
  BY <1>1 DEF InStep, OwnersInStep, Moved, Writing, Reading
<1>5. CopiesInStep'
  <2>1. \A o \in Thread : o # th => mq'[o] = mq[o]
    BY DEF Moved
  <2>2. mq'[th].pc = pc /\ mq'[th].pos = pos
    BY DEF Moved
  <2>3. QED
    BY <2>1, <2>2 DEF InStep, CopiesInStep
<1>6. QED
  BY <1>2, <1>3, <1>4, <1>5 DEF InStep

\* The compare-and-swap of tail_ finds a free slot: its position is not a lap ahead
\* of head_, nor is the slot still to be released.
LEMMA TailIsFree ==
  ASSUME InStep, NEW th \in Thread, mq[th].pc = "enq_cas", mq[th].pos = tail
  PROVE  /\ tail < head + QueueCap
         /\ seq[PlaceOf(tail)] = tail
         /\ \A o \in Thread : Reading(o) => mq[o].pos # tail - QueueCap
<1>1. seq[PlaceOf(tail)] >= tail
  BY DEF InStep, CopiesInStep
<1>2. tail < head + QueueCap
  <2>1. SUFFICES ASSUME tail = head + QueueCap PROVE FALSE
    BY Types
  <2>2. PlaceOf(tail) = PlaceOf(head)
    BY <2>1, Types, NextLap
  <2>3. seq[PlaceOf(head)] <= head + 1
    BY <2>1, Types DEF InStep, SlotsInStep
  <2>4. QED
    BY <1>1, <2>1, <2>2, <2>3, Types
<1>3. seq[PlaceOf(tail)] = tail
  BY <1>1, <1>2, Types DEF InStep, SlotsInStep
<1>4. ASSUME NEW o \in Thread, Reading(o), mq[o].pos = tail - QueueCap
      PROVE  FALSE
  <2>1. PlaceOf(mq[o].pos) = PlaceOf(tail)
    BY <1>4, Types, NextLap
  <2>2. seq[PlaceOf(mq[o].pos)] = mq[o].pos + 1
    BY <1>4 DEF InStep, OwnersInStep
  <2>3. QED
    BY <1>3, <1>4, <2>1, <2>2, Types
<1>5. QED
  BY <1>2, <1>3, <1>4

LEMMA ReserveStep ==
  ASSUME InStep, NEW th \in Thread, mq[th].pc = "enq_cas", mq[th].pos = tail,
         tail < MaxEnqueues, tail' = tail + 1,
         Moved(th, "enq_item", mq[th].pos, mq[th].node), UNCHANGED <<seq, item, head>>
  PROVE  InStep'
<1>1. /\ tail < head + QueueCap
      /\ seq[PlaceOf(tail)] = tail
      /\ \A o \in Thread : Reading(o) => mq[o].pos # tail - QueueCap
  BY TailIsFree
<1>2. /\ Writing(th)' /\ ~Reading(th)' /\ ~Writing(th) /\ ~Reading(th)
      /\ \A o \in Thread : o # th => /\ Writing(o)' <=> Writing(o)
                                     /\ Reading(o)' <=> Reading(o)
                                     /\ mq'[o] = mq[o]
      /\ mq'[th].pos = tail /\ mq'[th].pc = "enq_item" /\ mq'[th].node = mq[th].node
  BY DEF Moved, Writing, Reading
<1>3. QueueTypeOK'
  BY Types, QueueAssumption DEF InStep, QueueTypeOK, Moved, Frames, PCs
<1>4. SlotsInStep'
  <2>1. \A pos \in head .. (tail - 1) :
          \/ /\ seq[PlaceOf(pos)] = pos
             /\ \E o \in Thread : Writing(o)' /\ mq'[o].pos = pos
          \/ seq[PlaceOf(pos)] = pos + 1 /\ item[PlaceOf(pos)] \in Node
    BY <1>2 DEF InStep, SlotsInStep
  <2>2. /\ seq[PlaceOf(tail)] = tail
        /\ \E o \in Thread : Writing(o)' /\ mq'[o].pos = tail
    BY <1>1, <1>2
  <2>3. \A pos \in (tail + 1) .. (head + QueueCap - 1) :
          \/ seq[PlaceOf(pos)] = pos
          \/ /\ seq[PlaceOf(pos)] = pos - QueueCap + 1
             /\ \E o \in Thread : Reading(o)' /\ mq'[o].pos = pos - QueueCap
    BY <1>2, Types DEF InStep, SlotsInStep
  <2>4. \A pos \in head .. ((tail + 1) - 1) : pos \in head .. (tail - 1) \/ pos = tail
    BY Types
  <2>5. QED
    BY <2>1, <2>2, <2>3, <2>4 DEF SlotsInStep
<1>5. OwnersInStep'
  BY <1>1, <1>2, Types DEF InStep, OwnersInStep, EnqPC
<1>6. CopiesInStep'
  BY <1>2, Types DEF InStep, CopiesInStep
<1>7. QED
  BY <1>1, <1>3, <1>4, <1>5, <1>6, Types DEF InStep

\* a position that its thread still owns and the others of its lap are in other slots
LEMMA OthersApart ==
  ASSUME InStep, NEW th \in Thread, NEW q \in Nat,
         \/ Writing(th) /\ q \in (tail - QueueCap) .. (head + QueueCap - 1)
         \/ Reading(th) /\ q \in (tail - QueueCap) .. (tail - 1),
         q # mq[th].pos
  PROVE  PlaceOf(q) # PlaceOf(mq[th].pos)
<1>1. /\ mq[th].pos \in Nat /\ QueueCap \in Nat /\ head \in Nat /\ tail \in Nat
      /\ head <= tail /\ tail <= head + QueueCap
  BY Types
<1>2. /\ Writing(th) => mq[th].pos \in head .. (tail - 1)
      /\ Reading(th) => mq[th].pos \in (tail - QueueCap) .. (head - 1)
  BY DEF InStep, OwnersInStep
<1>3. CASE q < mq[th].pos
  <2>1. mq[th].pos < q + QueueCap
    BY <1>1, <1>2, <1>3
  <2>2. QED
    BY <1>1, <1>3, <2>1, LapsApart
<1>4. CASE mq[th].pos < q
  <2>1. q < mq[th].pos + QueueCap
    BY <1>1, <1>2, <1>4
  <2>2. QED
    BY <1>1, <1>4, <2>1, LapsApart
<1>5. QED
  BY <1>1, <1>3, <1>4

LEMMA ItemStep ==
  ASSUME InStep, NEW th \in Thread, mq[th].pc = "enq_item",
         item' = [item EXCEPT ![PlaceOf(mq[th].pos)] = mq[th].node],
         Moved(th, "enq_publish", mq[th].pos, mq[th].node), UNCHANGED <<seq, head, tail>>
  PROVE  InStep'
<1>1. /\ Writing(th) /\ Writing(th)' /\ ~Reading(th)' /\ ~Reading(th)
      /\ \A o \in Thread : /\ Writing(o)' <=> Writing(o)
                           /\ Reading(o)' <=> Reading(o)
                           /\ mq'[o].pos = mq[o].pos /\ mq'[o].node = mq[o].node
                           /\ o # th => mq'[o] = mq[o]
      /\ mq'[th].pc = "enq_publish"
  BY DEF Moved, Writing, Reading
<1>2. /\ mq[th].node \in Node
      /\ item'[PlaceOf(mq[th].pos)] = mq[th].node
      /\ \A p \in Place : p # PlaceOf(mq[th].pos) => item'[p] = item[p]
  BY Types DEF InStep, OwnersInStep, EnqPC
<1>3. \A q \in (tail - QueueCap) .. (head + QueueCap - 1) : q \in Nat /\ q # mq[th].pos
        => item'[PlaceOf(q)] = item[PlaceOf(q)]
  BY <1>1, <1>2, OthersApart, Types
<1>4. QueueTypeOK'
  BY <1>2, Types DEF InStep, QueueTypeOK, Moved, Frames, PCs, MaybeNode
<1>5. SlotsInStep'
  BY <1>1, <1>2, <1>3, Types DEF InStep, SlotsInStep
<1>6. OwnersInStep'
  BY <1>1, <1>2, <1>3, Types DEF InStep, OwnersInStep, EnqPC, Writing, Reading
<1>7. CopiesInStep'
  BY <1>1 DEF InStep, CopiesInStep
<1>8. QED
  BY <1>4, <1>5, <1>6, <1>7 DEF InStep

\* a sequence number that grows leaves what the threads have copied true
LEMMA CopiesStay ==
  ASSUME InStep, NEW th \in Thread, NEW p \in Place, NEW n \in Nat, n >= seq[p],
         seq' = [seq EXCEPT ![p] = n], UNCHANGED <<head, tail>>,
         Leave(th)
  PROVE  CopiesInStep'
<1>1. \A q \in Place : seq'[q] >= seq[q] /\ seq'[q] \in Nat
  BY Types
<1>2. /\ \A o \in Thread : o # th => mq'[o] = mq[o]
      /\ mq'[th].pc = "idle"
  BY LeaveMoves DEF InStep, Moved
<1>3. \A pos \in 0 .. (head - 1) : seq'[PlaceOf(pos)] >= pos + 1
  BY <1>1, Types DEF InStep, CopiesInStep
<1>4. ASSUME NEW o \in Thread
      PROVE  /\ mq'[o].pc \in {"enq_seq", "enq_cas"} => mq'[o].pos <= tail
             /\ mq'[o].pc \in {"deq_seq", "deq_cas"} => mq'[o].pos <= head
             /\ mq'[o].pc = "enq_cas" => seq'[PlaceOf(mq'[o].pos)] >= mq'[o].pos
             /\ mq'[o].pc = "deq_cas" => seq'[PlaceOf(mq'[o].pos)] >= mq'[o].pos + 1
  BY <1>1, <1>2, Types DEF InStep, CopiesInStep
<1>5. QED
  BY <1>3, <1>4 DEF CopiesInStep

LEMMA PublishStep ==
  ASSUME InStep, NEW th \in Thread, EnqPublish(th)
  PROVE  InStep'
<1> DEFINE p == mq[th].pos
<1>1. /\ Writing(th) /\ Moved(th, "idle", 0, NoNode) /\ UNCHANGED <<item, head, tail>>
      /\ seq' = [seq EXCEPT ![PlaceOf(p)] = p + 1]
      /\ Leave(th)
  BY LeaveMoves DEF EnqPublish, Writing, InStep
<1>2. /\ ~Writing(th)' /\ ~Reading(th)' /\ ~Reading(th)
      /\ \A o \in Thread : o # th => /\ Writing(o)' <=> Writing(o)
                                     /\ Reading(o)' <=> Reading(o)
                                     /\ mq'[o] = mq[o]
      /\ mq'[th].pc = "idle"
  BY <1>1 DEF Moved, Writing, Reading
<1>3. /\ p \in head .. (tail - 1) /\ seq[PlaceOf(p)] = p
      /\ item[PlaceOf(p)] = mq[th].node /\ mq[th].node \in Node
      /\ PlaceOf(p) \in Place /\ p \in Nat
  BY <1>1, Types DEF EnqPublish, InStep, OwnersInStep, EnqPC
<1>4. /\ seq'[PlaceOf(p)] = p + 1
      /\ \A q \in Place : q # PlaceOf(p) => seq'[q] = seq[q]
  BY <1>1, <1>3, Types
<1>5. \A q \in (tail - QueueCap) .. (head + QueueCap - 1) : q \in Nat /\ q # p
        => seq'[PlaceOf(q)] = seq[PlaceOf(q)]
  BY <1>1, <1>4, OthersApart, Types
<1> HIDE DEF p
<1>6. QueueTypeOK'
  BY <1>1, <1>3, Types DEF InStep, QueueTypeOK, Moved, Frames, PCs
<1>7. SlotsInStep'
  <2>1. ASSUME NEW q \in head .. (tail - 1)
        PROVE  \/ /\ seq'[PlaceOf(q)] = q
                  /\ \E o \in Thread : Writing(o)' /\ mq'[o].pos = q
               \/ seq'[PlaceOf(q)] = q + 1 /\ item[PlaceOf(q)] \in Node
    <3>1. CASE q = p
      BY <1>3, <1>4, <3>1
    <3>2. CASE q # p
      <4>1. seq'[PlaceOf(q)] = seq[PlaceOf(q)]
        BY <1>5, <3>2, Types
      <4>2. \A o \in Thread : mq[o].pos = q => o # th
        BY <3>2 DEF p
      <4>3. QED
        BY <1>2, <4>1, <4>2 DEF InStep, SlotsInStep
    <3>3. QED
      BY <3>1, <3>2
  <2>2. ASSUME NEW q \in tail .. (head + QueueCap - 1)
        PROVE  \/ seq'[PlaceOf(q)] = q
               \/ /\ seq'[PlaceOf(q)] = q - QueueCap + 1
                  /\ \E o \in Thread : Reading(o)' /\ mq'[o].pos = q - QueueCap
    <3>1. seq'[PlaceOf(q)] = seq[PlaceOf(q)]
      BY <1>3, <1>5, Types
    <3>2. QED
      BY <1>2, <3>1 DEF InStep, SlotsInStep
  <2>3. QED
    BY <1>1, <2>1, <2>2 DEF SlotsInStep
<1>8. OwnersInStep'
  <2>1. ASSUME NEW o \in Thread, o # th, Writing(o) \/ Reading(o)
        PROVE  seq'[PlaceOf(mq[o].pos)] = seq[PlaceOf(mq[o].pos)]
    <3>1. mq[o].pos # p
      BY <1>1, <1>2, <1>3, <2>1, Types DEF InStep, OwnersInStep, p
    <3>2. mq[o].pos \in (tail - QueueCap) .. (tail - 1) /\ mq[o].pos \in Nat
      BY <2>1, Types DEF InStep, OwnersInStep
    <3>3. QED
      BY <1>5, <3>1, <3>2, Types
  <2>2. QED
    BY <1>1, <1>2, <2>1, Types DEF InStep, OwnersInStep, EnqPC
<1>9. CopiesInStep'
  <2>1. p + 1 \in Nat /\ p + 1 >= seq[PlaceOf(p)]
    BY <1>3
  <2>2. QED
    BY <1>1, <1>3, <2>1, CopiesStay
<1>10. QED
  BY <1>1, <1>6, <1>7, <1>8, <1>9 DEF InStep

\* The compare-and-swap of head_ finds a published cell.
LEMMA HeadIsPublished ==
  ASSUME InStep, seq[PlaceOf(head)] >= head + 1
  PROVE  /\ head < tail
         /\ seq[PlaceOf(head)] = head + 1
         /\ item[PlaceOf(head)] \in Node
         /\ \A o \in Thread : Writing(o) => mq[o].pos # head
<1>1. head < tail
  BY Types DEF InStep, SlotsInStep
<1>2. seq[PlaceOf(head)] = head + 1 /\ item[PlaceOf(head)] \in Node
  BY <1>1, Types DEF InStep, SlotsInStep
<1>3. QED
  BY <1>1, <1>2, Types DEF InStep, OwnersInStep

LEMMA TakeStep ==
  ASSUME InStep, NEW th \in Thread, mq[th].pc = "deq_cas", mq[th].pos = head,
         head' = head + 1,
         Moved(th, "deq_item", mq[th].pos, mq[th].node), UNCHANGED <<seq, item, tail>>
  PROVE  InStep'
<1>1. /\ head < tail /\ seq[PlaceOf(head)] = head + 1 /\ item[PlaceOf(head)] \in Node
      /\ \A o \in Thread : Writing(o) => mq[o].pos # head
  BY HeadIsPublished DEF InStep, CopiesInStep
<1>2. /\ ~Writing(th)' /\ Reading(th)' /\ ~Writing(th) /\ ~Reading(th)
      /\ \A o \in Thread : o # th => /\ Writing(o)' <=> Writing(o)
                                     /\ Reading(o)' <=> Reading(o)
                                     /\ mq'[o] = mq[o]
      /\ mq'[th].pos = head /\ mq'[th].pc = "deq_item"
  BY DEF Moved, Writing, Reading
<1>3. QueueTypeOK'
  BY Types DEF InStep, QueueTypeOK, Moved, Frames, PCs
<1>4. SlotsInStep'
  <2>1. \A pos \in (head + 1) .. (tail - 1) :
          \/ /\ seq[PlaceOf(pos)] = pos
             /\ \E o \in Thread : Writing(o)' /\ mq'[o].pos = pos
          \/ seq[PlaceOf(pos)] = pos + 1 /\ item[PlaceOf(pos)] \in Node
    BY <1>2, Types DEF InStep, SlotsInStep
  <2>2. \A pos \in tail .. (head + QueueCap - 1) :
          \/ seq[PlaceOf(pos)] = pos
          \/ /\ seq[PlaceOf(pos)] = pos - QueueCap + 1
             /\ \E o \in Thread : Reading(o)' /\ mq'[o].pos = pos - QueueCap
    BY <1>2, Types DEF InStep, SlotsInStep
  <2>3. /\ seq[PlaceOf(head + QueueCap)] = (head + QueueCap) - QueueCap + 1
        /\ \E o \in Thread : Reading(o)' /\ mq'[o].pos = (head + QueueCap) - QueueCap
    BY <1>1, <1>2, NextLap, Types
  <2>4. \A pos \in tail .. ((head + 1) + QueueCap - 1) :
          pos \in tail .. (head + QueueCap - 1) \/ pos = head + QueueCap
    BY Types
  <2>5. QED
    BY <2>1, <2>2, <2>3, <2>4 DEF SlotsInStep
<1>5. OwnersInStep'
  BY <1>1, <1>2, Types DEF InStep, OwnersInStep, EnqPC
<1>6. CopiesInStep'
  <2>1. \A pos \in 0 .. ((head + 1) - 1) : seq[PlaceOf(pos)] >= pos + 1
    <3>1. \A pos \in 0 .. ((head + 1) - 1) : pos \in 0 .. (head - 1) \/ pos = head
      BY Types
    <3>2. QED
      BY <1>1, <3>1, Types DEF InStep, CopiesInStep
  <2>2. QED
    BY <1>2, <2>1, Types DEF InStep, CopiesInStep
<1>7. QED
  BY <1>1, <1>3, <1>4, <1>5, <1>6, Types DEF InStep

LEMMA TakenItemStep ==
  ASSUME InStep, NEW th \in Thread, mq[th].pc = "deq_item",
         Moved(th, "deq_release", mq[th].pos, item[PlaceOf(mq[th].pos)]),
         UNCHANGED <<seq, item, head, tail>>
  PROVE  InStep'
<1>1. /\ ~Writing(th)' /\ Reading(th)' /\ ~Writing(th) /\ Reading(th)
      /\ \A o \in Thread : /\ Writing(o)' <=> Writing(o)
                           /\ Reading(o)' <=> Reading(o)
                           /\ mq'[o].pos = mq[o].pos
                           /\ o # th => mq'[o] = mq[o]
      /\ mq'[th].node = item[PlaceOf(mq[th].pos)] /\ mq'[th].pc = "deq_release"
  BY DEF Moved, Writing, Reading
<1>2. QueueTypeOK'
  BY DEF InStep, QueueTypeOK, Moved, Frames, PCs
<1>3. SlotsInStep'
  BY <1>1 DEF InStep, SlotsInStep
<1>4. OwnersInStep'
  BY <1>1 DEF InStep, OwnersInStep, EnqPC
<1>5. CopiesInStep'
  BY <1>1 DEF InStep, CopiesInStep
<1>6. QED
  BY <1>2, <1>3, <1>4, <1>5 DEF InStep

LEMMA ReleaseStep ==
  ASSUME InStep, NEW th \in Thread, DeqRelease(th)
  PROVE  InStep'
<1> DEFINE p == mq[th].pos
<1>1. /\ Reading(th) /\ Moved(th, "idle", 0, NoNode) /\ UNCHANGED <<item, head, tail>>
      /\ seq' = [seq EXCEPT ![PlaceOf(p)] = p + QueueCap]
      /\ Leave(th)
  BY LeaveMoves DEF DeqRelease, Reading, InStep
<1>2. /\ ~Writing(th)' /\ ~Reading(th)' /\ ~Writing(th)
      /\ \A o \in Thread : o # th => /\ Writing(o)' <=> Writing(o)
                                     /\ Reading(o)' <=> Reading(o)
                                     /\ mq'[o] = mq[o]
      /\ mq'[th].pc = "idle"
  BY <1>1 DEF Moved, Writing, Reading
<1>3. /\ p \in (tail - QueueCap) .. (head - 1) /\ seq[PlaceOf(p)] = p + 1
      /\ PlaceOf(p) \in Place /\ p \in Nat
  BY <1>1, Types DEF InStep, OwnersInStep
<1>4. /\ seq'[PlaceOf(p)] = p + QueueCap
      /\ \A q \in Place : q # PlaceOf(p) => seq'[q] = seq[q]
  BY <1>1, <1>3, Types
<1>5. \A q \in (tail - QueueCap) .. (tail - 1) : q \in Nat /\ q # p
        => seq'[PlaceOf(q)] = seq[PlaceOf(q)]
  BY <1>1, <1>4, OthersApart, Types
<1> HIDE DEF p
<1>6. \A q \in tail .. (head + QueueCap - 1) : q # p + QueueCap
        => seq'[PlaceOf(q)] = seq[PlaceOf(q)]
  <2>1. SUFFICES ASSUME NEW q \in tail .. (head + QueueCap - 1), q # p + QueueCap
                 PROVE  PlaceOf(q) # PlaceOf(p)
    BY <1>4, Types
  <2>2. CASE q < p + QueueCap
    BY <1>3, <2>1, <2>2, LapsApart, Types
  <2>3. CASE p + QueueCap < q
    <3>1. p + QueueCap \in Nat /\ q \in Nat /\ q < (p + QueueCap) + QueueCap
      BY <1>3, Types
    <3>2. PlaceOf(p + QueueCap) # PlaceOf(q)
      BY <2>3, <3>1, LapsApart
    <3>3. QED
      BY <1>3, <3>2, NextLap
  <2>4. QED
    BY <1>3, <2>1, <2>2, <2>3, Types
<1>7. QueueTypeOK'
  BY <1>1, <1>3, Types DEF InStep, QueueTypeOK, Moved, Frames, PCs
<1>8. SlotsInStep'
  <2>1. ASSUME NEW q \in head .. (tail - 1)
        PROVE  \/ /\ seq'[PlaceOf(q)] = q
                  /\ \E o \in Thread : Writing(o)' /\ mq'[o].pos = q
               \/ seq'[PlaceOf(q)] = q + 1 /\ item[PlaceOf(q)] \in Node
    <3>1. seq'[PlaceOf(q)] = seq[PlaceOf(q)]
      BY <1>3, <1>5, Types
    <3>2. QED
      BY <1>2, <3>1 DEF InStep, SlotsInStep
  <2>2. ASSUME NEW q \in tail .. (head + QueueCap - 1)
        PROVE  \/ seq'[PlaceOf(q)] = q
               \/ /\ seq'[PlaceOf(q)] = q - QueueCap + 1
                  /\ \E o \in Thread : Reading(o)' /\ mq'[o].pos = q - QueueCap
    <3>1. CASE q = p + QueueCap
      BY <1>3, <1>4, <3>1, NextLap
    <3>2. CASE q # p + QueueCap
      <4>1. seq'[PlaceOf(q)] = seq[PlaceOf(q)]
        BY <1>6, <3>2
      <4>2. \A o \in Thread : mq[o].pos = q - QueueCap => o # th
        BY <1>3, <3>2, Types DEF p
      <4>3. QED
        BY <1>2, <4>1, <4>2 DEF InStep, SlotsInStep
    <3>3. QED
      BY <3>1, <3>2
  <2>3. QED
    BY <1>1, <2>1, <2>2 DEF SlotsInStep
<1>9. OwnersInStep'
  <2>1. ASSUME NEW o \in Thread, o # th, Writing(o) \/ Reading(o)
        PROVE  seq'[PlaceOf(mq[o].pos)] = seq[PlaceOf(mq[o].pos)]
    <3>1. mq[o].pos # p
      BY <1>1, <1>2, <1>3, <2>1, Types DEF InStep, OwnersInStep, p
    <3>2. mq[o].pos \in (tail - QueueCap) .. (tail - 1) /\ mq[o].pos \in Nat
      BY <2>1, Types DEF InStep, OwnersInStep
    <3>3. QED
      BY <1>5, <3>1, <3>2
  <2>2. QED
    BY <1>1, <1>2, <2>1, Types DEF InStep, OwnersInStep, EnqPC
<1>10. CopiesInStep'
  <2>1. p + QueueCap \in Nat /\ p + QueueCap >= seq[PlaceOf(p)]
    BY <1>3, Types
  <2>2. QED
    BY <1>1, <1>3, <2>1, CopiesStay
<1>11. QED
  BY <1>1, <1>7, <1>8, <1>9, <1>10 DEF InStep

\* The steps that neither win a position nor touch a slot are local.
LEMMA LoopStep ==
  ASSUME InStep, NEW th \in Thread,
         \/ \E n \in Items : StartEnqueue(th, n)
         \/ EnqLoad(th) \/ EnqSeq(th) \/ StartDequeue(th) \/ DeqLoad(th) \/ DeqSeq(th)
         \/ mq[th].pc = "enq_cas" /\ Goto(th, "enq_seq", tail)
              /\ UNCHANGED <<seq, item, head, tail>>
         \/ mq[th].pc = "deq_cas" /\ Goto(th, "deq_seq", head)
              /\ UNCHANGED <<seq, item, head, tail>>
  PROVE  /\ InStep'
         /\ ~Writing(th) /\ ~Reading(th) /\ ~Writing(th)' /\ ~Reading(th)'
         /\ UNCHANGED <<seq, item, head, tail>>
         /\ \A o \in Thread : o # th => mq'[o] = mq[o]
<1> USE DEF PCs, EnqPC, DeqPC
<1>1. /\ QueueTypeOK /\ mq[th].pos \in Nat /\ mq[th].node \in MaybeNode
      /\ NoNode \in MaybeNode /\ Items \subseteq Node /\ Node \subseteq MaybeNode
      /\ mq[th].pc \in EnqPC => mq[th].node \in Node
      /\ head \in Nat /\ tail \in Nat
  BY Types, QueueAssumption DEF InStep, Frames, MaybeNode, OwnersInStep
<1>2. PICK pc \in PCs, pos \in Nat, node \in MaybeNode :
        /\ Moved(th, pc, pos, node)
        /\ pc \notin {"enq_item", "enq_publish", "deq_item", "deq_release"}
        /\ pc \in EnqPC => node \in Node
        /\ pc \in {"enq_seq", "enq_cas"} => pos <= tail
        /\ pc \in {"deq_seq", "deq_cas"} => pos <= head
        /\ pc = "enq_cas" => seq[PlaceOf(pos)] >= pos
        /\ pc = "deq_cas" => seq[PlaceOf(pos)] >= pos + 1
  <2>1. CASE \E n \in Items : StartEnqueue(th, n)
    BY <1>1, <2>1, StartMoves
  <2>2. CASE EnqLoad(th)
    <3>1. Moved(th, "enq_seq", tail, mq[th].node)
      BY <1>1, <2>2, GotoMoves DEF EnqLoad
    <3>2. QED
      BY <1>1, <2>2, <3>1 DEF EnqLoad
  <2>3. CASE EnqSeq(th)
    <3>1. CASE Leave(th)
      BY <1>1, <3>1, LeaveMoves
    <3>2. CASE Goto(th, "enq_load", 0)
      <4>1. Moved(th, "enq_load", 0, mq[th].node)
        BY <1>1, <3>2, GotoMoves
      <4>2. QED
        BY <1>1, <2>3, <4>1 DEF EnqSeq
    <3>3. CASE seq[PlaceOf(mq[th].pos)] - mq[th].pos = 0 /\ Goto(th, "enq_cas", mq[th].pos)
      <4>1. Moved(th, "enq_cas", mq[th].pos, mq[th].node)
        BY <1>1, <3>3, GotoMoves
      <4>2. mq[th].pos <= tail /\ seq[PlaceOf(mq[th].pos)] >= mq[th].pos
        BY <1>1, <2>3, <3>3, Types DEF EnqSeq, InStep, CopiesInStep
      <4>3. QED
        BY <1>1, <2>3, <4>1, <4>2 DEF EnqSeq
    <3>4. QED
      BY <2>3, <3>1, <3>2, <3>3 DEF EnqSeq
  <2>4. CASE StartDequeue(th)
    <3>1. Moved(th, "deq_load", 0, mq[th].node)
      BY <1>1, <2>4, GotoMoves DEF StartDequeue
    <3>2. QED
      BY <1>1, <3>1
  <2>5. CASE DeqLoad(th)
    <3>1. Moved(th, "deq_seq", head, mq[th].node)
      BY <1>1, <2>5, GotoMoves DEF DeqLoad
    <3>2. QED
      BY <1>1, <3>1
  <2>6. CASE DeqSeq(th)
    <3>1. CASE Leave(th)
      BY <1>1, <3>1, LeaveMoves
    <3>2. CASE Goto(th, "deq_load", 0)
      <4>1. Moved(th, "deq_load", 0, mq[th].node)
        BY <1>1, <3>2, GotoMoves
      <4>2. QED
        BY <1>1, <4>1
    <3>3. CASE /\ seq[PlaceOf(mq[th].pos)] - (mq[th].pos + 1) = 0
               /\ Goto(th, "deq_cas", mq[th].pos)
      <4>1. Moved(th, "deq_cas", mq[th].pos, mq[th].node)
        BY <1>1, <3>3, GotoMoves
      <4>2. mq[th].pos <= head /\ seq[PlaceOf(mq[th].pos)] >= mq[th].pos + 1
        BY <1>1, <2>6, <3>3, Types DEF DeqSeq, InStep, CopiesInStep
      <4>3. QED
        BY <1>1, <4>1, <4>2
    <3>4. QED
      BY <2>6, <3>1, <3>2, <3>3 DEF DeqSeq
  <2>7. CASE mq[th].pc = "enq_cas" /\ Goto(th, "enq_seq", tail)
    <3>1. Moved(th, "enq_seq", tail, mq[th].node)
      BY <1>1, <2>7, GotoMoves
    <3>2. QED
      BY <1>1, <2>7, <3>1
  <2>8. CASE mq[th].pc = "deq_cas" /\ Goto(th, "deq_seq", head)
    <3>1. Moved(th, "deq_seq", head, mq[th].node)
      BY <1>1, <2>8, GotoMoves
    <3>2. QED
      BY <1>1, <3>1
  <2>9. QED
    BY <2>1, <2>2, <2>3, <2>4, <2>5, <2>6, <2>7, <2>8
<1>3. /\ UNCHANGED <<seq, item, head, tail>>
      /\ mq[th].pc \in {"idle", "enq_load", "enq_seq", "enq_cas",
                        "deq_load", "deq_seq", "deq_cas"}
  BY DEF StartEnqueue, EnqLoad, EnqSeq, StartDequeue, DeqLoad, DeqSeq
<1>4. ~Writing(th) /\ ~Reading(th) /\ ~Writing(th)' /\ ~Reading(th)'
  BY <1>2, <1>3 DEF Writing, Reading, Moved
<1>5. InStep'
  BY <1>2, <1>3, <1>4, LocalStep
<1>6. QED
  BY <1>2, <1>3, <1>4, <1>5 DEF Moved

LEMMA QueueNextInStep ==
  ASSUME InStep, [QueueNext]_queueVars
  PROVE  InStep'
<1>1. CASE UNCHANGED queueVars
  BY <1>1 DEF queueVars, InStep, QueueTypeOK, SlotsInStep, OwnersInStep, CopiesInStep,
              Writing, Reading
<1>2. ASSUME NEW th \in Thread, Enqueue(th)
      PROVE  InStep'
  <2>1. CASE \/ \E n \in Items : StartEnqueue(th, n)
             \/ EnqLoad(th) \/ EnqSeq(th)
    BY <2>1, LoopStep
  <2>2. CASE EnqCas(th)
    <3>1. CASE Goto(th, "enq_seq", tail) /\ UNCHANGED tail
      BY <2>2, <3>1, LoopStep DEF EnqCas
    <3>2. CASE tail = mq[th].pos /\ tail < MaxEnqueues /\ tail' = tail + 1
                 /\ Goto(th, "enq_item", mq[th].pos)
      <4>1. Moved(th, "enq_item", mq[th].pos, mq[th].node)
        BY <3>2, Types, GotoMoves DEF InStep, PCs, EnqPC
      <4>2. QED
        BY <2>2, <3>2, <4>1, ReserveStep DEF EnqCas
    <3>3. QED
      BY <2>2, <3>1, <3>2 DEF EnqCas
  <2>3. CASE EnqItem(th)
    <3>1. Moved(th, "enq_publish", mq[th].pos, mq[th].node)
      BY <2>3, Types, GotoMoves DEF EnqItem, InStep, PCs, EnqPC
    <3>2. QED
      BY <2>3, <3>1, ItemStep DEF EnqItem
  <2>4. CASE EnqPublish(th)
    BY <2>4, PublishStep
  <2>5. QED
    BY <1>2, <2>1, <2>2, <2>3, <2>4 DEF Enqueue
<1>3. ASSUME NEW th \in Thread, Dequeue(th)
      PROVE  InStep'
  <2>1. CASE StartDequeue(th) \/ DeqLoad(th) \/ DeqSeq(th)
    BY <2>1, LoopStep
  <2>2. CASE DeqCas(th)
    <3>1. CASE Goto(th, "deq_seq", head) /\ UNCHANGED head
      BY <2>2, <3>1, LoopStep DEF DeqCas
    <3>2. CASE head = mq[th].pos /\ head' = head + 1 /\ Goto(th, "deq_item", mq[th].pos)
      <4>1. Moved(th, "deq_item", mq[th].pos, mq[th].node)
        BY <3>2, Types, GotoMoves DEF InStep, PCs, DeqPC
      <4>2. QED
        BY <2>2, <3>2, <4>1, TakeStep DEF DeqCas
    <3>3. QED
      BY <2>2, <3>1, <3>2 DEF DeqCas
  <2>3. CASE DeqItem(th)
    BY <2>3, ItemMoves, TakenItemStep DEF DeqItem, InStep
  <2>4. CASE DeqRelease(th)
    BY <2>4, ReleaseStep
  <2>5. QED
    BY <1>3, <2>1, <2>2, <2>3, <2>4 DEF Dequeue
<1>4. QED
  BY <1>1, <1>2, <1>3 DEF QueueNext

\* The inductive invariant of the queue: what a slot's sequence number says of it.
THEOREM QueueInStep == QueueSpec => []InStep
<1>1. QueueInit => InStep
  BY QueueInitInStep
<1>2. InStep /\ [QueueNext]_queueVars => InStep'
  BY QueueNextInStep
<1>3. QED
  BY <1>1, <1>2, PTL DEF QueueSpec

\* No two threads meet in the plain item of a slot, and whoever wins a position of
\* head_ reads the node that was published there, in every lap.
THEOREM QueueSafe == QueueSpec => []QueueInv
<1>1. ASSUME InStep
      PROVE  QueueInv
  <2>1. NoItemRace
    <3>1. SUFFICES ASSUME NEW a \in Thread, NEW b \in Thread, a # b,
                          Writing(a), Writing(b) \/ Reading(b)
                   PROVE  PlaceOf(mq[a].pos) # PlaceOf(mq[b].pos)
      BY DEF NoItemRace, Writing, Reading
    <3>2. /\ mq[b].pos \in Nat /\ mq[b].pos # mq[a].pos
          /\ mq[b].pos \in (tail - QueueCap) .. (head + QueueCap - 1)
      BY <1>1, <3>1, Types DEF InStep, OwnersInStep
    <3>3. QED
      BY <1>1, <3>1, <3>2, OthersApart
  <2>2. TakesPublished
    BY <1>1, NodeAssumption DEF InStep, OwnersInStep, TakesPublished, Reading
  <2>3. QED
    BY <1>1, <2>1, <2>2 DEF InStep, QueueInv
<1>2. QED
  BY <1>1, QueueInStep, PTL

-----------------------------------------------------------------------------
(* The cells between head_ and tail_ *)

AnyCell == [node : MaybeNode, writer : SUBSET Thread]

CellsListed ==
  /\ cellsBar \in Seq(AnyCell)
  /\ Len(cellsBar) = tail - head
  /\ \A i \in 1 .. (tail - head) :
       head + i - 1 \in head .. (tail - 1) /\ cellsBar[i] = CellAt[head + i - 1]

\* what the cells are: those of the writers, and those a writer has published
CellsMatch ==
  \A pos \in head .. (tail - 1) :
       /\ \A th \in Thread : Writing(th) /\ mq[th].pos = pos
            => CellAt[pos] = [node |-> mq[th].node, writer |-> {th}]
       /\ (\A th \in Thread : Writing(th) => mq[th].pos # pos)
            => CellAt[pos] = [node |-> item[PlaceOf(pos)], writer |-> {}]

LEMMA InStepCells == InStep => CellsListed /\ CellsMatch
<1> SUFFICES ASSUME InStep PROVE CellsListed /\ CellsMatch
  OBVIOUS
<1>1. ASSUME NEW pos \in head .. (tail - 1)
      PROVE  /\ CellAt[pos] \in AnyCell
             /\ \A th \in Thread : Writing(th) /\ mq[th].pos = pos
                  => CellAt[pos] = [node |-> mq[th].node, writer |-> {th}]
             /\ (\A th \in Thread : Writing(th) => mq[th].pos # pos)
                  => CellAt[pos] = [node |-> item[PlaceOf(pos)], writer |-> {}]
  <2>1. item[PlaceOf(pos)] \in MaybeNode
    BY Types
  <2>2. CASE \A th \in Thread : Writing(th) => mq[th].pos # pos
    <3>1. Writer(pos) = {}
      BY <2>2 DEF Writer
    <3>2. CellAt[pos] = [node |-> item[PlaceOf(pos)], writer |-> {}]
      BY <3>1 DEF CellAt
    <3>3. QED
      BY <2>1, <2>2, <3>2 DEF AnyCell
  <2>3. ASSUME NEW th \in Thread, Writing(th), mq[th].pos = pos
        PROVE  CellAt[pos] = [node |-> mq[th].node, writer |-> {th}]
    <3>1. \A o \in Thread : Writing(o) /\ mq[o].pos = pos => o = th
      BY <2>3 DEF InStep, OwnersInStep
    <3>2. Writer(pos) = {th}
      BY <2>3, <3>1 DEF Writer
    <3>3. (CHOOSE o \in Writer(pos) : TRUE) = th
      BY <3>2
    <3>4. QED
      BY <3>2, <3>3 DEF CellAt
  <2>4. ASSUME NEW th \in Thread, Writing(th), mq[th].pos = pos
        PROVE  CellAt[pos] \in AnyCell
    <3>1. mq[th].node \in MaybeNode /\ {th} \in SUBSET Thread
      BY Types DEF Frames
    <3>2. [node |-> mq[th].node, writer |-> {th}] \in AnyCell
      BY <3>1 DEF AnyCell
    <3>3. CellAt[pos] = [node |-> mq[th].node, writer |-> {th}]
      BY <2>3, <2>4
    <3>4. QED
      BY <3>2, <3>3
  <2>5. QED
    BY <2>2, <2>3, <2>4
<1>2. /\ tail - head \in Nat
      /\ \A i \in 1 .. (tail - head) : head + i - 1 \in head .. (tail - 1)
  BY Types
<1>3. /\ cellsBar \in [1 .. (tail - head) -> AnyCell]
      /\ \A i \in 1 .. (tail - head) : cellsBar[i] = CellAt[head + i - 1]
  BY <1>1, <1>2 DEF cellsBar
<1>4. cellsBar \in Seq(AnyCell)
  BY <1>2, <1>3, SeqDef
<1>5. Len(cellsBar) = tail - head
  BY <1>2, <1>3, <1>4, LenProperties
<1>6. QED
  BY <1>1, <1>2, <1>3, <1>4, <1>5 DEF CellsListed, CellsMatch

LEMMA NextCells == InStep' => CellsListed' /\ CellsMatch'
BY InStepCells, PTL

\* a cell is the same as long as its writer or its published item is
LEMMA CellStays ==
  ASSUME InStep, InStep',
         NEW pos \in head .. (tail - 1), pos \in head' .. (tail' - 1),
         \A o \in Thread : Writing(o)' /\ mq'[o].pos = pos <=> Writing(o) /\ mq[o].pos = pos,
         \A o \in Thread : Writing(o) /\ mq[o].pos = pos => mq'[o].node = mq[o].node,
         (\A o \in Thread : Writing(o) => mq[o].pos # pos)
           => item'[PlaceOf(pos)] = item[PlaceOf(pos)]
  PROVE  CellAt'[pos] = CellAt[pos]
<1>1. CellsMatch /\ CellsMatch'
  BY InStepCells, NextCells
<1>2. CASE \A o \in Thread : Writing(o) => mq[o].pos # pos
  <2>1. CellAt[pos] = [node |-> item[PlaceOf(pos)], writer |-> {}]
    BY <1>1, <1>2 DEF CellsMatch
  <2>2. \A o \in Thread : Writing(o)' => mq'[o].pos # pos
    BY <1>2
  <2>3. CellAt'[pos] = [node |-> item'[PlaceOf(pos)], writer |-> {}]
    BY <1>1, <2>2 DEF CellsMatch
  <2>4. QED
    BY <1>2, <2>1, <2>3
<1>3. ASSUME NEW o \in Thread, Writing(o), mq[o].pos = pos
      PROVE  CellAt'[pos] = CellAt[pos]
  <2>1. CellAt[pos] = [node |-> mq[o].node, writer |-> {o}]
    BY <1>1, <1>3 DEF CellsMatch
  <2>2. CellAt'[pos] = [node |-> mq'[o].node, writer |-> {o}]
    BY <1>1, <1>3 DEF CellsMatch
  <2>3. QED
    BY <1>3, <2>1, <2>2
<1>4. QED
  BY <1>2, <1>3

\* the cells are the same when each of them is
LEMMA CellsStay ==
  ASSUME InStep, InStep', UNCHANGED <<head, tail>>,
         \A pos \in head .. (tail - 1) : CellAt'[pos] = CellAt[pos]
  PROVE  UNCHANGED cellsBar
<1>1. CellsListed /\ CellsListed'
  BY InStepCells, NextCells
<1>2. \A i \in 1 .. (tail - head) : cellsBar'[i] = cellsBar[i]
  BY <1>1 DEF CellsListed
<1>3. QED
  BY <1>1, <1>2, SeqEqual DEF CellsListed

\* a thread's own cell
LEMMA MyCells ==
  ASSUME InStep, NEW th \in Thread
  PROVE  Abstract!MyCell(th) =
           IF Writing(th) THEN {mq[th].pos - head + 1} ELSE {}
<1>1. CellsListed /\ CellsMatch
  BY InStepCells
<1>2. ASSUME NEW i \in 1 .. (tail - head)
      PROVE  cellsBar[i].writer = {th} <=> Writing(th) /\ mq[th].pos = head + i - 1
  <2>1. PICK q \in head .. (tail - 1) : q = head + i - 1 /\ cellsBar[i] = CellAt[q]
    BY <1>1 DEF CellsListed
  <2>2. CASE \A o \in Thread : Writing(o) => mq[o].pos # q
    <3>1. CellAt[q] = [node |-> item[PlaceOf(q)], writer |-> {}]
      BY <1>1, <2>2 DEF CellsMatch
    <3>2. QED
      BY <2>1, <2>2, <3>1
  <2>3. ASSUME NEW o \in Thread, Writing(o), mq[o].pos = q
        PROVE  cellsBar[i].writer = {th} <=> Writing(th) /\ mq[th].pos = head + i - 1
    <3>1. CellAt[q] = [node |-> mq[o].node, writer |-> {o}]
      BY <1>1, <2>3 DEF CellsMatch
    <3>2. Writing(th) /\ mq[th].pos = q => th = o
      BY <2>3 DEF InStep, OwnersInStep
    <3>3. CellAt[q].writer = {o}
      BY <3>1
    <3>4. QED
      BY <2>1, <2>3, <3>2, <3>3
  <2>4. QED
    BY <2>2, <2>3
<1>3. Writing(th) => mq[th].pos \in head .. (tail - 1)
  BY DEF InStep, OwnersInStep
<1>4. /\ Len(cellsBar) = tail - head
      /\ Abstract!MyCell(th) = {i \in 1 .. Len(cellsBar) : cellsBar[i].writer = {th}}
  BY <1>1 DEF CellsListed, Abstract!MyCell
<1>5. Len(cellsBar) = tail - head /\ tail - head \in Nat /\ head \in Nat
  BY <1>4, Types
<1>6. CASE ~Writing(th)
  BY <1>2, <1>4, <1>5, <1>6
<1>7. CASE Writing(th)
  <2>1. \A i \in 1 .. (tail - head) : mq[th].pos = head + i - 1 <=> i = mq[th].pos - head + 1
    BY <1>3, <1>5, <1>7
  <2>2. mq[th].pos - head + 1 \in 1 .. (tail - head)
    <3>1. PICK q \in head .. (tail - 1) : q = mq[th].pos
      BY <1>3, <1>7
    <3>2. head \in Nat /\ tail \in Nat
      BY Types
    <3>3. q - head + 1 \in 1 .. (tail - head)
      BY <3>2
    <3>4. QED
      BY <3>1, <3>3
  <2>3. QED
    BY <1>2, <1>4, <1>5, <1>7, <2>1, <2>2
<1>8. QED
  BY <1>6, <1>7

\* what a thread has taken changes only by its own steps
LEMMA TakingStays ==
  ASSUME \A o \in Thread :
           \/ ~Reading(o) /\ ~Reading(o)'
           \/ /\ mq'[o] = mq[o]
              /\ mq[o].pc = "deq_item" => item'[PlaceOf(mq[o].pos)] = item[PlaceOf(mq[o].pos)]
  PROVE  UNCHANGED takingBar
<1>1. ASSUME NEW o \in Thread
      PROVE  takingBar'[o] = takingBar[o]
  <2>1. CASE ~Reading(o) /\ ~Reading(o)'
    BY <2>1 DEF takingBar, Reading
  <2>2. CASE /\ mq'[o] = mq[o]
             /\ mq[o].pc = "deq_item" => item'[PlaceOf(mq[o].pos)] = item[PlaceOf(mq[o].pos)]
    BY <2>2 DEF takingBar, Reading
  <2>3. QED
    BY <2>1, <2>2
<1>2. /\ takingBar = [o \in Thread |-> takingBar[o]]
      /\ takingBar' = [o \in Thread |-> takingBar'[o]]
  BY DEF takingBar
<1>3. QED
  BY <1>1, <1>2

\* a step that takes and publishes nothing, and wins no position, is invisible
LEMMA LoopIsInvisible ==
  ASSUME InStep, InStep', NEW th \in Thread,
         ~Writing(th), ~Reading(th), ~Writing(th)', ~Reading(th)',
         UNCHANGED <<seq, item, head, tail>>,
         \A o \in Thread : o # th => mq'[o] = mq[o]
  PROVE  UNCHANGED <<cellsBar, takingBar>>
<1>1. UNCHANGED takingBar
  BY TakingStays
<1>2. \A o \in Thread : Writing(o)' <=> Writing(o)
  BY DEF Writing
<1>3. ASSUME NEW pos \in head .. (tail - 1)
      PROVE  CellAt'[pos] = CellAt[pos]
  BY <1>2, CellStays
<1>4. QED
  BY <1>1, <1>3, CellsStay

\* the compare-and-swap of tail_ reserves the last cell
LEMMA ReserveIsReserve ==
  ASSUME InStep, InStep', NEW th \in Thread, mq[th].pc = "enq_cas", mq[th].pos = tail,
         tail' = tail + 1,
         Moved(th, "enq_item", mq[th].pos, mq[th].node), UNCHANGED <<seq, item, head>>
  PROVE  /\ Abstract!MyCell(th) = {} /\ takingBar[th] = NoNode
         /\ mq[th].node \in Node
         /\ Abstract!Reserve(th, mq[th].node)
<1> DEFINE cell == [node |-> mq[th].node, writer |-> {th}]
<1>1. /\ ~Writing(th) /\ ~Reading(th) /\ Writing(th)' /\ ~Reading(th)'
      /\ mq'[th].pos = tail /\ mq'[th].node = mq[th].node
      /\ \A o \in Thread : o # th => mq'[o] = mq[o]
  BY DEF Moved, Writing, Reading
<1>2. mq[th].node \in Node
  BY DEF InStep, OwnersInStep, EnqPC
<1>3. /\ CellsListed /\ CellsMatch
      /\ CellsListed' /\ CellsMatch'
  BY InStepCells, NextCells
<1>4. UNCHANGED takingBar /\ takingBar[th] = NoNode
  BY <1>1, TakingStays DEF takingBar, Reading
<1>5. cell \in AnyCell
  <2>1. {th} \in SUBSET Thread /\ mq[th].node \in MaybeNode
    BY <1>2 DEF MaybeNode
  <2>2. QED
    BY <2>1 DEF AnyCell
<1>6. CellAt'[tail] = cell
  <2>1. tail \in head' .. (tail' - 1)
    BY Types
  <2>2. Writing(th)' /\ mq'[th].pos = tail
          => CellAt'[tail] = [node |-> mq'[th].node, writer |-> {th}]
    BY <1>3, <2>1 DEF CellsMatch
  <2>3. QED
    BY <1>1, <2>2
<1>7. ASSUME NEW pos \in head .. (tail - 1)
      PROVE  CellAt'[pos] = CellAt[pos]
  <2>1. pos # tail /\ pos \in head' .. (tail' - 1)
    BY Types
  <2>2. ASSUME NEW o \in Thread
        PROVE  /\ Writing(o)' /\ mq'[o].pos = pos <=> Writing(o) /\ mq[o].pos = pos
               /\ mq'[o].node = mq[o].node
    BY <1>1, <2>1 DEF Writing
  <2>3. QED
    BY <2>1, <2>2, CellStays
<1> HIDE DEF cell
<1>8. cellsBar' = Append(cellsBar, cell)
  <2>1. /\ cellsBar \in Seq(AnyCell) /\ cellsBar' \in Seq(AnyCell)
        /\ Len(cellsBar) = tail - head /\ Len(cellsBar') = tail - head + 1
        /\ tail \in Nat /\ head \in Nat /\ head <= tail
    BY <1>3, Types DEF CellsListed
  <2>2. /\ Append(cellsBar, cell) \in Seq(AnyCell)
        /\ Len(Append(cellsBar, cell)) = Len(cellsBar) + 1
        /\ \A i \in 1 .. Len(cellsBar) : Append(cellsBar, cell)[i] = cellsBar[i]
        /\ Append(cellsBar, cell)[Len(cellsBar) + 1] = cell
    BY <1>5, <2>1, AppendProperties
  <2>3. ASSUME NEW i \in 1 .. (tail - head)
        PROVE  cellsBar'[i] = cellsBar[i]
    <3>1. i \in 1 .. (tail' - head') /\ head' + i - 1 = head + i - 1
      BY <2>1
    <3>2. QED
      BY <1>3, <1>7, <3>1 DEF CellsListed
  <2>4. cellsBar'[tail - head + 1] = cell
    <3>1. tail - head + 1 \in 1 .. (tail' - head') /\ head' + (tail - head + 1) - 1 = tail
      BY <2>1
    <3>2. QED
      BY <1>3, <1>6, <3>1 DEF CellsListed
  <2>5. \A i \in 1 .. Len(cellsBar') : cellsBar'[i] = Append(cellsBar, cell)[i]
    BY <2>1, <2>2, <2>3, <2>4
  <2>6. QED
    BY <2>1, <2>2, <2>5, SeqEqual
<1>9. Len(cellsBar) < QueueCap
  <2>1. Len(cellsBar) = tail - head /\ tail < head + QueueCap
    BY <1>3, TailIsFree DEF CellsListed
  <2>2. head \in Nat /\ tail \in Nat /\ QueueCap \in Nat
    BY Types
  <2>3. QED
    BY <2>1, <2>2
<1>10. QED
  BY <1>1, <1>2, <1>4, <1>8, <1>9, MyCells DEF cell, Abstract!Reserve

\* the store of the item is invisible: no cell and no reader has it yet
LEMMA ItemIsInvisible ==
  ASSUME InStep, InStep', NEW th \in Thread, mq[th].pc = "enq_item",
         item' = [item EXCEPT ![PlaceOf(mq[th].pos)] = mq[th].node],
         Moved(th, "enq_publish", mq[th].pos, mq[th].node), UNCHANGED <<seq, head, tail>>
  PROVE  UNCHANGED <<cellsBar, takingBar>>
<1>1. /\ Writing(th) /\ Writing(th)' /\ ~Reading(th) /\ ~Reading(th)'
      /\ mq'[th].pos = mq[th].pos /\ mq'[th].node = mq[th].node
      /\ \A o \in Thread : o # th => mq'[o] = mq[o]
  BY DEF Moved, Writing, Reading
<1>2. \A q \in (tail - QueueCap) .. (head + QueueCap - 1) :
        q \in Nat /\ q # mq[th].pos => item'[PlaceOf(q)] = item[PlaceOf(q)]
  BY <1>1, OthersApart, Types
<1>3. UNCHANGED takingBar
  <2>1. ASSUME NEW o \in Thread, Reading(o)
        PROVE  item'[PlaceOf(mq[o].pos)] = item[PlaceOf(mq[o].pos)]
    <3>1. mq[o].pos \in (tail - QueueCap) .. (head - 1) /\ mq[o].pos \in Nat
      BY <2>1, Types DEF InStep, OwnersInStep
    <3>2. mq[th].pos \in head .. (tail - 1)
      BY <1>1 DEF InStep, OwnersInStep
    <3>3. QED
      BY <1>2, <3>1, <3>2, Types
  <2>2. \A o \in Thread : ~Reading(o) /\ o # th => ~Reading(o)'
    BY <1>1 DEF Reading
  <2>3. QED
    BY <1>1, <2>1, <2>2, TakingStays DEF Reading
<1>4. ASSUME NEW pos \in head .. (tail - 1)
      PROVE  CellAt'[pos] = CellAt[pos]
  <2>1. ASSUME NEW o \in Thread
        PROVE  /\ Writing(o)' /\ mq'[o].pos = pos <=> Writing(o) /\ mq[o].pos = pos
               /\ mq'[o].node = mq[o].node
    BY <1>1 DEF Writing
  <2>2. (\A o \in Thread : Writing(o) => mq[o].pos # pos)
          => item'[PlaceOf(pos)] = item[PlaceOf(pos)]
    BY <1>1, <1>2, Types
  <2>3. QED
    BY <2>1, <2>2, CellStays
<1>5. QED
  BY <1>3, <1>4, CellsStay

\* the store of slot.seq publishes the thread's cell
LEMMA PublishIsPublish ==
  ASSUME InStep, InStep', NEW th \in Thread, EnqPublish(th)
  PROVE  Abstract!Publish(th)
<1> DEFINE p == mq[th].pos
           i == p - head + 1
           cell == [cellsBar[i] EXCEPT !.writer = {}]
<1>1. /\ Writing(th) /\ ~Reading(th) /\ Moved(th, "idle", 0, NoNode)
      /\ UNCHANGED <<item, head, tail>> /\ mq[th].pc = "enq_publish"
  BY LeaveMoves DEF EnqPublish, Writing, Reading, InStep
<1>2. /\ ~Writing(th)' /\ ~Reading(th)'
      /\ \A o \in Thread : o # th => mq'[o] = mq[o]
  BY <1>1 DEF Moved, Writing, Reading
<1>3. /\ CellsListed /\ CellsMatch
      /\ CellsListed' /\ CellsMatch'
  BY InStepCells, NextCells
<1>4. /\ p \in head .. (tail - 1)
      /\ item[PlaceOf(p)] = mq[th].node
      /\ \A o \in Thread : o # th /\ Writing(o) => mq[o].pos # p
  BY <1>1 DEF InStep, OwnersInStep
<1>5. /\ head \in Nat /\ tail \in Nat /\ i \in 1 .. (tail - head) /\ head + i - 1 = p
  BY <1>4, Types
<1>6. UNCHANGED takingBar
  BY <1>1, <1>2, TakingStays
<1> HIDE DEF p, i
<1>7. cellsBar[i] = [node |-> mq[th].node, writer |-> {th}]
  <2>1. cellsBar[i] = CellAt[p]
    BY <1>3, <1>5 DEF CellsListed
  <2>2. Writing(th) /\ mq[th].pos = p => CellAt[p] = [node |-> mq[th].node, writer |-> {th}]
    BY <1>3, <1>4 DEF CellsMatch
  <2>3. QED
    BY <1>1, <2>1, <2>2 DEF p
<1>8. cell = [node |-> mq[th].node, writer |-> {}]
  BY <1>7
<1>9. CellAt'[p] = cell
  <2>1. \A o \in Thread : Writing(o)' => mq'[o].pos # p
    BY <1>2, <1>4 DEF Writing
  <2>2. p \in head' .. (tail' - 1)
    BY <1>1, <1>4
  <2>3. CellAt'[p] = [node |-> item'[PlaceOf(p)], writer |-> {}]
    BY <1>3, <2>1, <2>2 DEF CellsMatch
  <2>4. QED
    BY <1>1, <1>4, <1>8, <2>3
<1>10. ASSUME NEW pos \in head .. (tail - 1), pos # p
       PROVE  CellAt'[pos] = CellAt[pos]
  <2>1. ASSUME NEW o \in Thread
        PROVE  /\ Writing(o)' /\ mq'[o].pos = pos <=> Writing(o) /\ mq[o].pos = pos
               /\ Writing(o) /\ mq[o].pos = pos => mq'[o].node = mq[o].node
    BY <1>2, <1>10 DEF Writing, p
  <2>2. QED
    BY <1>1, <2>1, CellStays
<1>11. cell \in AnyCell
  <2>1. mq[th].node \in MaybeNode /\ {} \in SUBSET Thread
    BY Types DEF Frames
  <2>2. QED
    BY <1>8, <2>1 DEF AnyCell
<1> HIDE DEF cell
<1>12. cellsBar' = [cellsBar EXCEPT ![i] = cell]
  <2>1. /\ cellsBar \in Seq(AnyCell) /\ cellsBar' \in Seq(AnyCell)
        /\ Len(cellsBar) = tail - head /\ Len(cellsBar') = tail - head
    BY <1>1, <1>3 DEF CellsListed
  <2>2. /\ [cellsBar EXCEPT ![i] = cell] \in Seq(AnyCell)
        /\ Len([cellsBar EXCEPT ![i] = cell]) = tail - head
        /\ \A j \in 1 .. (tail - head) :
             [cellsBar EXCEPT ![i] = cell][j] = IF j = i THEN cell ELSE cellsBar[j]
    BY <1>5, <1>11, <2>1, ExceptSeq
  <2>3. ASSUME NEW j \in 1 .. (tail - head)
        PROVE  cellsBar'[j] = IF j = i THEN cell ELSE cellsBar[j]
    <3>1. PICK q \in head .. (tail - 1) : q = head + j - 1
      BY <1>5
    <3>2. cellsBar'[j] = CellAt'[q] /\ cellsBar[j] = CellAt[q]
      BY <1>1, <1>3, <3>1 DEF CellsListed
    <3>3. q = p <=> j = i
      BY <1>5, <3>1
    <3>4. CASE j = i
      BY <1>9, <3>2, <3>3, <3>4
    <3>5. CASE j # i
      BY <1>10, <3>2, <3>3, <3>5
    <3>6. QED
      BY <3>4, <3>5
  <2>4. \A j \in 1 .. Len(cellsBar') : cellsBar'[j] = [cellsBar EXCEPT ![i] = cell][j]
    BY <2>1, <2>2, <2>3
  <2>5. QED
    BY <2>1, <2>2, <2>4, SeqEqual
<1>13. Abstract!MyCell(th) = {i}
  BY <1>1, MyCells DEF i, p
<1>14. \E j \in Abstract!MyCell(th) : cellsBar' = [cellsBar EXCEPT ![j].writer = {}]
  BY <1>12, <1>13 DEF cell
<1>15. QED
  BY <1>6, <1>14 DEF Abstract!Publish

\* the compare-and-swap of head_ takes the first cell, which is published
LEMMA TakeIsTake ==
  ASSUME InStep, InStep', NEW th \in Thread, mq[th].pc = "deq_cas", mq[th].pos = head,
         head' = head + 1,
         Moved(th, "deq_item", mq[th].pos, mq[th].node), UNCHANGED <<seq, item, tail>>
  PROVE  Abstract!MyCell(th) = {} /\ Abstract!Take(th)
<1>1. /\ ~Writing(th) /\ ~Reading(th) /\ ~Writing(th)'
      /\ mq'[th].pos = head /\ mq'[th].pc = "deq_item"
      /\ \A o \in Thread : o # th => mq'[o] = mq[o]
  BY DEF Moved, Writing, Reading
<1>2. /\ head < tail /\ item[PlaceOf(head)] \in Node
      /\ \A o \in Thread : Writing(o) => mq[o].pos # head
  <2>1. seq[PlaceOf(head)] >= head + 1
    BY DEF InStep, CopiesInStep
  <2>2. QED
    BY <2>1, HeadIsPublished
<1>3. /\ CellsListed /\ CellsMatch
      /\ CellsListed' /\ CellsMatch'
  BY InStepCells, NextCells
<1>4. head \in Nat /\ tail \in Nat /\ head \in head .. (tail - 1) /\ 1 \in 1 .. (tail - head)
  BY <1>2, Types
<1>5. cellsBar[1] = [node |-> item[PlaceOf(head)], writer |-> {}]
  <2>1. cellsBar[1] = CellAt[head + 1 - 1]
    BY <1>3, <1>4 DEF CellsListed
  <2>2. head + 1 - 1 = head
    BY <1>4
  <2>3. CellAt[head] = [node |-> item[PlaceOf(head)], writer |-> {}]
    BY <1>2, <1>3, <1>4 DEF CellsMatch
  <2>4. QED
    BY <2>1, <2>2, <2>3
<1>6. /\ cellsBar \in Seq(AnyCell) /\ cellsBar' \in Seq(AnyCell)
      /\ Len(cellsBar) = tail - head /\ Len(cellsBar') = tail - head - 1
  BY <1>3, <1>4 DEF CellsListed
<1>7. cellsBar # <<>>
  BY <1>2, <1>4, <1>6, EmptySeq
<1>8. Head(cellsBar) = cellsBar[1]
  BY <1>6, <1>7
<1>9. ASSUME NEW pos \in head .. (tail - 1), pos # head
      PROVE  CellAt'[pos] = CellAt[pos]
  <2>1. pos \in head' .. (tail' - 1)
    BY <1>4, <1>9
  <2>2. ASSUME NEW o \in Thread
        PROVE  /\ Writing(o)' /\ mq'[o].pos = pos <=> Writing(o) /\ mq[o].pos = pos
               /\ Writing(o) /\ mq[o].pos = pos => mq'[o].node = mq[o].node
    BY <1>1 DEF Writing
  <2>3. QED
    BY <2>1, <2>2, CellStays
<1>10. cellsBar' = Tail(cellsBar)
  <2>1. /\ Tail(cellsBar) \in Seq(AnyCell) /\ Len(Tail(cellsBar)) = Len(cellsBar) - 1
        /\ \A i \in 1 .. Len(Tail(cellsBar)) : Tail(cellsBar)[i] = cellsBar[i + 1]
    BY <1>6, <1>7, HeadTailProperties
  <2>2. ASSUME NEW i \in 1 .. (tail - head - 1)
        PROVE  cellsBar'[i] = cellsBar[i + 1]
    <3>1. PICK q \in head .. (tail - 1) : q = head + i
      BY <1>4
    <3>2. /\ i \in 1 .. (tail' - head') /\ head' + i - 1 = q
          /\ i + 1 \in 1 .. (tail - head) /\ head + (i + 1) - 1 = q /\ q # head
      BY <1>4, <3>1
    <3>3. cellsBar'[i] = CellAt'[q] /\ cellsBar[i + 1] = CellAt[q]
      BY <1>3, <3>2 DEF CellsListed
    <3>4. QED
      BY <1>9, <3>2, <3>3
  <2>3. \A i \in 1 .. Len(cellsBar') : cellsBar'[i] = Tail(cellsBar)[i]
    BY <1>6, <2>1, <2>2
  <2>4. QED
    BY <1>4, <1>6, <2>1, <2>3, SeqEqual
<1>11. /\ takingBar[th] = NoNode
       /\ takingBar' = [takingBar EXCEPT ![th] = Head(cellsBar).node]
  <2>1. takingBar[th] = NoNode
    BY DEF takingBar
  <2>2. takingBar'[th] = item[PlaceOf(head)]
    BY <1>1 DEF takingBar
  <2>3. \A o \in Thread : o # th => takingBar'[o] = takingBar[o]
    BY <1>1 DEF takingBar
  <2>4. Head(cellsBar).node = item[PlaceOf(head)]
    BY <1>5, <1>8
  <2>5. /\ takingBar = [o \in Thread |-> takingBar[o]]
        /\ takingBar' = [o \in Thread |-> takingBar'[o]]
    BY DEF takingBar
  <2>6. QED
    BY <2>1, <2>2, <2>3, <2>4, <2>5
<1>12. Head(cellsBar).writer = {}
  BY <1>5, <1>8
<1>13. Abstract!MyCell(th) = {}
  BY <1>1, MyCells
<1>14. QED
  BY <1>7, <1>10, <1>11, <1>12, <1>13 DEF Abstract!Take, Abstract!HeadReady

\* the read of the item is invisible, the store of slot.seq releases the slot
LEMMA TakenItemIsInvisible ==
  ASSUME InStep, InStep', NEW th \in Thread, mq[th].pc = "deq_item",
         Moved(th, "deq_release", mq[th].pos, item[PlaceOf(mq[th].pos)]),
         UNCHANGED <<seq, item, head, tail>>
  PROVE  UNCHANGED <<cellsBar, takingBar>>
<1>1. /\ ~Writing(th) /\ ~Writing(th)'
      /\ mq'[th].pc = "deq_release" /\ mq'[th].node = item[PlaceOf(mq[th].pos)]
      /\ \A o \in Thread : o # th => mq'[o] = mq[o]
  BY DEF Moved, Writing
<1>2. UNCHANGED takingBar
  <2>1. takingBar'[th] = takingBar[th]
    BY <1>1 DEF takingBar
  <2>2. \A o \in Thread : o # th => takingBar'[o] = takingBar[o]
    BY <1>1 DEF takingBar
  <2>3. /\ takingBar = [o \in Thread |-> takingBar[o]]
        /\ takingBar' = [o \in Thread |-> takingBar'[o]]
    BY DEF takingBar
  <2>4. QED
    BY <2>1, <2>2, <2>3
<1>3. \A o \in Thread : (Writing(o)' <=> Writing(o)) /\ (Writing(o) => mq'[o] = mq[o])
  BY <1>1 DEF Writing
<1>4. ASSUME NEW pos \in head .. (tail - 1)
      PROVE  CellAt'[pos] = CellAt[pos]
  BY <1>3, CellStays
<1>5. QED
  BY <1>2, <1>4, CellsStay

LEMMA ReleaseIsRelease ==
  ASSUME InStep, InStep', NEW th \in Thread, DeqRelease(th)
  PROVE  Abstract!Release(th)
<1>1. /\ ~Writing(th) /\ Moved(th, "idle", 0, NoNode)
      /\ UNCHANGED <<item, head, tail>> /\ mq[th].pc = "deq_release"
  BY LeaveMoves DEF DeqRelease, Writing, InStep
<1>2. /\ ~Writing(th)' /\ mq'[th].pc = "idle"
      /\ \A o \in Thread : o # th => mq'[o] = mq[o]
  BY <1>1 DEF Moved, Writing
<1>3. takingBar[th] # NoNode
  BY <1>1, NodeAssumption DEF takingBar, InStep, OwnersInStep
<1>4. takingBar' = [takingBar EXCEPT ![th] = NoNode]
  <2>1. takingBar'[th] = NoNode
    BY <1>2 DEF takingBar
  <2>2. \A o \in Thread : o # th => takingBar'[o] = takingBar[o]
    BY <1>1, <1>2 DEF takingBar
  <2>3. /\ takingBar = [o \in Thread |-> takingBar[o]]
        /\ takingBar' = [o \in Thread |-> takingBar'[o]]
    BY DEF takingBar
  <2>4. QED
    BY <2>1, <2>2, <2>3
<1>5. \A o \in Thread : (Writing(o)' <=> Writing(o)) /\ (Writing(o) => mq'[o] = mq[o])
  BY <1>1, <1>2 DEF Writing
<1>6. ASSUME NEW pos \in head .. (tail - 1)
      PROVE  CellAt'[pos] = CellAt[pos]
  BY <1>1, <1>5, CellStays
<1>7. UNCHANGED cellsBar
  BY <1>1, <1>6, CellsStay
<1>8. QED
  BY <1>3, <1>4, <1>7 DEF Abstract!Release

LEMMA QueueStepRefines ==
  ASSUME InStep, InStep', [QueueNext]_queueVars
  PROVE  [Abstract!InboxNext]_(Abstract!inboxVars)
<1> DEFINE Invisible == UNCHANGED <<cellsBar, takingBar>>
<1>1. CASE UNCHANGED queueVars
  <2>1. UNCHANGED takingBar
    BY <1>1, TakingStays DEF queueVars
  <2>2. \A pos \in head .. (tail - 1) : CellAt'[pos] = CellAt[pos]
    BY <1>1, CellStays DEF queueVars, Writing
  <2>3. QED
    BY <1>1, <2>1, <2>2, CellsStay DEF queueVars, Abstract!inboxVars
<1>2. ASSUME NEW th \in Thread, Enqueue(th)
      PROVE  Invisible \/ Abstract!InboxNext
  <2>1. CASE \/ \E n \in Items : StartEnqueue(th, n)
             \/ EnqLoad(th) \/ EnqSeq(th)
    BY <2>1, LoopStep, LoopIsInvisible
  <2>2. CASE EnqCas(th)
    <3>1. CASE Goto(th, "enq_seq", tail) /\ UNCHANGED tail
      BY <2>2, <3>1, LoopStep, LoopIsInvisible DEF EnqCas
    <3>2. CASE tail = mq[th].pos /\ tail < MaxEnqueues /\ tail' = tail + 1
                 /\ Goto(th, "enq_item", mq[th].pos)
      <4>1. Moved(th, "enq_item", mq[th].pos, mq[th].node)
        BY <3>2, Types, GotoMoves DEF InStep, PCs, EnqPC
      <4>2. /\ Abstract!MyCell(th) = {} /\ takingBar[th] = NoNode /\ mq[th].node \in Node
            /\ Abstract!Reserve(th, mq[th].node)
        BY <2>2, <3>2, <4>1, ReserveIsReserve DEF EnqCas
      <4>3. QED
        BY <4>2 DEF Abstract!InboxNext
    <3>3. QED
      BY <2>2, <3>1, <3>2 DEF EnqCas
  <2>3. CASE EnqItem(th)
    <3>1. Moved(th, "enq_publish", mq[th].pos, mq[th].node)
      BY <2>3, Types, GotoMoves DEF EnqItem, InStep, PCs, EnqPC
    <3>2. QED
      BY <2>3, <3>1, ItemIsInvisible DEF EnqItem
  <2>4. CASE EnqPublish(th)
    BY <2>4, PublishIsPublish DEF Abstract!InboxNext
  <2>5. QED
    BY <1>2, <2>1, <2>2, <2>3, <2>4 DEF Enqueue
<1>3. ASSUME NEW th \in Thread, Dequeue(th)
      PROVE  Invisible \/ Abstract!InboxNext
  <2>1. CASE StartDequeue(th) \/ DeqLoad(th) \/ DeqSeq(th)
    BY <2>1, LoopStep, LoopIsInvisible
  <2>2. CASE DeqCas(th)
    <3>1. CASE Goto(th, "deq_seq", head) /\ UNCHANGED head
      BY <2>2, <3>1, LoopStep, LoopIsInvisible DEF DeqCas
    <3>2. CASE head = mq[th].pos /\ head' = head + 1 /\ Goto(th, "deq_item", mq[th].pos)
      <4>1. Moved(th, "deq_item", mq[th].pos, mq[th].node)
        BY <3>2, Types, GotoMoves DEF InStep, PCs, DeqPC
      <4>2. Abstract!MyCell(th) = {} /\ Abstract!Take(th)
        BY <2>2, <3>2, <4>1, TakeIsTake DEF DeqCas
      <4>3. QED
        BY <4>2 DEF Abstract!InboxNext
    <3>3. QED
      BY <2>2, <3>1, <3>2 DEF DeqCas
  <2>3. CASE DeqItem(th)
    BY <2>3, ItemMoves, TakenItemIsInvisible DEF DeqItem, InStep
  <2>4. CASE DeqRelease(th)
    BY <2>4, ReleaseIsRelease DEF Abstract!InboxNext
  <2>5. QED
    BY <1>3, <2>1, <2>2, <2>3, <2>4 DEF Dequeue
<1>4. QED
  BY <1>1, <1>2, <1>3 DEF QueueNext, Abstract!inboxVars

\* The code is the bounded queue of Inbox: every step of every thread is one of its
\* steps or invisible, so nodes come out once each, in the order the compare-and-swaps
\* of tail_ won their cells, and only published ones.
THEOREM QueueImplementsInbox == QueueSpec => ImplementsInbox
<1>1. ASSUME QueueInit
      PROVE  Abstract!InboxInit
  <2>1. InStep /\ head = 0 /\ tail = 0
    BY <1>1, QueueInitInStep DEF QueueInit
  <2>2. cellsBar = <<>>
    BY <2>1, InStepCells, EmptySeq DEF CellsListed
  <2>3. takingBar = [th \in Thread |-> NoNode]
    BY <1>1 DEF takingBar, QueueInit
  <2>4. QED
    BY <2>2, <2>3 DEF Abstract!InboxInit
<1>2. InStep /\ InStep' /\ [QueueNext]_queueVars
        => [Abstract!InboxNext]_(Abstract!inboxVars)
  BY QueueStepRefines
<1>3. QED
  BY <1>1, <1>2, QueueInStep, PTL DEF QueueSpec, ImplementsInbox, Abstract!InboxSpec

-----------------------------------------------------------------------------
(* The answers that change nothing *)

LEMMA FullIsHonest ==
  ASSUME InStep, NEW th \in Thread, EnqSeq(th), mq'[th].pc = "idle",
         UNCHANGED <<cellsBar, takingBar>>
  PROVE  Abstract!Full
<1> DEFINE p == mq[th].pos
<1>1. /\ p \in Nat /\ p <= tail /\ seq[PlaceOf(p)] < p
  <2>1. seq[PlaceOf(p)] - p < 0
    <3>1. /\ QueueTypeOK /\ p \in Nat /\ 0 \in Nat /\ "enq_cas" \in PCs /\ "enq_load" \in PCs
      BY Types DEF InStep, PCs, EnqPC
    <3>2. ~Goto(th, "enq_cas", p) /\ ~Goto(th, "enq_load", 0)
      BY <3>1, GotoMoves DEF Moved
    <3>3. QED
      BY <3>2 DEF EnqSeq
  <2>2. QED
    BY <2>1, Types DEF EnqSeq, InStep, CopiesInStep
<1> HIDE DEF p
<1>2. head <= p
  BY <1>1, Types DEF InStep, CopiesInStep
<1>3. p = tail
  <2>1. p \in head .. (tail - 1) => seq[PlaceOf(p)] = p \/ seq[PlaceOf(p)] = p + 1
    BY DEF InStep, SlotsInStep
  <2>2. QED
    BY <1>1, <1>2, <2>1, Types
<1>4. CASE tail = head + QueueCap
  <2>1. Len(cellsBar) = tail - head
    BY InStepCells DEF CellsListed
  <2>2. Len(cellsBar) = QueueCap
    BY <1>4, <2>1, Types
  <2>3. QED
    BY <2>2 DEF Abstract!Full, Abstract!inboxVars
<1>5. CASE tail < head + QueueCap
  <2>1. PICK o \in Thread : Reading(o)
    BY <1>1, <1>3, <1>5, Types DEF InStep, SlotsInStep
  <2>2. takingBar[o] # NoNode
    BY <2>1, NodeAssumption DEF takingBar, Reading, InStep, OwnersInStep
  <2>3. QED
    BY <2>2 DEF Abstract!Full, Abstract!Releasing, Abstract!inboxVars
<1>6. QED
  BY <1>4, <1>5, Types

LEMMA EmptyIsHonest ==
  ASSUME InStep, NEW th \in Thread, DeqSeq(th), mq'[th].pc = "idle",
         UNCHANGED <<cellsBar, takingBar>>
  PROVE  Abstract!Empty
<1> DEFINE p == mq[th].pos
<1>1. /\ p \in Nat /\ p <= head /\ seq[PlaceOf(p)] < p + 1
  <2>1. seq[PlaceOf(p)] - (p + 1) < 0
    <3>1. /\ QueueTypeOK /\ p \in Nat /\ 0 \in Nat /\ "deq_cas" \in PCs /\ "deq_load" \in PCs
      BY Types DEF InStep, PCs, DeqPC
    <3>2. ~Goto(th, "deq_cas", p) /\ ~Goto(th, "deq_load", 0)
      BY <3>1, GotoMoves DEF Moved
    <3>3. QED
      BY <3>2 DEF DeqSeq
  <2>2. QED
    BY <2>1, Types DEF DeqSeq, InStep, CopiesInStep
<1> HIDE DEF p
<1>2. p = head
  BY <1>1, Types DEF InStep, CopiesInStep
<1>3. CellsListed /\ CellsMatch
  BY InStepCells
<1>4. CASE head = tail
  <2>1. cellsBar = <<>>
    BY <1>3, <1>4, Types, EmptySeq DEF CellsListed
  <2>2. QED
    BY <2>1 DEF Abstract!Empty, Abstract!HeadReady, Abstract!inboxVars
<1>5. CASE head < tail
  <2>1. PICK o \in Thread : Writing(o) /\ mq[o].pos = head
    BY <1>1, <1>2, <1>5, Types DEF InStep, SlotsInStep
  <2>2. CellAt[head] = [node |-> mq[o].node, writer |-> {o}]
    <3>1. head \in head .. (tail - 1)
      BY <1>5, Types
    <3>2. Writing(o) /\ mq[o].pos = head
            => CellAt[head] = [node |-> mq[o].node, writer |-> {o}]
      BY <1>3, <3>1 DEF CellsMatch
    <3>3. QED
      BY <2>1, <3>2
  <2>3. cellsBar[1] = CellAt[head]
    <3>1. 1 \in 1 .. (tail - head) /\ head + 1 - 1 = head
      BY <1>5, Types
    <3>2. cellsBar[1] = CellAt[head + 1 - 1]
      BY <1>3, <3>1 DEF CellsListed
    <3>3. QED
      BY <3>1, <3>2
  <2>4. cellsBar \in Seq(AnyCell) /\ cellsBar # <<>>
    BY <1>3, <1>5, Types, EmptySeq DEF CellsListed
  <2>5. Head(cellsBar) = cellsBar[1]
    BY <2>4
  <2>6. Head(cellsBar).writer = {o}
    BY <2>2, <2>3, <2>5
  <2>7. QED
    BY <2>6 DEF Abstract!Empty, Abstract!HeadReady, Abstract!inboxVars
<1>6. QED
  BY <1>4, <1>5, Types

LEMMA OthersStay ==
  ASSUME InStep, NEW th \in Thread, Enqueue(th) \/ Dequeue(th), NEW o \in Thread, o # th
  PROVE  mq'[o] = mq[o]
<1>1. mq \in [Thread -> Frames]
  BY Types
<1>2. ASSUME NEW pc, NEW pos, Goto(th, pc, pos)
      PROVE  mq'[o] = mq[o]
  BY <1>1, <1>2 DEF Goto
<1>3. Leave(th) => mq'[o] = mq[o]
  BY <1>1 DEF Leave
<1>4. ASSUME NEW n, StartEnqueue(th, n)
      PROVE  mq'[o] = mq[o]
  BY <1>1, <1>4 DEF StartEnqueue
<1>5. DeqItem(th) => mq'[o] = mq[o]
  BY <1>1 DEF DeqItem
<1>6. QED
  BY <1>2, <1>3, <1>4, <1>5
    DEF Enqueue, Dequeue, EnqLoad, EnqSeq, EnqCas, EnqItem, EnqPublish,
        StartDequeue, DeqLoad, DeqSeq, DeqCas, DeqRelease

\* enqueue returns false only when the queue is full or a slot is not yet released, and
\* dequeue nullptr only when nothing is published at its head, at the moment either
\* decides so, however old the position it decides from is.
THEOREM QueueAnswersHonestly == QueueSpec => HonestAnswers
<1> DEFINE Answer(th) ==
      mq'[th].pc = "idle" => /\ mq[th].pc = "enq_seq" => Abstract!Full
                             /\ mq[th].pc = "deq_seq" => Abstract!Empty
<1>1. ASSUME InStep, InStep', QueueNext
      PROVE  \A th \in Thread : Answer(th)
  <2> SUFFICES ASSUME NEW th \in Thread, mq'[th].pc = "idle",
                      mq[th].pc \in {"enq_seq", "deq_seq"}
               PROVE  /\ mq[th].pc = "enq_seq" => Abstract!Full
                      /\ mq[th].pc = "deq_seq" => Abstract!Empty
    OBVIOUS
  <2>1. PICK o \in Thread : Enqueue(o) \/ Dequeue(o)
    BY <1>1 DEF QueueNext
  <2>2. EnqSeq(th) \/ DeqSeq(th)
    <3>1. mq'[th] # mq[th]
      OBVIOUS
    <3>2. o = th
      BY <1>1, <2>1, <3>1, OthersStay
    <3>3. QED
      BY <2>1, <3>2 DEF Enqueue, Dequeue, StartEnqueue, EnqLoad, EnqCas, EnqItem,
        EnqPublish, StartDequeue, DeqLoad, DeqCas, DeqItem, DeqRelease
  <2>3. UNCHANGED <<cellsBar, takingBar>>
    BY <1>1, <2>2, LoopStep, LoopIsInvisible
  <2>4. CASE EnqSeq(th)
    BY <1>1, <2>3, <2>4, FullIsHonest DEF EnqSeq
  <2>5. CASE DeqSeq(th)
    BY <1>1, <2>3, <2>5, EmptyIsHonest DEF DeqSeq
  <2>6. QED
    BY <2>2, <2>4, <2>5
<1>2. InStep /\ InStep' /\ [QueueNext]_queueVars
        => [\A th \in Thread : Answer(th)]_queueVars
  BY <1>1
<1>3. QED
  BY <1>2, QueueInStep, PTL DEF QueueSpec, HonestAnswers
=============================================================================
