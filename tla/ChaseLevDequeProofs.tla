------------------------ MODULE ChaseLevDequeProofs ------------------------
(***************************************************************************)
(* What every step of the deque preserves, whatever threads call it: the   *)
(* inductive invariant DequeInv.  The modules that run threads over the    *)
(* deques cite these lemmas.                                               *)
(***************************************************************************)
EXTENDS ChaseLevDeque, TLAPS

\* The deques start in the invariant.
LEMMA DequeInitInv ==
  ASSUME Deque # {}, DequeInit
  PROVE  DequeInv
<1>1. DequeTypeOK
  BY DEF DequeInit, DequeTypeOK, Slot, MaybeNode, Frame, DequePC
<1>2. WindowBound
  BY DequeAssumption DEF DequeInit, WindowBound
<1>3. OnePopper
  BY DEF DequeInit, OnePopper, PopPC
<1>4. \A th \in Thread : LocalsInWindow(dq[th])
  BY DEF DequeInit, LocalsInWindow
<1>5. BottomRestored
  BY DEF DequeInit, BottomRestored
<1> QED
  BY <1>1, <1>2, <1>3, <1>4, <1>5 DEF DequeInv

\* A slot index computed from any index, even -1, is a slot of the ring.
LEMMA SlotOfInRing ==
  ASSUME NEW i \in Int
  PROVE  SlotOf(i) \in Slot
BY DequeAssumption DEF SlotOf, Slot

LEMMA NextMultiple ==
  ASSUME NEW n \in Nat, NEW i \in Int, NEW j \in Int, i < j
  PROVE  n * i + n <= n * j
<1>1. n * (j - i - 1) >= 0
  OBVIOUS
<1>2. /\ n * (j - i - 1) = n * j - n * i - n
      /\ n * i \in Int /\ n * j \in Int
  OBVIOUS
<1> QED
  BY <1>1, <1>2

\* Two indices less than a ring apart have slots of their own.
LEMMA SlotsApart ==
  ASSUME NEW i \in Nat, NEW j \in Nat, i < j, j < i + DequeCap
  PROVE  SlotOf(i) # SlotOf(j)
<1> SUFFICES ASSUME SlotOf(i) = SlotOf(j) PROVE FALSE
  OBVIOUS
<1> DEFINE n == DequeCap
           k == i \div n
           l == j \div n
           r == i % n
<1>1. /\ n \in Nat \ {0} /\ k \in Int /\ l \in Int /\ r \in 0 .. n - 1
      /\ i = n * k + r /\ j = n * l + r
  BY DequeAssumption DEF SlotOf
<1>2. n * k \in Int /\ n * l \in Int
  BY <1>1
<1>3. i < j /\ j < i + n
  OBVIOUS
<1> HIDE DEF n, k, l, r
<1>4. CASE l <= k
  <2>1. CASE l = k
    BY <1>1, <1>3, <2>1
  <2>2. CASE l < k
    <3>1. n * l + n <= n * k
      BY <1>1, <2>2, NextMultiple
    <3> QED
      BY <1>1, <1>2, <1>3, <3>1
  <2> QED
    BY <1>1, <1>4, <2>1, <2>2
<1>5. CASE k < l
  <2>1. n * k + n <= n * l
    BY <1>1, <1>5, NextMultiple
  <2> QED
    BY <1>1, <1>2, <1>3, <2>1
<1> QED
  BY <1>1, <1>4, <1>5

\* The types of what a thread in an operation reads.
LEMMA FrameTypes ==
  ASSUME DequeTypeOK, NEW th \in Thread
  PROVE  /\ dq[th] \in Frame
         /\ dq[th].pc \in DequePC /\ dq[th].d \in Deque /\ dq[th].node \in MaybeNode
         /\ dq[th].b \in Int /\ dq[th].t \in Nat /\ dq[th].ok \in BOOLEAN
         /\ top[dq[th].d] \in Nat /\ bottom[dq[th].d] \in Int
         /\ bottom[dq[th].d] - 1 \in Int
         /\ SlotOf(dq[th].b) \in Slot /\ SlotOf(dq[th].t) \in Slot
         /\ buffer[dq[th].d][SlotOf(dq[th].b)] \in MaybeNode
         /\ buffer[dq[th].d][SlotOf(dq[th].t)] \in MaybeNode
         /\ NoNode \in MaybeNode
<1>1. dq[th] \in Frame
  BY DEF DequeTypeOK
<1>2. /\ dq[th].pc \in DequePC /\ dq[th].d \in Deque /\ dq[th].node \in MaybeNode
      /\ dq[th].b \in Int /\ dq[th].t \in Nat /\ dq[th].ok \in BOOLEAN
  BY <1>1 DEF Frame
<1>3. SlotOf(dq[th].b) \in Slot /\ SlotOf(dq[th].t) \in Slot
  BY <1>2, SlotOfInRing
<1> QED
  BY <1>1, <1>2, <1>3 DEF DequeTypeOK, MaybeNode

\* The frame that a step sets, and the frames it leaves.
LEMMA FrameSet ==
  ASSUME DequeTypeOK, NEW th \in Thread, NEW pc, NEW d, NEW n, NEW b, NEW t, NEW ok,
         SetFrame(th, pc, d, n, b, t, ok)
  PROVE  /\ dq'[th] = [pc |-> pc, d |-> d, node |-> n, b |-> b, t |-> t, ok |-> ok]
         /\ \A q \in Thread \ {th} : dq'[q] = dq[q]
BY DEF SetFrame, DequeTypeOK

\* Every step of an operation leads its thread from a frame to a frame of the same
\* operation or to "done", on the same deque, and touches no other frame.
LEMMA DequeStepFrames ==
  ASSUME DequeTypeOK, NEW th \in Thread, DequeStep(th)
  PROVE  /\ dq' \in [Thread -> Frame]
         /\ dq'[th].d = dq[th].d
         /\ dq'[th].pc \in PopPC => dq[th].pc \in PopPC
         /\ dq'[th].pc \in PushPC =>
              dq[th].pc \in PushPC /\ dq'[th].node = dq[th].node
         /\ dq'[th].pc \in StealPC => dq[th].pc \in StealPC
         /\ dq'[th].node \in {NoNode, dq[th].node,
                              buffer[dq[th].d][SlotOf(dq[th].b)],
                              buffer[dq[th].d][SlotOf(dq[th].t)]}
         /\ \A q \in Thread \ {th} : dq'[q] = dq[q]
<1>t. /\ dq[th].pc \in DequePC /\ dq[th].d \in Deque /\ dq[th].node \in MaybeNode
      /\ dq[th].b \in Int /\ dq[th].t \in Nat
      /\ top[dq[th].d] \in Nat /\ bottom[dq[th].d] \in Int
      /\ bottom[dq[th].d] - 1 \in Int
      /\ buffer[dq[th].d][SlotOf(dq[th].b)] \in MaybeNode
      /\ buffer[dq[th].d][SlotOf(dq[th].t)] \in MaybeNode
      /\ NoNode \in MaybeNode /\ 0 \in Nat /\ 0 \in Int
      /\ TRUE \in BOOLEAN /\ FALSE \in BOOLEAN
  BY FrameTypes
<1>p. /\ {"push_top", "push_store", "push_publish", "steal_bottom", "steal_read",
          "steal_cas", "done", "pop_claim", "pop_top", "pop_restore", "pop_read",
          "pop_cas", "pop_bump"} \subseteq DequePC
      /\ {"push_top", "push_store", "push_publish", "steal_bottom", "steal_read",
          "steal_cas", "done"} \cap PopPC = {}
      /\ {"pop_bottom", "pop_claim", "pop_top", "pop_read", "pop_cas"}
           \subseteq PopPC
      /\ {"steal_bottom", "steal_read", "steal_cas", "done", "pop_claim", "pop_top",
          "pop_restore", "pop_read", "pop_cas", "pop_bump"} \cap PushPC = {}
      /\ {"push_bottom", "push_top", "push_store"} \subseteq PushPC
      /\ {"push_top", "push_store", "push_publish", "done", "pop_claim", "pop_top",
          "pop_restore", "pop_read", "pop_cas", "pop_bump"} \cap StealPC = {}
      /\ {"steal_top", "steal_bottom", "steal_read"} \subseteq StealPC
  BY DEF DequePC, PushPC, PopPC, StealPC
<1>1. CASE PushBottom(th)
  BY <1>1, <1>t, <1>p
  DEF PushBottom, At, Return, SetFrame, DequeTypeOK, Frame
<1>2. CASE PushTop(th)
  <2>p. dq[th].pc = "push_top"
    BY <1>2 DEF PushTop
  <2>1. CASE Return(th, NoNode, FALSE)
    BY <2>p, <2>1, <1>t, <1>p DEF At, Return, SetFrame, DequeTypeOK, Frame
  <2>2. CASE At(th, "push_store", dq[th].node, dq[th].b, 0)
    BY <2>p, <2>2, <1>t, <1>p DEF At, Return, SetFrame, DequeTypeOK, Frame
  <2> QED
    BY <1>2, <2>1, <2>2 DEF PushTop
<1>3. CASE PushStore(th)
  BY <1>3, <1>t, <1>p
  DEF PushStore, At, Return, SetFrame, DequeTypeOK, Frame
<1>4. CASE PushPublish(th)
  BY <1>4, <1>t, <1>p
  DEF PushPublish, At, Return, SetFrame, DequeTypeOK, Frame
<1>5. CASE PopBottom(th)
  BY <1>5, <1>t, <1>p
  DEF PopBottom, At, Return, SetFrame, DequeTypeOK, Frame
<1>6. CASE PopClaim(th)
  BY <1>6, <1>t, <1>p
  DEF PopClaim, At, Return, SetFrame, DequeTypeOK, Frame
<1>7. CASE PopTop(th)
  BY <1>7, <1>t, <1>p
  DEF PopTop, At, Return, SetFrame, DequeTypeOK, Frame
<1>8. CASE PopRestore(th)
  BY <1>8, <1>t, <1>p
  DEF PopRestore, At, Return, SetFrame, DequeTypeOK, Frame
<1>9. CASE PopRead(th)
  <2>p. dq[th].pc = "pop_read"
    BY <1>9 DEF PopRead
  <2>1. CASE Return(th, buffer[dq[th].d][SlotOf(dq[th].b)], FALSE)
    BY <2>p, <2>1, <1>t, <1>p DEF At, Return, SetFrame, DequeTypeOK, Frame
  <2>2. CASE At(th, "pop_cas", buffer[dq[th].d][SlotOf(dq[th].b)],
                dq[th].b, dq[th].t)
    BY <2>p, <2>2, <1>t, <1>p DEF At, Return, SetFrame, DequeTypeOK, Frame
  <2> QED
    BY <1>9, <2>1, <2>2 DEF PopRead
<1>10. CASE PopCas(th)
  <2>p. dq[th].pc = "pop_cas"
    BY <1>10 DEF PopCas
  <2>1. CASE At(th, "pop_bump", dq[th].node, dq[th].b, dq[th].t)
    BY <2>p, <2>1, <1>t, <1>p DEF At, Return, SetFrame, DequeTypeOK, Frame
  <2>2. CASE At(th, "pop_bump", NoNode, dq[th].b, top[dq[th].d])
    BY <2>p, <2>2, <1>t, <1>p DEF At, Return, SetFrame, DequeTypeOK, Frame
  <2> QED
    BY <1>10, <2>1, <2>2 DEF PopCas
<1>11. CASE PopBump(th)
  BY <1>11, <1>t, <1>p
  DEF PopBump, At, Return, SetFrame, DequeTypeOK, Frame
<1>12. CASE StealTop(th)
  BY <1>12, <1>t, <1>p
  DEF StealTop, At, Return, SetFrame, DequeTypeOK, Frame
<1>13. CASE StealBottom(th)
  <2>p. dq[th].pc = "steal_bottom"
    BY <1>13 DEF StealBottom
  <2>1. CASE Return(th, NoNode, FALSE)
    BY <2>p, <2>1, <1>t, <1>p DEF At, Return, SetFrame, DequeTypeOK, Frame
  <2>2. CASE At(th, "steal_read", NoNode, 0, dq[th].t)
    BY <2>p, <2>2, <1>t, <1>p DEF At, Return, SetFrame, DequeTypeOK, Frame
  <2> QED
    BY <1>13, <2>1, <2>2 DEF StealBottom
<1>14. CASE StealRead(th)
  BY <1>14, <1>t, <1>p
  DEF StealRead, At, Return, SetFrame, DequeTypeOK, Frame
<1>15. CASE StealCas(th)
  <2>p. dq[th].pc = "steal_cas"
    BY <1>15 DEF StealCas
  <2>1. CASE Return(th, dq[th].node, FALSE)
    BY <2>p, <2>1, <1>t, <1>p DEF At, Return, SetFrame, DequeTypeOK, Frame
  <2>2. CASE Return(th, NoNode, FALSE)
    BY <2>p, <2>2, <1>t, <1>p DEF At, Return, SetFrame, DequeTypeOK, Frame
  <2> QED
    BY <1>15, <2>1, <2>2 DEF StealCas
<1> QED
  BY <1>1, <1>2, <1>3, <1>4, <1>5, <1>6, <1>7, <1>8, <1>9, <1>10, <1>11,
     <1>12, <1>13, <1>14, <1>15 DEF DequeStep

\* What a step does to top_, bottom_ and the ring.
LEMMA DequeStepShared ==
  ASSUME DequeTypeOK, NEW th \in Thread, DequeStep(th)
  PROVE  /\ top' \in [Deque -> Nat]
         /\ bottom' \in [Deque -> Int]
         /\ buffer' \in [Deque -> [Slot -> MaybeNode]]
         /\ \A d \in Deque : top'[d] \in {top[d], top[d] + 1}
<1>d. /\ dq[th].d \in Deque /\ dq[th].b \in Int /\ dq[th].t \in Nat
      /\ dq[th].node \in MaybeNode
      /\ SlotOf(dq[th].b) \in Slot
  BY FrameTypes
<1>1. CASE PushStore(th)
  BY <1>1, <1>d DEF PushStore, DequeTypeOK
<1>2. CASE PushPublish(th)
  BY <1>2, <1>d DEF PushPublish, DequeTypeOK
<1>3. CASE PopClaim(th)
  BY <1>3, <1>d DEF PopClaim, DequeTypeOK
<1>4. CASE PopRestore(th)
  BY <1>4, <1>d DEF PopRestore, DequeTypeOK
<1>5. CASE PopBump(th)
  BY <1>5, <1>d DEF PopBump, DequeTypeOK
<1>6. CASE PopCas(th) \/ StealCas(th)
  <2>1. \/ /\ top[dq[th].d] = dq[th].t
           /\ top' = [top EXCEPT ![dq[th].d] = dq[th].t + 1]
        \/ UNCHANGED top
    BY <1>6 DEF PopCas, StealCas
  <2>2. UNCHANGED <<bottom, buffer>>
    BY <1>6 DEF PopCas, StealCas
  <2> QED
    BY <2>1, <2>2, <1>d DEF DequeTypeOK
<1>7. CASE UNCHANGED <<top, bottom, buffer>>
  BY <1>7 DEF DequeTypeOK
<1> QED
  BY <1>1, <1>2, <1>3, <1>4, <1>5, <1>6, <1>7
  DEF DequeStep, PushBottom, PushTop, PopBottom, PopTop, PopRead, StealTop,
      StealBottom, StealRead

\* What a step leaves in the rings and in its thread's hand was there before: a
\* set of nodes that holds them all still does.
LEMMA DequeStepHeld ==
  ASSUME DequeTypeOK, NEW th \in Thread, DequeStep(th), NEW ns,
         \A d \in Deque, s \in Slot : buffer[d][s] \in ns \cup {NoNode},
         \A q \in Thread : dq[q].node \in ns \cup {NoNode}
  PROVE  /\ \A d \in Deque, s \in Slot : buffer'[d][s] \in ns \cup {NoNode}
         /\ \A q \in Thread : dq'[q].node \in ns \cup {NoNode}
<1>t. dq[th].d \in Deque /\ SlotOf(dq[th].b) \in Slot /\ SlotOf(dq[th].t) \in Slot
  BY FrameTypes
<1>1. \A q \in Thread : dq'[q].node \in ns \cup {NoNode}
  BY <1>t, DequeStepFrames
<1>2. CASE PushStore(th)
  BY <1>2, <1>1, <1>t DEF PushStore, DequeTypeOK
<1>3. CASE UNCHANGED buffer
  BY <1>3, <1>1
<1> QED
  BY <1>2, <1>3
  DEF DequeStep, PushBottom, PushTop, PushPublish, PopBottom, PopClaim, PopTop,
      PopRestore, PopRead, PopCas, PopBump, StealTop, StealBottom, StealRead,
      StealCas

\* Every step of a deque operation keeps the types.
LEMMA DequeStepTypeOK ==
  ASSUME DequeTypeOK, NEW th \in Thread, DequeStep(th)
  PROVE  DequeTypeOK'
BY DequeStepFrames, DequeStepShared DEF DequeTypeOK

\* A step of one thread neither makes another thread a popper nor moves one.
LEMMA DequeStepOnePopper ==
  ASSUME DequeTypeOK, OnePopper, NEW th \in Thread, DequeStep(th)
  PROVE  OnePopper'
BY DequeStepFrames DEF OnePopper

-----------------------------------------------------------------------------
\* The locals of the thread that steps stay inside the window: they are copies of
\* bottom_ and top_, and the tests of push and pop keep them in order.
LEMMA OwnLocals ==
  ASSUME DequeInv, NEW th \in Thread, DequeStep(th)
  PROVE  LocalsInWindow(dq[th])'
<1>t. /\ DequeTypeOK
      /\ dq[th].d \in Deque /\ dq[th].b \in Int /\ dq[th].t \in Nat
      /\ top[dq[th].d] \in Nat /\ bottom[dq[th].d] \in Int
      /\ DequeCap \in Nat /\ DequeCap > 0
  BY FrameTypes, DequeAssumption DEF DequeInv
<1>l. LocalsInWindow(dq[th])
  BY DEF DequeInv
<1>w. bottom[dq[th].d] >= -1 /\ bottom[dq[th].d] <= top[dq[th].d] + DequeCap
  BY <1>t DEF DequeInv, WindowBound
<1>m. top'[dq[th].d] \in {top[dq[th].d], top[dq[th].d] + 1}
  BY <1>t, DequeStepShared
<1>d. dq'[th].d = dq[th].d
  BY <1>t, DequeStepFrames
<1>r. CASE dq'[th].pc \in {"done", "idle"}
  BY <1>r DEF LocalsInWindow
<1>s. CASE Return(th, NoNode, FALSE) \/ Return(th, NoNode, TRUE)
             \/ Return(th, dq[th].node, FALSE)
             \/ Return(th, buffer[dq[th].d][SlotOf(dq[th].b)], FALSE)
  BY <1>s, <1>t, <1>r DEF Return, SetFrame, DequeTypeOK
<1>1. CASE PushBottom(th)
  BY <1>1, <1>t, <1>l, <1>w, <1>m DEF PushBottom, At, SetFrame, DequeTypeOK, LocalsInWindow
<1>2. CASE PushTop(th)
  <2>p. dq[th].pc = "push_top" /\ UNCHANGED top
    BY <1>2 DEF PushTop
  <2>1. CASE /\ dq[th].b - top[dq[th].d] < DequeCap
             /\ At(th, "push_store", dq[th].node, dq[th].b, 0)
    BY <2>p, <2>1, <1>t, <1>l DEF At, SetFrame, DequeTypeOK, LocalsInWindow
  <2>2. CASE Return(th, NoNode, FALSE)
    BY <2>2, <1>s
  <2> QED
    BY <1>2, <2>1, <2>2, Zenon DEF PushTop
<1>3. CASE PushStore(th)
  BY <1>3, <1>t, <1>l, <1>w, <1>m DEF PushStore, At, SetFrame, DequeTypeOK, LocalsInWindow
<1>4. CASE PushPublish(th)
  BY <1>4, <1>s DEF PushPublish
<1>pop. dq[th].pc = "pop_bottom" => bottom[dq[th].d] >= 0
  BY <1>t DEF DequeInv, BottomRestored, OnePopper, PopPC
<1>5. CASE PopBottom(th)
  BY <1>5, <1>t, <1>l, <1>w, <1>m, <1>pop DEF PopBottom, At, SetFrame, DequeTypeOK, LocalsInWindow
<1>6. CASE PopClaim(th)
  BY <1>6, <1>t, <1>l, <1>w, <1>m DEF PopClaim, At, SetFrame, DequeTypeOK, LocalsInWindow
<1>7. CASE PopTop(th)
  BY <1>7, <1>t, <1>l, <1>w, <1>m DEF PopTop, At, SetFrame, DequeTypeOK, LocalsInWindow
<1>8. CASE PopRestore(th)
  BY <1>8, <1>s DEF PopRestore
<1>9. CASE PopRead(th)
  <2>1. CASE At(th, "pop_cas", buffer[dq[th].d][SlotOf(dq[th].b)],
                dq[th].b, dq[th].t)
    BY <1>9, <2>1, <1>t, <1>l, <1>w, <1>m DEF PopRead, At, SetFrame, DequeTypeOK, LocalsInWindow
  <2> QED
    BY <1>9, <2>1, <1>s DEF PopRead
<1>10. CASE PopCas(th)
  <2>p. dq[th].pc = "pop_cas"
    BY <1>10 DEF PopCas
  <2>1. CASE /\ top[dq[th].d] = dq[th].t
             /\ top' = [top EXCEPT ![dq[th].d] = dq[th].t + 1]
             /\ At(th, "pop_bump", dq[th].node, dq[th].b, dq[th].t)
    BY <2>p, <2>1, <1>t, <1>l, <1>m DEF At, SetFrame, DequeTypeOK, LocalsInWindow
  <2>2. CASE At(th, "pop_bump", NoNode, dq[th].b, top[dq[th].d])
    BY <2>p, <2>2, <1>t, <1>l, <1>m DEF At, SetFrame, DequeTypeOK, LocalsInWindow
  <2> QED
    BY <1>10, <2>1, <2>2 DEF PopCas
<1>11. CASE PopBump(th)
  BY <1>11, <1>s DEF PopBump
<1>12. CASE StealTop(th)
  BY <1>12, <1>t, <1>l, <1>w, <1>m DEF StealTop, At, SetFrame, DequeTypeOK, LocalsInWindow
<1>13. CASE StealBottom(th)
  <2>1. CASE At(th, "steal_read", NoNode, 0, dq[th].t)
    BY <1>13, <2>1, <1>t, <1>l, <1>w, <1>m DEF StealBottom, At, SetFrame, DequeTypeOK, LocalsInWindow
  <2> QED
    BY <1>13, <2>1, <1>s DEF StealBottom
<1>14. CASE StealRead(th)
  BY <1>14, <1>t, <1>l, <1>w, <1>m DEF StealRead, At, SetFrame, DequeTypeOK, LocalsInWindow
<1>15. CASE StealCas(th)
  BY <1>15, <1>s DEF StealCas
<1> QED
  BY <1>1, <1>2, <1>3, <1>4, <1>5, <1>6, <1>7, <1>8, <1>9, <1>10, <1>11,
     <1>12, <1>13, <1>14, <1>15 DEF DequeStep

\* No step takes top_ back.
LEMMA TopGrows ==
  ASSUME DequeInv, NEW th \in Thread, DequeStep(th), NEW d \in Deque
  PROVE  top[d] \in Nat /\ top'[d] \in Nat /\ top'[d] >= top[d]
<1>1. DequeTypeOK
  BY DEF DequeInv
<1>2. top' \in [Deque -> Nat] /\ top'[d] \in {top[d], top[d] + 1}
  BY <1>1, DequeStepShared
<1>3. top[d] \in Nat /\ top'[d] \in Nat
  BY <1>1, <1>2 DEF DequeTypeOK
<1> QED
  BY <1>2, <1>3

\* The locals of the other threads stay inside the window, because top_ only grows.
LEMMA OtherLocals ==
  ASSUME DequeInv, NEW th \in Thread, DequeStep(th), NEW q \in Thread \ {th}
  PROVE  LocalsInWindow(dq[q])'
<1>1. dq'[q] = dq[q] /\ LocalsInWindow(dq[q]) /\ dq[q].d \in Deque
      /\ dq[q].b \in Int /\ dq[q].t \in Nat
  BY DequeStepFrames, FrameTypes DEF DequeInv
<1>2. /\ top'[dq[q].d] >= top[dq[q].d]
      /\ top'[dq[q].d] \in Nat /\ top[dq[q].d] \in Nat
  BY <1>1, TopGrows
<1> QED
  <2> DEFINE f == dq[q]
  <2>1. /\ f.b \in Int /\ f.t \in Nat /\ DequeCap \in Nat
        /\ top[f.d] \in Nat /\ top'[f.d] \in Nat /\ top'[f.d] >= top[f.d]
    BY <1>1, <1>2, DequeAssumption
  <2>2. LocalsInWindow(f)
    BY <1>1
  <2> HIDE DEF f
  <2>3. /\ f.pc \in {"push_top", "push_store", "push_publish"} \cup
             {"pop_claim", "pop_top", "pop_read", "pop_restore", "pop_cas"}
          => f.b >= -1
        /\ f.pc = "push_top" \/ f.pc \in {"pop_claim", "pop_top"}
          => f.b <= top'[f.d] + DequeCap
        /\ f.pc \in {"push_store", "push_publish"} => f.b < top'[f.d] + DequeCap
        /\ f.pc \in {"pop_restore", "pop_read", "pop_cas", "pop_bump"}
          => f.t <= top'[f.d]
        /\ f.pc \in {"pop_read", "pop_cas"} => f.t <= f.b
    BY <2>1, <2>2 DEF LocalsInWindow
  <2>4. dq'[q] = f
    BY <1>1 DEF f
  <2> QED
    BY <2>3, <2>4 DEF LocalsInWindow

\* Every store of bottom_ stores a value inside the window's bounds.
LEMMA StepWindowBound ==
  ASSUME DequeInv, NEW th \in Thread, DequeStep(th)
  PROVE  WindowBound'
<1>t. /\ DequeTypeOK
      /\ dq[th].d \in Deque /\ dq[th].b \in Int /\ dq[th].t \in Nat
      /\ top[dq[th].d] \in Nat /\ bottom[dq[th].d] \in Int
      /\ DequeCap \in Nat /\ DequeCap > 0
  BY FrameTypes, DequeAssumption DEF DequeInv
<1>l. LocalsInWindow(dq[th]) /\ WindowBound
  BY DEF DequeInv
<1>m. \A d \in Deque : /\ top[d] \in Nat /\ top'[d] \in Nat /\ bottom[d] \in Int
                      /\ top'[d] >= top[d]
  BY <1>t, TopGrows DEF DequeTypeOK
<1>1. CASE PushPublish(th)
  <2>1. /\ bottom' = [bottom EXCEPT ![dq[th].d] = dq[th].b + 1]
        /\ dq[th].b >= -1 /\ dq[th].b < top[dq[th].d] + DequeCap
    BY <1>1, <1>l DEF PushPublish, LocalsInWindow
  <2> QED
    BY <2>1, <1>t, <1>l, <1>m DEF WindowBound, DequeTypeOK
<1>2. CASE PopClaim(th)
  BY <1>2, <1>t, <1>l, <1>m
  DEF PopClaim, WindowBound, LocalsInWindow, DequeTypeOK
<1>3. CASE PopRestore(th)
  BY <1>3, <1>t, <1>l, <1>m
  DEF PopRestore, WindowBound, LocalsInWindow, DequeTypeOK
<1>4. CASE PopBump(th)
  BY <1>4, <1>t, <1>l, <1>m
  DEF PopBump, WindowBound, LocalsInWindow, DequeTypeOK
<1>5. CASE UNCHANGED bottom
  BY <1>5, <1>l, <1>m, <1>t DEF WindowBound
<1> QED
  BY <1>1, <1>2, <1>3, <1>4, <1>5
  DEF DequeStep, PushBottom, PushTop, PushStore, PopBottom, PopTop, PopRead,
      PopCas, StealTop, StealBottom, StealRead, StealCas

\* A popper that stores -1 into bottom_ is on its way to restore it, and a popper
\* that leaves has restored it.
LEMMA StepBottomRestored ==
  ASSUME DequeInv, NEW th \in Thread, DequeStep(th)
  PROVE  BottomRestored'
<1>t. /\ DequeTypeOK
      /\ dq[th].d \in Deque /\ dq[th].b \in Int /\ dq[th].t \in Nat
      /\ dq[th].node \in MaybeNode
      /\ top[dq[th].d] \in Nat /\ bottom[dq[th].d] \in Int
  BY FrameTypes DEF DequeInv
<1>l. LocalsInWindow(dq[th]) /\ BottomRestored
  BY DEF DequeInv
<1>f. \A q \in Thread \ {th} : dq'[q] = dq[q]
  BY <1>t, DequeStepFrames
<1>d. dq'[th].d = dq[th].d
  BY <1>t, DequeStepFrames
<1>1. CASE PushPublish(th)
  <2>1. bottom' = [bottom EXCEPT ![dq[th].d] = dq[th].b + 1] /\ dq[th].b + 1 >= 0
        /\ dq[th].pc = "push_publish"
    BY <1>1, <1>t, <1>l DEF PushPublish, LocalsInWindow
  <2> QED
    BY <2>1, <1>t, <1>l, <1>f DEF BottomRestored, DequeTypeOK
<1>2. CASE PopClaim(th)
  <2>1. /\ bottom' = [bottom EXCEPT ![dq[th].d] = dq[th].b] /\ dq[th].b >= -1
        /\ dq[th].pc = "pop_claim"
    BY <1>2, <1>l DEF PopClaim, LocalsInWindow
  <2>2. dq'[th].pc = "pop_top" /\ dq'[th].b = dq[th].b
    BY <1>2, <1>t DEF PopClaim, At, SetFrame, DequeTypeOK
  <2> QED
    BY <2>1, <2>2, <1>t, <1>l, <1>f, <1>d DEF BottomRestored, DequeTypeOK
<1>3. CASE PopRestore(th) \/ PopBump(th)
  <2>1. PICK i \in {dq[th].t, dq[th].t + 1} :
          bottom' = [bottom EXCEPT ![dq[th].d] = i]
    BY <1>3 DEF PopRestore, PopBump
  <2>2. i \in Nat /\ ~(i < 0)
    BY <1>t
  <2>3. dq[th].d \in Deque /\ \A d \in Deque \ {dq[th].d} : bottom'[d] = bottom[d]
    BY <2>1, <1>t DEF DequeTypeOK
  <2>4. bottom'[dq[th].d] = i
    BY <2>1, <1>t DEF DequeTypeOK
  <2> QED
    BY <2>1, <1>t, <1>l, <1>f DEF BottomRestored, DequeTypeOK
<1>4. CASE PopTop(th)
  <2>1. /\ UNCHANGED bottom /\ dq[th].pc = "pop_top" /\ dq'[th].b = dq[th].b
        /\ top[dq[th].d] > dq[th].b => dq'[th].pc = "pop_restore"
    BY <1>4, <1>t DEF PopTop, At, SetFrame, DequeTypeOK
  <2> QED
    BY <2>1, <1>t, <1>l, <1>f, <1>d DEF BottomRestored
<1>5. CASE UNCHANGED bottom /\ dq[th].pc \notin {"pop_top", "pop_restore"}
  BY <1>5, <1>l, <1>f DEF BottomRestored
<1> QED
  BY <1>1, <1>2, <1>3, <1>4, <1>5
  DEF DequeStep, PushBottom, PushTop, PushStore, PopBottom, PopRead,
      PopCas, StealTop, StealBottom, StealRead, StealCas

\* Every step of a deque operation keeps the invariant.
LEMMA DequeStepInv ==
  ASSUME DequeInv, NEW th \in Thread, DequeStep(th)
  PROVE  DequeInv'
<1>1. DequeTypeOK' /\ OnePopper'
  BY DequeStepTypeOK, DequeStepOnePopper DEF DequeInv
<1>2. \A q \in Thread : LocalsInWindow(dq[q])'
  BY OwnLocals, OtherLocals
<1> QED
  BY <1>1, <1>2, StepWindowBound, StepBottomRestored DEF DequeInv

\* A call, or the collection of a result, by a thread that is in no operation
\* keeps the invariant, if no other thread pops the deque a pop is called on.
LEMMA CallInv ==
  ASSUME DequeInv, NEW th \in Thread, dq[th].pc \in {"idle", "done"},
         UNCHANGED <<top, bottom, buffer>>,
         NEW pc \in {"idle", "push_bottom", "pop_bottom", "steal_top"},
         NEW d \in Deque, NEW n \in MaybeNode, Call(th, pc, d, n),
         pc = "pop_bottom" =>
           \A q \in Thread \ {th} : dq[q].pc \in PopPC => dq[q].d # d
  PROVE  DequeInv'
<1>t. DequeTypeOK
  BY DEF DequeInv
<1>1. /\ dq'[th] = [pc |-> pc, d |-> d, node |-> n, b |-> 0, t |-> 0, ok |-> FALSE]
      /\ \A q \in Thread \ {th} : dq'[q] = dq[q]
  BY <1>t DEF Call, SetFrame, DequeTypeOK
<1>2. DequeTypeOK'
  BY <1>t DEF Call, SetFrame, DequeTypeOK, Frame, DequePC, PushPC, PopPC, StealPC
<1>3. OnePopper'
  BY <1>1 DEF DequeInv, OnePopper, PopPC
<1>4. \A q \in Thread : LocalsInWindow(dq[q])'
  BY <1>1 DEF DequeInv, LocalsInWindow
<1>5. WindowBound'
  BY DEF DequeInv, WindowBound
<1>6. BottomRestored'
  BY <1>1 DEF DequeInv, BottomRestored
<1> QED
  BY <1>2, <1>3, <1>4, <1>5, <1>6 DEF DequeInv
=============================================================================
