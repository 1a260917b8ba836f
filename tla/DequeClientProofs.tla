------------------------- MODULE DequeClientProofs -------------------------
(***************************************************************************)
(* The deque under any pushers: for every set of threads that push, of     *)
(* threads that steal and of nodes, and every ring size.                   *)
(***************************************************************************)
EXTENDS DequeClient, ChaseLevDequeProofs

-----------------------------------------------------------------------------
(* What makes DequeConserves inductive when only the owner pushes.         *)

\* The discipline: one thread pushes and pops, the others steal, all of one deque.
SoleOwner ==
  \A th \in Thread : /\ dq[th].pc \in PushPC \cup PopPC => th = Owner
                     /\ dq[th].pc \in StealPC => th # Owner
                     /\ dq[th].d = D

\* The owner has lowered bottom_ and has yet to learn whether the index it claimed
\* is its own.
Claiming ==
  \/ dq[Owner].pc \in {"pop_top", "pop_restore", "pop_cas", "pop_bump"}
  \/ dq[Owner].pc = "pop_read" /\ dq[Owner].t = dq[Owner].b

\* one past the last index that a thief may still take
Edge == IF Claiming THEN dq[Owner].b + 1 ELSE bottom[D]

Live(n) == \E i \in top[D] .. (Edge - 1) : buffer[D][SlotOf(i)] = n

\* The owner's copies of bottom_ are exact, since nobody else stores it, and what
\* they tell it of top_ is at most one steal old.
OwnerInStep(f) ==
  /\ f.pc \in {"push_top", "push_store", "push_publish"} => f.b = bottom[D]
  /\ f.pc = "push_publish" => buffer[D][SlotOf(f.b)] = f.node
  /\ f.pc = "pop_claim" => f.b = bottom[D] - 1
  /\ f.pc \in {"pop_top", "pop_restore", "pop_read", "pop_cas", "pop_bump"}
       => f.b = bottom[D]
  /\ f.pc = "pop_restore" => f.t = f.b + 1
  /\ f.pc = "pop_cas" => f.t = f.b /\ f.node = buffer[D][SlotOf(f.b)]
  /\ f.pc = "pop_bump" => f.t \in {f.b, f.b + 1}

\* A thief about to swap is inside the edge, and if top_ is still what it loaded,
\* then the node in its hand is still the one in the slot.
ThiefInStep(f) ==
  /\ f.pc \in {"steal_bottom", "steal_read", "steal_cas"} => f.t <= top[D]
  /\ f.pc \in {"steal_read", "steal_cas"} => f.t < Edge
  /\ f.pc = "steal_cas" /\ f.t = top[D] => f.node = buffer[D][SlotOf(f.t)]

\* The owner's pop has taken the node and has yet to return it.
InHand(n) ==
  \/ dq[Owner].pc = "pop_bump" /\ dq[Owner].node = n
  \/ /\ dq[Owner].pc = "pop_read" /\ ~Claiming
     /\ buffer[D][SlotOf(dq[Owner].b)] = n

NodesKept == \A n \in pushed : n \in returned \/ InHand(n) \/ Live(n)

ConserveInv ==
  /\ ClientInv
  /\ SoleOwner
  /\ top[D] <= Edge
  /\ OwnerInStep(dq[Owner])
  /\ \A th \in Thread : ThiefInStep(dq[th])
  /\ NodesKept

\* What makes HandedOutOnce inductive.  The owner has lowered bottom_ to the index it
\* claims, and one past the last index nobody has returned.
Taking == dq[Owner].pc \in {"pop_top", "pop_restore", "pop_read", "pop_cas", "pop_bump"}
Reach == IF Taking THEN dq[Owner].b + 1 ELSE bottom[D]

Entry(i) == buffer[D][SlotOf(i)]

\* The owner's swap took the last index and its node is still in hand.
Took == dq[Owner].pc = "pop_bump" /\ dq[Owner].t = dq[Owner].b

\* A node is returned after it was pushed, and pushed once.
Ledger ==
  /\ returned \subseteq pushed /\ pushed \subseteq called
  /\ dq[Owner].pc \in PushPC => dq[Owner].node \notin pushed

\* The phantom is the oldest entry or gone, and holds a node returned before or null.
PhantomOldest ==
  /\ phantom <= top[D]
  /\ phantom = top[D] => top[D] < Reach /\ Entry(top[D]) \in returned \cup {NoNode}
  /\ dq[Owner].pc \in {"pop_restore", "pop_read", "pop_cas"} => phantom <= dq[Owner].t

\* Every repetition was paid for by a lost race, and so is the one yet to come.
Owed == phantom = top[D] \/ (Took /\ phantom = dq[Owner].b)
Balance == repeats <= lost /\ (Owed => repeats < lost)

\* Every other entry is fresh, and no node is in two.
FreshEntries ==
  \A i \in top[D] .. (Reach - 1) : i # phantom =>
    /\ Fresh(i)
    /\ \A j \in (i + 1) .. (Reach - 1) : Entry(i) # Entry(j)

\* A slot outside the window holds what was returned before.
DeadSlots ==
  \A s \in Slot :
    \/ buffer[D][s] \in returned \cup {NoNode}
    \/ \E i \in top[D] .. (Reach - 1) : s = SlotOf(i)
    \/ dq[Owner].pc = "push_publish" /\ s = SlotOf(dq[Owner].b)
    \/ Took /\ s = SlotOf(dq[Owner].b)

\* The node in the owner's hand after its swap.
HandFresh ==
  /\ dq[Owner].pc = "pop_bump" => top[D] = dq[Owner].b + 1
  /\ Took => /\ dq[Owner].node = Entry(dq[Owner].b)
             /\ dq[Owner].node \in IF phantom = dq[Owner].b THEN returned \cup {NoNode}
                                                              ELSE pushed \ returned
  /\ RaceLost(dq[Owner]) => dq[Owner].node = NoNode

OnceInv ==
  Ledger /\ PhantomOldest /\ Balance /\ FreshEntries /\ DeadSlots /\ HandFresh

-----------------------------------------------------------------------------
LEMMA DInDeque == D \in Deque
BY ClientAssumption DEF D

\* The initial state satisfies the inductive invariant.
LEMMA ClientInitInv ==
  ASSUME Init
  PROVE  ClientInv
<1>1. DequeInv
  BY DequeInitInv, ClientAssumption DEF Init
<1>2. OnlyOwnerPops /\ PushersHoldNodes
  BY DEF Init, DequeInit, OnlyOwnerPops, PushersHoldNodes, PopPC, PushPC
<1>3. Provenance
  BY DEF Init, DequeInit, Provenance, Held
<1> QED
  BY <1>1, <1>2, <1>3 DEF ClientInv, TypeOK, DequeInv, Init

\* What a step inside an operation returns is recorded.
LEMMA StepHandsOut ==
  ASSUME NEW th \in Thread, Step(th)
  PROVE  /\ returned \subseteq returned'
         /\ dq'[th].pc = "done" => dq'[th].node \in returned' \cup {NoNode}
         /\ dq'[th].pc # "done" \/ dq'[th].node = NoNode => returned' = returned
         /\ returned' \subseteq returned \cup ({dq'[th].node} \ {NoNode})
BY DEF Step, HandOut

\* A step inside an operation keeps the inductive invariant.
LEMMA ClientStepInv ==
  ASSUME ClientInv, NEW th \in Thread, Step(th)
  PROVE  ClientInv'
<1>1. DequeInv /\ DequeTypeOK /\ DequeStep(th) /\ UNCHANGED called
  BY DEF ClientInv, DequeInv, Step
<1>2. DequeInv'
  BY <1>1, DequeStepInv
<1>3. OnlyOwnerPops' /\ PushersHoldNodes'
  BY <1>1, DequeStepFrames DEF ClientInv, OnlyOwnerPops, PushersHoldNodes
<1>4. Provenance'
  <2>1. Held(called)'
    BY <1>1, DequeStepHeld DEF ClientInv, Provenance, Held
  <2>2. returned' \subseteq called'
    BY <1>1, <2>1, StepHandsOut DEF ClientInv, Provenance, Held
  <2> QED
    BY <2>1, <2>2 DEF Provenance
<1>5. TypeOK'
  <2>1. dq[th].pc = "push_publish" => dq[th].node \in Node
    BY DEF ClientInv, PushersHoldNodes, PushPC, TypeOK
  <2>2. called' \subseteq Node /\ pushed' \subseteq Node
    BY <1>1, <2>1 DEF ClientInv, TypeOK, Step
  <2>3. repeats' \in Nat /\ lost' \in Nat /\ phantom' \in Int
    <3>1. dq[th].t \in Nat
      BY <1>1, FrameTypes
    <3> QED
      BY <3>1 DEF ClientInv, TypeOK, Step, HandOut
  <2> QED
    BY <1>2, <1>4, <2>2, <2>3 DEF TypeOK, DequeInv, Provenance
<1> QED
  BY <1>2, <1>3, <1>4, <1>5 DEF ClientInv

\* A call and the collection of a result keep it.
LEMMA ClientCallInv ==
  ASSUME ClientInv, NEW th \in Thread,
         StartPush(th) \/ StartSteal(th) \/ Finish(th) \/ (th = Owner /\ StartPop)
  PROVE  ClientInv'
<1> USE DEF PushPC, PopPC
<1>0. /\ DequeInv /\ DequeTypeOK /\ NoNode \in MaybeNode /\ D \in Deque
      /\ dq[th].d \in Deque /\ dq[th].node \in MaybeNode
      /\ called \subseteq MaybeNode
  BY DInDeque, FrameTypes DEF ClientInv, DequeInv, TypeOK, MaybeNode
<1>1. PICK pc \in {"idle", "push_bottom", "pop_bottom", "steal_top"}, d \in Deque,
           n \in called' \cup {NoNode} :
        /\ Call(th, pc, d, n)
        /\ n \in MaybeNode
        /\ pc = "push_bottom" => n \in called'
        /\ pc = "pop_bottom" => th = Owner
  <2>1. CASE StartPush(th)
    BY <2>1, <1>0 DEF StartPush, CallPush, MaybeNode
  <2>2. CASE StartSteal(th)
    BY <2>2, <1>0 DEF StartSteal, CallSteal
  <2>3. CASE Finish(th)
    BY <2>3, <1>0 DEF Finish, Collect
  <2>4. CASE th = Owner /\ StartPop
    BY <2>4, <1>0 DEF StartPop, CallPop
  <2> QED
    BY <2>1, <2>2, <2>3, <2>4
<1>2. /\ UNCHANGED <<top, bottom, buffer, pushed>>
      /\ dq[th].pc \in {"idle", "done"}
      /\ called \subseteq called' /\ called' \subseteq Node
      /\ UNCHANGED handouts /\ returned' = returned
  BY DEF StartPush, StartSteal, Finish, StartPop, ClientInv, TypeOK, handouts
<1>3. DequeInv'
  BY <1>0, <1>1, <1>2, CallInv DEF ClientInv, OnlyOwnerPops
<1>4. /\ dq' = [dq EXCEPT ![th] = dq'[th]]
      /\ dq'[th].pc = pc /\ dq'[th].node = n
  BY <1>0, <1>1 DEF Call, SetFrame, DequeTypeOK
<1>5. OnlyOwnerPops' /\ PushersHoldNodes'
  BY <1>0, <1>1, <1>2, <1>4
  DEF ClientInv, OnlyOwnerPops, PushersHoldNodes, DequeTypeOK
<1>6. Provenance'
  BY <1>0, <1>1, <1>2, <1>4 DEF ClientInv, Provenance, Held, DequeTypeOK
<1>7. TypeOK'
  BY <1>0, <1>2, <1>3, <1>6 DEF ClientInv, TypeOK, DequeInv, Provenance, handouts
<1> QED
  BY <1>3, <1>5, <1>6, <1>7 DEF ClientInv

\* The inductive invariant holds in every reachable state.
THEOREM ClientInvariant == Spec => []ClientInv
<1>1. Init => ClientInv
  BY ClientInitInv
<1>2. ClientInv /\ [Next]_clientVars => ClientInv'
  <2> SUFFICES ASSUME ClientInv, [Next]_clientVars PROVE ClientInv'
    OBVIOUS
  <2>1. CASE StartPop
    BY <2>1, ClientCallInv, ClientAssumption
  <2>2. ASSUME NEW th \in Thread, StartPush(th) \/ StartSteal(th) \/ Finish(th)
        PROVE  ClientInv'
    BY <2>2, ClientCallInv
  <2>3. ASSUME NEW th \in Thread, Step(th)
        PROVE  ClientInv'
    BY <2>3, ClientStepInv
  <2>4. CASE UNCHANGED clientVars
    BY <2>4
    DEF clientVars, handouts, ClientInv, TypeOK, DequeInv, DequeTypeOK, WindowBound,
        OnePopper, LocalsInWindow, BottomRestored, Provenance, Held,
        OnlyOwnerPops, PushersHoldNodes
  <2> QED
    BY <2>1, <2>2, <2>3, <2>4 DEF Next
<1> QED
  BY <1>1, <1>2, PTL DEF Spec

\* The window never spans more than the ring and bottom_ never falls below -1,
\* whichever threads push, pop and steal.
THEOREM ClientWindowBound == Spec => []WindowBound
<1>1. ClientInv => WindowBound
  BY DEF ClientInv, DequeInv
<1> QED
  BY <1>1, ClientInvariant, PTL

\* The variables keep their types.
THEOREM ClientTypeOK == Spec => []TypeOK
<1>1. ClientInv => TypeOK
  BY DEF ClientInv
<1> QED
  BY <1>1, ClientInvariant, PTL

\* A pop or a steal returns null or a pointer that was handed to push.
THEOREM ClientProvenance == Spec => []Provenance
<1>1. ClientInv => Provenance
  BY DEF ClientInv
<1> QED
  BY <1>1, ClientInvariant, PTL

\* top_ only ever advances, by one.
THEOREM ClientTopMonotone == Spec => TopMonotone
<1>1. ClientInv /\ [Next]_clientVars
        => [\A d \in Deque : top'[d] \in {top[d], top[d] + 1}]_top
  BY DequeStepShared
  DEF ClientInv, TypeOK, Next, StartPop, StartPush, StartSteal, Step, Finish,
      clientVars
<1> QED
  BY <1>1, ClientInvariant, PTL DEF Spec, TopMonotone

-----------------------------------------------------------------------------
(* Conservation, when only the owner pushes.                               *)

LEMMA ConserveTypes ==
  ASSUME ConserveInv
  PROVE  /\ DequeInv /\ DequeTypeOK
         /\ Owner \in Thread /\ D \in Deque
         /\ top[D] \in Nat /\ bottom[D] \in Int /\ Edge \in Int
         /\ buffer[D] \in [Slot -> MaybeNode]
         /\ DequeCap \in Nat \ {0}
         /\ \A th \in Thread : /\ dq[th].b \in Int /\ dq[th].t \in Nat
                               /\ dq[th].d = D /\ dq[th].node \in MaybeNode
<1>1. DequeInv /\ DequeTypeOK /\ Owner \in Thread /\ D \in Deque /\ DequeCap \in Nat \ {0}
  BY ClientAssumption, DequeAssumption, DInDeque DEF ConserveInv, ClientInv, DequeInv
<1>2. \A th \in Thread : /\ dq[th].b \in Int /\ dq[th].t \in Nat
                         /\ dq[th].d = D /\ dq[th].node \in MaybeNode
  BY <1>1, FrameTypes DEF ConserveInv, SoleOwner
<1>3. top[D] \in Nat /\ bottom[D] \in Int /\ buffer[D] \in [Slot -> MaybeNode]
  BY <1>1 DEF DequeTypeOK
<1>4. Edge \in Int
  BY <1>1, <1>2, <1>3 DEF Edge
<1> QED
  BY <1>1, <1>2, <1>3, <1>4

LEMMA ConserveInitInv ==
  ASSUME Init
  PROVE  ConserveInv
<1>1. ClientInv /\ D \in Deque /\ Owner \in Thread
  BY ClientInitInv, DInDeque, ClientAssumption
<1>2. /\ top[D] = 0 /\ bottom[D] = 0 /\ pushed = {}
      /\ \A th \in Thread : dq[th].pc = "idle" /\ dq[th].d = D
  BY <1>1 DEF Init, DequeInit, D
<1>3. SoleOwner
  BY <1>2 DEF SoleOwner, PushPC, PopPC, StealPC
<1>4. Edge = 0
  BY <1>1, <1>2 DEF Edge, Claiming
<1>5. /\ OwnerInStep(dq[Owner])
      /\ \A th \in Thread : ThiefInStep(dq[th])
      /\ NodesKept
  BY <1>1, <1>2 DEF OwnerInStep, ThiefInStep, NodesKept
<1> QED
  BY <1>1, <1>2, <1>3, <1>4, <1>5 DEF ConserveInv

\* The discipline holds along every step.
LEMMA StepSoleOwner ==
  ASSUME ConserveInv, NEW th \in Thread, DequeStep(th)
  PROVE  SoleOwner'
<1>1. DequeTypeOK /\ SoleOwner
  BY ConserveTypes DEF ConserveInv
<1>2. /\ dq'[th].d = dq[th].d
      /\ dq'[th].pc \in PopPC => dq[th].pc \in PopPC
      /\ dq'[th].pc \in PushPC => dq[th].pc \in PushPC
      /\ dq'[th].pc \in StealPC => dq[th].pc \in StealPC
      /\ \A q \in Thread \ {th} : dq'[q] = dq[q]
  BY <1>1, DequeStepFrames
<1> QED
  BY <1>1, <1>2 DEF SoleOwner

-----------------------------------------------------------------------------
(* Steps of the thieves: the owner's frame, bottom_ and the ring stay.     *)

\* What the invariant needs of a step that leaves the owner's frame, bottom_ and
\* the ring alone.
LEMMA OwnerStays ==
  ASSUME ConserveInv, dq'[Owner] = dq[Owner], UNCHANGED <<bottom, buffer>>
  PROVE  /\ Edge' = Edge /\ Claiming' = Claiming
         /\ OwnerInStep(dq[Owner])'
<1>1. Edge' = Edge /\ Claiming' = Claiming
  BY DEF Edge, Claiming
<1>2. OwnerInStep(dq[Owner])
  BY DEF ConserveInv
<1>3. OwnerInStep(dq[Owner])'
  BY <1>2 DEF OwnerInStep
<1> QED
  BY <1>1, <1>3

\* Another thread's frame stays good while top_ grows and the edge and the ring stay.
LEMMA OtherThief ==
  ASSUME ConserveInv, NEW q \in Thread, dq'[q] = dq[q],
         top'[D] \in Nat, top'[D] >= top[D], Edge' \in Int, Edge' >= Edge, UNCHANGED buffer
  PROVE  ThiefInStep(dq[q])'
<1>1. /\ ThiefInStep(dq[q])
      /\ dq[q].t \in Nat /\ top[D] \in Nat /\ Edge \in Int
  BY ConserveTypes DEF ConserveInv
<1> DEFINE f == dq[q]
<1>2. /\ f.pc \in {"steal_bottom", "steal_read", "steal_cas"} => f.t <= top'[D]
      /\ f.pc \in {"steal_read", "steal_cas"} => f.t < Edge'
      /\ f.pc = "steal_cas" /\ f.t = top'[D] => f.t = top[D]
      /\ f.pc = "steal_cas" /\ f.t = top[D] => f.node = buffer[D][SlotOf(f.t)]
  BY <1>1 DEF ThiefInStep
<1> QED
  BY <1>2 DEF ThiefInStep

LEMMA Wider ==
  ASSUME NEW lo \in Int, NEW a \in Int, NEW b \in Int, a <= b,
         NEW i \in lo .. (a - 1)
  PROVE  i \in lo .. (b - 1)
OBVIOUS

\* The nodes stay accounted for when nothing is taken and no hand is emptied.
LEMMA NodesStay ==
  ASSUME ConserveInv, UNCHANGED <<top, buffer, pushed>>, returned \subseteq returned',
         Edge' \in Int, Edge' >= Edge,
         \A n \in Node : InHand(n) => InHand(n)' \/ n \in returned'
  PROVE  NodesKept'
<1>1. /\ top[D] \in Nat /\ Edge \in Int /\ NodesKept /\ pushed \subseteq Node
      /\ pushed' = pushed
  BY ConserveTypes DEF ConserveInv, ClientInv, TypeOK
<1>2. ASSUME NEW n \in pushed
      PROVE  n \in returned' \/ InHand(n)' \/ Live(n)'
  <2>1. CASE n \in returned \/ InHand(n)
    BY <1>1, <2>1
  <2>2. CASE Live(n)
    <3>1. /\ top[D] \in Int /\ Edge \in Int /\ Edge' \in Int
          /\ Edge <= Edge'
      BY <1>1
    <3>2. PICK i \in top[D] .. (Edge - 1) : buffer[D][SlotOf(i)] = n
      BY <2>2 DEF Live
    <3>3. i \in top[D] .. (Edge' - 1)
      BY <3>1, Wider
    <3>4. top' = top /\ buffer' = buffer
      BY <1>1
    <3>5. \E j \in top'[D] .. (Edge' - 1) : buffer'[D][SlotOf(j)] = n
      BY <3>2, <3>3, <3>4
    <3> QED
      BY <3>5 DEF Live
  <2> QED
    BY <1>1, <2>1, <2>2 DEF NodesKept
<1> QED
  BY <1>1, <1>2 DEF NodesKept

\* The loads of a steal: top_ before bottom_ before the slot.
LEMMA StealLoads ==
  ASSUME ConserveInv, NEW th \in Thread, th # Owner,
         StealTop(th) \/ StealBottom(th) \/ StealRead(th),
         UNCHANGED pushed, returned \subseteq returned'
  PROVE  /\ top'[D] <= Edge'
         /\ OwnerInStep(dq[Owner])'
         /\ \A q \in Thread : ThiefInStep(dq[q])'
         /\ NodesKept'
<1>t. /\ DequeTypeOK /\ Owner \in Thread
      /\ top[D] \in Nat /\ bottom[D] \in Int /\ Edge \in Int
      /\ dq[th].d = D /\ dq[th].t \in Nat
      /\ top[D] <= Edge /\ bottom[D] <= Edge
  <2>1. bottom[D] <= Edge
    <3>1. OwnerInStep(dq[Owner]) /\ bottom[D] \in Int /\ dq[Owner].b \in Int
      BY ConserveTypes DEF ConserveInv
    <3> QED
      BY <3>1 DEF Edge, Claiming, OwnerInStep
  <2> QED
    BY <2>1, ConserveTypes DEF ConserveInv
<1>u. UNCHANGED <<top, bottom, buffer>>
  BY DEF StealTop, StealBottom, StealRead
<1>1. PICK pc, n, t :
        /\ SetFrame(th, pc, dq[th].d, n, 0, t, FALSE)
        /\ dq[th].pc # "done"
        /\ \/ pc = "steal_bottom" /\ t = top[D]
           \/ pc = "done"
           \/ pc = "steal_read" /\ t = dq[th].t /\ t < bottom[D] /\ dq[th].pc = "steal_bottom"
           \/ /\ pc = "steal_cas" /\ t = dq[th].t /\ dq[th].pc = "steal_read"
              /\ n = buffer[D][SlotOf(t)]
  <2>1. CASE StealTop(th)
    BY <2>1, <1>t DEF StealTop, At
  <2>2. CASE StealBottom(th)
    BY <2>2, <1>t DEF StealBottom, At, Return
  <2>3. CASE StealRead(th)
    BY <2>3, <1>t DEF StealRead, At
  <2> QED
    BY <2>1, <2>2, <2>3
<1>2. /\ dq'[th].pc = pc /\ dq'[th].node = n /\ dq'[th].t = t
      /\ \A q \in Thread \ {th} : dq'[q] = dq[q]
      /\ dq'[Owner] = dq[Owner]
  <2>1. SetFrame(th, pc, dq[th].d, n, 0, t, FALSE)
    BY <1>1
  <2>2. /\ dq'[th] = [pc |-> pc, d |-> dq[th].d, node |-> n, b |-> 0, t |-> t, ok |-> FALSE]
        /\ \A q \in Thread \ {th} : dq'[q] = dq[q]
    BY <1>t, <2>1, FrameSet
  <2> QED
    BY <1>t, <2>2
<1>3. Edge' = Edge /\ Claiming' = Claiming /\ OwnerInStep(dq[Owner])'
  BY <1>2, <1>u, OwnerStays
<1>4. ThiefInStep(dq[th])'
  <2>1. ThiefInStep(dq[th])
    BY DEF ConserveInv
  <2> QED
    BY <1>1, <1>2, <1>3, <1>u, <1>t, <2>1 DEF ThiefInStep
<1>5. ASSUME NEW q \in Thread \ {th}
      PROVE  ThiefInStep(dq[q])'
  <2>1. top'[D] = top[D]
    BY <1>u
  <2> QED
    BY <1>t, <1>u, <1>2, <1>3, <2>1, OtherThief
<1>6. \A n1 \in Node : InHand(n1) => InHand(n1)'
  BY <1>1, <1>2, <1>3, <1>u DEF InHand
<1>7. NodesKept'
  BY <1>t, <1>u, <1>3, <1>6, NodesStay
<1> QED
  BY <1>t, <1>u, <1>3, <1>4, <1>5, <1>7

\* The swap of a steal: if top_ is still what the thief loaded, the node it read is
\* the one that leaves the window, and the window still holds that index.
LEMMA StealSwap ==
  ASSUME ConserveInv, NEW th \in Thread, th # Owner, StealCas(th),
         UNCHANGED pushed, returned \subseteq returned',
         dq'[th].pc = "done" => dq'[th].node \in returned' \cup {NoNode}
  PROVE  /\ top'[D] <= Edge'
         /\ OwnerInStep(dq[Owner])'
         /\ \A q \in Thread : ThiefInStep(dq[q])'
         /\ NodesKept'
<1>t. /\ DequeTypeOK /\ Owner \in Thread /\ D \in Deque
      /\ top[D] \in Nat /\ Edge \in Int
      /\ dq[th].d = D /\ dq[th].t \in Nat
      /\ top[D] <= Edge
  BY ConserveTypes DEF ConserveInv
<1>u. /\ bottom' = bottom /\ buffer' = buffer /\ pushed' = pushed
      /\ dq[th].pc = "steal_cas"
  BY DEF StealCas
<1>1. PICK n :
        /\ SetFrame(th, "done", dq[th].d, n, 0, 0, FALSE)
        /\ \/ top[D] = dq[th].t /\ top' = [top EXCEPT ![D] = dq[th].t + 1] /\ n = dq[th].node
           \/ top' = top
  BY <1>t DEF StealCas, Return
<1>2. /\ dq'[th].pc = "done" /\ dq'[th].node = n
      /\ \A q \in Thread \ {th} : dq'[q] = dq[q]
      /\ dq'[Owner] = dq[Owner]
  <2>1. SetFrame(th, "done", dq[th].d, n, 0, 0, FALSE)
    BY <1>1
  <2>2. /\ dq'[th] = [pc |-> "done", d |-> dq[th].d, node |-> n, b |-> 0, t |-> 0, ok |-> FALSE]
        /\ \A q \in Thread \ {th} : dq'[q] = dq[q]
    BY <1>t, <2>1, FrameSet
  <2> QED
    BY <1>t, <2>2
<1>3. Edge' = Edge /\ Claiming' = Claiming /\ OwnerInStep(dq[Owner])'
  BY <1>2, <1>u, OwnerStays
<1>4. \/ top[D] = dq[th].t /\ top'[D] = top[D] + 1 /\ n = dq[th].node
      \/ top'[D] = top[D]
  BY <1>1, <1>t DEF DequeTypeOK
<1>5. ThiefInStep(dq[th]) /\ dq[th].t < Edge
  BY <1>u DEF ConserveInv, ThiefInStep
<1>6. top'[D] \in Nat /\ top[D] <= top'[D] /\ top'[D] <= Edge'
  BY <1>3, <1>4, <1>5, <1>t
<1>7. ASSUME NEW q \in Thread
      PROVE  ThiefInStep(dq[q])'
  <2>1. CASE q = th
    BY <1>2, <2>1 DEF ThiefInStep
  <2>2. CASE q # th
    <3>1. dq'[q] = dq[q] /\ top'[D] >= top[D] /\ Edge' \in Int /\ Edge' >= Edge
      BY <1>2, <1>3, <1>6, <1>t, <2>2
    <3> QED
      BY <1>u, <1>6, <3>1, OtherThief
  <2> QED
    BY <2>1, <2>2
<1>8. \A m : InHand(m) => InHand(m)'
  BY <1>2, <1>3, <1>u DEF InHand
<1>9. ASSUME NEW m \in pushed
      PROVE  m \in returned' \/ InHand(m)' \/ Live(m)'
  <2>1. CASE m \in returned \/ InHand(m)
    BY <1>8, <1>u, <2>1
  <2>2. CASE Live(m)
    <3>1. PICK i \in top[D] .. (Edge - 1) : buffer[D][SlotOf(i)] = m
      BY <2>2 DEF Live
    <3>2. CASE top'[D] = top[D] + 1 /\ i = top[D]
      <4>1. top[D] = dq[th].t /\ n = dq[th].node
        BY <1>4, <1>t, <3>2
      <4>2. n = m
        BY <1>5, <1>u, <3>1, <3>2, <4>1 DEF ThiefInStep
      <4> QED
        BY <1>2, <4>2, NodeAssumption DEF ConserveInv, ClientInv, TypeOK
    <3>3. CASE ~(top'[D] = top[D] + 1 /\ i = top[D])
      <4>1. i \in top'[D] .. (Edge' - 1)
        BY <1>3, <1>4, <1>6, <1>t, <3>1, <3>3
      <4>2. \E j \in top'[D] .. (Edge' - 1) : buffer'[D][SlotOf(j)] = m
        BY <1>u, <3>1, <4>1
      <4> QED
        BY <4>2 DEF Live
    <3> QED
      BY <3>2, <3>3
  <2>3. m \in returned \/ InHand(m) \/ Live(m)
    BY DEF ConserveInv, NodesKept
  <2> QED
    BY <2>1, <2>2, <2>3
<1>10. NodesKept'
  BY <1>u, <1>9 DEF NodesKept
<1> QED
  BY <1>3, <1>6, <1>7, <1>10

-----------------------------------------------------------------------------
(* Steps of the owner: the thieves' frames stay.                           *)

\* What every step of the owner leaves alone.
LEMMA OwnerTypes ==
  ASSUME ConserveInv
  PROVE  /\ DequeTypeOK /\ Owner \in Thread /\ D \in Deque /\ SoleOwner
         /\ top[D] \in Nat /\ bottom[D] \in Int /\ Edge \in Int
         /\ dq[Owner].d = D /\ dq[Owner].b \in Int /\ dq[Owner].t \in Nat
         /\ top[D] <= Edge
         /\ OwnerInStep(dq[Owner]) /\ LocalsInWindow(dq[Owner])
BY ConserveTypes DEF ConserveInv, DequeInv

\* A step of the owner that moves neither top_ nor the ring, and does not pull the
\* edge in, disturbs no thief; and it keeps the nodes if it empties no hand.
LEMMA OwnerStep ==
  ASSUME ConserveInv, \A q \in Thread \ {Owner} : dq'[q] = dq[q],
         dq'[Owner].pc \notin StealPC,
         UNCHANGED <<top, buffer, pushed>>, returned \subseteq returned',
         Edge' \in Int, Edge <= Edge',
         \A n \in Node : InHand(n) => InHand(n)' \/ n \in returned'
  PROVE  /\ top'[D] <= Edge'
         /\ \A q \in Thread : ThiefInStep(dq[q])'
         /\ NodesKept'
<1>1. /\ top[D] \in Nat /\ top' = top /\ Edge \in Int /\ top[D] <= Edge
      /\ Owner \in Thread
  BY OwnerTypes
<1>2. top'[D] \in Nat /\ top'[D] >= top[D] /\ Edge' >= Edge /\ UNCHANGED buffer
      /\ top'[D] <= Edge'
  BY <1>1
<1>3. ASSUME NEW q \in Thread \ {Owner}
      PROVE  ThiefInStep(dq[q])'
  <2>1. dq'[q] = dq[q]
    OBVIOUS
  <2> QED
    BY <1>2, <2>1, OtherThief
<1>4. ThiefInStep(dq[Owner])'
  BY DEF ThiefInStep, StealPC
<1>5. NodesKept'
  BY <1>2, NodesStay
<1> QED
  BY <1>2, <1>3, <1>4, <1>5

\* The owner's loads, its claim and its last stores.
LEMMA OwnerHarmless ==
  ASSUME ConserveInv, DequeStep(Owner),
         \/ PushBottom(Owner) \/ PushTop(Owner)
         \/ PopBottom(Owner) \/ PopClaim(Owner) \/ PopRestore(Owner)
         \/ PopRead(Owner) \/ PopBump(Owner),
         UNCHANGED pushed, returned \subseteq returned',
         dq'[Owner].pc = "done" => dq'[Owner].node \in returned' \cup {NoNode}
  PROVE  /\ top'[D] <= Edge'
         /\ OwnerInStep(dq[Owner])'
         /\ \A q \in Thread : ThiefInStep(dq[q])'
         /\ NodesKept'
<1>t. /\ DequeTypeOK /\ Owner \in Thread /\ D \in Deque /\ SoleOwner
      /\ top[D] \in Nat /\ bottom[D] \in Int /\ Edge \in Int
      /\ dq[Owner].d = D /\ dq[Owner].b \in Int /\ dq[Owner].t \in Nat
      /\ OwnerInStep(dq[Owner]) /\ LocalsInWindow(dq[Owner])
  BY OwnerTypes
<1>u. /\ top' = top /\ buffer' = buffer /\ pushed' = pushed
  BY DEF PushBottom, PushTop, PopBottom, PopClaim, PopRestore, PopRead, PopBump
<1>1. PICK pc, n, b, t, ok :
        /\ SetFrame(Owner, pc, dq[Owner].d, n, b, t, ok)
        /\ \/ /\ pc = "push_top" /\ b = bottom[D] /\ dq[Owner].pc = "push_bottom"
              /\ bottom'[D] = bottom[D]
           \/ /\ pc = "push_store" /\ b = dq[Owner].b /\ dq[Owner].pc = "push_top"
              /\ bottom'[D] = bottom[D]
           \/ /\ pc = "done" /\ dq[Owner].pc = "push_top"
              /\ bottom'[D] = bottom[D]
           \/ /\ pc = "pop_claim" /\ b = bottom[D] - 1 /\ dq[Owner].pc = "pop_bottom"
              /\ bottom'[D] = bottom[D]
           \/ /\ pc = "pop_top" /\ b = dq[Owner].b /\ dq[Owner].pc = "pop_claim"
              /\ bottom'[D] = b
           \/ /\ pc = "done" /\ dq[Owner].pc = "pop_restore"
              /\ bottom'[D] = dq[Owner].t
           \/ /\ pc = "done" /\ n = buffer[D][SlotOf(dq[Owner].b)]
              /\ dq[Owner].pc = "pop_read" /\ dq[Owner].t # dq[Owner].b
              /\ bottom'[D] = bottom[D]
           \/ /\ pc = "pop_cas" /\ n = buffer[D][SlotOf(dq[Owner].b)]
              /\ b = dq[Owner].b /\ t = dq[Owner].t
              /\ dq[Owner].pc = "pop_read" /\ dq[Owner].t = dq[Owner].b
              /\ bottom'[D] = bottom[D]
           \/ /\ pc = "done" /\ n = dq[Owner].node /\ dq[Owner].pc = "pop_bump"
              /\ bottom'[D] = dq[Owner].t + 1
  <2>1. CASE PushBottom(Owner)
    BY <2>1, <1>t DEF PushBottom, At
  <2>2. CASE PushTop(Owner)
    BY <2>2, <1>t DEF PushTop, At, Return
  <2>3. CASE PopBottom(Owner)
    BY <2>3, <1>t DEF PopBottom, At
  <2>4. CASE PopClaim(Owner)
    BY <2>4, <1>t DEF PopClaim, At, DequeTypeOK
  <2>5. CASE PopRestore(Owner)
    BY <2>5, <1>t DEF PopRestore, Return, DequeTypeOK
  <2>6. CASE PopRead(Owner)
    BY <2>6, <1>t DEF PopRead, At, Return
  <2>7. CASE PopBump(Owner)
    BY <2>7, <1>t DEF PopBump, Return, DequeTypeOK
  <2> QED
    BY <2>1, <2>2, <2>3, <2>4, <2>5, <2>6, <2>7
<1>2. /\ dq'[Owner].pc = pc /\ dq'[Owner].node = n
      /\ dq'[Owner].b = b /\ dq'[Owner].t = t
      /\ \A q \in Thread \ {Owner} : dq'[q] = dq[q]
  <2>1. SetFrame(Owner, pc, dq[Owner].d, n, b, t, ok)
    BY <1>1
  <2>2. /\ dq'[Owner] = [pc |-> pc, d |-> dq[Owner].d, node |-> n, b |-> b, t |-> t, ok |-> ok]
        /\ \A q \in Thread \ {Owner} : dq'[q] = dq[q]
    BY <1>t, <2>1, FrameSet
  <2> QED
    BY <2>2
<1>3. OwnerInStep(dq[Owner])'
  BY <1>1, <1>2, <1>u, <1>t DEF OwnerInStep
<1>4. Edge' \in Int /\ Edge <= Edge'
  BY <1>1, <1>2, <1>t DEF Edge, Claiming, OwnerInStep
<1>5. ASSUME NEW m \in Node, InHand(m)
      PROVE  m \in returned'
  <2>1. CASE dq[Owner].pc = "pop_bump" /\ dq[Owner].node = m
    <3>1. pc = "done" /\ n = m
      BY <1>1, <2>1
    <3> QED
      BY <1>2, <3>1, NodeAssumption
  <2>2. CASE /\ dq[Owner].pc = "pop_read" /\ ~Claiming
             /\ buffer[D][SlotOf(dq[Owner].b)] = m
    <3>1. dq[Owner].t # dq[Owner].b
      BY <2>2 DEF Claiming
    <3>2. pc = "done" /\ n = m
      BY <1>1, <2>2, <3>1
    <3> QED
      BY <1>2, <3>2, NodeAssumption
  <2> QED
    BY <1>5, <2>1, <2>2 DEF InHand
<1>6. dq'[Owner].pc \notin StealPC
  BY <1>1, <1>2 DEF StealPC
<1> QED
  BY <1>2, <1>3, <1>4, <1>5, <1>6, <1>u, OwnerStep

\* The store of a push goes to a slot that no index of the window uses.
LEMMA OwnerStores ==
  ASSUME ConserveInv, PushStore(Owner), UNCHANGED <<pushed, returned>>
  PROVE  /\ top'[D] <= Edge'
         /\ OwnerInStep(dq[Owner])'
         /\ \A q \in Thread : ThiefInStep(dq[q])'
         /\ NodesKept'
<1>t. /\ DequeTypeOK /\ Owner \in Thread /\ D \in Deque /\ SoleOwner
      /\ top[D] \in Nat /\ bottom[D] \in Int /\ Edge \in Int
      /\ dq[Owner].d = D /\ dq[Owner].b \in Int /\ top[D] <= Edge
      /\ OwnerInStep(dq[Owner]) /\ LocalsInWindow(dq[Owner])
  BY OwnerTypes
<1>u. /\ top' = top /\ bottom' = bottom /\ pushed' = pushed /\ returned' = returned
      /\ dq[Owner].pc = "push_store"
      /\ buffer' = [buffer EXCEPT ![D][SlotOf(dq[Owner].b)] = dq[Owner].node]
  BY <1>t DEF PushStore
<1>1. /\ dq'[Owner].pc = "push_publish" /\ dq'[Owner].node = dq[Owner].node
      /\ dq'[Owner].b = dq[Owner].b
      /\ \A q \in Thread \ {Owner} : dq'[q] = dq[q]
  <2>1. SetFrame(Owner, "push_publish", dq[Owner].d, dq[Owner].node, dq[Owner].b, 0, FALSE)
    BY DEF PushStore, At
  <2>2. /\ dq'[Owner] = [pc |-> "push_publish", d |-> dq[Owner].d, node |-> dq[Owner].node,
                         b |-> dq[Owner].b, t |-> 0, ok |-> FALSE]
        /\ \A q \in Thread \ {Owner} : dq'[q] = dq[q]
    BY <1>t, <2>1, FrameSet
  <2> QED
    BY <2>2
<1>2. /\ dq[Owner].b = bottom[D] /\ dq[Owner].b < top[D] + DequeCap
      /\ DequeCap \in Nat
  BY <1>t, <1>u, DequeAssumption DEF OwnerInStep, LocalsInWindow
<1>3. Edge = bottom[D] /\ Edge' = bottom[D] /\ ~Claiming /\ ~Claiming'
  BY <1>1, <1>u DEF Edge, Claiming
<1>4. SlotOf(dq[Owner].b) \in Slot
  BY <1>t, SlotOfInRing
<1>5. buffer'[D][SlotOf(dq[Owner].b)] = dq[Owner].node
  BY <1>4, <1>t, <1>u DEF DequeTypeOK
<1>6. ASSUME NEW i \in Int, top[D] <= i, i < Edge
      PROVE  buffer'[D][SlotOf(i)] = buffer[D][SlotOf(i)]
  <2>1. /\ i \in Nat /\ dq[Owner].b \in Nat
        /\ i < dq[Owner].b /\ dq[Owner].b < i + DequeCap
    BY <1>2, <1>3, <1>6, <1>t
  <2>2. SlotOf(i) # SlotOf(dq[Owner].b)
    BY <2>1, SlotsApart
  <2> QED
    BY <1>t, <1>u, <2>2 DEF DequeTypeOK
<1>7. OwnerInStep(dq[Owner])'
  BY <1>1, <1>2, <1>5, <1>u DEF OwnerInStep
<1>8. ASSUME NEW q \in Thread
      PROVE  ThiefInStep(dq[q])'
  <2>1. CASE q = Owner
    BY <1>1, <2>1 DEF ThiefInStep
  <2>2. CASE q # Owner
    <3>1. dq'[q] = dq[q] /\ ThiefInStep(dq[q]) /\ dq[q].t \in Nat
      BY <1>1, <2>2, ConserveTypes DEF ConserveInv
    <3>2. dq[q].pc = "steal_cas" /\ dq[q].t = top[D] =>
            buffer'[D][SlotOf(dq[q].t)] = buffer[D][SlotOf(dq[q].t)]
      <4>1. dq[q].pc = "steal_cas" => dq[q].t < Edge
        BY <3>1 DEF ThiefInStep
      <4> QED
        BY <1>6, <1>t, <3>1, <4>1
    <3> QED
      BY <1>3, <1>u, <3>1, <3>2 DEF ThiefInStep
  <2> QED
    BY <2>1, <2>2
<1>9. ASSUME NEW m \in pushed
      PROVE  m \in returned' \/ InHand(m)' \/ Live(m)'
  <2>1. m \in returned \/ InHand(m) \/ Live(m)
    BY DEF ConserveInv, NodesKept
  <2>2. ~InHand(m)
    BY <1>u DEF InHand
  <2>3. CASE Live(m)
    <3>1. PICK i \in top[D] .. (Edge - 1) : buffer[D][SlotOf(i)] = m
      BY <2>3 DEF Live
    <3>2. i \in Int /\ top[D] <= i /\ i < Edge
      BY <1>t
    <3>3. buffer'[D][SlotOf(i)] = m
      BY <1>6, <3>1, <3>2
    <3>4. \E j \in top'[D] .. (Edge' - 1) : buffer'[D][SlotOf(j)] = m
      BY <1>3, <1>u, <3>3
    <3> QED
      BY <3>4 DEF Live
  <2> QED
    BY <1>u, <2>1, <2>2, <2>3
<1>10. NodesKept'
  BY <1>u, <1>9 DEF NodesKept
<1> QED
  BY <1>3, <1>7, <1>8, <1>10, <1>t, <1>u

\* The store of bottom_ puts the node of the push into the window.
LEMMA OwnerPublishes ==
  ASSUME ConserveInv, PushPublish(Owner),
         pushed' = pushed \cup {dq[Owner].node}, UNCHANGED returned
  PROVE  /\ top'[D] <= Edge'
         /\ OwnerInStep(dq[Owner])'
         /\ \A q \in Thread : ThiefInStep(dq[q])'
         /\ NodesKept'
<1>t. /\ DequeTypeOK /\ Owner \in Thread /\ D \in Deque /\ SoleOwner
      /\ top[D] \in Nat /\ bottom[D] \in Int /\ Edge \in Int
      /\ dq[Owner].d = D /\ dq[Owner].b \in Int /\ top[D] <= Edge
      /\ OwnerInStep(dq[Owner])
  BY OwnerTypes
<1>u. /\ top' = top /\ buffer' = buffer /\ returned' = returned
      /\ dq[Owner].pc = "push_publish"
      /\ bottom'[D] = dq[Owner].b + 1
  BY <1>t DEF PushPublish, DequeTypeOK
<1>1. /\ dq'[Owner].pc = "done"
      /\ \A q \in Thread \ {Owner} : dq'[q] = dq[q]
  <2>1. SetFrame(Owner, "done", dq[Owner].d, NoNode, 0, 0, TRUE)
    BY DEF PushPublish, Return
  <2>2. /\ dq'[Owner] = [pc |-> "done", d |-> dq[Owner].d, node |-> NoNode, b |-> 0, t |-> 0,
                         ok |-> TRUE]
        /\ \A q \in Thread \ {Owner} : dq'[q] = dq[q]
    BY <1>t, <2>1, FrameSet
  <2> QED
    BY <2>2
<1>2. /\ dq[Owner].b = bottom[D] /\ buffer[D][SlotOf(dq[Owner].b)] = dq[Owner].node
      /\ Edge = bottom[D] /\ Edge' = bottom[D] + 1
  BY <1>1, <1>t, <1>u DEF OwnerInStep, Edge, Claiming
<1>3. OwnerInStep(dq[Owner])'
  BY <1>1 DEF OwnerInStep
<1>4. /\ Edge' \in Int /\ Edge' >= Edge /\ top'[D] \in Nat /\ top'[D] >= top[D]
      /\ top'[D] <= Edge' /\ UNCHANGED buffer
  BY <1>2, <1>t, <1>u
<1>5. ASSUME NEW q \in Thread
      PROVE  ThiefInStep(dq[q])'
  <2>1. CASE q = Owner
    BY <1>1, <2>1 DEF ThiefInStep
  <2>2. CASE q # Owner
    <3>1. dq'[q] = dq[q]
      BY <1>1, <2>2
    <3> QED
      BY <1>4, <3>1, OtherThief
  <2> QED
    BY <2>1, <2>2
<1>6. ASSUME NEW m \in pushed'
      PROVE  m \in returned' \/ InHand(m)' \/ Live(m)'
  <2>1. CASE m = dq[Owner].node
    <3>1. bottom[D] \in top'[D] .. (Edge' - 1) /\ buffer'[D][SlotOf(bottom[D])] = m
      BY <1>2, <1>t, <1>u, <2>1
    <3> QED
      BY <3>1 DEF Live
  <2>2. ~InHand(m)
    BY <1>u DEF InHand
  <2>3. CASE Live(m)
    <3>1. PICK i \in top[D] .. (Edge - 1) : buffer[D][SlotOf(i)] = m
      BY <2>3 DEF Live
    <3>2. i \in top'[D] .. (Edge' - 1)
      BY <1>2, <1>t, <1>u
    <3>3. \E j \in top'[D] .. (Edge' - 1) : buffer'[D][SlotOf(j)] = m
      BY <1>u, <3>1, <3>2
    <3> QED
      BY <3>3 DEF Live
  <2>4. m = dq[Owner].node \/ m \in returned \/ InHand(m) \/ Live(m)
    BY <1>6 DEF ConserveInv, NodesKept
  <2> QED
    BY <1>u, <2>1, <2>2, <2>3, <2>4
<1>7. NodesKept'
  BY <1>6 DEF NodesKept
<1> QED
  BY <1>3, <1>4, <1>5, <1>7

\* The pop's load of top_ settles the claim when the window holds more than the
\* claimed index: every thief is then behind it.
LEMMA OwnerLooks ==
  ASSUME ConserveInv, PopTop(Owner), UNCHANGED <<pushed, returned>>
  PROVE  /\ top'[D] <= Edge'
         /\ OwnerInStep(dq[Owner])'
         /\ \A q \in Thread : ThiefInStep(dq[q])'
         /\ NodesKept'
<1>t. /\ DequeTypeOK /\ Owner \in Thread /\ D \in Deque /\ SoleOwner
      /\ top[D] \in Nat /\ bottom[D] \in Int /\ Edge \in Int
      /\ dq[Owner].d = D /\ dq[Owner].b \in Int /\ top[D] <= Edge
      /\ OwnerInStep(dq[Owner])
  BY OwnerTypes
<1>u. /\ top' = top /\ bottom' = bottom /\ buffer' = buffer
      /\ pushed' = pushed /\ returned' = returned
      /\ dq[Owner].pc = "pop_top"
  BY DEF PopTop
<1>1. /\ dq'[Owner].pc = IF top[D] > dq[Owner].b THEN "pop_restore" ELSE "pop_read"
      /\ dq'[Owner].b = dq[Owner].b /\ dq'[Owner].t = top[D]
      /\ \A q \in Thread \ {Owner} : dq'[q] = dq[q]
  <2>1. PICK pc, t :
          /\ t = top[D]
          /\ pc = IF top[D] > dq[Owner].b THEN "pop_restore" ELSE "pop_read"
          /\ SetFrame(Owner, pc, dq[Owner].d, NoNode, dq[Owner].b, t, FALSE)
    BY <1>t DEF PopTop, At
  <2>2. SetFrame(Owner, pc, dq[Owner].d, NoNode, dq[Owner].b, t, FALSE)
    BY <2>1
  <2>3. /\ dq'[Owner] = [pc |-> pc, d |-> dq[Owner].d, node |-> NoNode,
                         b |-> dq[Owner].b, t |-> t, ok |-> FALSE]
        /\ \A q \in Thread \ {Owner} : dq'[q] = dq[q]
    BY <1>t, <2>2, FrameSet
  <2> QED
    BY <2>1, <2>3
<1>2. /\ dq[Owner].b = bottom[D] /\ Edge = dq[Owner].b + 1
      /\ Edge' = IF top[D] < dq[Owner].b THEN dq[Owner].b ELSE Edge
  BY <1>1, <1>t, <1>u DEF OwnerInStep, Edge, Claiming
<1>3. OwnerInStep(dq[Owner])'
  BY <1>1, <1>2, <1>t, <1>u DEF OwnerInStep
<1>4. CASE top[D] >= dq[Owner].b
  <2>1. Edge' = Edge
    BY <1>2, <1>4, <1>t
  <2>2. dq'[Owner].pc \notin StealPC
    BY <1>1 DEF StealPC
  <2>3. \A m \in Node : InHand(m) => InHand(m)'
    BY <1>1, <1>u DEF InHand
  <2> QED
    BY <1>1, <1>3, <1>t, <1>u, <2>1, <2>2, <2>3, OwnerStep
<1>5. CASE top[D] < dq[Owner].b
  <2>1. Edge' = dq[Owner].b /\ top'[D] < Edge'
    BY <1>2, <1>5, <1>u
  <2>2. dq'[Owner].pc = "pop_read" /\ ~Claiming'
    BY <1>1, <1>5, <1>t DEF Claiming
  <2>3. ASSUME NEW q \in Thread
        PROVE  ThiefInStep(dq[q])'
    <3>1. CASE q = Owner
      BY <2>2, <3>1 DEF ThiefInStep
    <3>2. CASE q # Owner
      <4>1. dq'[q] = dq[q] /\ ThiefInStep(dq[q]) /\ dq[q].t \in Nat
        BY <1>1, <3>2, ConserveTypes DEF ConserveInv
      <4>2. dq[q].pc \in {"steal_read", "steal_cas"} => dq[q].t < Edge'
        BY <1>5, <1>t, <2>1, <4>1 DEF ThiefInStep
      <4> QED
        BY <1>u, <4>1, <4>2 DEF ThiefInStep
    <3> QED
      BY <3>1, <3>2
  <2>4. ASSUME NEW m \in pushed
        PROVE  m \in returned' \/ InHand(m)' \/ Live(m)'
    <3>1. ~InHand(m)
      BY <1>u DEF InHand
    <3>2. CASE Live(m)
      <4>1. PICK i \in top[D] .. (Edge - 1) : buffer[D][SlotOf(i)] = m
        BY <3>2 DEF Live
      <4>2. CASE i = dq[Owner].b
        BY <1>1, <1>u, <2>2, <4>1, <4>2 DEF InHand
      <4>3. CASE i # dq[Owner].b
        <5>1. i \in top'[D] .. (Edge' - 1)
          BY <1>2, <1>t, <1>u, <2>1, <4>1, <4>3
        <5>2. \E j \in top'[D] .. (Edge' - 1) : buffer'[D][SlotOf(j)] = m
          BY <1>u, <4>1, <5>1
        <5> QED
          BY <5>2 DEF Live
      <4> QED
        BY <4>2, <4>3
    <3>3. m \in returned \/ InHand(m) \/ Live(m)
      BY DEF ConserveInv, NodesKept
    <3> QED
      BY <1>u, <3>1, <3>2, <3>3
  <2>5. NodesKept'
    BY <1>u, <2>4 DEF NodesKept
  <2> QED
    BY <1>3, <1>t, <1>u, <2>1, <2>3, <2>5
<1> QED
  BY <1>4, <1>5, <1>t

\* The pop's swap: when it takes the last index the owner holds its node, and when
\* it fails a thief was first and nothing is left below the edge.
LEMMA OwnerSwaps ==
  ASSUME ConserveInv, PopCas(Owner), UNCHANGED <<pushed, returned>>
  PROVE  /\ top'[D] <= Edge'
         /\ OwnerInStep(dq[Owner])'
         /\ \A q \in Thread : ThiefInStep(dq[q])'
         /\ NodesKept'
<1>t. /\ DequeTypeOK /\ Owner \in Thread /\ D \in Deque /\ SoleOwner
      /\ top[D] \in Nat /\ bottom[D] \in Int /\ Edge \in Int
      /\ dq[Owner].d = D /\ dq[Owner].b \in Int /\ dq[Owner].t \in Nat /\ top[D] <= Edge
      /\ OwnerInStep(dq[Owner]) /\ LocalsInWindow(dq[Owner])
  BY OwnerTypes
<1>u. /\ bottom' = bottom /\ buffer' = buffer /\ pushed' = pushed /\ returned' = returned
      /\ dq[Owner].pc = "pop_cas"
  BY DEF PopCas
<1>1. PICK n, t :
        /\ SetFrame(Owner, "pop_bump", dq[Owner].d, n, dq[Owner].b, t, FALSE)
        /\ \/ /\ top[D] = dq[Owner].t /\ top' = [top EXCEPT ![D] = dq[Owner].t + 1]
              /\ n = dq[Owner].node /\ t = dq[Owner].t
           \/ top[D] # dq[Owner].t /\ top' = top /\ t = top[D]
  BY <1>t DEF PopCas, At
<1>2. /\ dq'[Owner].pc = "pop_bump" /\ dq'[Owner].node = n
      /\ dq'[Owner].b = dq[Owner].b /\ dq'[Owner].t = t
      /\ \A q \in Thread \ {Owner} : dq'[q] = dq[q]
  <2>1. SetFrame(Owner, "pop_bump", dq[Owner].d, n, dq[Owner].b, t, FALSE)
    BY <1>1
  <2>2. /\ dq'[Owner] = [pc |-> "pop_bump", d |-> dq[Owner].d, node |-> n,
                         b |-> dq[Owner].b, t |-> t, ok |-> FALSE]
        /\ \A q \in Thread \ {Owner} : dq'[q] = dq[q]
    BY <1>t, <2>1, FrameSet
  <2> QED
    BY <2>2
<1>3. /\ dq[Owner].b = bottom[D] /\ dq[Owner].t = dq[Owner].b
      /\ dq[Owner].node = buffer[D][SlotOf(dq[Owner].b)]
      /\ dq[Owner].t <= top[D]
      /\ Edge = dq[Owner].b + 1 /\ Edge' = dq[Owner].b + 1
  BY <1>2, <1>t, <1>u DEF OwnerInStep, LocalsInWindow, Edge, Claiming
<1>4. \/ /\ top[D] = dq[Owner].b /\ top'[D] = dq[Owner].b + 1
         /\ n = dq[Owner].node /\ t = dq[Owner].b
      \/ top[D] = dq[Owner].b + 1 /\ top'[D] = top[D] /\ t = dq[Owner].b + 1
  <2>1. CASE top[D] = dq[Owner].t
    BY <1>1, <1>3, <1>t, <2>1 DEF DequeTypeOK
  <2>2. CASE top[D] # dq[Owner].t
    <3>1. top' = top /\ t = top[D]
      BY <1>1, <2>2
    <3>2. top[D] = dq[Owner].b + 1
      BY <1>3, <1>t, <2>2
    <3> QED
      BY <3>1, <3>2
  <2> QED
    BY <2>1, <2>2
<1>5. OwnerInStep(dq[Owner])'
  BY <1>2, <1>3, <1>4, <1>t, <1>u DEF OwnerInStep
<1>6. /\ Edge' \in Int /\ Edge' >= Edge /\ top'[D] \in Nat /\ top'[D] >= top[D]
      /\ top'[D] <= Edge' /\ UNCHANGED buffer
  BY <1>3, <1>4, <1>t, <1>u
<1>7. ASSUME NEW q \in Thread
      PROVE  ThiefInStep(dq[q])'
  <2>1. CASE q = Owner
    BY <1>2, <2>1 DEF ThiefInStep
  <2>2. CASE q # Owner
    <3>1. dq'[q] = dq[q]
      BY <1>2, <2>2
    <3> QED
      BY <1>6, <3>1, OtherThief
  <2> QED
    BY <2>1, <2>2
<1>8. ASSUME NEW m \in pushed
      PROVE  m \in returned' \/ InHand(m)' \/ Live(m)'
  <2>1. ~InHand(m)
    BY <1>u DEF InHand
  <2>2. CASE Live(m)
    <3>1. PICK i \in top[D] .. (Edge - 1) : buffer[D][SlotOf(i)] = m
      BY <2>2 DEF Live
    <3>2. i = dq[Owner].b /\ top[D] = dq[Owner].b
      BY <1>3, <1>4, <1>t, <3>1
    <3>3. n = m
      BY <1>3, <1>4, <1>t, <3>1, <3>2
    <3> QED
      BY <1>2, <3>3 DEF InHand
  <2>3. m \in returned \/ InHand(m) \/ Live(m)
    BY DEF ConserveInv, NodesKept
  <2> QED
    BY <1>u, <2>1, <2>2, <2>3
<1>9. NodesKept'
  BY <1>u, <1>8 DEF NodesKept
<1> QED
  BY <1>5, <1>6, <1>7, <1>9

-----------------------------------------------------------------------------
(* The induction.                                                          *)

\* A step inside an operation keeps the invariant.
LEMMA ConserveStep ==
  ASSUME ConserveInv, NEW th \in Thread, Step(th)
  PROVE  ConserveInv'
<1>1. DequeStep(th) /\ UNCHANGED called /\ SoleOwner /\ ClientInv
  BY DEF Step, ConserveInv
<1>2. ClientInv' /\ SoleOwner'
  BY <1>1, ClientStepInv, StepSoleOwner
<1>h. /\ returned \subseteq returned'
      /\ dq'[th].pc = "done" => dq'[th].node \in returned' \cup {NoNode}
      /\ dq'[th].pc # "done" \/ dq'[th].node = NoNode => returned' = returned
  BY StepHandsOut
<1>3. CASE th # Owner
  <2>1. dq[th].pc \notin PushPC \cup PopPC
    BY <1>1, <1>3 DEF SoleOwner
  <2>2. StealTop(th) \/ StealBottom(th) \/ StealRead(th) \/ StealCas(th)
    BY <1>1, <2>1
    DEF DequeStep, PushBottom, PushTop, PushStore, PushPublish, PopBottom, PopClaim,
        PopTop, PopRestore, PopRead, PopCas, PopBump, PushPC, PopPC
  <2>3. UNCHANGED pushed
    BY <1>1, <2>1 DEF Step, PushPC
  <2> QED
    BY <1>2, <1>3, <1>h, <2>2, <2>3, StealLoads, StealSwap DEF ConserveInv
<1>4. CASE th = Owner
  <2>1. dq[Owner].pc \notin StealPC
    BY <1>1, <1>4 DEF SoleOwner
  <2>2. CASE PushPublish(Owner)
    <3>1. pushed' = pushed \cup {dq[Owner].node}
      BY <1>4, <2>2 DEF Step, PushPublish
    <3>2. dq'[Owner].node = NoNode
      <4>1. DequeTypeOK /\ Owner \in Thread
        BY OwnerTypes
      <4>2. SetFrame(Owner, "done", dq[Owner].d, NoNode, 0, 0, TRUE)
        BY <2>2 DEF PushPublish, Return
      <4>3. /\ dq'[Owner] = [pc |-> "done", d |-> dq[Owner].d, node |-> NoNode, b |-> 0,
                             t |-> 0, ok |-> TRUE]
            /\ \A q \in Thread \ {Owner} : dq'[q] = dq[q]
        BY <4>1, <4>2, FrameSet
      <4> QED
        BY <4>3
    <3> QED
      BY <1>1, <1>2, <1>4, <1>h, <2>2, <3>1, <3>2, OwnerPublishes DEF ConserveInv
  <2>3. CASE PushStore(Owner) \/ PopTop(Owner) \/ PopCas(Owner)
    <3>1. dq[Owner].pc # "push_publish"
      BY <2>3 DEF PushStore, PopTop, PopCas
    <3>2. dq'[Owner].pc # "done"
      <4>1. DequeTypeOK /\ Owner \in Thread
        BY OwnerTypes
      <4>2. PICK pc, n, b, t : /\ SetFrame(Owner, pc, dq[Owner].d, n, b, t, FALSE)
                               /\ \/ pc = "push_publish" \/ pc = "pop_restore"
                                  \/ pc = "pop_read" \/ pc = "pop_bump"
        <5>1. CASE PushStore(Owner)
          BY <5>1, Zenon DEF PushStore, At
        <5>2. CASE PopTop(Owner)
          <6>1. \/ SetFrame(Owner, "pop_restore", dq[Owner].d, NoNode, dq[Owner].b,
                            top[dq[Owner].d], FALSE)
                \/ SetFrame(Owner, "pop_read", dq[Owner].d, NoNode, dq[Owner].b,
                            top[dq[Owner].d], FALSE)
            BY <5>2 DEF PopTop, At
          <6> QED
            BY <6>1, Zenon
        <5>3. CASE PopCas(Owner)
          <6>1. PICK n, t : SetFrame(Owner, "pop_bump", dq[Owner].d, n, dq[Owner].b, t, FALSE)
            BY <5>3 DEF PopCas, At
          <6> QED
            BY <6>1, Zenon
        <5> QED
          BY <2>3, <5>1, <5>2, <5>3
      <4>3. SetFrame(Owner, pc, dq[Owner].d, n, b, t, FALSE)
        BY <4>2
      <4>4. /\ dq'[Owner] = [pc |-> pc, d |-> dq[Owner].d, node |-> n, b |-> b, t |-> t,
                             ok |-> FALSE]
            /\ \A q \in Thread \ {Owner} : dq'[q] = dq[q]
        BY <4>1, <4>3, FrameSet
      <4> QED
        BY <4>2, <4>4
    <3>3. UNCHANGED <<pushed, returned>>
      BY <1>4, <1>h, <3>1, <3>2 DEF Step
    <3> QED
      BY <1>2, <2>3, <3>3, OwnerStores, OwnerLooks, OwnerSwaps DEF ConserveInv
  <2>4. CASE \/ PushBottom(Owner) \/ PushTop(Owner)
             \/ PopBottom(Owner) \/ PopClaim(Owner) \/ PopRestore(Owner)
             \/ PopRead(Owner) \/ PopBump(Owner)
    <3>1. dq[Owner].pc # "push_publish"
      BY <2>4 DEF PushBottom, PushTop, PopBottom, PopClaim, PopRestore, PopRead, PopBump
    <3>2. UNCHANGED pushed
      BY <1>4, <3>1 DEF Step
    <3> QED
      BY <1>1, <1>2, <1>4, <1>h, <2>4, <3>2, OwnerHarmless DEF ConserveInv
  <2> QED
    BY <1>1, <1>4, <2>1, <2>2, <2>3, <2>4
    DEF DequeStep, StealTop, StealBottom, StealRead, StealCas, StealPC
<1> QED
  BY <1>3, <1>4

\* A call, and the collection of a result, keep it when only the owner pushes.
LEMMA ConserveCall ==
  ASSUME ConserveInv, Pushers \subseteq {Owner}, NEW th \in Thread,
         StartPush(th) \/ StartSteal(th) \/ Finish(th) \/ (th = Owner /\ StartPop)
  PROVE  ConserveInv'
<1>t. /\ DequeTypeOK /\ Owner \in Thread /\ D \in Deque /\ SoleOwner
      /\ top[D] \in Nat /\ Edge \in Int /\ top[D] <= Edge /\ dq[th].d = D
      /\ pushed \subseteq Node
  BY OwnerTypes, ConserveTypes DEF ConserveInv, ClientInv, TypeOK
<1>1. PICK pc, n, d :
                   /\ d = D
                   /\ SetFrame(th, pc, d, n, 0, 0, FALSE)
                   /\ \/ pc \in {"push_bottom", "pop_bottom"} /\ th = Owner
                      \/ pc = "steal_top" /\ th # Owner
                      \/ pc = "idle"
  <2>1. CASE StartPush(th)
    BY <2>1, <1>t DEF StartPush, CallPush, Call
  <2>2. CASE StartSteal(th)
    BY <2>2, <1>t DEF StartSteal, CallSteal, Call
  <2>3. CASE Finish(th)
    BY <2>3, <1>t DEF Finish, Collect, Call
  <2>4. CASE th = Owner /\ StartPop
    BY <2>4, <1>t DEF StartPop, CallPop, Call
  <2> QED
    BY <2>1, <2>2, <2>3, <2>4
<1>2. /\ dq'[th].pc = pc /\ dq'[th].d = D
      /\ \A q \in Thread \ {th} : dq'[q] = dq[q]
  <2>1. SetFrame(th, pc, d, n, 0, 0, FALSE)
    BY <1>1
  <2>2. /\ dq'[th] = [pc |-> pc, d |-> d, node |-> n, b |-> 0, t |-> 0, ok |-> FALSE]
        /\ \A q \in Thread \ {th} : dq'[q] = dq[q]
    BY <1>t, <2>1, FrameSet
  <2> QED
    BY <1>1, <2>2
<1>u. /\ top' = top /\ bottom' = bottom /\ buffer' = buffer /\ pushed' = pushed
      /\ returned' = returned /\ dq[th].pc \in {"idle", "done"}
  BY DEF StartPush, StartSteal, Finish, StartPop, handouts
<1>3. ClientInv'
  BY ClientCallInv DEF ConserveInv
<1>4. SoleOwner'
  BY <1>1, <1>2, <1>t DEF SoleOwner, PushPC, PopPC, StealPC
<1>5. /\ Edge' = Edge /\ Claiming' = Claiming
      /\ OwnerInStep(dq[Owner])'
  <2>1. CASE th = Owner
    <3>1. ~Claiming /\ ~Claiming'
      BY <1>1, <1>2, <1>u, <2>1 DEF Claiming
    <3>2. dq'[Owner].pc \in {"push_bottom", "pop_bottom", "idle", "steal_top"}
      BY <1>1, <1>2, <2>1
    <3>3. Edge' = Edge
      BY <1>u, <3>1 DEF Edge
    <3>4. Claiming' = Claiming
      BY <3>1 DEF Claiming
    <3>5. OwnerInStep(dq[Owner])'
      BY <3>2 DEF OwnerInStep
    <3> QED
      BY <3>3, <3>4, <3>5
  <2>2. CASE th # Owner
    <3>1. dq'[Owner] = dq[Owner]
      BY <1>2, <1>t, <2>2
    <3> QED
      BY <1>u, <3>1, OwnerStays
  <2> QED
    BY <2>1, <2>2
<1>6. ASSUME NEW q \in Thread
      PROVE  ThiefInStep(dq[q])'
  <2>1. CASE q = th
    BY <1>1, <1>2, <2>1 DEF ThiefInStep
  <2>2. CASE q # th
    <3>1. /\ dq'[q] = dq[q] /\ top'[D] \in Nat /\ top'[D] >= top[D]
          /\ Edge' \in Int /\ Edge' >= Edge /\ UNCHANGED buffer
      BY <1>2, <1>5, <1>t, <1>u, <2>2
    <3> QED
      BY <3>1, OtherThief
  <2> QED
    BY <2>1, <2>2
<1>7. ASSUME NEW m \in Node, InHand(m)
      PROVE  InHand(m)'
  <2>1. dq'[Owner] = dq[Owner]
    BY <1>2, <1>7, <1>t, <1>u DEF InHand
  <2> QED
    BY <1>5, <1>7, <1>u, <2>1 DEF InHand
<1>8. NodesKept'
  BY <1>5, <1>7, <1>t, <1>u, NodesStay
<1> QED
  BY <1>3, <1>4, <1>5, <1>6, <1>8, <1>t, <1>u DEF ConserveInv

\* The inductive invariant of the deque under the discipline it is designed for.
THEOREM ClientConserveInvariant ==
  ASSUME Pushers \subseteq {Owner}
  PROVE  Spec => []ConserveInv
<1>1. Init => ConserveInv
  BY ConserveInitInv
<1>2. ConserveInv /\ [Next]_clientVars => ConserveInv'
  <2> SUFFICES ASSUME ConserveInv, [Next]_clientVars PROVE ConserveInv'
    OBVIOUS
  <2>1. CASE StartPop
    BY <2>1, ConserveCall, ClientAssumption
  <2>2. ASSUME NEW th \in Thread, StartPush(th) \/ StartSteal(th) \/ Finish(th)
        PROVE  ConserveInv'
    BY <2>2, ConserveCall
  <2>3. ASSUME NEW th \in Thread, Step(th)
        PROVE  ConserveInv'
    BY <2>3, ConserveStep
  <2>4. CASE UNCHANGED clientVars
    <3>1. /\ top' = top /\ bottom' = bottom /\ buffer' = buffer /\ dq' = dq
          /\ pushed' = pushed /\ called' = called /\ returned' = returned
          /\ repeats' = repeats /\ lost' = lost /\ phantom' = phantom
      BY <2>4 DEF clientVars, handouts
    <3>2. ClientInv'
      BY <3>1
      DEF ConserveInv, ClientInv, TypeOK, DequeInv, DequeTypeOK, WindowBound,
          OnePopper, LocalsInWindow, BottomRestored, Provenance, Held,
          OnlyOwnerPops, PushersHoldNodes
    <3>3. Edge' = Edge /\ Claiming' = Claiming
      BY <3>1 DEF Edge, Claiming
    <3>4. /\ SoleOwner' /\ top'[D] <= Edge' /\ OwnerInStep(dq[Owner])'
          /\ \A th \in Thread : ThiefInStep(dq[th])'
      BY <3>1, <3>3 DEF ConserveInv, SoleOwner, OwnerInStep, ThiefInStep
    <3>5. NodesKept'
      BY <3>1, <3>3 DEF ConserveInv, NodesKept, InHand, Live
    <3> QED
      BY <3>2, <3>4, <3>5 DEF ConserveInv
  <2> QED
    BY <2>1, <2>2, <2>3, <2>4 DEF Next
<1> QED
  BY <1>1, <1>2, PTL DEF Spec

-----------------------------------------------------------------------------
(* Handing out once, when only the owner pushes.                           *)

LEMMA OnceTypes ==
  ASSUME ConserveInv
  PROVE  /\ DequeTypeOK /\ Owner \in Thread /\ D \in Deque /\ SoleOwner
         /\ top[D] \in Nat /\ bottom[D] \in Int /\ Edge \in Int /\ Reach \in Int
         /\ top[D] <= Edge /\ Edge <= Reach /\ DequeCap \in Nat \ {0}
         /\ buffer[D] \in [Slot -> MaybeNode]
         /\ dq[Owner].d = D /\ dq[Owner].b \in Int /\ dq[Owner].t \in Nat
         /\ OwnerInStep(dq[Owner]) /\ LocalsInWindow(dq[Owner])
         /\ NoNode \notin returned /\ NoNode \notin pushed
         /\ repeats \in Nat /\ lost \in Nat /\ phantom \in Int
<1>1. Reach \in Int /\ Edge <= Reach
  BY OwnerTypes DEF Reach, Taking, Edge, Claiming, OwnerInStep
<1>2. /\ NoNode \notin returned /\ NoNode \notin pushed
      /\ repeats \in Nat /\ lost \in Nat /\ phantom \in Int
  BY NodeAssumption DEF ConserveInv, ClientInv, TypeOK
<1> QED
  BY <1>1, <1>2, OwnerTypes, ConserveTypes

LEMMA OnceInit ==
  ASSUME Init
  PROVE  OnceInv
<1>1. D \in Deque /\ Owner \in Thread
  BY DInDeque, ClientAssumption
<1>2. /\ top[D] = 0 /\ bottom[D] = 0 /\ dq[Owner].pc = "idle"
      /\ pushed = {} /\ called = {} /\ returned = {}
      /\ repeats = 0 /\ lost = 0 /\ phantom = -1
      /\ \A s \in Slot : buffer[D][s] = NoNode
  BY <1>1 DEF Init, DequeInit
<1>3. Reach = 0 /\ ~Took
  BY <1>2 DEF Reach, Taking, Took
<1>4. Ledger /\ PhantomOldest /\ Balance
  BY <1>2, <1>3 DEF Ledger, PhantomOldest, Balance, Owed, PushPC
<1>5. FreshEntries /\ DeadSlots /\ HandFresh
  BY <1>2, <1>3 DEF FreshEntries, DeadSlots, HandFresh, Took, RaceLost
<1> QED
  BY <1>4, <1>5 DEF OnceInv

\* Nothing that OnceInv looks at but the owner's frame changes, and the frame only
\* in a step that neither publishes nor takes.
LEMMA OnceKept ==
  ASSUME ConserveInv, OnceInv, UNCHANGED <<top, buffer, pushed, handouts>>,
         called \subseteq called', Reach' = Reach,
         \/ dq'[Owner] = dq[Owner]
         \/ /\ dq[Owner].pc \notin {"push_publish", "pop_bump"}
            /\ dq'[Owner].pc \notin {"push_publish", "pop_bump"},
         dq'[Owner].pc \in PushPC => dq'[Owner].node \notin pushed,
         dq'[Owner].pc \in {"pop_restore", "pop_read", "pop_cas"} => phantom <= dq'[Owner].t
  PROVE  OnceInv'
<1>1. /\ top' = top /\ buffer' = buffer /\ pushed' = pushed /\ returned' = returned
      /\ repeats' = repeats /\ lost' = lost /\ phantom' = phantom
      /\ \A i : Entry(i)' = Entry(i)
  BY DEF handouts, Entry
<1>2. Took' = Took /\ (Took' => dq'[Owner] = dq[Owner])
  BY DEF Took
<1>3. Ledger' /\ PhantomOldest'
  BY <1>1 DEF OnceInv, Ledger, PhantomOldest
<1>4. Balance'
  BY <1>1, <1>2 DEF OnceInv, Balance, Owed
<1>5. FreshEntries'
  BY <1>1 DEF OnceInv, FreshEntries, Fresh, Entry
<1>6. DeadSlots'
  BY <1>1, <1>2 DEF OnceInv, DeadSlots
<1>7. HandFresh'
  BY <1>1, <1>2 DEF OnceInv, HandFresh, RaceLost
<1> QED
  BY <1>3, <1>4, <1>5, <1>6, <1>7 DEF OnceInv

\* The oldest entry goes to a thief: it is fresh, or it is the phantom.
LEMMA ThiefOnce ==
  ASSUME ConserveInv, OnceInv, NEW th \in Thread, th # Owner, Step(th), StealCas(th)
  PROVE  OnceInv'
<1>t. /\ DequeTypeOK /\ Owner \in Thread /\ D \in Deque
      /\ top[D] \in Nat /\ Edge \in Int /\ Reach \in Int /\ Edge <= Reach
      /\ dq[th].d = D /\ dq[th].t \in Nat /\ dq[Owner].b \in Int
      /\ NoNode \notin returned /\ NoNode \notin pushed
      /\ repeats \in Nat /\ lost \in Nat /\ phantom \in Int
  BY OnceTypes, ConserveTypes
<1>u. /\ bottom' = bottom /\ buffer' = buffer /\ pushed' = pushed /\ called' = called
      /\ lost' = lost /\ phantom' = phantom /\ dq[th].pc = "steal_cas"
  BY DEF StealCas, Step, RaceLost
<1>1. PICK n :
        /\ SetFrame(th, "done", dq[th].d, n, 0, 0, FALSE)
        /\ \/ top[D] = dq[th].t /\ top' = [top EXCEPT ![D] = dq[th].t + 1] /\ n = dq[th].node
           \/ top' = top /\ n = NoNode
  BY <1>t DEF StealCas, Return
<1>2. /\ dq'[th].pc = "done" /\ dq'[th].node = n /\ dq'[Owner] = dq[Owner]
  <2>1. SetFrame(th, "done", dq[th].d, n, 0, 0, FALSE)
    BY <1>1
  <2>2. /\ dq'[th] = [pc |-> "done", d |-> dq[th].d, node |-> n, b |-> 0, t |-> 0, ok |-> FALSE]
        /\ \A q \in Thread \ {th} : dq'[q] = dq[q]
    BY <1>t, <2>1, FrameSet
  <2> QED
    BY <1>t, <2>2
<1>3. HandOut(n)
  BY <1>2 DEF Step
<1>4. Reach' = Reach /\ Took' = Took /\ \A i : Entry(i)' = Entry(i)
  BY <1>2, <1>u DEF Reach, Taking, Took, Entry
<1>5. CASE top' = top /\ n = NoNode
  <2>1. UNCHANGED <<top, buffer, pushed, handouts>> /\ called \subseteq called'
    BY <1>3, <1>5, <1>t, <1>u DEF HandOut, handouts
  <2> QED
    BY <1>2, <1>4, <2>1, OnceKept DEF OnceInv, Ledger, PhantomOldest
<1>6. CASE top[D] = dq[th].t /\ top' = [top EXCEPT ![D] = dq[th].t + 1] /\ n = dq[th].node
  <2>1. /\ top'[D] = top[D] + 1 /\ top[D] < Edge /\ n = Entry(top[D])
    BY <1>6, <1>t, <1>u DEF ConserveInv, ThiefInStep, Entry, DequeTypeOK
  <2>2. dq[Owner].pc # "pop_bump" /\ ~Took
    BY <1>t, <2>1 DEF OnceInv, HandFresh, Edge, Claiming, Took
  <2>3. /\ returned' \in {returned, returned \cup {n}} /\ n \in returned' \cup {NoNode}
        /\ phantom # top[D] => n \in pushed \ returned /\ repeats' = repeats
        /\ phantom = top[D] => returned' = returned /\ repeats' \in {repeats, repeats + 1}
    <3>1. phantom # top[D] => n \in pushed \ returned
      <4>1. top[D] \in top[D] .. (Reach - 1)
        BY <1>t, <2>1
      <4> QED
        BY <2>1, <4>1 DEF OnceInv, FreshEntries, Fresh, Entry
    <3>2. phantom = top[D] => n \in returned \cup {NoNode}
      BY <2>1 DEF OnceInv, PhantomOldest
    <3> QED
      BY <1>3, <1>t, <3>1, <3>2 DEF HandOut
  <2>4. Ledger' /\ PhantomOldest'
    BY <1>2, <1>t, <1>u, <2>1, <2>3 DEF OnceInv, Ledger, PhantomOldest
  <2>5. Balance'
    BY <1>4, <1>t, <1>u, <2>1, <2>2, <2>3 DEF OnceInv, Balance, Owed, PhantomOldest
  <2>6. FreshEntries'
    <3>1. ASSUME NEW i \in (top[D] + 1) .. (Reach - 1)
          PROVE  /\ Entry(i) \in pushed' \ returned'
                 /\ \A j \in (i + 1) .. (Reach - 1) : Entry(i) # Entry(j)
      <4>1. i \in top[D] .. (Reach - 1) /\ top[D] \in top[D] .. (Reach - 1) /\ i # phantom
        BY <1>t, <2>1 DEF OnceInv, PhantomOldest
      <4>2. Entry(i) \in pushed \ returned /\ \A j \in (i + 1) .. (Reach - 1) : Entry(i) # Entry(j)
        BY <4>1 DEF OnceInv, FreshEntries, Fresh, Entry
      <4>3. phantom # top[D] => Entry(i) # n
        BY <2>1, <4>1 DEF OnceInv, FreshEntries
      <4> QED
        BY <1>u, <2>3, <4>2, <4>3
    <3> QED
      BY <1>4, <1>u, <2>1, <3>1 DEF FreshEntries, Fresh, Entry
  <2>7. DeadSlots'
    <3>1. ASSUME NEW s \in Slot
          PROVE  \/ buffer[D][s] \in returned' \cup {NoNode}
                 \/ \E i \in (top[D] + 1) .. (Reach - 1) : s = SlotOf(i)
                 \/ dq[Owner].pc = "push_publish" /\ s = SlotOf(dq[Owner].b)
      <4>1. CASE \E i \in top[D] .. (Reach - 1) : s = SlotOf(i)
        <5>1. PICK i \in top[D] .. (Reach - 1) : s = SlotOf(i)
          BY <4>1
        <5>2. CASE i = top[D]
          BY <2>1, <2>3, <5>1, <5>2 DEF Entry
        <5>3. CASE i # top[D]
          <6>1. i \in (top[D] + 1) .. (Reach - 1)
            BY <1>t, <5>3
          <6> QED
            BY <5>1, <6>1
        <5> QED
          BY <5>2, <5>3
      <4> QED
        BY <2>2, <2>3, <4>1 DEF OnceInv, DeadSlots
    <3> QED
      BY <1>2, <1>4, <1>u, <2>1, <3>1 DEF DeadSlots
  <2>8. HandFresh'
    BY <1>2, <1>4, <2>2 DEF HandFresh, RaceLost
  <2> QED
    BY <2>4, <2>5, <2>6, <2>7, <2>8 DEF OnceInv
<1> QED
  BY <1>1, <1>5, <1>6

\* A push stores outside the window, and its node is fresh when it is published.
LEMMA PushOnce ==
  ASSUME ConserveInv, OnceInv, Step(Owner), PushStore(Owner) \/ PushPublish(Owner)
  PROVE  OnceInv'
<1>t. /\ DequeTypeOK /\ Owner \in Thread /\ D \in Deque
      /\ top[D] \in Nat /\ bottom[D] \in Int /\ Reach \in Int /\ DequeCap \in Nat \ {0}
      /\ top[D] <= Edge /\ Edge \in Int
      /\ dq[Owner].d = D /\ dq[Owner].b \in Int
      /\ OwnerInStep(dq[Owner]) /\ LocalsInWindow(dq[Owner])
      /\ NoNode \notin returned
  BY OnceTypes
<1>u. /\ top' = top /\ called' = called /\ lost' = lost /\ phantom' = phantom
      /\ dq[Owner].pc \in {"push_store", "push_publish"}
  BY DEF PushStore, PushPublish, Step, RaceLost
<1>1. Reach = bottom[D] /\ Edge = bottom[D] /\ ~Took /\ dq[Owner].b = bottom[D]
  BY <1>t, <1>u DEF Reach, Taking, Edge, Claiming, Took, OwnerInStep
<1>2. dq[Owner].b < top[D] + DequeCap
  BY <1>t, <1>u DEF LocalsInWindow
<1>3. CASE PushStore(Owner)
  <2>1. /\ dq'[Owner].pc = "push_publish" /\ dq'[Owner].node = dq[Owner].node
        /\ dq'[Owner].b = dq[Owner].b
    <3>1. SetFrame(Owner, "push_publish", dq[Owner].d, dq[Owner].node, dq[Owner].b, 0, FALSE)
      BY <1>3 DEF PushStore, At
    <3>2. /\ dq'[Owner] = [pc |-> "push_publish", d |-> dq[Owner].d, node |-> dq[Owner].node,
                           b |-> dq[Owner].b, t |-> 0, ok |-> FALSE]
          /\ \A q \in Thread \ {Owner} : dq'[q] = dq[q]
      BY <1>t, <3>1, FrameSet
    <3> QED
      BY <3>2
  <2>2. /\ bottom' = bottom /\ pushed' = pushed /\ returned' = returned /\ repeats' = repeats
        /\ dq[Owner].pc = "push_store"
        /\ buffer' = [buffer EXCEPT ![D][SlotOf(dq[Owner].b)] = dq[Owner].node]
    BY <1>3, <1>t, <2>1 DEF PushStore, Step
  <2>3. Reach' = Reach /\ ~Took'
    BY <1>1, <2>1, <2>2 DEF Reach, Taking, Took
  <2>4. ASSUME NEW i \in top[D] .. (Reach - 1)
        PROVE  buffer'[D][SlotOf(i)] = Entry(i)
    <3>1. i \in Nat /\ dq[Owner].b \in Nat /\ i < dq[Owner].b /\ dq[Owner].b < i + DequeCap
      BY <1>1, <1>2, <1>t
    <3>2. SlotOf(i) # SlotOf(dq[Owner].b)
      BY <3>1, SlotsApart
    <3> QED
      BY <1>t, <2>2, <3>2 DEF Entry, DequeTypeOK
  <2>5. Ledger' /\ Balance'
    BY <1>1, <1>u, <2>1, <2>2, <2>3
    DEF OnceInv, Ledger, Balance, Owed, PushPC
  <2>6. PhantomOldest'
    <3>1. phantom = top[D] => top[D] \in top[D] .. (Reach - 1)
      BY <1>t DEF OnceInv, PhantomOldest
    <3>2. phantom = top[D] => buffer'[D][SlotOf(top[D])] = Entry(top[D])
      BY <2>4, <3>1
    <3>3. phantom' = top'[D] => buffer'[D][SlotOf(top'[D])] \in returned' \cup {NoNode}
      BY <1>u, <2>2, <3>2 DEF OnceInv, PhantomOldest
    <3> QED
      BY <1>u, <2>1, <2>3, <3>3 DEF OnceInv, PhantomOldest, Entry
  <2>7. FreshEntries'
    <3>1. ASSUME NEW i \in top[D] .. (Reach - 1), i # phantom
          PROVE  /\ buffer'[D][SlotOf(i)] \in pushed \ returned
                 /\ \A j \in (i + 1) .. (Reach - 1) :
                      buffer'[D][SlotOf(i)] # buffer'[D][SlotOf(j)]
      <4>1. Entry(i) \in pushed \ returned /\ \A j \in (i + 1) .. (Reach - 1) : Entry(i) # Entry(j)
        BY <3>1 DEF OnceInv, FreshEntries, Fresh, Entry
      <4>2. \A j \in (i + 1) .. (Reach - 1) : buffer'[D][SlotOf(j)] = Entry(j)
        BY <1>t, <2>4
      <4> QED
        BY <2>4, <4>1, <4>2
    <3> QED
      BY <1>u, <2>2, <2>3, <3>1 DEF FreshEntries, Fresh, Entry
  <2>8. DeadSlots'
    <3>1. ASSUME NEW s \in Slot, s # SlotOf(dq[Owner].b)
          PROVE  buffer'[D][s] = buffer[D][s]
      BY <1>t, <2>2, <3>1 DEF DequeTypeOK
    <3> QED
      BY <1>1, <1>u, <2>1, <2>2, <2>3, <3>1 DEF OnceInv, DeadSlots
  <2>9. HandFresh'
    BY <2>1, <2>3 DEF HandFresh, RaceLost
  <2> QED
    BY <2>5, <2>6, <2>7, <2>8, <2>9 DEF OnceInv
<1>4. CASE PushPublish(Owner)
  <2>1. dq'[Owner].pc = "done" /\ dq'[Owner].node = NoNode
    <3>1. SetFrame(Owner, "done", dq[Owner].d, NoNode, 0, 0, TRUE)
      BY <1>4 DEF PushPublish, Return
    <3>2. /\ dq'[Owner] = [pc |-> "done", d |-> dq[Owner].d, node |-> NoNode, b |-> 0, t |-> 0,
                           ok |-> TRUE]
          /\ \A q \in Thread \ {Owner} : dq'[q] = dq[q]
      BY <1>t, <3>1, FrameSet
    <3> QED
      BY <3>2
  <2>2. /\ buffer' = buffer /\ pushed' = pushed \cup {dq[Owner].node}
        /\ returned' = returned /\ repeats' = repeats
        /\ bottom'[D] = bottom[D] + 1 /\ dq[Owner].pc = "push_publish"
        /\ \A i : Entry(i)' = Entry(i)
    BY <1>1, <1>4, <1>t, <2>1 DEF PushPublish, Step, HandOut, DequeTypeOK, Entry
  <2>3. Reach' = Reach + 1 /\ ~Took' /\ Entry(bottom[D]) = dq[Owner].node
    BY <1>1, <1>t, <2>1, <2>2 DEF Reach, Taking, Took, OwnerInStep, Entry
  <2>4. dq[Owner].node \in called /\ dq[Owner].node \notin pushed
    BY <1>t, <2>2 DEF OnceInv, Ledger, PushPC, ConserveInv, ClientInv, PushersHoldNodes
  <2>5. Ledger' /\ PhantomOldest' /\ Balance'
    BY <1>1, <1>t, <1>u, <2>1, <2>2, <2>3, <2>4
    DEF OnceInv, Ledger, PhantomOldest, Balance, Owed, PushPC
  <2>6. FreshEntries'
    <3>1. ASSUME NEW i \in top[D] .. bottom[D], i # phantom
          PROVE  /\ Entry(i) \in pushed' \ returned
                 /\ \A j \in (i + 1) .. bottom[D] : Entry(i) # Entry(j)
      <4>1. CASE i = bottom[D]
        BY <1>t, <2>2, <2>3, <2>4, <4>1 DEF OnceInv, Ledger
      <4>2. CASE i # bottom[D]
        <5>1. i \in top[D] .. (Reach - 1)
          BY <1>1, <1>t, <4>2
        <5>2. Entry(i) \in pushed \ returned /\ \A j \in (i + 1) .. (Reach - 1) : Entry(i) # Entry(j)
          BY <3>1, <5>1 DEF OnceInv, FreshEntries, Fresh, Entry
        <5>3. ASSUME NEW j \in (i + 1) .. bottom[D]
              PROVE  Entry(i) # Entry(j)
          <6>1. j = bottom[D] \/ j \in (i + 1) .. (Reach - 1)
            BY <1>1, <1>t
          <6> QED
            BY <2>3, <2>4, <5>2, <6>1
        <5> QED
          BY <2>2, <5>2, <5>3
      <4> QED
        BY <4>1, <4>2
    <3>2. Reach' - 1 = bottom[D]
      BY <1>1, <1>t, <2>3
    <3> QED
      BY <1>u, <2>2, <3>1, <3>2 DEF FreshEntries, Fresh, Entry
  <2>7. DeadSlots'
    <3>1. ASSUME NEW s \in Slot
          PROVE  \/ buffer[D][s] \in returned \cup {NoNode}
                 \/ \E i \in top[D] .. bottom[D] : s = SlotOf(i)
      <4>1. bottom[D] \in top[D] .. bottom[D]
        BY <1>1, <1>t
      <4>2. \A i \in top[D] .. (Reach - 1) : i \in top[D] .. bottom[D]
        BY <1>1, <1>t
      <4> QED
        BY <1>1, <4>1, <4>2 DEF OnceInv, DeadSlots
    <3>2. Reach' - 1 = bottom[D]
      BY <1>1, <1>t, <2>3
    <3> QED
      BY <1>u, <2>2, <3>1, <3>2 DEF DeadSlots
  <2>8. HandFresh'
    BY <2>1, <2>3 DEF HandFresh, RaceLost
  <2> QED
    BY <2>5, <2>6, <2>7, <2>8 DEF OnceInv
<1> QED
  BY <1>3, <1>4

\* The pop of an entry below which the window holds another: it is not the phantom.
LEMMA PopReadOnce ==
  ASSUME ConserveInv, OnceInv, Step(Owner), PopRead(Owner), dq[Owner].t # dq[Owner].b
  PROVE  OnceInv'
<1>t. /\ DequeTypeOK /\ Owner \in Thread /\ D \in Deque
      /\ top[D] \in Nat /\ bottom[D] \in Int /\ Edge \in Int /\ Reach \in Int
      /\ top[D] <= Edge
      /\ dq[Owner].d = D /\ dq[Owner].b \in Int /\ dq[Owner].t \in Nat
      /\ OwnerInStep(dq[Owner]) /\ LocalsInWindow(dq[Owner])
      /\ repeats \in Nat /\ lost \in Nat /\ phantom \in Int
  BY OnceTypes
<1>u. /\ top' = top /\ bottom' = bottom /\ buffer' = buffer /\ pushed' = pushed
      /\ called' = called /\ lost' = lost /\ phantom' = phantom
      /\ dq[Owner].pc = "pop_read" /\ \A i : Entry(i)' = Entry(i)
  BY DEF PopRead, Step, RaceLost, Entry
<1>1. dq'[Owner].pc = "done" /\ dq'[Owner].node = Entry(dq[Owner].b)
  <2>1. SetFrame(Owner, "done", dq[Owner].d, Entry(dq[Owner].b), 0, 0, FALSE)
    BY <1>t DEF PopRead, Return, Entry
  <2>2. /\ dq'[Owner] = [pc |-> "done", d |-> dq[Owner].d, node |-> Entry(dq[Owner].b),
                         b |-> 0, t |-> 0, ok |-> FALSE]
        /\ \A q \in Thread \ {Owner} : dq'[q] = dq[q]
    BY <1>t, <2>1, FrameSet
  <2> QED
    BY <2>2
<1> DEFINE x == dq[Owner].b
<1>2. /\ x = bottom[D] /\ dq[Owner].t < x /\ phantom <= dq[Owner].t
      /\ Edge = x /\ Reach = x + 1 /\ Reach' = x /\ ~Took /\ ~Took'
  <2>1. phantom <= dq[Owner].t
    BY <1>u DEF OnceInv, PhantomOldest
  <2> QED
    BY <1>1, <1>t, <1>u, <2>1
    DEF OwnerInStep, LocalsInWindow, Edge, Claiming, Reach, Taking, Took
<1>3. x \in top[D] .. (Reach - 1) /\ x # phantom
  BY <1>2, <1>t
<1>4. Entry(x) \in pushed \ returned
  BY <1>3 DEF OnceInv, FreshEntries, Fresh, Entry
<1>5. returned' = returned \cup {Entry(x)} /\ repeats' = repeats
  <2>1. HandOut(Entry(x))
    BY <1>1 DEF Step
  <2> QED
    BY <1>4, <2>1, OnceTypes DEF HandOut
<1>6. Ledger' /\ PhantomOldest' /\ Balance'
  <2>1. Ledger'
    BY <1>1, <1>4, <1>5, <1>u DEF OnceInv, Ledger, PushPC
  <2>2. PhantomOldest'
    BY <1>1, <1>2, <1>5, <1>t, <1>u DEF OnceInv, PhantomOldest
  <2>3. Balance'
    BY <1>2, <1>5, <1>u DEF OnceInv, Balance, Owed
  <2> QED
    BY <2>1, <2>2, <2>3
<1>7. FreshEntries'
  <2>1. ASSUME NEW i \in top[D] .. (x - 1), i # phantom
        PROVE  /\ Entry(i) \in pushed \ returned'
               /\ \A j \in (i + 1) .. (x - 1) : Entry(i) # Entry(j)
    <3>1. i \in top[D] .. (Reach - 1) /\ x \in (i + 1) .. (Reach - 1)
      BY <1>2, <1>t
    <3>2. Entry(i) \in pushed \ returned /\ \A j \in (i + 1) .. (Reach - 1) : Entry(i) # Entry(j)
      BY <2>1, <3>1 DEF OnceInv, FreshEntries, Fresh, Entry
    <3>3. \A j \in (i + 1) .. (x - 1) : j \in (i + 1) .. (Reach - 1)
      BY <1>2, <1>t
    <3> QED
      BY <1>5, <3>1, <3>2, <3>3
  <2> QED
    BY <1>2, <1>u, <2>1 DEF FreshEntries, Fresh, Entry
<1>8. DeadSlots'
  <2>1. ASSUME NEW s \in Slot
        PROVE  \/ buffer[D][s] \in returned' \cup {NoNode}
               \/ \E i \in top[D] .. (x - 1) : s = SlotOf(i)
    <3>1. CASE \E i \in top[D] .. (Reach - 1) : s = SlotOf(i)
      <4>1. PICK i \in top[D] .. (Reach - 1) : s = SlotOf(i)
        BY <3>1
      <4>2. CASE i = x
        BY <1>5, <4>1, <4>2 DEF Entry
      <4>3. CASE i # x
        <5>1. i \in top[D] .. (x - 1)
          BY <1>2, <1>t, <4>3
        <5> QED
          BY <4>1, <5>1
      <4> QED
        BY <4>2, <4>3
    <3> QED
      BY <1>2, <1>5, <1>u, <3>1 DEF OnceInv, DeadSlots
  <2> QED
    BY <1>2, <1>u, <2>1 DEF DeadSlots
<1>9. HandFresh'
  BY <1>1, <1>2 DEF HandFresh, RaceLost
<1> QED
  BY <1>6, <1>7, <1>8, <1>9 DEF OnceInv

\* The swap: a success empties the window, and what it took is fresh or the phantom.
LEMMA PopCasOnce ==
  ASSUME ConserveInv, OnceInv, Step(Owner), PopCas(Owner)
  PROVE  OnceInv'
<1>t. /\ DequeTypeOK /\ Owner \in Thread /\ D \in Deque
      /\ top[D] \in Nat /\ bottom[D] \in Int /\ Edge \in Int /\ Reach \in Int
      /\ top[D] <= Edge
      /\ dq[Owner].d = D /\ dq[Owner].b \in Int /\ dq[Owner].t \in Nat
      /\ OwnerInStep(dq[Owner]) /\ LocalsInWindow(dq[Owner])
      /\ repeats \in Nat /\ lost \in Nat /\ phantom \in Int
  BY OnceTypes
<1>u. /\ bottom' = bottom /\ buffer' = buffer /\ dq[Owner].pc = "pop_cas"
      /\ \A i : Entry(i)' = buffer[D][SlotOf(i)]
  BY DEF PopCas, Entry
<1>1. PICK n, t :
        /\ SetFrame(Owner, "pop_bump", dq[Owner].d, n, dq[Owner].b, t, FALSE)
        /\ \/ /\ top[D] = dq[Owner].t /\ top' = [top EXCEPT ![D] = dq[Owner].t + 1]
              /\ n = dq[Owner].node /\ t = dq[Owner].t
           \/ top[D] # dq[Owner].t /\ top' = top /\ n = NoNode /\ t = top[D]
  BY <1>t DEF PopCas, At
<1>2. /\ dq'[Owner].pc = "pop_bump" /\ dq'[Owner].node = n
      /\ dq'[Owner].b = dq[Owner].b /\ dq'[Owner].t = t
  <2>1. SetFrame(Owner, "pop_bump", dq[Owner].d, n, dq[Owner].b, t, FALSE)
    BY <1>1
  <2>2. /\ dq'[Owner] = [pc |-> "pop_bump", d |-> dq[Owner].d, node |-> n,
                         b |-> dq[Owner].b, t |-> t, ok |-> FALSE]
        /\ \A q \in Thread \ {Owner} : dq'[q] = dq[q]
    BY <1>t, <2>1, FrameSet
  <2> QED
    BY <2>2
<1>3. /\ pushed' = pushed /\ called' = called /\ returned' = returned /\ repeats' = repeats
      /\ lost' = lost /\ phantom' = phantom
  BY <1>2, <1>u DEF Step, RaceLost
<1> DEFINE x == dq[Owner].b
<1>4. /\ x = bottom[D] /\ dq[Owner].t = x /\ dq[Owner].t <= top[D] /\ phantom <= x
      /\ dq[Owner].node = Entry(x)
      /\ Edge = x + 1 /\ Reach = x + 1 /\ Reach' = x + 1 /\ ~Took
  <2>1. phantom <= dq[Owner].t
    BY <1>u DEF OnceInv, PhantomOldest
  <2> QED
    BY <1>2, <1>t, <1>u, <2>1
    DEF OwnerInStep, LocalsInWindow, Edge, Claiming, Reach, Taking, Took, Entry
<1>5. /\ top'[D] = x + 1
      /\ \/ top[D] = x /\ n = Entry(x) /\ t = x
         \/ top[D] = x + 1 /\ n = NoNode /\ t = x + 1
  <2>1. CASE top[D] = dq[Owner].t
    BY <1>1, <1>4, <1>t, <2>1 DEF DequeTypeOK
  <2>2. CASE top[D] # dq[Owner].t
    <3>1. top' = top /\ n = NoNode /\ t = top[D]
      BY <1>1, <2>2
    <3>2. top[D] = x + 1
      BY <1>4, <1>t, <2>2
    <3> QED
      BY <3>1, <3>2
  <2> QED
    BY <2>1, <2>2
<1>6. Took' <=> top[D] = x
  BY <1>2, <1>5, <1>t DEF Took
<1>7. Ledger' /\ PhantomOldest' /\ Balance'
  <2>1. Ledger'
    BY <1>2, <1>3 DEF OnceInv, Ledger, PushPC
  <2>2. PhantomOldest'
    BY <1>2, <1>3, <1>4, <1>5, <1>t DEF PhantomOldest
  <2>3. Balance'
    BY <1>2, <1>3, <1>4, <1>5, <1>6, <1>t DEF OnceInv, Balance, Owed
  <2> QED
    BY <2>1, <2>2, <2>3
<1>8. FreshEntries'
  BY <1>4, <1>5, <1>t DEF FreshEntries
<1>9. DeadSlots'
  <2>1. ASSUME NEW s \in Slot
        PROVE  \/ buffer[D][s] \in returned \cup {NoNode}
               \/ top[D] = x /\ s = SlotOf(x)
    <3>1. ASSUME NEW i \in top[D] .. (Reach - 1)
          PROVE  i = x /\ top[D] = x
      BY <1>4, <1>5, <1>t
    <3> QED
      BY <1>4, <1>u, <3>1 DEF OnceInv, DeadSlots
  <2> QED
    BY <1>2, <1>3, <1>6, <1>u, <2>1 DEF DeadSlots
<1>10. HandFresh'
  <2>1. CASE top[D] = x
    <3>1. x \in top[D] .. (Reach - 1)
      BY <1>4, <1>t, <2>1
    <3>2. IF phantom = x THEN Entry(x) \in returned \cup {NoNode}
                         ELSE Entry(x) \in pushed \ returned
      BY <2>1, <3>1 DEF OnceInv, FreshEntries, Fresh, Entry, PhantomOldest
    <3>3. n = Entry(x) /\ t = x
      BY <1>5, <1>t, <2>1
    <3>4. Entry(dq[Owner].b)' = Entry(x)
      BY <1>2, <1>u DEF Entry
    <3> QED
      BY <1>2, <1>3, <1>5, <3>2, <3>3, <3>4 DEF HandFresh, RaceLost
  <2>2. CASE top[D] # x
    BY <1>2, <1>5, <1>6, <2>2 DEF HandFresh
  <2> QED
    BY <2>1, <2>2
<1> QED
  BY <1>7, <1>8, <1>9, <1>10 DEF OnceInv

\* The store after the swap: after a lost race it leaves the phantom, whose slot is dead.
LEMMA PopBumpOnce ==
  ASSUME ConserveInv, OnceInv, Step(Owner), PopBump(Owner)
  PROVE  OnceInv'
<1>t. /\ DequeTypeOK /\ Owner \in Thread /\ D \in Deque
      /\ top[D] \in Nat /\ bottom[D] \in Int /\ Reach \in Int
      /\ dq[Owner].d = D /\ dq[Owner].b \in Int /\ dq[Owner].t \in Nat
      /\ OwnerInStep(dq[Owner]) /\ DequeCap \in Nat \ {0}
      /\ NoNode \notin returned /\ NoNode \notin pushed
      /\ repeats \in Nat /\ lost \in Nat /\ phantom \in Int
  BY OnceTypes
<1>u. /\ top' = top /\ buffer' = buffer /\ pushed' = pushed /\ called' = called
      /\ bottom'[D] = dq[Owner].t + 1 /\ dq[Owner].pc = "pop_bump"
      /\ \A i : Entry(i)' = Entry(i)
  BY <1>t DEF PopBump, Step, Entry, DequeTypeOK
<1>1. dq'[Owner].pc = "done" /\ dq'[Owner].node = dq[Owner].node
  <2>1. SetFrame(Owner, "done", dq[Owner].d, dq[Owner].node, 0, 0, FALSE)
    BY DEF PopBump, Return
  <2>2. /\ dq'[Owner] = [pc |-> "done", d |-> dq[Owner].d, node |-> dq[Owner].node,
                         b |-> 0, t |-> 0, ok |-> FALSE]
        /\ \A q \in Thread \ {Owner} : dq'[q] = dq[q]
    BY <1>t, <2>1, FrameSet
  <2> QED
    BY <2>2
<1> DEFINE x == dq[Owner].b
           n == dq[Owner].node
<1>2. /\ top[D] = x + 1 /\ dq[Owner].t \in {x, x + 1} /\ Reach = x + 1
      /\ Reach' = dq[Owner].t + 1 /\ ~Took' /\ HandOut(n) /\ phantom <= x + 1
      /\ phantom # top[D]
  <2>1. /\ top[D] = x + 1 /\ dq[Owner].t \in {x, x + 1} /\ Reach = x + 1
        /\ phantom <= top[D] /\ (phantom = top[D] => top[D] < Reach)
    BY <1>u, <1>t DEF OnceInv, HandFresh, PhantomOldest, OwnerInStep, Reach, Taking
  <2> QED
    BY <1>1, <1>t, <1>u, <2>1 DEF Reach, Taking, Took, Step
<1>3. CASE dq[Owner].t = x
  <2>1. /\ lost' = lost /\ phantom' = phantom /\ Took
        /\ n = Entry(x)
        /\ n \in IF phantom = x THEN returned \cup {NoNode} ELSE pushed \ returned
    BY <1>3, <1>u DEF Step, RaceLost, Took, OnceInv, HandFresh
  <2>2. /\ n \in returned' \cup {NoNode} /\ returned \subseteq returned'
        /\ returned' \subseteq pushed
        /\ repeats' \in Nat
        /\ IF phantom = x THEN repeats' <= repeats + 1 ELSE repeats' = repeats
    BY <1>2, <1>t, <2>1 DEF HandOut, OnceInv, Ledger
  <2>3. Ledger' /\ PhantomOldest'
    BY <1>1, <1>2, <1>u, <2>1, <2>2 DEF OnceInv, Ledger, PhantomOldest, PushPC
  <2>4. Balance'
    <3>1. ~Owed'
      BY <1>2, <1>u, <2>1 DEF Owed
    <3> QED
      BY <1>t, <2>1, <2>2, <3>1 DEF OnceInv, Balance, Owed
  <2>5. FreshEntries'
    BY <1>2, <1>3, <1>t, <1>u DEF FreshEntries
  <2>6. DeadSlots'
    <3>1. ASSUME NEW s \in Slot
          PROVE  buffer[D][s] \in returned' \cup {NoNode}
      <4>1. ~\E i \in top[D] .. (Reach - 1) : s = SlotOf(i)
        BY <1>2, <1>t
      <4> QED
        BY <1>u, <2>1, <2>2, <4>1 DEF OnceInv, DeadSlots, Entry
    <3> QED
      BY <1>u, <3>1 DEF DeadSlots
  <2>7. HandFresh'
    BY <1>1, <1>2 DEF HandFresh, RaceLost
  <2> QED
    BY <2>3, <2>4, <2>5, <2>6, <2>7 DEF OnceInv
<1>4. CASE dq[Owner].t = x + 1
  <2>1. /\ lost' = lost + 1 /\ phantom' = x + 1 /\ n = NoNode /\ ~Took
    BY <1>4, <1>t, <1>u DEF Step, RaceLost, Took, OnceInv, HandFresh
  <2>2. returned' = returned /\ repeats' = repeats
    BY <1>2, <1>t, <2>1 DEF HandOut
  <2>3. ASSUME NEW s \in Slot
        PROVE  buffer[D][s] \in returned \cup {NoNode}
    <3>1. ~\E i \in top[D] .. (Reach - 1) : s = SlotOf(i)
      BY <1>2, <1>t
    <3> QED
      BY <1>u, <2>1, <3>1 DEF OnceInv, DeadSlots
  <2>4. Ledger'
    BY <1>1, <1>u, <2>2 DEF OnceInv, Ledger, PushPC
  <2>5. PhantomOldest'
    <3>1. Entry(top[D])' \in returned \cup {NoNode}
      <4>1. SlotOf(top[D]) \in Slot
        BY <1>t, SlotOfInRing
      <4> QED
        BY <1>u, <2>3, <4>1 DEF Entry
    <3> QED
      BY <1>1, <1>2, <1>4, <1>t, <1>u, <2>1, <2>2, <3>1 DEF PhantomOldest
  <2>6. Balance'
    BY <1>t, <2>1, <2>2 DEF OnceInv, Balance
  <2>7. FreshEntries'
    <3>1. ASSUME NEW i \in top'[D] .. (Reach' - 1)
          PROVE  i = phantom'
      BY <1>2, <1>4, <1>t, <1>u, <2>1
    <3> QED
      BY <3>1 DEF FreshEntries
  <2>8. DeadSlots'
    BY <1>u, <2>2, <2>3 DEF DeadSlots
  <2>9. HandFresh'
    BY <1>1, <1>2 DEF HandFresh, RaceLost
  <2> QED
    BY <2>4, <2>5, <2>6, <2>7, <2>8, <2>9 DEF OnceInv
<1> QED
  BY <1>2, <1>3, <1>4

\* The owner's loads, its claim and its restore change nothing that is handed out.
LEMMA OwnerOnce ==
  ASSUME ConserveInv, OnceInv, Step(Owner),
         \/ PushBottom(Owner) \/ PushTop(Owner) \/ PopBottom(Owner) \/ PopClaim(Owner)
         \/ PopTop(Owner) \/ PopRestore(Owner)
         \/ PopRead(Owner) /\ dq[Owner].t = dq[Owner].b
  PROVE  OnceInv'
<1>t. /\ DequeTypeOK /\ Owner \in Thread /\ D \in Deque
      /\ top[D] \in Nat /\ bottom[D] \in Int /\ Reach \in Int
      /\ dq[Owner].d = D /\ dq[Owner].b \in Int /\ dq[Owner].t \in Nat
      /\ OwnerInStep(dq[Owner])
      /\ NoNode \notin returned /\ NoNode \notin pushed
  BY OnceTypes
<1>1. PICK pc, n, b, t :
        /\ SetFrame(Owner, pc, dq[Owner].d, n, b, t, FALSE)
        /\ pc = "done" => n = NoNode
        /\ \/ /\ pc = "push_top" /\ dq[Owner].pc = "push_bottom"
              /\ bottom'[D] = bottom[D] /\ n = dq[Owner].node
           \/ /\ pc \in {"push_store", "done"} /\ dq[Owner].pc = "push_top"
              /\ bottom'[D] = bottom[D] /\ (pc = "push_store" => n = dq[Owner].node)
           \/ /\ pc = "pop_claim" /\ dq[Owner].pc = "pop_bottom"
              /\ bottom'[D] = bottom[D]
           \/ /\ pc = "pop_top" /\ b = dq[Owner].b /\ dq[Owner].pc = "pop_claim"
              /\ bottom'[D] = b
           \/ /\ pc \in {"pop_restore", "pop_read"} /\ dq[Owner].pc = "pop_top"
              /\ b = dq[Owner].b /\ t = top[D] /\ bottom'[D] = bottom[D]
           \/ /\ pc = "done" /\ dq[Owner].pc = "pop_restore"
              /\ bottom'[D] = dq[Owner].t
           \/ /\ pc = "pop_cas" /\ b = dq[Owner].b /\ t = dq[Owner].t
              /\ dq[Owner].pc = "pop_read" /\ bottom'[D] = bottom[D]
  <2>1. CASE PushBottom(Owner)
    BY <2>1, <1>t DEF PushBottom, At
  <2>2. CASE PushTop(Owner)
    BY <2>2, <1>t DEF PushTop, At, Return
  <2>3. CASE PopBottom(Owner)
    BY <2>3, <1>t DEF PopBottom, At
  <2>4. CASE PopClaim(Owner)
    BY <2>4, <1>t DEF PopClaim, At, DequeTypeOK
  <2>5. CASE PopTop(Owner)
    <3>1. PICK pc \in {"pop_restore", "pop_read"} :
            SetFrame(Owner, pc, dq[Owner].d, NoNode, dq[Owner].b, top[D], FALSE)
      BY <2>5, <1>t DEF PopTop, At
    <3> QED
      BY <2>5, <3>1 DEF PopTop
  <2>6. CASE PopRestore(Owner)
    BY <2>6, <1>t DEF PopRestore, Return, DequeTypeOK
  <2>7. CASE PopRead(Owner) /\ dq[Owner].t = dq[Owner].b
    BY <2>7, <1>t DEF PopRead, At, Return
  <2> QED
    BY <2>1, <2>2, <2>3, <2>4, <2>5, <2>6, <2>7
<1>2. /\ dq'[Owner].pc = pc /\ dq'[Owner].node = n
      /\ dq'[Owner].b = b /\ dq'[Owner].t = t
  <2>1. SetFrame(Owner, pc, dq[Owner].d, n, b, t, FALSE)
    BY <1>1
  <2>2. /\ dq'[Owner] = [pc |-> pc, d |-> dq[Owner].d, node |-> n, b |-> b, t |-> t, ok |-> FALSE]
        /\ \A q \in Thread \ {Owner} : dq'[q] = dq[q]
    BY <1>t, <2>1, FrameSet
  <2> QED
    BY <2>2
<1>3. /\ top' = top /\ buffer' = buffer /\ pushed' = pushed /\ called' = called
      /\ dq[Owner].pc \notin {"push_publish", "pop_bump"}
      /\ pc \notin {"push_publish", "pop_bump"}
  BY <1>1 DEF PushBottom, PushTop, PopBottom, PopClaim, PopTop, PopRestore, PopRead, Step
<1>4. UNCHANGED handouts
  BY <1>1, <1>2, <1>3, <1>t DEF Step, RaceLost, HandOut, handouts
<1>5. Reach' = Reach
  BY <1>1, <1>2, <1>t DEF Reach, Taking, OwnerInStep
<1>6. dq'[Owner].pc \in PushPC => dq'[Owner].node \notin pushed
  BY <1>1, <1>2 DEF PushPC, OnceInv, Ledger
<1>7. dq'[Owner].pc \in {"pop_restore", "pop_read", "pop_cas"} => phantom <= dq'[Owner].t
  BY <1>1, <1>2 DEF OnceInv, PhantomOldest
<1> QED
  BY <1>2, <1>3, <1>4, <1>5, <1>6, <1>7, OnceKept

\* A step inside an operation keeps the ledger.
LEMMA OnceStep ==
  ASSUME ConserveInv, OnceInv, NEW th \in Thread, Step(th)
  PROVE  OnceInv'
<1>1. DequeStep(th) /\ SoleOwner /\ UNCHANGED called /\ DequeTypeOK
  BY OnceTypes DEF Step
<1>2. CASE th = Owner
  <2>1. dq[Owner].pc \notin StealPC
    BY <1>1, <1>2 DEF SoleOwner
  <2>2. \/ PushBottom(Owner) \/ PushTop(Owner) \/ PushStore(Owner) \/ PushPublish(Owner)
        \/ PopBottom(Owner) \/ PopClaim(Owner) \/ PopTop(Owner) \/ PopRestore(Owner)
        \/ PopRead(Owner) \/ PopCas(Owner) \/ PopBump(Owner)
    BY <1>1, <1>2, <2>1 DEF DequeStep, StealTop, StealBottom, StealRead, StealCas, StealPC
  <2> QED
    BY <1>2, <2>2, OwnerOnce, PushOnce, PopReadOnce, PopCasOnce, PopBumpOnce
<1>3. CASE th # Owner
  <2>1. dq[th].pc \notin PushPC \cup PopPC
    BY <1>1, <1>3 DEF SoleOwner
  <2>2. StealTop(th) \/ StealBottom(th) \/ StealRead(th) \/ StealCas(th)
    BY <1>1, <2>1
    DEF DequeStep, PushBottom, PushTop, PushStore, PushPublish, PopBottom, PopClaim,
        PopTop, PopRestore, PopRead, PopCas, PopBump, PushPC, PopPC
  <2>3. CASE StealTop(th) \/ StealBottom(th) \/ StealRead(th)
    <3>1. PICK pc, n, t : /\ SetFrame(th, pc, dq[th].d, n, 0, t, FALSE)
                          /\ \/ pc = "steal_bottom" \/ pc = "steal_read" \/ pc = "steal_cas"
                             \/ pc = "done" /\ n = NoNode
      <4>1. CASE StealTop(th)
        BY <4>1, Zenon DEF StealTop, At
      <4>2. CASE StealBottom(th)
        BY <4>2, Zenon DEF StealBottom, At, Return
      <4>3. CASE StealRead(th)
        BY <4>3, Zenon DEF StealRead, At
      <4> QED
        BY <2>3, <4>1, <4>2, <4>3
    <3>2. SetFrame(th, pc, dq[th].d, n, 0, t, FALSE)
      BY <3>1
    <3>3. /\ dq'[th] = [pc |-> pc, d |-> dq[th].d, node |-> n, b |-> 0, t |-> t, ok |-> FALSE]
          /\ \A q \in Thread \ {th} : dq'[q] = dq[q]
      BY <1>1, <3>2, FrameSet
    <3>4. dq'[Owner] = dq[Owner] /\ (dq'[th].pc = "done" => dq'[th].node = NoNode)
      BY <1>3, <3>1, <3>3, OnceTypes
    <3>5. UNCHANGED <<top, bottom, buffer, pushed, lost, phantom>>
      BY <2>1, <2>3 DEF StealTop, StealBottom, StealRead, Step, RaceLost, PushPC, PopPC
    <3>6. UNCHANGED handouts
      BY <3>4, <3>5, OnceTypes DEF Step, HandOut, handouts
    <3>7. Reach' = Reach
      BY <3>4, <3>5 DEF Reach, Taking
    <3>8. /\ dq'[Owner].pc \in PushPC => dq'[Owner].node \notin pushed
          /\ dq'[Owner].pc \in {"pop_restore", "pop_read", "pop_cas"} => phantom <= dq'[Owner].t
      BY <3>4 DEF OnceInv, Ledger, PhantomOldest
    <3> QED
      BY <1>1, <3>4, <3>5, <3>6, <3>7, <3>8, OnceKept
  <2> QED
    BY <1>3, <2>2, <2>3, ThiefOnce
<1> QED
  BY <1>2, <1>3

\* A call brings in a node nobody has pushed; the rest stays.
LEMMA OnceCall ==
  ASSUME ConserveInv, OnceInv, Pushers \subseteq {Owner}, NEW th \in Thread,
         StartPush(th) \/ StartSteal(th) \/ Finish(th) \/ (th = Owner /\ StartPop)
  PROVE  OnceInv'
<1>t. DequeTypeOK /\ Owner \in Thread /\ D \in Deque
  BY OnceTypes
<1>1. PICK pc, n, d :
                   /\ SetFrame(th, pc, d, n, 0, 0, FALSE)
                   /\ \/ pc = "push_bottom" /\ n \notin called
                      \/ pc = "pop_bottom" \/ pc = "steal_top" \/ pc = "idle"
  <2>1. CASE StartPush(th)
    BY <2>1, Zenon DEF StartPush, CallPush, Call
  <2>2. CASE StartSteal(th)
    BY <2>2, Zenon DEF StartSteal, CallSteal, Call
  <2>3. CASE Finish(th)
    BY <2>3, Zenon DEF Finish, Collect, Call
  <2>4. CASE th = Owner /\ StartPop
    BY <2>4, Zenon DEF StartPop, CallPop, Call
  <2> QED
    BY <2>1, <2>2, <2>3, <2>4
<1>2. /\ dq'[th].pc = pc /\ dq'[th].node = n
      /\ \A q \in Thread \ {th} : dq'[q] = dq[q]
  <2>1. SetFrame(th, pc, d, n, 0, 0, FALSE)
    BY <1>1
  <2>2. /\ dq'[th] = [pc |-> pc, d |-> d, node |-> n, b |-> 0, t |-> 0, ok |-> FALSE]
        /\ \A q \in Thread \ {th} : dq'[q] = dq[q]
    BY <1>t, <2>1, FrameSet
  <2> QED
    BY <2>2
<1>3. /\ UNCHANGED <<top, buffer, pushed, handouts>> /\ bottom' = bottom
      /\ called \subseteq called'
      /\ dq[th].pc \in {"idle", "done"}
  BY DEF StartPush, StartSteal, Finish, StartPop
<1>4. CASE th = Owner
  <2>1. Reach' = Reach
    BY <1>1, <1>2, <1>3, <1>4 DEF Reach, Taking
  <2>2. /\ dq[Owner].pc \notin {"push_publish", "pop_bump"}
        /\ dq'[Owner].pc \notin {"push_publish", "pop_bump"}
        /\ dq'[Owner].pc \in PushPC => dq'[Owner].node \notin pushed
        /\ dq'[Owner].pc \notin {"pop_restore", "pop_read", "pop_cas"}
    BY <1>1, <1>2, <1>3, <1>4 DEF PushPC, OnceInv, Ledger
  <2> QED
    BY <1>3, <2>1, <2>2, OnceKept
<1>5. CASE th # Owner
  <2>1. dq'[Owner] = dq[Owner]
    BY <1>2, <1>5, <1>t
  <2>2. Reach' = Reach
    BY <1>3, <2>1 DEF Reach, Taking
  <2>3. /\ dq'[Owner].pc \in PushPC => dq'[Owner].node \notin pushed
        /\ dq'[Owner].pc \in {"pop_restore", "pop_read", "pop_cas"} => phantom <= dq'[Owner].t
    BY <2>1 DEF OnceInv, Ledger, PhantomOldest
  <2> QED
    BY <1>3, <2>1, <2>2, <2>3, OnceKept
<1> QED
  BY <1>4, <1>5

\* The ledger of what was pushed and handed out is kept by every step.
THEOREM ClientOnceInvariant ==
  ASSUME Pushers \subseteq {Owner}
  PROVE  Spec => []OnceInv
<1>1. Init => OnceInv
  BY OnceInit
<1>2. ConserveInv /\ OnceInv /\ [Next]_clientVars => OnceInv'
  <2> SUFFICES ASSUME ConserveInv, OnceInv, [Next]_clientVars PROVE OnceInv'
    OBVIOUS
  <2>1. CASE StartPop
    BY <2>1, OnceCall, ClientAssumption
  <2>2. ASSUME NEW th \in Thread, StartPush(th) \/ StartSteal(th) \/ Finish(th)
        PROVE  OnceInv'
    BY <2>2, OnceCall
  <2>3. ASSUME NEW th \in Thread, Step(th)
        PROVE  OnceInv'
    BY <2>3, OnceStep
  <2>4. CASE UNCHANGED clientVars
    <3>1. /\ UNCHANGED <<top, buffer, pushed, handouts>> /\ called' = called
          /\ dq' = dq /\ bottom' = bottom
      BY <2>4 DEF clientVars
    <3>2. Reach' = Reach
      BY <3>1 DEF Reach, Taking
    <3>3. /\ dq'[Owner].pc \in PushPC => dq'[Owner].node \notin pushed
          /\ dq'[Owner].pc \in {"pop_restore", "pop_read", "pop_cas"} => phantom <= dq'[Owner].t
      BY <3>1 DEF OnceInv, Ledger, PhantomOldest
    <3> QED
      BY <3>1, <3>2, <3>3, OnceKept
  <2> QED
    BY <2>1, <2>2, <2>3, <2>4 DEF Next
<1> QED
  BY <1>1, <1>2, ClientConserveInvariant, PTL DEF Spec

\* When only the owner pushes, no node is lost whatever races of pop against steals
\* the threads have been through; and each is handed out once for its push, with one
\* repetition at most for every pop that lost the race for the last entry.
THEOREM ClientConserves ==
  ASSUME Pushers \subseteq {Owner}
  PROVE  Spec => []DequeConserves
<1>1. ConserveInv /\ OnceInv => DequeConserves
  <2> SUFFICES ASSUME ConserveInv, OnceInv PROVE DequeConserves
    OBVIOUS
  <2>t. /\ Owner \in Thread /\ D \in Deque
        /\ top[D] \in Nat /\ bottom[D] \in Int /\ phantom \in Int
    BY OnceTypes
  <2>1. ASSUME Quiescent, NEW n \in pushed
        PROVE  n \in returned \cup Window
    <3>1. ~InHand(n) /\ Edge = bottom[D]
      BY <2>1, <2>t DEF Quiescent, InHand, Edge, Claiming
    <3>2. n \in returned \/ Live(n)
      BY <3>1 DEF ConserveInv, NodesKept
    <3> QED
      BY <3>1, <3>2 DEF Live, Window
  <2>2. ASSUME Quiescent, NEW i \in top[D] .. (bottom[D] - 1)
        PROVE  \/ i = top[D] /\ i = phantom /\ repeats < lost
               \/ Fresh(i) /\ \A j \in (i + 1) .. (bottom[D] - 1) :
                                buffer[D][SlotOf(i)] # buffer[D][SlotOf(j)]
    <3>1. Reach = bottom[D]
      BY <2>2, <2>t DEF Quiescent, Reach, Taking
    <3>2. CASE i = phantom
      <4>1. i = top[D]
        BY <2>t, <3>2 DEF OnceInv, PhantomOldest
      <4> QED
        BY <3>2, <4>1 DEF OnceInv, Balance, Owed
    <3>3. CASE i # phantom
      BY <3>1, <3>3 DEF OnceInv, FreshEntries, Entry
    <3> QED
      BY <3>2, <3>3
  <2>3. repeats <= lost
    BY DEF OnceInv, Balance
  <2> QED
    BY <2>1, <2>2, <2>3 DEF DequeConserves, NothingLost, HandedOutOnce
<1> QED
  BY <1>1, ClientConserveInvariant, ClientOnceInvariant, PTL
=============================================================================
