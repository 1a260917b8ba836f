---------------------------- MODULE DequeClient ----------------------------
(***************************************************************************)
(* Threads over one ChaseLevDeque: its owner pops, every other thread      *)
(* steals, and the threads in Pushers push, each node once.  With Pushers  *)
(* = {Owner} this is the discipline the algorithm is designed for; the     *)
(* task graph's dispatch pushes from every thread, so Pushers = Thread is  *)
(* the discipline it is used under.                                        *)
(***************************************************************************)
EXTENDS ChaseLevDeque

CONSTANTS
  Owner,      \* the worker whose loop pops this deque (task_graph.cpp:287)
  Pushers,    \* the threads that call push
  MaxIndex    \* bound on bottom_ beyond which the owner calls no more pops

ASSUME ClientAssumption ==
  /\ Deque # {}
  /\ Owner \in Thread
  /\ Pushers \subseteq Thread

VARIABLES
  pushed,     \* history: the nodes whose push returned true
  called,     \* history: the nodes handed to push
  returned,   \* history: the nodes a pop or steal has returned
  repeats,    \* history: how often one returned a node returned before
  lost,       \* history: how many pops lost the race for the last entry
  phantom     \* history: the index the last of them left below bottom_, though
              \* nothing was pushed there; -1 before the first

handouts == <<returned, repeats, lost, phantom>>
clientVars == <<top, bottom, buffer, dq, pushed, called, handouts>>

\* the deque under study
D == CHOOSE d \in Deque : TRUE

Init ==
  /\ DequeInit
  /\ pushed = {}
  /\ called = {}
  /\ returned = {}
  /\ repeats = 0
  /\ lost = 0
  /\ phantom = -1

StartPush(th) ==
  /\ dq[th].pc = "idle"
  /\ th \in Pushers
  /\ \E n \in Node \ called :
       /\ CallPush(th, D, n)
       /\ called' = called \cup {n}
  /\ UNCHANGED <<top, bottom, buffer, pushed, handouts>>

StartPop ==
  /\ dq[Owner].pc = "idle"
  /\ bottom[D] <= MaxIndex
  /\ CallPop(Owner, D)
  /\ UNCHANGED <<top, bottom, buffer, pushed, called, handouts>>

StartSteal(th) ==
  /\ dq[th].pc = "idle"
  /\ th # Owner
  /\ CallSteal(th, D)
  /\ UNCHANGED <<top, bottom, buffer, pushed, called, handouts>>

\* the operation's last step returned node n
HandOut(n) ==
  /\ returned' = returned \cup ({n} \ {NoNode})
  /\ repeats' = IF n \in returned THEN repeats + 1 ELSE repeats

\* a pop whose compare-and-swap failed, about to store t + 1, t being the top_ it
\* found instead of b
RaceLost(f) == f.pc = "pop_bump" /\ f.t # f.b

\* one step inside an operation; the store of bottom_ completes a push
Step(th) ==
  /\ DequeStep(th)
  /\ pushed' = IF dq[th].pc = "push_publish" THEN pushed \cup {dq[th].node}
                                             ELSE pushed
  /\ IF dq'[th].pc = "done" THEN HandOut(dq'[th].node) ELSE UNCHANGED <<returned, repeats>>
  /\ IF RaceLost(dq[th]) THEN lost' = lost + 1 /\ phantom' = dq[th].t
                         ELSE UNCHANGED <<lost, phantom>>
  /\ UNCHANGED called

Finish(th) ==
  /\ dq[th].pc = "done"
  /\ Collect(th)
  /\ UNCHANGED <<top, bottom, buffer, pushed, called, handouts>>

Next ==
  \/ StartPop
  \/ \E th \in Thread : StartPush(th) \/ StartSteal(th) \/ Step(th) \/ Finish(th)

Spec == Init /\ [][Next]_clientVars

-----------------------------------------------------------------------------
TypeOK ==
  /\ DequeTypeOK
  /\ pushed \subseteq Node
  /\ called \subseteq Node
  /\ returned \subseteq Node
  /\ repeats \in Nat /\ lost \in Nat
  /\ phantom \in Int

\* Every pointer in a slot, in a thread's hand or returned by a pop or a steal
\* was handed to push by somebody: execute(node) is never given a pointer that
\* dispatch did not push.
Provenance == Held(called) /\ returned \subseteq called

\* What makes TypeOK, WindowBound and Provenance inductive: only the owner's loop
\* pops, and a thread in push holds a node it was handed.
OnlyOwnerPops == \A th \in Thread : dq[th].pc \in PopPC => th = Owner
PushersHoldNodes == \A th \in Thread : dq[th].pc \in PushPC => dq[th].node \in called

ClientInv ==
  TypeOK /\ DequeInv /\ Provenance /\ OnlyOwnerPops /\ PushersHoldNodes

Quiescent == \A th \in Thread : dq[th].pc = "idle"

\* the nodes a pop or a steal can still find
Window == {buffer[D][SlotOf(i)] : i \in top[D] .. (bottom[D] - 1)}

\* Conservation under the single-owner discipline: when no operation is under
\* way, every node whose push succeeded has been returned or is still in the
\* window, whatever races of pop against steals the threads have been through.
NothingLost == Quiescent => pushed \subseteq (returned \cup Window)

\* an entry of the window that was pushed and has not been returned
Fresh(i) == buffer[D][SlotOf(i)] \in pushed \ returned

\* Under the single-owner discipline a node is handed out once for its push, and
\* again only from a phantom entry: a pop that loses the race for the last entry
\* stores top_ + 1 (task_graph.cpp:122-125), which leaves one index in the window
\* that nothing was pushed to.  There are never more repetitions than lost races,
\* and at rest every entry of the window is owed to somebody, each to one, but the
\* oldest, if that is the phantom and the repetition it stands for is yet to come.
HandedOutOnce ==
  /\ repeats <= lost
  /\ Quiescent =>
       \A i \in top[D] .. (bottom[D] - 1) :
         \/ i = top[D] /\ i = phantom /\ repeats < lost
         \/ Fresh(i) /\ \A j \in (i + 1) .. (bottom[D] - 1) :
                          buffer[D][SlotOf(i)] # buffer[D][SlotOf(j)]

\* Both at once: what a deque owes its owner and its thieves.
DequeConserves == NothingLost /\ HandedOutOnce
=============================================================================
