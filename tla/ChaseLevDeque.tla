--------------------------- MODULE ChaseLevDeque ---------------------------
(***************************************************************************)
(* The per-worker work-stealing deque of the task graph, class             *)
(* ChaseLevDeque of src/src/core/task_graph.cpp, one action per load,      *)
(* store or compare-and-swap of a shared variable.                         *)
(*                                                                         *)
(* A thread that is inside push, pop or steal has a frame dq[th]: the      *)
(* operation's program counter, the deque it works on, and its locals      *)
(* node, b and t.  A finished operation leaves pc = "done" and its result  *)
(* in node (NoNode is nullptr) and ok (the return value of push); the      *)
(* caller collects it and returns the frame to Idle.                       *)
(*                                                                         *)
(* Which thread may call which operation on which deque is the caller's    *)
(* business: DequeClient and TaskGraph are two callers.  Memory is         *)
(* sequentially consistent.                                                *)
(***************************************************************************)
EXTENDS Integers, TaskBase

CONSTANTS
  Deque,      \* the deques, one per worker
  DequeCap    \* kDequeCap, the number of slots of a ring

ASSUME DequeAssumption == DequeCap \in Nat \ {0}

VARIABLES
  top,        \* top_ of each deque
  bottom,     \* bottom_ of each deque
  buffer,     \* buffer_ of each deque: slot -> node
  dq          \* the frame of each thread's current deque operation

dequeVars == <<top, bottom, buffer, dq>>

Slot == 0 .. DequeCap - 1

PushPC  == {"push_bottom", "push_top", "push_store", "push_publish"}
PopPC   == {"pop_bottom", "pop_claim", "pop_top", "pop_restore", "pop_read",
            "pop_cas", "pop_bump"}
StealPC == {"steal_top", "steal_bottom", "steal_read", "steal_cas"}
DequePC == PushPC \cup PopPC \cup StealPC \cup {"idle", "done"}

Frame == [pc : DequePC, d : Deque, node : MaybeNode, b : Int, t : Nat,
          ok : BOOLEAN]

\* index & (kDequeCap - 1), of an index that may be -1
SlotOf(i) == i % DequeCap

DequeInit ==
  /\ top = [d \in Deque |-> 0]
  /\ bottom = [d \in Deque |-> 0]
  /\ buffer = [d \in Deque |-> [s \in Slot |-> NoNode]]
  /\ dq = [th \in Thread |-> [pc |-> "idle", d |-> CHOOSE d \in Deque : TRUE,
                              node |-> NoNode, b |-> 0, t |-> 0, ok |-> FALSE]]

-----------------------------------------------------------------------------
(* Calls and returns *)

\* the thread's frame after the step, in an operation on deque d
SetFrame(th, pc, d, n, b, t, ok) ==
  dq' = [dq EXCEPT ![th] = [pc |-> pc, d |-> d, node |-> n, b |-> b, t |-> t,
                            ok |-> ok]]

At(th, pc, n, b, t) == SetFrame(th, pc, dq[th].d, n, b, t, FALSE)
Call(th, pc, d, n)  == SetFrame(th, pc, d, n, 0, 0, FALSE)

CallPush(th, d, n) == Call(th, "push_bottom", d, n)
CallPop(th, d)     == Call(th, "pop_bottom", d, NoNode)
CallSteal(th, d)   == Call(th, "steal_top", d, NoNode)

\* the operation returns node (pop, steal) or ok (push); dead locals are cleared
Return(th, n, ok) == SetFrame(th, "done", dq[th].d, n, 0, 0, ok)

\* the caller has used the result
Collect(th) == Call(th, "idle", dq[th].d, NoNode)

InDeque(th) == dq[th].pc \notin {"idle", "done"}

-----------------------------------------------------------------------------
(* push *)

PushBottom(th) ==
  /\ dq[th].pc = "push_bottom"
  /\ At(th, "push_top", dq[th].node, bottom[dq[th].d], 0)
  /\ UNCHANGED <<top, bottom, buffer>>

\* Mutant: the full test is off by one.
PushTop_OffByOne(th) ==
  /\ dq[th].pc = "push_top"
  /\ \/ /\ dq[th].b - top[dq[th].d] > DequeCap
        /\ Return(th, NoNode, FALSE)
     \/ /\ dq[th].b - top[dq[th].d] <= DequeCap
        /\ At(th, "push_store", dq[th].node, dq[th].b, 0)
  /\ UNCHANGED <<top, bottom, buffer>>

PushTop(th) ==
  /\ dq[th].pc = "push_top"
  /\ \/ /\ dq[th].b - top[dq[th].d] >= DequeCap
        /\ Return(th, NoNode, FALSE)
     \/ /\ dq[th].b - top[dq[th].d] < DequeCap
        /\ At(th, "push_store", dq[th].node, dq[th].b, 0)
  /\ UNCHANGED <<top, bottom, buffer>>

PushStore(th) ==
  /\ dq[th].pc = "push_store"
  /\ buffer' = [buffer EXCEPT ![dq[th].d][SlotOf(dq[th].b)] = dq[th].node]
  /\ At(th, "push_publish", dq[th].node, dq[th].b, 0)
  /\ UNCHANGED <<top, bottom>>

PushPublish(th) ==
  /\ dq[th].pc = "push_publish"
  /\ bottom' = [bottom EXCEPT ![dq[th].d] = dq[th].b + 1]
  /\ Return(th, NoNode, TRUE)
  /\ UNCHANGED <<top, buffer>>

-----------------------------------------------------------------------------
(* pop *)

PopBottom(th) ==
  /\ dq[th].pc = "pop_bottom"
  /\ At(th, "pop_claim", NoNode, bottom[dq[th].d] - 1, 0)
  /\ UNCHANGED <<top, bottom, buffer>>

PopClaim(th) ==
  /\ dq[th].pc = "pop_claim"
  /\ bottom' = [bottom EXCEPT ![dq[th].d] = dq[th].b]
  /\ At(th, "pop_top", NoNode, dq[th].b, 0)
  /\ UNCHANGED <<top, buffer>>

PopTop(th) ==
  /\ dq[th].pc = "pop_top"
  /\ At(th, IF top[dq[th].d] > dq[th].b THEN "pop_restore" ELSE "pop_read",
        NoNode, dq[th].b, top[dq[th].d])
  /\ UNCHANGED <<top, bottom, buffer>>

\* Mutant: an empty pop does not restore bottom_.
PopRestore_Missing(th) ==
  /\ dq[th].pc = "pop_restore"
  /\ Return(th, NoNode, FALSE)
  /\ UNCHANGED <<top, bottom, buffer>>

PopRestore(th) ==
  /\ dq[th].pc = "pop_restore"
  /\ bottom' = [bottom EXCEPT ![dq[th].d] = dq[th].t]
  /\ Return(th, NoNode, FALSE)
  /\ UNCHANGED <<top, buffer>>

PopRead(th) ==
  /\ dq[th].pc = "pop_read"
  /\ LET n == buffer[dq[th].d][SlotOf(dq[th].b)]
     IN \/ dq[th].t # dq[th].b /\ Return(th, n, FALSE)
        \/ dq[th].t = dq[th].b /\ At(th, "pop_cas", n, dq[th].b, dq[th].t)
  /\ UNCHANGED <<top, bottom, buffer>>

\* Mutant: the pop that loses the race for the last entry returns the node as well.
PopCas_LoserReturns(th) ==
  /\ dq[th].pc = "pop_cas"
  /\ LET d == dq[th].d
     IN \/ /\ top[d] = dq[th].t
           /\ top' = [top EXCEPT ![d] = dq[th].t + 1]
           /\ At(th, "pop_bump", dq[th].node, dq[th].b, dq[th].t)
        \/ /\ top[d] # dq[th].t
           /\ UNCHANGED top
           /\ At(th, "pop_bump", dq[th].node, dq[th].b, top[d])
  /\ UNCHANGED <<bottom, buffer>>

\* compare_exchange_strong: a failure writes the current top_ into t, the local
\* that the next store of bottom_ uses
PopCas(th) ==
  /\ dq[th].pc = "pop_cas"
  /\ LET d == dq[th].d
     IN \/ /\ top[d] = dq[th].t
           /\ top' = [top EXCEPT ![d] = dq[th].t + 1]
           /\ At(th, "pop_bump", dq[th].node, dq[th].b, dq[th].t)
        \/ /\ top[d] # dq[th].t
           /\ UNCHANGED top
           /\ At(th, "pop_bump", NoNode, dq[th].b, top[d])
  /\ UNCHANGED <<bottom, buffer>>

PopBump(th) ==
  /\ dq[th].pc = "pop_bump"
  /\ bottom' = [bottom EXCEPT ![dq[th].d] = dq[th].t + 1]
  /\ Return(th, dq[th].node, FALSE)
  /\ UNCHANGED <<top, buffer>>

-----------------------------------------------------------------------------
(* steal *)

StealTop(th) ==
  /\ dq[th].pc = "steal_top"
  /\ At(th, "steal_bottom", NoNode, 0, top[dq[th].d])
  /\ UNCHANGED <<top, bottom, buffer>>

StealBottom(th) ==
  /\ dq[th].pc = "steal_bottom"
  /\ \/ dq[th].t >= bottom[dq[th].d] /\ Return(th, NoNode, FALSE)
     \/ dq[th].t < bottom[dq[th].d] /\ At(th, "steal_read", NoNode, 0, dq[th].t)
  /\ UNCHANGED <<top, bottom, buffer>>

StealRead(th) ==
  /\ dq[th].pc = "steal_read"
  /\ At(th, "steal_cas", buffer[dq[th].d][SlotOf(dq[th].t)], 0, dq[th].t)
  /\ UNCHANGED <<top, bottom, buffer>>

StealCas(th) ==
  /\ dq[th].pc = "steal_cas"
  /\ LET d == dq[th].d
     IN \/ /\ top[d] = dq[th].t
           /\ top' = [top EXCEPT ![d] = dq[th].t + 1]
           /\ Return(th, dq[th].node, FALSE)
        \/ /\ top[d] # dq[th].t
           /\ UNCHANGED top
           /\ Return(th, NoNode, FALSE)
  /\ UNCHANGED <<bottom, buffer>>

-----------------------------------------------------------------------------
DequeStep(th) ==
  \/ PushBottom(th) \/ PushTop(th) \/ PushStore(th) \/ PushPublish(th)
  \/ PopBottom(th) \/ PopClaim(th) \/ PopTop(th) \/ PopRestore(th)
  \/ PopRead(th) \/ PopCas(th) \/ PopBump(th)
  \/ StealTop(th) \/ StealBottom(th) \/ StealRead(th) \/ StealCas(th)

-----------------------------------------------------------------------------
DequeTypeOK ==
  /\ top \in [Deque -> Nat]
  /\ bottom \in [Deque -> Int]
  /\ buffer \in [Deque -> [Slot -> MaybeNode]]
  /\ dq \in [Thread -> Frame]

\* The window [top, bottom) never spans more than the ring: whatever threads
\* push concurrently, the full test of push (task_graph.cpp:100) keeps two live
\* indices from sharing a slot, and no interleaving drives bottom_ below -1,
\* the value an owner's pop of an empty fresh deque stores for a moment.
WindowBound ==
  \A d \in Deque : bottom[d] >= -1 /\ bottom[d] <= top[d] + DequeCap

\* top_ is only ever advanced, by one, by the compare-and-swap of a pop or a
\* steal: the index a thief validates with its own CAS cannot come back (no ABA).
TopMonotone ==
  [][\A d \in Deque : top'[d] \in {top[d], top[d] + 1}]_top

\* What makes WindowBound inductive, for a deque that one thread at a time pops.
\* A local copy of bottom_ never reaches past the ring (the copy was in bounds
\* when it was loaded and top_ only grows), a local copy of top_ never passes
\* top_, and bottom_ is negative only while the popper that stored it has yet to
\* restore it.
OnePopper ==
  \A p, q \in Thread :
    dq[p].pc \in PopPC /\ dq[q].pc \in PopPC /\ dq[p].d = dq[q].d => p = q

LocalsInWindow(f) ==
  /\ f.pc \in {"push_top", "push_store", "push_publish"} \cup
             {"pop_claim", "pop_top", "pop_read", "pop_restore", "pop_cas"}
       => f.b >= -1
  /\ f.pc = "push_top" \/ f.pc \in {"pop_claim", "pop_top"}
       => f.b <= top[f.d] + DequeCap
  /\ f.pc \in {"push_store", "push_publish"} => f.b < top[f.d] + DequeCap
  /\ f.pc \in {"pop_restore", "pop_read", "pop_cas", "pop_bump"}
       => f.t <= top[f.d]
  /\ f.pc \in {"pop_read", "pop_cas"} => f.t <= f.b

BottomRestored ==
  \A d \in Deque : bottom[d] < 0 =>
    \E th \in Thread : /\ dq[th].pc \in {"pop_top", "pop_restore"}
                       /\ dq[th].d = d /\ dq[th].b = -1

DequeInv ==
  /\ DequeTypeOK
  /\ WindowBound
  /\ OnePopper
  /\ \A th \in Thread : LocalsInWindow(dq[th])
  /\ BottomRestored

\* A slot's content a thread may still return: what pop and steal hand out is
\* null or a node that some push stored (no torn or invented pointers).
Held(ns) ==
  /\ \A d \in Deque, s \in Slot : buffer[d][s] \in ns \cup {NoNode}
  /\ \A th \in Thread : dq[th].node \in ns \cup {NoNode}
=============================================================================
