----------------------------- MODULE MpmcQueue -----------------------------
(***************************************************************************)
(* The bounded multi-producer multi-consumer queue that backs the task     *)
(* graph's inbox, class MpmcQueue of src/src/core/task_graph.cpp, one      *)
(* action per access of a shared variable, with any number of threads that *)
(* call enqueue and dequeue in any order.                                  *)
(*                                                                         *)
(* slot.item is not atomic: it is written by the enqueuer that won tail_   *)
(* and read by the dequeuer that won head_, and only the sequence numbers  *)
(* keep them apart.  compare_exchange_weak may also fail spuriously.       *)
(***************************************************************************)
EXTENDS Integers, TaskBase

CONSTANTS
  QueueCap,     \* kQueueCap
  Items,        \* the nodes handed to enqueue
  MaxEnqueues   \* bound on tail_, the number of enqueues that may succeed

ASSUME QueueAssumption ==
  /\ QueueCap \in Nat \ {0, 1}
  /\ Items \subseteq Node
  /\ MaxEnqueues \in Nat

VARIABLES
  seq,    \* slots_[s].seq
  item,   \* slots_[s].item
  head,   \* head_
  tail,   \* tail_
  mq      \* the frame of each thread's current operation

queueVars == <<seq, item, head, tail, mq>>

Place == 0 .. QueueCap - 1
PlaceOf(pos) == pos % QueueCap

EnqPC == {"enq_load", "enq_seq", "enq_cas", "enq_item", "enq_publish"}
DeqPC == {"deq_load", "deq_seq", "deq_cas", "deq_item", "deq_release"}

QueueInit ==
  /\ seq = [s \in Place |-> s]
  /\ item = [s \in Place |-> NoNode]
  /\ head = 0
  /\ tail = 0
  /\ mq = [th \in Thread |-> [pc |-> "idle", pos |-> 0, node |-> NoNode]]

\* the thread's frame after the step: where it is and the pos it goes on with
Goto(th, pc, pos) == mq' = [mq EXCEPT ![th].pc = pc, ![th].pos = pos]
Leave(th) ==
  mq' = [mq EXCEPT ![th] = [pc |-> "idle", pos |-> 0, node |-> NoNode]]

-----------------------------------------------------------------------------
(* enqueue *)

StartEnqueue(th, n) ==
  /\ mq[th].pc = "idle"
  /\ mq' = [mq EXCEPT ![th] = [pc |-> "enq_load", pos |-> 0, node |-> n]]
  /\ UNCHANGED <<seq, item, head, tail>>

EnqLoad(th) ==
  /\ mq[th].pc = "enq_load"
  /\ Goto(th, "enq_seq", tail)
  /\ UNCHANGED <<seq, item, head, tail>>

\* Mutant: a full queue is not noticed.
EnqSeq_NoFullTest(th) ==
  /\ mq[th].pc = "enq_seq"
  /\ LET dif == seq[PlaceOf(mq[th].pos)] - mq[th].pos
     IN \/ dif <= 0 /\ Goto(th, "enq_cas", mq[th].pos)
        \/ dif > 0 /\ Goto(th, "enq_load", 0)
  /\ UNCHANGED <<seq, item, head, tail>>

\* Mutant: a position another thread has used up counts as a full queue.
EnqSeq_NoReload(th) ==
  /\ mq[th].pc = "enq_seq"
  /\ LET dif == seq[PlaceOf(mq[th].pos)] - mq[th].pos
     IN \/ dif = 0 /\ Goto(th, "enq_cas", mq[th].pos)
        \/ dif # 0 /\ Leave(th)
  /\ UNCHANGED <<seq, item, head, tail>>

EnqSeq(th) ==
  /\ mq[th].pc = "enq_seq"
  /\ LET dif == seq[PlaceOf(mq[th].pos)] - mq[th].pos
     IN \/ dif = 0 /\ Goto(th, "enq_cas", mq[th].pos)
        \/ dif < 0 /\ Leave(th)
        \/ dif > 0 /\ Goto(th, "enq_load", 0)
  /\ UNCHANGED <<seq, item, head, tail>>

EnqCas(th) ==
  /\ mq[th].pc = "enq_cas"
  /\ \/ /\ tail = mq[th].pos
        /\ tail < MaxEnqueues
        /\ tail' = tail + 1
        /\ Goto(th, "enq_item", mq[th].pos)
     \/ Goto(th, "enq_seq", tail) /\ UNCHANGED tail
  /\ UNCHANGED <<seq, item, head>>

EnqItem(th) ==
  /\ mq[th].pc = "enq_item"
  /\ item' = [item EXCEPT ![PlaceOf(mq[th].pos)] = mq[th].node]
  /\ Goto(th, "enq_publish", mq[th].pos)
  /\ UNCHANGED <<seq, head, tail>>

EnqPublish(th) ==
  /\ mq[th].pc = "enq_publish"
  /\ seq' = [seq EXCEPT ![PlaceOf(mq[th].pos)] = mq[th].pos + 1]
  /\ Leave(th)
  /\ UNCHANGED <<item, head, tail>>

-----------------------------------------------------------------------------
(* dequeue *)

StartDequeue(th) ==
  /\ mq[th].pc = "idle"
  /\ Goto(th, "deq_load", 0)
  /\ UNCHANGED <<seq, item, head, tail>>

DeqLoad(th) ==
  /\ mq[th].pc = "deq_load"
  /\ Goto(th, "deq_seq", head)
  /\ UNCHANGED <<seq, item, head, tail>>

DeqSeq(th) ==
  /\ mq[th].pc = "deq_seq"
  /\ LET dif == seq[PlaceOf(mq[th].pos)] - (mq[th].pos + 1)
     IN \/ dif = 0 /\ Goto(th, "deq_cas", mq[th].pos)
        \/ dif < 0 /\ Leave(th)
        \/ dif > 0 /\ Goto(th, "deq_load", 0)
  /\ UNCHANGED <<seq, item, head, tail>>

\* Mutant: head_ is stored without comparing it.
DeqCas_PlainStore(th) ==
  /\ mq[th].pc = "deq_cas"
  /\ head' = mq[th].pos + 1
  /\ Goto(th, "deq_item", mq[th].pos)
  /\ UNCHANGED <<seq, item, tail>>

DeqCas(th) ==
  /\ mq[th].pc = "deq_cas"
  /\ \/ /\ head = mq[th].pos
        /\ head' = head + 1
        /\ Goto(th, "deq_item", mq[th].pos)
     \/ Goto(th, "deq_seq", head) /\ UNCHANGED head
  /\ UNCHANGED <<seq, item, tail>>

DeqItem(th) ==
  /\ mq[th].pc = "deq_item"
  /\ mq' = [mq EXCEPT ![th].pc = "deq_release",
                      ![th].node = item[PlaceOf(mq[th].pos)]]
  /\ UNCHANGED <<seq, item, head, tail>>

DeqRelease(th) ==
  /\ mq[th].pc = "deq_release"
  /\ seq' = [seq EXCEPT ![PlaceOf(mq[th].pos)] = mq[th].pos + QueueCap]
  /\ Leave(th)
  /\ UNCHANGED <<item, head, tail>>

-----------------------------------------------------------------------------
Enqueue(th) ==
  \/ \E n \in Items : StartEnqueue(th, n)
  \/ EnqLoad(th) \/ EnqSeq(th) \/ EnqCas(th) \/ EnqItem(th) \/ EnqPublish(th)

Dequeue(th) ==
  \/ StartDequeue(th)
  \/ DeqLoad(th) \/ DeqSeq(th) \/ DeqCas(th) \/ DeqItem(th) \/ DeqRelease(th)

QueueNext == \E th \in Thread : Enqueue(th) \/ Dequeue(th)

QueueSpec == QueueInit /\ [][QueueNext]_queueVars

-----------------------------------------------------------------------------
QueueTypeOK ==
  /\ seq \in [Place -> Nat]
  /\ item \in [Place -> MaybeNode]
  /\ head \in Nat /\ tail \in 0 .. MaxEnqueues
  /\ mq \in [Thread -> [pc : EnqPC \cup DeqPC \cup {"idle"}, pos : Nat,
                        node : MaybeNode]]

\* Two threads never touch the non-atomic item of one slot at the same time
\* when one of them writes it: the sequence numbers alone exclude an enqueuer of
\* a later lap from a slot whose dequeuer has not released it.
NoItemRace ==
  \A a, b \in Thread :
    a # b /\ mq[a].pc \in {"enq_item", "enq_publish"}
          /\ mq[b].pc \in {"enq_item", "enq_publish", "deq_item", "deq_release"}
      => PlaceOf(mq[a].pos) # PlaceOf(mq[b].pos)

\* A dequeuer that has won a position reads the node published at that position:
\* null is never handed on as a task, and head_ never overtakes tail_.
TakesPublished ==
  /\ head <= tail /\ tail <= head + QueueCap
  /\ \A th \in Thread :
       /\ mq[th].pc = "deq_item" => item[PlaceOf(mq[th].pos)] # NoNode
       /\ mq[th].pc = "deq_release" => mq[th].node # NoNode

\* what a thread in the queue may rely on
QueueInv == QueueTypeOK /\ NoItemRace /\ TakesPublished

Writing(th) == mq[th].pc \in {"enq_item", "enq_publish"}

-----------------------------------------------------------------------------
(* The code implements the bounded queue of Inbox. *)

Writer(pos) == {th \in Thread : Writing(th) /\ mq[th].pos = pos}

\* the cells at the positions between head_ and tail_
CellAt ==
  [pos \in head .. (tail - 1) |->
     [node   |-> IF Writer(pos) = {} THEN item[PlaceOf(pos)]
                 ELSE mq[CHOOSE th \in Writer(pos) : TRUE].node,
      writer |-> Writer(pos)]]

cellsBar == [i \in 1 .. (tail - head) |-> CellAt[head + i - 1]]

takingBar == [th \in Thread |->
                IF mq[th].pc = "deq_item" THEN item[PlaceOf(mq[th].pos)]
                ELSE IF mq[th].pc = "deq_release" THEN mq[th].node
                ELSE NoNode]

Abstract == INSTANCE Inbox WITH cells <- cellsBar, taking <- takingBar

\* Every step of the queue's code is a step of the bounded queue of Inbox or
\* invisible: nodes come out once each, in the order their cells were reserved.
ImplementsInbox == Abstract!InboxSpec

\* The answers that change nothing are honest when they are decided, although
\* the position they are decided from was read earlier: enqueue returns false
\* only when the queue is full or a slot is not yet released, dequeue nullptr
\* only when the first cell is missing or not yet published.
HonestAnswers ==
  [][\A th \in Thread :
       mq'[th].pc = "idle" =>
         /\ mq[th].pc = "enq_seq" => Abstract!Full
         /\ mq[th].pc = "deq_seq" => Abstract!Empty]_queueVars
=============================================================================
