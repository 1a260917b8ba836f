------------------------------- MODULE Inbox -------------------------------
(***************************************************************************)
(* What MpmcQueue promises its callers: a bounded first-in first-out queue *)
(* whose operations are not quite atomic.                                  *)
(*                                                                         *)
(*   enqueue  reserves the last cell, then publishes its node, or returns  *)
(*            false when the queue is full or a dequeue has not yet        *)
(*            released its slot;                                           *)
(*   dequeue  takes the first cell, then releases its slot, or returns     *)
(*            nullptr when the queue is empty or the first cell is         *)
(*            reserved and not published, even if later cells are.         *)
(*                                                                         *)
(* MpmcQueue is the code of class MpmcQueue and implements this module;    *)
(* TaskGraph uses these actions.                                           *)
(***************************************************************************)
EXTENDS Naturals, Sequences, TaskBase

CONSTANT QueueCap   \* kQueueCap

\* with one slot the sequence numbers of a full and of a free slot coincide
ASSUME InboxAssumption == QueueCap \in Nat \ {0, 1}

VARIABLES
  cells,      \* the reserved and published cells, first to last
  taking      \* thread -> the node of a cell it took and has not released

inboxVars == <<cells, taking>>

\* writer is the enqueuer that has reserved the cell and not yet published it
Cell == [node : Node, writer : {{}} \cup {{th} : th \in Thread}]

InboxInit ==
  /\ cells = <<>>
  /\ taking = [th \in Thread |-> NoNode]

Releasing == {th \in Thread : taking[th] # NoNode}
MyCell(th) == {i \in 1 .. Len(cells) : cells[i].writer = {th}}

HeadReady == cells # <<>> /\ Head(cells).writer = {}

\* enqueue: the compare-and-swap of tail_
Reserve(th, n) ==
  /\ Len(cells) < QueueCap
  /\ cells' = Append(cells, [node |-> n, writer |-> {th}])
  /\ UNCHANGED taking

\* enqueue: the store of slot.seq
Publish(th) ==
  /\ \E i \in MyCell(th) : cells' = [cells EXCEPT ![i].writer = {}]
  /\ UNCHANGED taking

\* enqueue returns false
Full ==
  /\ Len(cells) = QueueCap \/ Releasing # {}
  /\ UNCHANGED inboxVars

\* dequeue: the compare-and-swap of head_
Take(th) ==
  /\ taking[th] = NoNode
  /\ HeadReady
  /\ taking' = [taking EXCEPT ![th] = Head(cells).node]
  /\ cells' = Tail(cells)

\* dequeue: the store of slot.seq
Release(th) ==
  /\ taking[th] # NoNode
  /\ taking' = [taking EXCEPT ![th] = NoNode]
  /\ UNCHANGED cells

\* dequeue returns nullptr
Empty ==
  /\ ~HeadReady
  /\ UNCHANGED inboxVars

-----------------------------------------------------------------------------
InboxNext ==
  \E th \in Thread :
    \/ MyCell(th) = {} /\ taking[th] = NoNode /\ \E n \in Node : Reserve(th, n)
    \/ Publish(th)
    \/ MyCell(th) = {} /\ Take(th)
    \/ Release(th)

InboxSpec == InboxInit /\ [][InboxNext]_inboxVars

InboxTypeOK ==
  /\ cells \in Seq(Cell)
  /\ Len(cells) <= QueueCap
  /\ taking \in [Thread -> MaybeNode]
=============================================================================
