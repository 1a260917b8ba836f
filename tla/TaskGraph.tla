----------------------------- MODULE TaskGraph -----------------------------
(***************************************************************************)
(* The work-stealing task graph, struct TaskGraph::Impl and class          *)
(* TaskGraph of src/src/core/task_graph.cpp: the worker threads, the       *)
(* client thread that builds, submits, awaits, resets and destroys graphs, *)
(* the deques of ChaseLevDeque and the queue of Inbox between them.        *)
(*                                                                         *)
(* A thread's state is                                                     *)
(*   loc   where it is in worker_loop / take_task, or in the client call;  *)
(*   idx   its loop counter (victim of a steal, task of the submit loop);  *)
(*   stk   the activation records of execute, innermost last (dispatch     *)
(*         calls execute when every queue is full);                        *)
(*   dsp   how far it is in a call of dispatch;                            *)
(* and its frame of the deque operation, dq.                               *)
(*                                                                         *)
(* A task is one call of create_task, numbered in order; its number stands *)
(* for the function pointer in invoke and for the callable constructed in  *)
(* the node.                                                               *)
(***************************************************************************)
EXTENDS ChaseLevDeque, Inbox, FiniteSets, SequencesExt

CONSTANTS
  NumWorkers,     \* workers_.size()
  Main,           \* the client's thread
  Pool,           \* the nodes of node_pool_ in the order it first hands them out
  Lane,           \* the task lanes in use
  Preferred,      \* Worker::preferred of each worker
  MaxSuccessors,  \* kMaxSuccessors
  CounterMod,     \* 2^32: pending and outstanding_ are 32-bit counters
  MaxCreates,     \* bound on the calls of create_task
  MaxEdges,       \* bound on the calls of add_dependency
  MaxResets,      \* bound on the calls of reset
  MaxSetups,      \* bound on the calls of both together
  LiveCreates,    \* whether the client creates tasks after submit
  MaxIndex        \* bound on bottom_ beyond which a worker pops no more

ASSUME TaskGraphAssumption ==
  /\ NumWorkers \in Nat \ {0}
  /\ Deque = 0 .. NumWorkers - 1
  /\ Main \notin Deque
  /\ Thread = Deque \cup {Main}
  /\ Pool \in Seq(Node) /\ IsInjective(Pool)
  /\ Preferred \in [Deque -> Lane]
  /\ MaxSuccessors \in Nat
  /\ CounterMod \in Nat \ {0, 1}
  /\ MaxCreates \in Nat
  /\ MaxEdges \in Nat
  /\ MaxResets \in Nat
  /\ MaxSetups \in Nat
  /\ LiveCreates \in BOOLEAN
  /\ MaxIndex \in Nat

\* A task that has not finished has a node or, past recycle, a thread: 2^32 of
\* them do not fit into memory.
ASSUME CounterAssumption ==
  /\ IsFiniteSet(Node)
  /\ Cardinality(Node) + Cardinality(Thread) < CounterMod

VARIABLES
  invoke, callable, pending, successors, lane,  \* the fields of each TaskNode
  pool,         \* node_pool_: its free blocks, next to allocate first
  tasks,        \* tasks_[0 .. task_count_)
  freeNodes,    \* free_nodes_
  outstanding,  \* outstanding_
  submitted,    \* submitted_
  stop,         \* stop_
  laneRr,       \* lane_rr_ of each lane, modulo the number of workers
  loc, idx, stk, dsp,
  resetting,    \* the wait under way was called by reset
  resets,       \* history: how often the graph has been reset
  created,      \* history: how many tasks have been created
  batch,        \* history: the tasks created before the last reset
  handle,       \* the TaskHandle of each task
  prereq,       \* history: the edges add_dependency has added
  runs          \* history: how often each task's body has run

nodeVars == <<invoke, callable, pending, successors, lane>>
poolVars == <<pool, tasks, freeNodes>>
flagVars == <<outstanding, submitted, stop, laneRr>>
threadVars == <<loc, idx, stk, dsp>>
histVars == <<resetting, resets, created, batch, handle, prereq, runs>>
vars == <<dequeVars, inboxVars, nodeVars, poolVars, flagVars, threadVars,
          histVars>>

Worker == Deque
Task == 1 .. MaxCreates
NoTask == 0
MaybeTask == Task \cup {NoTask}

\* one activation of execute
Activation == [node : Node, task : Task, i : Nat \ {0},
               at : {"body", "succ", "free", "retire"}]
NotDispatching == [at |-> "none", node |-> NoNode]

Dec(c) == (c - 1) % CounterMod
Inc(c) == (c + 1) % CounterMod

Init ==
  /\ DequeInit
  /\ InboxInit
  /\ invoke = [n \in Node |-> NoTask]
  /\ callable = [n \in Node |-> NoTask]
  /\ pending = [n \in Node |-> 0]
  /\ successors = [n \in Node |-> <<>>]
  /\ lane \in [Node -> {CHOOSE l \in Lane : TRUE}]
  /\ pool = Pool
  /\ tasks = <<>>
  /\ freeNodes = <<>>
  /\ outstanding = 0
  /\ submitted = FALSE
  /\ stop = FALSE
  /\ laneRr = [l \in Lane |-> 0]
  /\ loc = [th \in Thread |-> IF th = Main THEN "client" ELSE "loop"]
  /\ idx = [th \in Thread |-> 0]
  /\ stk = [th \in Thread |-> <<>>]
  /\ dsp = [th \in Thread |-> NotDispatching]
  /\ resetting = FALSE
  /\ resets = 0
  /\ created = 0
  /\ batch = 0
  /\ handle = [t \in Task |-> NoNode]
  /\ prereq = {}
  /\ runs = [t \in Task |-> 0]

-----------------------------------------------------------------------------
(* Control of a thread *)

Dispatching(th) == dsp[th].at # "none"
Executing(th) == stk[th] # <<>> /\ ~Dispatching(th)
AtHome(th, l) == loc[th] = l /\ stk[th] = <<>> /\ ~Dispatching(th)

Frm(th) == stk[th][Len(stk[th])]
Goto(th, l) == loc' = [loc EXCEPT ![th] = l]
FrmTo(th, i, at) ==
  stk' = [stk EXCEPT ![th] = [@ EXCEPT ![Len(stk[th])] =
            [node |-> Frm(th).node, task |-> Frm(th).task, i |-> i, at |-> at]]]

\* where take_task or help is entered again
Home(th) == IF th = Main THEN "wait" ELSE "loop"

-----------------------------------------------------------------------------
(* execute *)

\* Mutant: invoke is loaded, not exchanged.
Enter_NoExchange(th, n) ==
  \/ invoke[n] = NoTask /\ UNCHANGED <<invoke, stk>>
  \/ /\ invoke[n] # NoTask
     /\ UNCHANGED invoke
     /\ stk' = [stk EXCEPT ![th] = Append(@,
                  [node |-> n, task |-> invoke[n], i |-> 1, at |-> "body"])]

\* node->invoke.exchange(nullptr), and the return when it was null
Enter(th, n) ==
  \/ /\ invoke[n] = NoTask
     /\ UNCHANGED <<invoke, stk>>
  \/ /\ invoke[n] # NoTask
     /\ invoke' = [invoke EXCEPT ![n] = NoTask]
     /\ stk' = [stk EXCEPT ![th] = Append(@,
                  [node |-> n, task |-> invoke[n], i |-> 1, at |-> "body"])]

\* fn(node->callable)
Body(th) ==
  /\ Executing(th) /\ Frm(th).at = "body"
  /\ runs' = [runs EXCEPT ![Frm(th).task] = @ + 1]
  /\ FrmTo(th, 1, "succ")
  /\ UNCHANGED <<dequeVars, inboxVars, nodeVars, poolVars, flagVars, loc, idx,
                 dsp, resetting, resets, created, batch, handle,
                 prereq>>

\* pick_worker: the next worker round robin, from there the first that prefers
\* the lane
PickWorker(l) ==
  LET at(k) == (laneRr[l] + k) % NumWorkers
      fits == {k \in 0 .. NumWorkers - 1 : Preferred[at(k)] = l}
  IN IF fits = {} THEN at(0)
     ELSE at(CHOOSE k \in fits : \A j \in fits : k <= j)

\* dispatch(n) is called: a worker is picked and its deque's push entered
Dispatch(th, n) ==
  /\ laneRr' = [laneRr EXCEPT ![lane[n]] = (@ + 1) % NumWorkers]
  /\ CallPush(th, PickWorker(lane[n]), n)
  /\ dsp' = [dsp EXCEPT ![th] = [at |-> "push", node |-> n]]
  /\ UNCHANGED <<top, bottom, buffer>>

\* Mutant: every decrement dispatches the successor.
Successor_NotLast(th) ==
  /\ Executing(th) /\ Frm(th).at = "succ"
  /\ Frm(th).i <= Len(successors[Frm(th).node])
  /\ LET s == successors[Frm(th).node][Frm(th).i]
     IN /\ pending' = [pending EXCEPT ![s] = Dec(@)]
        /\ Dispatch(th, s)
  /\ FrmTo(th, Frm(th).i + 1, "succ")
  /\ UNCHANGED <<inboxVars, invoke, callable, successors, lane, poolVars,
                 outstanding, submitted, stop, loc, idx, histVars>>

\* a successor's pending.fetch_sub(1), and its dispatch when that was the last
Successor(th) ==
  /\ Executing(th) /\ Frm(th).at = "succ"
  /\ Frm(th).i <= Len(successors[Frm(th).node])
  /\ LET s == successors[Frm(th).node][Frm(th).i]
     IN /\ pending' = [pending EXCEPT ![s] = Dec(@)]
        /\ \/ pending[s] = 1 /\ Dispatch(th, s)
           \/ pending[s] # 1 /\ UNCHANGED <<dequeVars, laneRr, dsp>>
  /\ FrmTo(th, Frm(th).i + 1, "succ")
  /\ UNCHANGED <<inboxVars, invoke, callable, successors, lane, poolVars,
                 outstanding, submitted, stop, loc, idx, histVars>>

\* recycle, up to the lock of free_mu_
Recycle(th) ==
  /\ Executing(th) /\ Frm(th).at = "succ"
  /\ LET n == Frm(th).node
     IN /\ Frm(th).i > Len(successors[n])
        /\ callable' = [callable EXCEPT ![n] = NoTask]
        /\ invoke' = [invoke EXCEPT ![n] = NoTask]
        /\ successors' = [successors EXCEPT ![n] = <<>>]
        /\ pending' = [pending EXCEPT ![n] = 0]
  /\ FrmTo(th, 1, "free")
  /\ UNCHANGED <<dequeVars, inboxVars, lane, poolVars, flagVars, loc, idx, dsp,
                 histVars>>

\* free_nodes_.push_back(node)
FreeNode(th) ==
  /\ Executing(th) /\ Frm(th).at = "free"
  /\ freeNodes' = Append(freeNodes, Frm(th).node)
  /\ FrmTo(th, 1, "retire")
  /\ UNCHANGED <<dequeVars, inboxVars, nodeVars, pool, tasks, flagVars, loc,
                 idx, dsp, histVars>>

\* Mutant: execute returns without counting the task off.
Retire_NotCounted(th) ==
  /\ Executing(th) /\ Frm(th).at = "retire"
  /\ stk' = [stk EXCEPT ![th] = SubSeq(@, 1, Len(@) - 1)]
  /\ UNCHANGED <<dequeVars, inboxVars, nodeVars, poolVars, flagVars, loc, idx,
                 dsp, histVars>>

\* outstanding_.fetch_sub(1), and the return of execute
Retire(th) ==
  /\ Executing(th) /\ Frm(th).at = "retire"
  /\ outstanding' = Dec(outstanding)
  /\ stk' = [stk EXCEPT ![th] = SubSeq(@, 1, Len(@) - 1)]
  /\ UNCHANGED <<dequeVars, inboxVars, nodeVars, poolVars, submitted, stop,
                 laneRr, loc, idx, dsp, histVars>>

-----------------------------------------------------------------------------
(* dispatch: the deque, else the inbox, else execute *)

DispatchPushed(th) ==
  /\ dsp[th].at = "push" /\ dq[th].pc = "done"
  /\ Collect(th)
  /\ \/ dq[th].ok /\ dsp' = [dsp EXCEPT ![th] = NotDispatching]
     \/ ~dq[th].ok /\ dsp' = [dsp EXCEPT ![th] =
                               [at |-> "inbox", node |-> dsp[th].node]]
  /\ UNCHANGED <<top, bottom, buffer, inboxVars, nodeVars, poolVars, flagVars,
                 loc, idx, stk, histVars>>

DispatchReserve(th) ==
  /\ dsp[th].at = "inbox"
  /\ Reserve(th, dsp[th].node)
  /\ dsp' = [dsp EXCEPT ![th] = [at |-> "publish", node |-> dsp[th].node]]
  /\ UNCHANGED <<dequeVars, nodeVars, poolVars, flagVars, loc, idx, stk,
                 histVars>>

DispatchPublish(th) ==
  /\ dsp[th].at = "publish"
  /\ Publish(th)
  /\ dsp' = [dsp EXCEPT ![th] = NotDispatching]
  /\ UNCHANGED <<dequeVars, nodeVars, poolVars, flagVars, loc, idx, stk,
                 histVars>>

DispatchInline(th) ==
  /\ dsp[th].at = "inbox"
  /\ Full
  /\ Enter(th, dsp[th].node)
  /\ dsp' = [dsp EXCEPT ![th] = NotDispatching]
  /\ UNCHANGED <<dequeVars, callable, pending, successors, lane, poolVars,
                 flagVars, loc, idx, histVars>>

Deques(th) ==
  /\ DequeStep(th)
  /\ UNCHANGED <<inboxVars, nodeVars, poolVars, flagVars, threadVars, histVars>>

ExecuteStep(th) ==
  \/ Body(th) \/ Successor(th) \/ Recycle(th) \/ FreeNode(th) \/ Retire(th)
  \/ DispatchPushed(th) \/ DispatchReserve(th) \/ DispatchPublish(th)
  \/ DispatchInline(th) \/ Deques(th)

-----------------------------------------------------------------------------
(* take_task and help *)

\* the victim of the k-th steal: task_graph.cpp:299 and 317
Victim(th, k) == IF th = Main THEN k ELSE (th + k) % NumWorkers
FirstVictim(th) == IF th = Main THEN 0 ELSE 1

\* steal from the k-th victim, or give up after the last
StealFrom(th, k) ==
  \/ /\ k < NumWorkers
     /\ CallSteal(th, Victim(th, k))
     /\ Goto(th, "stealing")
     /\ idx' = [idx EXCEPT ![th] = k]
  \/ /\ k >= NumWorkers
     /\ Collect(th)
     /\ Goto(th, Home(th))
     /\ idx' = [idx EXCEPT ![th] = 0]

\* the inbox's turn: a worker's pop has found nothing, or the client helps
InboxTurn(th) ==
  \/ AtHome(th, "popping") /\ dq[th].pc = "done" /\ dq[th].node = NoNode
  \/ AtHome(th, "help")

TakeInbox(th) ==
  /\ InboxTurn(th)
  /\ Take(th)
  /\ Collect(th)
  /\ Goto(th, "releasing")
  /\ UNCHANGED <<top, bottom, buffer, nodeVars, poolVars, flagVars, idx, stk,
                 dsp, histVars>>

InboxEmpty(th) ==
  /\ InboxTurn(th)
  /\ Empty
  /\ StealFrom(th, FirstVictim(th))
  /\ UNCHANGED <<top, bottom, buffer, nodeVars, poolVars, flagVars, stk, dsp,
                 histVars>>

\* the slot is released and the node taken from it executed
ReleaseAndEnter(th) ==
  /\ AtHome(th, "releasing")
  /\ Release(th)
  /\ Enter(th, taking[th])
  /\ Goto(th, Home(th))
  /\ UNCHANGED <<dequeVars, callable, pending, successors, lane, poolVars,
                 flagVars, idx, dsp, histVars>>

\* the node a pop or a steal returned is executed
EnterTaken(th) ==
  /\ AtHome(th, "popping") \/ AtHome(th, "stealing")
  /\ dq[th].pc = "done" /\ dq[th].node # NoNode
  /\ Collect(th)
  /\ Enter(th, dq[th].node)
  /\ Goto(th, Home(th))
  /\ idx' = [idx EXCEPT ![th] = 0]
  /\ UNCHANGED <<top, bottom, buffer, inboxVars, callable, pending, successors,
                 lane, poolVars, flagVars, dsp, histVars>>

StealFailed(th) ==
  /\ AtHome(th, "stealing")
  /\ dq[th].pc = "done" /\ dq[th].node = NoNode
  /\ StealFrom(th, idx[th] + 1)
  /\ UNCHANGED <<top, bottom, buffer, inboxVars, nodeVars, poolVars, flagVars,
                 stk, dsp, histVars>>

TakeStep(th) ==
  \/ TakeInbox(th) \/ InboxEmpty(th) \/ ReleaseAndEnter(th) \/ EnterTaken(th)
  \/ StealFailed(th)

-----------------------------------------------------------------------------
(* worker_loop *)

WorkerPop(w) ==
  /\ AtHome(w, "loop") /\ ~stop
  /\ bottom[w] <= MaxIndex
  /\ CallPop(w, w)
  /\ Goto(w, "popping")
  /\ UNCHANGED <<top, bottom, buffer, inboxVars, nodeVars, poolVars, flagVars,
                 idx, stk, dsp, histVars>>

WorkerExit(w) ==
  /\ AtHome(w, "loop") /\ stop
  /\ Goto(w, "exited")
  /\ UNCHANGED <<dequeVars, inboxVars, nodeVars, poolVars, flagVars, idx, stk,
                 dsp, histVars>>

WorkerStep(w) == WorkerPop(w) \/ WorkerExit(w)

-----------------------------------------------------------------------------
(* The client: create_task *)

Client == AtHome(Main, "client")

\* invoke.store of the new task into the node it gets
GiveNode(n) ==
  /\ created' = created + 1
  /\ handle' = [handle EXCEPT ![created + 1] = n]
  /\ invoke' = [invoke EXCEPT ![n] = created + 1]

\* Mutant: the node stays in free_nodes_.
CreateTake_NoPopBack ==
  /\ Client
  /\ created < MaxCreates
  /\ ~submitted \/ LiveCreates
  /\ \/ /\ freeNodes # <<>>
        /\ GiveNode(Last(freeNodes))
        /\ UNCHANGED <<pool, tasks>>
     \/ /\ freeNodes = <<>>
        /\ pool # <<>>
        /\ GiveNode(Head(pool))
        /\ pool' = Tail(pool)
        /\ tasks' = Append(tasks, Head(pool))
  /\ Goto(Main, "create_fill")
  /\ UNCHANGED <<dequeVars, inboxVars, callable, pending, successors, lane,
                 freeNodes, flagVars, idx, stk, dsp, resetting, resets, batch,
                 prereq, runs>>

\* take a node from free_nodes_ or the pool, and store invoke; a node of the pool
\* is a new TaskNode(), whose fields are zero
CreateTake ==
  /\ Client
  /\ created < MaxCreates
  /\ ~submitted \/ LiveCreates
  /\ \/ /\ freeNodes # <<>>
        /\ GiveNode(Last(freeNodes))
        /\ freeNodes' = Front(freeNodes)
        /\ UNCHANGED <<pool, tasks, callable, pending, successors>>
     \/ /\ freeNodes = <<>>
        /\ pool # <<>>
        /\ GiveNode(Head(pool))
        /\ pool' = Tail(pool)
        /\ tasks' = Append(tasks, Head(pool))
        /\ callable' = [callable EXCEPT ![Head(pool)] = NoTask]
        /\ pending' = [pending EXCEPT ![Head(pool)] = 0]
        /\ successors' = [successors EXCEPT ![Head(pool)] = <<>>]
        /\ UNCHANGED freeNodes
  /\ Goto(Main, "create_fill")
  /\ UNCHANGED <<dequeVars, inboxVars, lane, flagVars, idx, stk, dsp, resetting,
                 resets, batch, prereq, runs>>

\* Mutant: pending starts without submit's share.
CreateFill_NoSubmitShare ==
  /\ AtHome(Main, "create_fill")
  /\ LET n == handle[created]
     IN /\ pending' = [pending EXCEPT ![n] = 0]
        /\ successors' = [successors EXCEPT ![n] = <<>>]
        /\ callable' = [callable EXCEPT ![n] = created]
        /\ \E l \in Lane : lane' = [lane EXCEPT ![n] = l]
  /\ Goto(Main, "create_count")
  /\ UNCHANGED <<dequeVars, inboxVars, invoke, poolVars, flagVars, idx, stk,
                 dsp, histVars>>

\* the other fields; pending is 0 when the graph is live, else 1 for submit
CreateFill ==
  /\ AtHome(Main, "create_fill")
  /\ LET n == handle[created]
     IN /\ pending' = [pending EXCEPT ![n] = IF submitted THEN 0 ELSE 1]
        /\ successors' = [successors EXCEPT ![n] = <<>>]
        /\ callable' = [callable EXCEPT ![n] = created]
        /\ \E l \in Lane : lane' = [lane EXCEPT ![n] = l]
  /\ Goto(Main, "create_count")
  /\ UNCHANGED <<dequeVars, inboxVars, invoke, poolVars, flagVars, idx, stk,
                 dsp, histVars>>

\* outstanding_.fetch_add(1), and the dispatch of a live task
CreateCount ==
  /\ AtHome(Main, "create_count")
  /\ outstanding' = Inc(outstanding)
  /\ \/ submitted /\ Dispatch(Main, handle[created])
     \/ ~submitted /\ UNCHANGED <<dequeVars, laneRr, dsp>>
  /\ Goto(Main, "client")
  /\ UNCHANGED <<inboxVars, nodeVars, poolVars, submitted, stop, idx, stk,
                 histVars>>

-----------------------------------------------------------------------------
(* The client: add_dependency, submit, wait, reset and the destructor *)

\* Mutant: the dependent does not wait for the prerequisite.
AddDependency_NotPending ==
  /\ Client /\ ~submitted
  /\ \E p, d \in batch + 1 .. created :
       /\ p < d
       /\ Cardinality(prereq) < MaxEdges
       /\ Cardinality(prereq) + resets < MaxSetups
       /\ <<p, d>> \notin prereq
       /\ Len(successors[handle[p]]) < MaxSuccessors
       /\ successors' = [successors EXCEPT ![handle[p]] = Append(@, handle[d])]
       /\ prereq' = prereq \cup {<<p, d>>}
  /\ UNCHANGED <<dequeVars, inboxVars, invoke, callable, pending, lane, poolVars,
                 flagVars, threadVars, resetting, resets, created, batch,
                 handle, runs>>

\* between two tasks of the batch being built, prerequisite created first; false
\* and no change when the prerequisite has kMaxSuccessors successors
AddDependency ==
  /\ Client /\ ~submitted
  /\ \E p, d \in batch + 1 .. created :
       /\ p < d
       /\ Cardinality(prereq) < MaxEdges
       /\ Cardinality(prereq) + resets < MaxSetups
       /\ <<p, d>> \notin prereq
       /\ Len(successors[handle[p]]) < MaxSuccessors
       /\ successors' = [successors EXCEPT ![handle[p]] = Append(@, handle[d])]
       /\ pending' = [pending EXCEPT ![handle[d]] = Inc(@)]
       /\ prereq' = prereq \cup {<<p, d>>}
  /\ UNCHANGED <<dequeVars, inboxVars, invoke, callable, lane, poolVars,
                 flagVars, threadVars, resetting, resets, created, batch,
                 handle, runs>>

Submit ==
  /\ Client /\ ~submitted
  /\ created > batch \/ LiveCreates
  /\ submitted' = TRUE
  /\ Goto(Main, "submit")
  /\ idx' = [idx EXCEPT ![Main] = 1]
  /\ UNCHANGED <<dequeVars, inboxVars, nodeVars, poolVars, outstanding, stop,
                 laneRr, stk, dsp, histVars>>

SubmitTask ==
  /\ AtHome(Main, "submit")
  /\ idx[Main] <= Len(tasks)
  /\ LET n == tasks[idx[Main]]
     IN /\ pending' = [pending EXCEPT ![n] = Dec(@)]
        /\ \/ pending[n] = 1 /\ Dispatch(Main, n)
           \/ pending[n] # 1 /\ UNCHANGED <<dequeVars, laneRr, dsp>>
  /\ idx' = [idx EXCEPT ![Main] = @ + 1]
  /\ UNCHANGED <<inboxVars, invoke, callable, successors, lane, poolVars,
                 outstanding, submitted, stop, loc, stk, histVars>>

SubmitReturn ==
  /\ AtHome(Main, "submit")
  /\ idx[Main] > Len(tasks)
  /\ idx' = [idx EXCEPT ![Main] = 0]
  /\ Goto(Main, "client")
  /\ UNCHANGED <<dequeVars, inboxVars, nodeVars, poolVars, flagVars, stk, dsp,
                 histVars>>

\* wait, by itself or called by reset; the callers in the repository do not wait
\* for tasks they have not submitted
CallWait ==
  /\ Client
  /\ submitted \/ outstanding = 0
  /\ Goto(Main, "wait")
  /\ resetting' \in {FALSE, resets < MaxResets /\ Cardinality(prereq) + resets < MaxSetups}
  /\ UNCHANGED <<dequeVars, inboxVars, nodeVars, poolVars, flagVars, idx, stk,
                 dsp, resets, created, batch, handle, prereq, runs>>

WaitHelp ==
  /\ AtHome(Main, "wait")
  /\ outstanding # 0
  /\ Goto(Main, "help")
  /\ UNCHANGED <<dequeVars, inboxVars, nodeVars, poolVars, flagVars, idx, stk,
                 dsp, histVars>>

WaitReturn ==
  /\ AtHome(Main, "wait")
  /\ outstanding = 0
  /\ ~resetting
  /\ Goto(Main, "client")
  /\ UNCHANGED <<dequeVars, inboxVars, nodeVars, poolVars, flagVars, idx, stk,
                 dsp, histVars>>

\* every node destroyed and returned to the pool, the last created on top
ResetNodes ==
  /\ callable' = [n \in Node |-> IF n \in Range(tasks) THEN NoTask
                                 ELSE callable[n]]
  /\ pool' = Reverse(tasks) \o pool
  /\ tasks' = <<>>
  /\ freeNodes' = <<>>

\* Mutant: reset does not wait.
Reset_NoWait ==
  /\ AtHome(Main, "wait")
  /\ resetting
  /\ ResetNodes
  /\ submitted' = FALSE
  /\ resetting' = FALSE
  /\ batch' = created
  /\ resets' = resets + 1
  /\ Goto(Main, "client")
  /\ UNCHANGED <<dequeVars, inboxVars, invoke, pending, successors, lane,
                 outstanding, stop, laneRr, idx, stk, dsp, created, handle,
                 prereq, runs>>

Reset ==
  /\ AtHome(Main, "wait")
  /\ outstanding = 0
  /\ resetting
  /\ ResetNodes
  /\ submitted' = FALSE
  /\ resetting' = FALSE
  /\ batch' = created
  /\ resets' = resets + 1
  /\ Goto(Main, "client")
  /\ UNCHANGED <<dequeVars, inboxVars, invoke, pending, successors, lane,
                 outstanding, stop, laneRr, idx, stk, dsp, created, handle,
                 prereq, runs>>

Destroy ==
  /\ Client
  /\ stop' = TRUE
  /\ Goto(Main, "join")
  /\ UNCHANGED <<dequeVars, inboxVars, nodeVars, poolVars, outstanding,
                 submitted, laneRr, idx, stk, dsp, histVars>>

Join ==
  /\ AtHome(Main, "join")
  /\ \A w \in Worker : loc[w] = "exited"
  /\ ResetNodes
  /\ Goto(Main, "gone")
  /\ UNCHANGED <<dequeVars, inboxVars, invoke, pending, successors, lane,
                 flagVars, idx, stk, dsp, histVars>>

\* what the client decides to do next
ClientChoice ==
  \/ CreateTake \/ AddDependency \/ Submit \/ CallWait \/ Destroy

\* the steps of a call it has made
ClientStep ==
  \/ CreateFill \/ CreateCount \/ SubmitTask \/ SubmitReturn
  \/ WaitHelp \/ WaitReturn \/ Reset \/ Join

-----------------------------------------------------------------------------
ThreadStep(th) == ExecuteStep(th) \/ TakeStep(th)

Next ==
  \/ \E th \in Thread : ThreadStep(th)
  \/ \E w \in Worker : WorkerStep(w)
  \/ ClientChoice
  \/ ClientStep

Spec == Init /\ [][Next]_vars

\* The operating system runs every thread: workers spin or sleep 50 us and try
\* again, and a call the client has made goes on.  The client owes no call.
FairSpec ==
  /\ Spec
  /\ \A th \in Thread : WF_vars(ThreadStep(th))
  /\ \A w \in Worker : WF_vars(WorkerStep(w))
  /\ WF_vars(ClientStep)

-----------------------------------------------------------------------------
NodeTypeOK ==
  /\ invoke \in [Node -> MaybeTask]
  /\ callable \in [Node -> MaybeTask]
  /\ pending \in [Node -> 0 .. CounterMod - 1]
  /\ successors \in [Node -> Seq(Node)]
  /\ lane \in [Node -> Lane]

PoolTypeOK ==
  /\ pool \in Seq(Node)
  /\ tasks \in Seq(Node)
  /\ freeNodes \in Seq(Node)

FlagTypeOK ==
  /\ outstanding \in 0 .. CounterMod - 1
  /\ submitted \in BOOLEAN
  /\ stop \in BOOLEAN
  /\ laneRr \in [Lane -> 0 .. NumWorkers - 1]

Loc == {"loop", "popping", "releasing", "stealing", "exited", "client",
        "create_fill", "create_count", "submit", "wait", "help", "join", "gone"}

ThreadTypeOK ==
  /\ loc \in [Thread -> Loc]
  /\ idx \in [Thread -> Nat]
  /\ stk \in [Thread -> Seq(Activation)]
  /\ dsp \in [Thread -> [at : {"none", "push", "inbox", "publish"},
                         node : MaybeNode]]

HistTypeOK ==
  /\ resetting \in BOOLEAN
  /\ resets \in Nat
  /\ created \in 0 .. MaxCreates
  /\ batch \in 0 .. MaxCreates
  /\ handle \in [Task -> MaybeNode]
  /\ prereq \subseteq Task \X Task
  /\ runs \in [Task -> Nat]

TypeOK ==
  /\ DequeTypeOK /\ InboxTypeOK /\ NodeTypeOK /\ PoolTypeOK /\ FlagTypeOK
  /\ ThreadTypeOK /\ HistTypeOK

\* A task's body runs at most once, however often the deques hand its node out:
\* the exchange in execute lets one caller through, over any number of batches
\* and reuses of the node.
AtMostOnce == \A t \in Task : runs[t] <= 1

\* A task's body runs only after the bodies of all its prerequisites have
\* returned (the DagDependencies and Chain tests).
DependencyOrder ==
  \A e \in prereq : runs[e[2]] > 0 => runs[e[1]] > 0

\* A thread about to call a task's body finds in the node the callable that
\* create_task constructed for that task: recycling, reset and the destructor
\* never destroy it first, and the node has not been given to another task.
BodySeesItsCallable ==
  \A th \in Thread : \A i \in 1 .. Len(stk[th]) :
    stk[th][i].at = "body" => callable[stk[th][i].node] = stk[th][i].task

\* What every thread can count on within one batch.
BatchInv == TypeOK /\ DependencyOrder /\ BodySeesItsCallable

\* A node waiting in free_nodes_ is in it once and is nobody's: it has no task to run,
\* and a thread that still executes it has only outstanding_ left to decrement.  Nothing
\* is said of its edges: a client may add one to a task that has already run, and
\* create_task clears them.
FreeNodesAreIdle ==
  /\ IsInjective(freeNodes)
  /\ \A i \in 1 .. Len(freeNodes) :
       /\ invoke[freeNodes[i]] = NoTask
       /\ \A th \in Thread : \A j \in 1 .. Len(stk[th]) :
            stk[th][j].node = freeNodes[i] => stk[th][j].at = "retire"

Running == UNION {Range(stk[th]) : th \in Thread}

\* wait returns (and reset goes on to destroy the nodes) only when every task of
\* the batch has run to its end on whatever thread took it: outstanding_ is
\* exact, whatever was lost, duplicated or run out of order on the way.
WaitMeansDone ==
  [][(WaitReturn \/ Reset) =>
        /\ \A t \in 1 .. created : runs[t] = 1
        /\ Running = {}]_vars

\* the last created task has been counted in outstanding_
Counted == loc[Main] \notin {"create_fill", "create_count"}

-----------------------------------------------------------------------------
(* The promise to a client of one graph *)

Promise == INSTANCE TaskGraphSpec WITH
  tasks <- {t \in Task : t < created \/ (t = created /\ Counted)},
  edges <- prereq,
  ran <- {t \in Task : runs[t] > 0},
  waiting <- loc[Main] \in {"wait", "help", "stealing", "releasing"}

\* Every step of the threads is a step of TaskGraphSpec or invisible, for a
\* client that submits one graph: each task runs once, after submit and after
\* its prerequisites, and wait returns after all of them.
KeepsPromise == Promise!Spec

-----------------------------------------------------------------------------
(* Progress *)

\* wait returns: the tests call graph.wait() and go on to read the results
WaitReturns == loc[Main] = "wait" ~> loc[Main] = "client"

\* the nodes some thread can still get at: in a deque's window, in the inbox, in
\* a thread's hands
Reachable ==
  UNION {{buffer[d][SlotOf(i)] : i \in top[d] .. (bottom[d] - 1)} : d \in Deque}
  \cup {cells[i].node : i \in 1 .. Len(cells)}
  \cup {taking[th] : th \in Thread} \cup {dsp[th].node : th \in Thread}
  \cup {dq[th].node : th \in Thread}
  \cup UNION {{buffer[dq[th].d][SlotOf(dq[th].b)]} : th \in
               {t \in Thread : dq[t].pc \in PopPC}}

\* a submitted task that is ready to run and that no queue holds
Lost == {t \in 1 .. created :
           /\ submitted /\ loc[Main] \notin {"submit", "create_count"}
           /\ runs[t] = 0
           /\ pending[handle[t]] = 0 /\ invoke[handle[t]] = t
           /\ handle[t] \notin Reachable}

\* A wait that hangs has lost a ready task: as long as the queues lose none, the
\* counters, the help of the waiting thread and the workers' rounds bring every
\* submitted graph to its end.
OnlyLossBlocksWait == (<>[](Lost = {}) => WaitReturns)
=============================================================================
