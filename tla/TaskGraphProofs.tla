-------------------------- MODULE TaskGraphProofs --------------------------
(***************************************************************************)
(* TaskGraph for every number of workers, nodes, lanes and tasks and every *)
(* capacity of the queues, over any number of resets: the types, what a    *)
(* thread does where, that no task runs twice, that free nodes are idle    *)
(* and that wait returns only when every task has run.  For one batch,     *)
(* created before submit: that dependencies are respected, that a body     *)
(* finds its callable, and that the graph keeps its promise.               *)
(***************************************************************************)
EXTENDS TaskGraph, ChaseLevDequeProofs, SequenceTheorems, FiniteSetTheorems,
        WellFoundedInduction

-----------------------------------------------------------------------------
(* What makes TypeOK, AtMostOnce, FreeNodesAreIdle and WaitMeansDone inductive. *)

\* A thread is in one place at a time: it calls
\* dispatch and execute only from where it returns to, and enters a deque
\* operation only after the last one; only its own worker pops a deque.
Control(th) ==
  /\ dsp[th].at # "none" => dsp[th].node \in Node
  /\ stk[th] # <<>> \/ Dispatching(th) =>
       loc[th] \in {"loop", "wait", "submit", "client"}
  /\ dq[th].pc # "idle" => dsp[th].at = "push" \/ loc[th] \in {"popping", "stealing"}
  /\ dq[th].pc \in PopPC => dq[th].d = th

ControlOK == \A th \in Thread : Control(th)

HandlesOK ==
  /\ \A t \in Task : t <= created => handle[t] \in Node
  /\ loc[Main] \in {"create_fill", "create_count"} => created > 0
  /\ loc[Main] = "submit" => idx[Main] > 0

TypeInv == TypeOK /\ DequeInv /\ ControlOK /\ HandlesOK

\* the tasks whose execution has not returned
Unfinished ==
  {t \in Task : \/ \E n \in Node : invoke[n] = t
                \/ \E th \in Thread : \E i \in 1 .. Len(stk[th]) : stk[th][i].task = t}

\* There is one permission to run a task, and it moves from the node's invoke to
\* the activation that exchanged it, to the run.
OnePlace ==
  /\ \A t \in Task : t > created => runs[t] = 0
  /\ \A t \in Task : t <= created => t \in Unfinished \/ runs[t] = 1
  /\ \A n \in Node : invoke[n] # NoTask =>
       invoke[n] <= created /\ runs[invoke[n]] = 0
  /\ \A n, m \in Node : invoke[n] # NoTask /\ invoke[n] = invoke[m] => n = m
  /\ \A th \in Thread : \A i \in 1 .. Len(stk[th]) :
       /\ stk[th][i].task <= created
       /\ runs[stk[th][i].task] = IF stk[th][i].at = "body" THEN 0 ELSE 1
       /\ \A n \in Node : invoke[n] # stk[th][i].task
       /\ \A q \in Thread : \A j \in 1 .. Len(stk[q]) :
            stk[q][j].task = stk[th][i].task => q = th /\ j = i

Holds(th, i, n) == stk[th][i].node = n /\ stk[th][i].at # "retire"
Idle(n) == /\ invoke[n] = NoTask
           /\ \A th \in Thread : \A i \in 1 .. Len(stk[th]) : ~Holds(th, i, n)

\* a node with a task to run is in no activation, one that runs is in one only
HeldOnce ==
  /\ \A n \in Node : invoke[n] # NoTask =>
       \A th \in Thread : \A i \in 1 .. Len(stk[th]) : ~Holds(th, i, n)
  /\ \A n \in Node : \A th, q \in Thread :
       \A i \in 1 .. Len(stk[th]) : \A j \in 1 .. Len(stk[q]) :
         Holds(th, i, n) /\ Holds(q, j, n) => th = q /\ i = j

\* what waits in free_nodes_ or in the pool waits once and is nobody's
NodesWait ==
  /\ IsInjective(freeNodes)
  /\ \A i \in 1 .. Len(freeNodes) : Idle(freeNodes[i])
  /\ loc[Main] # "gone" =>
       /\ IsInjective(pool) /\ IsInjective(tasks)
       /\ \A i \in 1 .. Len(pool) :
            /\ Idle(pool[i])
            /\ \A j \in 1 .. Len(freeNodes) : freeNodes[j] # pool[i]
            /\ \A j \in 1 .. Len(tasks) : tasks[j] # pool[i]

NodesHeldOnce == HeldOnce /\ NodesWait

\* execute calls execute only from the dispatch of a successor: all activations of
\* a thread but the innermost are there, and the innermost too while it dispatches
Nested ==
  \A th \in Thread : \A i \in 1 .. Len(stk[th]) :
    stk[th][i].at = "succ" \/ (i = Len(stk[th]) /\ ~Dispatching(th))

\* outstanding_ counts the tasks that have been counted in and not off again; a task
\* may run, on a stale pointer to its node, before create_task has counted it in
CountedIn == created - (IF Counted THEN 0 ELSE 1)
Finished == (1 .. created) \ Unfinished
Accounted == outstanding = (CountedIn - Cardinality(Finished)) % CounterMod

GraphInv == TypeInv /\ OnePlace /\ NodesHeldOnce /\ Nested /\ Accounted

-----------------------------------------------------------------------------
(* Arithmetic *)

LEMMA ModInRange ==
  ASSUME NEW x \in Int, NEW m \in Nat \ {0}
  PROVE  x % m \in 0 .. m - 1
OBVIOUS

LEMMA Remainder ==
  ASSUME NEW x \in Int, NEW m \in Nat \ {0}
  PROVE  \E q \in Int : x = m * q + (x % m)
<1>1. x \div m \in Int /\ x = m * (x \div m) + (x % m)
  OBVIOUS
<1>2. QED
  BY <1>1

\* the quotient and the remainder are unique
LEMMA RemainderIs ==
  ASSUME NEW x \in Int, NEW m \in Nat \ {0}, NEW q \in Int, NEW r \in 0 .. m - 1,
         x = m * q + r
  PROVE  x % m = r
<1>1. PICK p \in Int : x = m * p + (x % m)
  BY Remainder
<1>2. x % m \in 0 .. m - 1
  BY ModInRange
<1>3. m * p \in Int /\ m * q \in Int
  OBVIOUS
<1>4. CASE p < q
  <2>1. m * p + m <= m * q
    BY <1>4, NextMultiple
  <2>2. QED
    BY <1>1, <1>2, <1>3, <2>1
<1>5. CASE q < p
  <2>1. m * q + m <= m * p
    BY <1>5, NextMultiple
  <2>2. QED
    BY <1>1, <1>2, <1>3, <2>1
<1>6. CASE p = q
  BY <1>1, <1>2, <1>3, <1>6
<1>7. QED
  BY <1>4, <1>5, <1>6

\* a counter modulo m counts: a step of k on the remainder is a step of k on what it is of
LEMMA RemainderSteps ==
  ASSUME NEW x \in Int, NEW k \in Int, NEW m \in Nat \ {0}
  PROVE  ((x % m) + k) % m = (x + k) % m
<1> DEFINE y == (x % m) + k
           s == y % m
<1>1. PICK i \in Int : x = m * i + (x % m)
  BY Remainder
<1>2. x % m \in 0 .. m - 1
  BY ModInRange
<1>3. y \in Int
  BY <1>2
<1>4. PICK j \in Int : y = m * j + s
  BY <1>3, Remainder
<1>5. s \in 0 .. m - 1
  BY <1>3, ModInRange
<1>6. x + k = m * (i + j) + s
  <2> DEFINE r == x % m
  <2>1. x = m * i + r /\ r + k = m * j + s /\ r \in Int /\ s \in Int
    BY <1>1, <1>2, <1>4, <1>5
  <2> HIDE DEF r, s
  <2>2. m * i \in Int /\ m * j \in Int /\ m * (i + j) = m * i + m * j
    OBVIOUS
  <2>3. QED
    BY <2>1, <2>2
<1> HIDE DEF s
<1>7. x + k \in Int /\ i + j \in Int
  OBVIOUS
<1>8. (x + k) % m = s
  BY <1>5, <1>6, <1>7, RemainderIs
<1>9. QED
  BY <1>8 DEF s

\* a set of naturals that is not empty has a least one
LEMMA LeastNatural ==
  ASSUME NEW T \in SUBSET Nat, T # {}
  PROVE  \E x \in T : \A y \in T : x <= y
<1>1. PICK x \in T : \A y \in T : <<y, x>> \notin OpToRel(<, Nat)
  BY NatLessThanWellFounded, WFMin
<1>2. ASSUME NEW y \in T, y < x
      PROVE  <<y, x>> \in OpToRel(<, Nat)
  <2>1. <<y, x>> \in Nat \X Nat /\ <<y, x>>[1] = y /\ <<y, x>>[2] = x
    OBVIOUS
  <2>2. QED
    BY <1>2, <2>1 DEF OpToRel
<1>3. \A y \in T : x \in Nat /\ y \in Nat /\ ~(y < x)
  BY <1>1, <1>2
<1>4. QED
  BY <1>3

LEMMA CountersTyped ==
  ASSUME NEW c \in 0 .. CounterMod - 1
  PROVE  Inc(c) \in 0 .. CounterMod - 1 /\ Dec(c) \in 0 .. CounterMod - 1
<1>1. CounterMod \in Nat \ {0} /\ c + 1 \in Int /\ c - 1 \in Int
  BY TaskGraphAssumption
<1>2. (c + 1) % CounterMod \in 0 .. CounterMod - 1
  BY <1>1, ModInRange
<1>3. (c - 1) % CounterMod \in 0 .. CounterMod - 1
  BY <1>1, ModInRange
<1>4. QED
  BY <1>2, <1>3 DEF Inc, Dec

\* pick_worker picks a worker, whatever the preferences
LEMMA PickedIsWorker ==
  ASSUME NEW l \in Lane, laneRr \in [Lane -> 0 .. NumWorkers - 1]
  PROVE  PickWorker(l) \in Deque
<1> DEFINE at(k) == (laneRr[l] + k) % NumWorkers
           fits == {k \in 0 .. NumWorkers - 1 : Preferred[at(k)] = l}
<1>1. ASSUME NEW k \in Nat
      PROVE  at(k) \in Deque
  <2>1. laneRr[l] + k \in Int /\ NumWorkers \in Nat \ {0}
    BY TaskGraphAssumption
  <2>2. (laneRr[l] + k) % NumWorkers \in 0 .. NumWorkers - 1
    BY <2>1, ModInRange
  <2>3. QED
    BY <2>2, TaskGraphAssumption
<1>2. ASSUME fits # {}
      PROVE  (CHOOSE k \in fits : \A j \in fits : k <= j) \in Nat
  <2>1. fits \in SUBSET Nat
    BY TaskGraphAssumption
  <2> HIDE DEF fits
  <2>2. \E k \in fits : \A j \in fits : k <= j
    BY <1>2, <2>1, LeastNatural
  <2>3. (CHOOSE k \in fits : \A j \in fits : k <= j) \in fits
    BY <2>2
  <2>4. QED
    BY <2>1, <2>3
<1>3. PickWorker(l) = IF fits = {} THEN at(0)
                      ELSE at(CHOOSE k \in fits : \A j \in fits : k <= j)
  BY DEF PickWorker
<1> HIDE DEF fits, at
<1>4. QED
  BY <1>1, <1>2, <1>3

LEMMA VictimIsWorker ==
  ASSUME NEW th \in Thread, NEW k \in Nat, k < NumWorkers
  PROVE  Victim(th, k) \in Deque
<1>1. CASE th = Main
  BY <1>1, TaskGraphAssumption DEF Victim
<1>2. CASE th # Main
  <2>1. th \in 0 .. NumWorkers - 1 /\ NumWorkers \in Nat \ {0}
    BY <1>2, TaskGraphAssumption
  <2>2. (th + k) % NumWorkers \in 0 .. NumWorkers - 1
    BY <2>1, ModInRange
  <2>3. QED
    BY <1>2, <2>2, TaskGraphAssumption DEF Victim
<1>3. QED
  BY <1>1, <1>2

-----------------------------------------------------------------------------
(* Stacks of activations *)

Stacked == stk \in [Thread -> Seq(Activation)]

\* the innermost activation of a thread that executes
LEMMA TopFrame ==
  ASSUME Stacked, NEW th \in Thread, stk[th] # <<>>
  PROVE  /\ Len(stk[th]) \in Nat \ {0} /\ Len(stk[th]) \in 1 .. Len(stk[th])
         /\ Frm(th) = stk[th][Len(stk[th])] /\ Frm(th) \in Activation
         /\ Frm(th).node \in Node /\ Frm(th).task \in Task /\ Frm(th).i \in Nat \ {0}
         /\ Frm(th).at \in {"body", "succ", "free", "retire"}
<1>1. stk[th] \in Seq(Activation)
  BY DEF Stacked
<1>2. Len(stk[th]) \in Nat \ {0} /\ Len(stk[th]) \in 1 .. Len(stk[th])
  BY <1>1
<1>3. stk[th][Len(stk[th])] \in Activation
  BY <1>1, <1>2
<1>4. QED
  BY <1>2, <1>3 DEF Frm, Activation

\* the stacks of the other threads and all but the innermost activation stay
LEMMA FrameMoves ==
  ASSUME Stacked, NEW th \in Thread, stk[th] # <<>>, NEW i \in Nat \ {0},
         NEW at \in {"body", "succ", "free", "retire"}, FrmTo(th, i, at)
  PROVE  /\ Stacked'
         /\ \A q \in Thread : Len(stk'[q]) = Len(stk[q])
         /\ \A q \in Thread \ {th} : stk'[q] = stk[q]
         /\ \A j \in 1 .. Len(stk[th]) : j # Len(stk[th]) => stk'[th][j] = stk[th][j]
         /\ stk'[th][Len(stk[th])] =
              [node |-> Frm(th).node, task |-> Frm(th).task, i |-> i, at |-> at]
<1> DEFINE a == [node |-> Frm(th).node, task |-> Frm(th).task, i |-> i, at |-> at]
           s == stk[th]
<1>1. a \in Activation
  BY TopFrame DEF Activation
<1>2. stk' = [stk EXCEPT ![th] = [s EXCEPT ![Len(s)] = a]]
  BY DEF FrmTo
<1>3. s \in Seq(Activation) /\ Len(s) \in Nat \ {0}
  BY TopFrame DEF Stacked
<1> HIDE DEF a
<1>4. /\ [s EXCEPT ![Len(s)] = a] \in Seq(Activation)
      /\ Len([s EXCEPT ![Len(s)] = a]) = Len(s)
      /\ [s EXCEPT ![Len(s)] = a][Len(s)] = a
      /\ \A j \in 1 .. Len(s) : j # Len(s) => [s EXCEPT ![Len(s)] = a][j] = s[j]
  BY <1>1, <1>3
<1>5. stk'[th] = [s EXCEPT ![Len(s)] = a] /\ \A q \in Thread \ {th} : stk'[q] = stk[q]
  BY <1>2 DEF Stacked
<1>6. Stacked'
  BY <1>2, <1>4 DEF Stacked
<1>7. QED
  BY <1>4, <1>5, <1>6 DEF a

\* execute is entered: nothing, or a new innermost activation
LEMMA EnterMoves ==
  ASSUME Stacked, invoke \in [Node -> MaybeTask], NEW th \in Thread, NEW n \in Node, Enter(th, n)
  PROVE  \/ invoke[n] = NoTask /\ UNCHANGED <<invoke, stk>>
         \/ /\ invoke[n] \in Task
            /\ invoke' = [invoke EXCEPT ![n] = NoTask]
            /\ Stacked'
            /\ Len(stk'[th]) = Len(stk[th]) + 1
            /\ \A q \in Thread \ {th} : stk'[q] = stk[q]
            /\ \A j \in 1 .. Len(stk[th]) : stk'[th][j] = stk[th][j]
            /\ stk'[th][Len(stk[th]) + 1] =
                 [node |-> n, task |-> invoke[n], i |-> 1, at |-> "body"]
<1>1. CASE invoke[n] = NoTask
  BY <1>1 DEF Enter
<1>2. CASE invoke[n] # NoTask
  <2> DEFINE a == [node |-> n, task |-> invoke[n], i |-> 1, at |-> "body"]
  <2>1. invoke[n] \in Task /\ invoke' = [invoke EXCEPT ![n] = NoTask]
    BY <1>2 DEF Enter, MaybeTask
  <2>2. a \in Activation
    BY <2>1 DEF Activation
  <2>3. stk' = [stk EXCEPT ![th] = Append(stk[th], a)]
    BY <1>2 DEF Enter
  <2>4. stk[th] \in Seq(Activation)
    BY DEF Stacked
  <2> HIDE DEF a
  <2>5. /\ Append(stk[th], a) \in Seq(Activation)
        /\ Len(Append(stk[th], a)) = Len(stk[th]) + 1
        /\ Append(stk[th], a)[Len(stk[th]) + 1] = a
        /\ \A j \in 1 .. Len(stk[th]) : Append(stk[th], a)[j] = stk[th][j]
    BY <2>2, <2>4, AppendProperties
  <2>6. stk'[th] = Append(stk[th], a) /\ \A q \in Thread \ {th} : stk'[q] = stk[q]
    BY <2>3 DEF Stacked
  <2>7. Stacked'
    BY <2>3, <2>5 DEF Stacked
  <2>8. QED
    BY <2>1, <2>5, <2>6, <2>7 DEF a
<1>3. QED
  BY <1>1, <1>2

\* execute returns
LEMMA ReturnMoves ==
  ASSUME Stacked, NEW th \in Thread, stk[th] # <<>>,
         stk' = [stk EXCEPT ![th] = SubSeq(@, 1, Len(@) - 1)]
  PROVE  /\ Stacked'
         /\ Len(stk'[th]) = Len(stk[th]) - 1
         /\ \A q \in Thread \ {th} : stk'[q] = stk[q]
         /\ \A j \in 1 .. (Len(stk[th]) - 1) : stk'[th][j] = stk[th][j]
<1> DEFINE s == stk[th]
<1>1. s \in Seq(Activation) /\ Len(s) \in Nat \ {0}
  BY TopFrame DEF Stacked
<1>2. stk' = [stk EXCEPT ![th] = SubSeq(s, 1, Len(s) - 1)]
  OBVIOUS
<1>3. /\ SubSeq(s, 1, Len(s) - 1) \in Seq(Activation)
      /\ Len(SubSeq(s, 1, Len(s) - 1)) = Len(s) - 1
      /\ \A j \in 1 .. (Len(s) - 1) : SubSeq(s, 1, Len(s) - 1)[j] = s[j]
  BY <1>1
<1>4. stk'[th] = SubSeq(s, 1, Len(s) - 1) /\ \A q \in Thread \ {th} : stk'[q] = stk[q]
  BY <1>2 DEF Stacked
<1>5. Stacked'
  BY <1>2, <1>3 DEF Stacked
<1>6. QED
  BY <1>3, <1>4, <1>5

-----------------------------------------------------------------------------
(* A thread and its deque operation *)

LEMMA GraphTypes ==
  ASSUME TypeInv
  PROVE  /\ Stacked /\ DequeTypeOK /\ DequeInv
         /\ invoke \in [Node -> MaybeTask] /\ callable \in [Node -> MaybeTask]
         /\ pending \in [Node -> 0 .. CounterMod - 1]
         /\ successors \in [Node -> Seq(Node)] /\ lane \in [Node -> Lane]
         /\ pool \in Seq(Node) /\ tasks \in Seq(Node) /\ freeNodes \in Seq(Node)
         /\ outstanding \in 0 .. CounterMod - 1 /\ laneRr \in [Lane -> 0 .. NumWorkers - 1]
         /\ loc \in [Thread -> Loc] /\ idx \in [Thread -> Nat]
         /\ dsp \in [Thread -> [at : {"none", "push", "inbox", "publish"}, node : MaybeNode]]
         /\ created \in 0 .. MaxCreates /\ handle \in [Task -> MaybeNode]
         /\ runs \in [Task -> Nat] /\ Main \in Thread /\ Deque \subseteq Thread
BY TaskGraphAssumption
DEF TypeInv, TypeOK, NodeTypeOK, PoolTypeOK, FlagTypeOK, ThreadTypeOK, HistTypeOK, Stacked

LEMMA DequeStays ==
  ASSUME DequeInv, UNCHANGED dequeVars
  PROVE  DequeInv'
BY DEF DequeInv, dequeVars, DequeTypeOK, WindowBound, OnePopper, LocalsInWindow, BottomRestored

\* a thread moves; the others are where they were
LEMMA ControlMoves ==
  ASSUME ControlOK, NEW th \in Thread, Control(th)',
         \A q \in Thread \ {th} : /\ loc'[q] = loc[q] /\ stk'[q] = stk[q]
                                  /\ dsp'[q] = dsp[q] /\ dq'[q] = dq[q]
  PROVE  ControlOK'
<1>1. ASSUME NEW q \in Thread \ {th}
      PROVE  Control(q)'
  BY <1>1 DEF ControlOK, Control, Dispatching
<1>2. QED
  BY <1>1 DEF ControlOK

\* A thread that is in no deque operation enters one or collects the result of the
\* last; a worker pops only its own deque.
LEMMA Called ==
  ASSUME TypeInv, NEW th \in Thread, dq[th].pc \in {"idle", "done"},
         UNCHANGED <<top, bottom, buffer>>,
         NEW pc \in {"idle", "push_bottom", "pop_bottom", "steal_top"},
         NEW d \in Deque, NEW n \in MaybeNode, Call(th, pc, d, n),
         pc = "pop_bottom" => d = th
  PROVE  /\ DequeInv'
         /\ dq'[th].pc = pc /\ dq'[th].d = d
         /\ \A q \in Thread \ {th} : dq'[q] = dq[q]
<1>1. \A q \in Thread : dq[q].pc \in PopPC => dq[q].d = q
  BY DEF TypeInv, ControlOK, Control
<1>2. DequeInv'
  BY <1>1, CallInv DEF TypeInv
<1>3. dq' = [dq EXCEPT ![th] = [pc |-> pc, d |-> d, node |-> n, b |-> 0, t |-> 0, ok |-> FALSE]]
  BY DEF Call, SetFrame
<1>4. dq \in [Thread -> Frame]
  BY GraphTypes DEF DequeTypeOK
<1>5. QED
  BY <1>2, <1>3, <1>4

LEMMA Collected ==
  ASSUME TypeInv, NEW th \in Thread, dq[th].pc \in {"idle", "done"},
         UNCHANGED <<top, bottom, buffer>>, Collect(th)
  PROVE  /\ DequeInv' /\ dq'[th].pc = "idle"
         /\ \A q \in Thread \ {th} : dq'[q] = dq[q]
<1>1. dq[th].d \in Deque /\ NoNode \in MaybeNode
  BY GraphTypes, FrameTypes
<1>2. QED
  BY <1>1, Called DEF Collect

\* a thread that executes is between deque operations
LEMMA ExecutingFacts ==
  ASSUME TypeInv, NEW th \in Thread, Executing(th)
  PROVE  /\ dq[th].pc = "idle" /\ stk[th] # <<>> /\ dsp[th].at = "none"
         /\ loc[th] \in {"loop", "wait", "submit", "client"}
BY DEF TypeInv, ControlOK, Control, Executing, Dispatching

LEMMA HomeFacts ==
  ASSUME TypeInv, NEW th \in Thread, NEW l, AtHome(th, l)
  PROVE  /\ loc[th] = l /\ stk[th] = <<>> /\ Len(stk[th]) = 0 /\ dsp[th].at = "none"
         /\ dq[th].pc # "idle" => l \in {"popping", "stealing"}
BY GraphTypes DEF TypeInv, ControlOK, Control, AtHome, Dispatching, Stacked

\* dispatch enters the push of the deque of the worker it picks
LEMMA DispatchCalls ==
  ASSUME TypeInv, NEW th \in Thread, NEW n \in Node, dq[th].pc = "idle", Dispatch(th, n)
  PROVE  /\ DequeInv' /\ laneRr' \in [Lane -> 0 .. NumWorkers - 1]
         /\ dq'[th].pc = "push_bottom"
         /\ dsp' = [dsp EXCEPT ![th] = [at |-> "push", node |-> n]]
         /\ \A q \in Thread \ {th} : dq'[q] = dq[q]
<1>1. /\ laneRr' = [laneRr EXCEPT ![lane[n]] = (@ + 1) % NumWorkers]
      /\ Call(th, "push_bottom", PickWorker(lane[n]), n)
      /\ UNCHANGED <<top, bottom, buffer>>
      /\ dsp' = [dsp EXCEPT ![th] = [at |-> "push", node |-> n]]
  BY DEF Dispatch, CallPush
<1>2. lane[n] \in Lane /\ n \in MaybeNode /\ PickWorker(lane[n]) \in Deque
  BY GraphTypes, PickedIsWorker DEF MaybeNode
<1>3. /\ DequeInv' /\ dq'[th].pc = "push_bottom"
      /\ \A q \in Thread \ {th} : dq'[q] = dq[q]
  <2>1. PICK d \in Deque : d = PickWorker(lane[n])
    BY <1>2
  <2>2. /\ Call(th, "push_bottom", d, n) /\ UNCHANGED <<top, bottom, buffer>>
        /\ dq[th].pc \in {"idle", "done"} /\ n \in MaybeNode
    BY <1>1, <1>2, <2>1
  <2>3. QED
    BY <2>2, Called
<1>4. laneRr' \in [Lane -> 0 .. NumWorkers - 1]
  <2>1. laneRr[lane[n]] + 1 \in Int /\ NumWorkers \in Nat \ {0}
    <3>1. NumWorkers \in Nat \ {0}
      BY TaskGraphAssumption
    <3>2. laneRr \in [Lane -> 0 .. NumWorkers - 1]
      BY GraphTypes
    <3>3. laneRr[lane[n]] \in 0 .. NumWorkers - 1
      BY <1>2, <3>2
    <3>4. QED
      BY <3>1, <3>3
  <2>2. (laneRr[lane[n]] + 1) % NumWorkers \in 0 .. NumWorkers - 1
    BY <2>1, ModInRange
  <2>3. QED
    BY <1>1, <1>2, <2>2, GraphTypes
<1>5. QED
  BY <1>1, <1>3, <1>4

\* a step that dispatches a node if it is ready
LEMMA DispatchesOrNot ==
  ASSUME TypeInv, NEW th \in Thread, NEW n \in Node, dq[th].pc = "idle",
         Dispatch(th, n) \/ UNCHANGED <<dequeVars, laneRr, dsp>>
  PROVE  /\ DequeInv' /\ laneRr' \in [Lane -> 0 .. NumWorkers - 1]
         /\ dsp' \in [Thread -> [at : {"none", "push", "inbox", "publish"}, node : MaybeNode]]
         /\ \A q \in Thread \ {th} : dq'[q] = dq[q] /\ dsp'[q] = dsp[q]
         /\ \/ dq'[th] = dq[th] /\ dsp'[th] = dsp[th]
            \/ dq'[th].pc = "push_bottom" /\ dsp'[th] = [at |-> "push", node |-> n]
<1>1. CASE Dispatch(th, n)
  <2>1. /\ DequeInv' /\ laneRr' \in [Lane -> 0 .. NumWorkers - 1]
        /\ dq'[th].pc = "push_bottom"
        /\ dsp' = [dsp EXCEPT ![th] = [at |-> "push", node |-> n]]
        /\ \A q \in Thread \ {th} : dq'[q] = dq[q]
    BY <1>1, DispatchCalls
  <2>2. QED
    BY <2>1, GraphTypes DEF MaybeNode
<1>2. CASE UNCHANGED <<dequeVars, laneRr, dsp>>
  <2>1. DequeInv'
    BY <1>2, DequeStays DEF TypeInv
  <2>2. QED
    BY <1>2, <2>1, GraphTypes DEF dequeVars
<1>3. QED
  BY <1>1, <1>2

-----------------------------------------------------------------------------
(* TypeInv: the steps of execute and dispatch *)

LEMMA BodyTyped ==
  ASSUME TypeInv, NEW th \in Thread, Body(th)
  PROVE  TypeInv'
<1>1. /\ Executing(th) /\ FrmTo(th, 1, "succ")
      /\ runs' = [runs EXCEPT ![Frm(th).task] = @ + 1]
      /\ UNCHANGED <<dequeVars, inboxVars, nodeVars, poolVars, flagVars, loc, idx, dsp,
                     resetting, resets, created, batch, handle, prereq>>
  BY DEF Body
<1>2. stk[th] # <<>> /\ Stacked /\ Frm(th).task \in Task
  BY <1>1, ExecutingFacts, GraphTypes, TopFrame
<1>3. Stacked' /\ \A q \in Thread \ {th} : stk'[q] = stk[q]
  <2>1. FrmTo(th, 1, "succ") /\ 1 \in Nat \ {0}
    BY <1>1, <1>2
  <2>2. QED
    BY <1>2, <2>1, FrameMoves
<1>4. runs' \in [Task -> Nat]
  BY <1>1, <1>2, GraphTypes
<1>5. DequeInv'
  BY <1>1, DequeStays DEF TypeInv
<1>6. ControlOK'
  <2>1. Control(th)'
    BY <1>1, ExecutingFacts DEF Control, Dispatching, dequeVars, TypeInv, ControlOK
  <2>2. QED
    BY <1>1, <1>3, <2>1, ControlMoves DEF TypeInv, dequeVars
<1>7. HandlesOK'
  BY <1>1 DEF TypeInv, HandlesOK
<1>8. TypeOK'
  BY <1>1, <1>3, <1>4, <1>5 DEF TypeInv, TypeOK, DequeInv, InboxTypeOK, NodeTypeOK, PoolTypeOK,
     FlagTypeOK, ThreadTypeOK, HistTypeOK, Stacked, inboxVars, nodeVars, poolVars, flagVars
<1>9. QED
  BY <1>5, <1>6, <1>7, <1>8 DEF TypeInv

LEMMA SuccessorTyped ==
  ASSUME TypeInv, NEW th \in Thread, Successor(th)
  PROVE  TypeInv'
<1> DEFINE s == successors[Frm(th).node][Frm(th).i]
<1>1. /\ Executing(th) /\ FrmTo(th, Frm(th).i + 1, "succ")
      /\ Frm(th).i <= Len(successors[Frm(th).node])
      /\ pending' = [pending EXCEPT ![s] = Dec(@)]
      /\ Dispatch(th, s) \/ UNCHANGED <<dequeVars, laneRr, dsp>>
      /\ UNCHANGED <<inboxVars, invoke, callable, successors, lane, poolVars,
                     outstanding, submitted, stop, loc, idx, histVars>>
  BY DEF Successor
<1>2. /\ stk[th] # <<>> /\ Stacked /\ Frm(th).node \in Node /\ Frm(th).i \in Nat \ {0}
      /\ dq[th].pc = "idle" /\ dsp[th].at = "none"
      /\ loc[th] \in {"loop", "wait", "submit", "client"}
  BY <1>1, ExecutingFacts, GraphTypes, TopFrame
<1>3. s \in Node
  <2>1. successors[Frm(th).node] \in Seq(Node)
    BY <1>2, GraphTypes
  <2>2. QED
    BY <1>1, <1>2, <2>1
<1> HIDE DEF s
<1>4. Stacked' /\ \A q \in Thread \ {th} : stk'[q] = stk[q]
  <2>1. FrmTo(th, Frm(th).i + 1, "succ") /\ Frm(th).i + 1 \in Nat \ {0}
    BY <1>1, <1>2
  <2>2. QED
    BY <1>2, <2>1, FrameMoves
<1>5. pending' \in [Node -> 0 .. CounterMod - 1]
  <2>1. Dec(pending[s]) \in 0 .. CounterMod - 1
    BY <1>3, GraphTypes, CountersTyped
  <2>2. QED
    BY <1>1, <1>3, <2>1, GraphTypes
<1>6. /\ DequeInv' /\ laneRr' \in [Lane -> 0 .. NumWorkers - 1]
      /\ dsp' \in [Thread -> [at : {"none", "push", "inbox", "publish"}, node : MaybeNode]]
      /\ \A q \in Thread \ {th} : dq'[q] = dq[q] /\ dsp'[q] = dsp[q]
      /\ \/ dq'[th] = dq[th] /\ dsp'[th] = dsp[th]
         \/ dq'[th].pc = "push_bottom" /\ dsp'[th] = [at |-> "push", node |-> s]
  BY <1>1, <1>2, <1>3, DispatchesOrNot
<1>7. ControlOK'
  <2>1. loc' = loc
    BY <1>1
  <2>2. Control(th)'
    BY <1>2, <1>3, <1>6, <2>1 DEF Control, Dispatching, PopPC
  <2>3. QED
    BY <1>4, <1>6, <2>1, <2>2, ControlMoves DEF TypeInv
<1>8. HandlesOK'
  BY <1>1 DEF TypeInv, HandlesOK, histVars
<1>9. TypeOK'
  BY <1>1, <1>4, <1>5, <1>6 DEF TypeInv, TypeOK, DequeInv, InboxTypeOK, NodeTypeOK, PoolTypeOK,
     FlagTypeOK, ThreadTypeOK, HistTypeOK, Stacked, inboxVars, nodeVars, poolVars, histVars
<1>10. QED
  BY <1>6, <1>7, <1>8, <1>9 DEF TypeInv

LEMMA RecycleTyped ==
  ASSUME TypeInv, NEW th \in Thread, Recycle(th)
  PROVE  TypeInv'
<1> DEFINE n == Frm(th).node
<1>1. /\ Executing(th) /\ FrmTo(th, 1, "free")
      /\ callable' = [callable EXCEPT ![n] = NoTask]
      /\ invoke' = [invoke EXCEPT ![n] = NoTask]
      /\ successors' = [successors EXCEPT ![n] = <<>>]
      /\ pending' = [pending EXCEPT ![n] = 0]
      /\ UNCHANGED <<dequeVars, inboxVars, lane, poolVars, flagVars, loc, idx, dsp, histVars>>
  BY DEF Recycle
<1>2. stk[th] # <<>> /\ Stacked /\ n \in Node
  BY <1>1, ExecutingFacts, GraphTypes, TopFrame
<1> HIDE DEF n
<1>3. Stacked' /\ \A q \in Thread \ {th} : stk'[q] = stk[q]
  <2>1. FrmTo(th, 1, "free") /\ 1 \in Nat \ {0}
    BY <1>1, <1>2
  <2>2. QED
    BY <1>2, <2>1, FrameMoves
<1>4. /\ callable' \in [Node -> MaybeTask] /\ invoke' \in [Node -> MaybeTask]
      /\ pending' \in [Node -> 0 .. CounterMod - 1]
      /\ successors' \in [Node -> Seq(Node)]
  <2>1. NoTask \in MaybeTask /\ 0 \in 0 .. CounterMod - 1 /\ <<>> \in Seq(Node)
    BY TaskGraphAssumption DEF MaybeTask
  <2>2. QED
    BY <1>1, <1>2, <2>1, GraphTypes
<1>5. DequeInv'
  BY <1>1, DequeStays DEF TypeInv
<1>6. ControlOK'
  <2>1. Control(th)'
    BY <1>1, ExecutingFacts DEF Control, Dispatching, dequeVars, TypeInv, ControlOK
  <2>2. QED
    BY <1>1, <1>3, <2>1, ControlMoves DEF TypeInv, dequeVars
<1>7. HandlesOK'
  BY <1>1 DEF TypeInv, HandlesOK, histVars
<1>8. TypeOK'
  BY <1>1, <1>3, <1>4, <1>5 DEF TypeInv, TypeOK, DequeInv, InboxTypeOK, NodeTypeOK, PoolTypeOK,
     FlagTypeOK, ThreadTypeOK, HistTypeOK, Stacked, inboxVars, poolVars, flagVars, histVars
<1>9. QED
  BY <1>5, <1>6, <1>7, <1>8 DEF TypeInv

LEMMA FreeNodeTyped ==
  ASSUME TypeInv, NEW th \in Thread, FreeNode(th)
  PROVE  TypeInv'
<1>1. /\ Executing(th) /\ FrmTo(th, 1, "retire")
      /\ freeNodes' = Append(freeNodes, Frm(th).node)
      /\ UNCHANGED <<dequeVars, inboxVars, nodeVars, pool, tasks, flagVars, loc, idx, dsp,
                     histVars>>
  BY DEF FreeNode
<1>2. stk[th] # <<>> /\ Stacked /\ Frm(th).node \in Node
  BY <1>1, ExecutingFacts, GraphTypes, TopFrame
<1>3. Stacked' /\ \A q \in Thread \ {th} : stk'[q] = stk[q]
  <2>1. FrmTo(th, 1, "retire") /\ 1 \in Nat \ {0}
    BY <1>1, <1>2
  <2>2. QED
    BY <1>2, <2>1, FrameMoves
<1>4. freeNodes' \in Seq(Node)
  BY <1>1, <1>2, GraphTypes, AppendProperties
<1>5. DequeInv'
  BY <1>1, DequeStays DEF TypeInv
<1>6. ControlOK'
  <2>1. Control(th)'
    BY <1>1, ExecutingFacts DEF Control, Dispatching, dequeVars, TypeInv, ControlOK
  <2>2. QED
    BY <1>1, <1>3, <2>1, ControlMoves DEF TypeInv, dequeVars
<1>7. HandlesOK'
  BY <1>1 DEF TypeInv, HandlesOK, histVars
<1>8. TypeOK'
  BY <1>1, <1>3, <1>4, <1>5 DEF TypeInv, TypeOK, DequeInv, InboxTypeOK, NodeTypeOK, PoolTypeOK,
     FlagTypeOK, ThreadTypeOK, HistTypeOK, Stacked, inboxVars, nodeVars, flagVars, histVars
<1>9. QED
  BY <1>5, <1>6, <1>7, <1>8 DEF TypeInv

LEMMA RetireTyped ==
  ASSUME TypeInv, NEW th \in Thread, Retire(th)
  PROVE  TypeInv'
<1>1. /\ Executing(th) /\ outstanding' = Dec(outstanding)
      /\ stk' = [stk EXCEPT ![th] = SubSeq(@, 1, Len(@) - 1)]
      /\ UNCHANGED <<dequeVars, inboxVars, nodeVars, poolVars, submitted, stop, laneRr,
                     loc, idx, dsp, histVars>>
  BY DEF Retire
<1>2. stk[th] # <<>> /\ Stacked
  BY <1>1, ExecutingFacts, GraphTypes
<1>3. Stacked' /\ \A q \in Thread \ {th} : stk'[q] = stk[q]
  BY <1>1, <1>2, ReturnMoves
<1>4. outstanding' \in 0 .. CounterMod - 1
  BY <1>1, GraphTypes, CountersTyped
<1>5. DequeInv'
  BY <1>1, DequeStays DEF TypeInv
<1>6. ControlOK'
  <2>1. Control(th)'
    BY <1>1, ExecutingFacts DEF Control, Dispatching, dequeVars, TypeInv, ControlOK
  <2>2. QED
    BY <1>1, <1>3, <2>1, ControlMoves DEF TypeInv, dequeVars
<1>7. HandlesOK'
  BY <1>1 DEF TypeInv, HandlesOK, histVars
<1>8. TypeOK'
  BY <1>1, <1>3, <1>4, <1>5 DEF TypeInv, TypeOK, DequeInv, InboxTypeOK, NodeTypeOK, PoolTypeOK,
     FlagTypeOK, ThreadTypeOK, HistTypeOK, Stacked, inboxVars, nodeVars, poolVars, histVars
<1>9. QED
  BY <1>5, <1>6, <1>7, <1>8 DEF TypeInv

\* a step inside an operation of a deque
LEMMA DequesTyped ==
  ASSUME TypeInv, NEW th \in Thread, Deques(th)
  PROVE  TypeInv'
<1>1. /\ DequeStep(th)
      /\ UNCHANGED <<inboxVars, nodeVars, poolVars, flagVars, threadVars, histVars>>
  BY DEF Deques
<1>2. DequeInv' /\ DequeTypeOK
  BY <1>1, DequeStepInv DEF TypeInv, DequeInv
<1>3. /\ dq[th].pc # "idle" /\ dq'[th].d = dq[th].d
      /\ dq'[th].pc \in PopPC => dq[th].pc \in PopPC
      /\ \A q \in Thread \ {th} : dq'[q] = dq[q]
  <2>1. dq[th].pc # "idle"
    BY <1>1 DEF DequeStep, PushBottom, PushTop, PushStore, PushPublish, PopBottom, PopClaim,
       PopTop, PopRestore, PopRead, PopCas, PopBump, StealTop, StealBottom, StealRead, StealCas
  <2>2. QED
    BY <1>1, <1>2, <2>1, DequeStepFrames
<1>4. ControlOK'
  <2>1. Control(th)
    BY DEF TypeInv, ControlOK
  <2>2. UNCHANGED <<loc, stk, dsp>>
    BY <1>1 DEF threadVars
  <2>3. Control(th)'
    BY <1>3, <2>1, <2>2 DEF Control, Dispatching
  <2>4. QED
    BY <1>3, <2>2, <2>3, ControlMoves DEF TypeInv
<1>5. HandlesOK'
  BY <1>1 DEF TypeInv, HandlesOK, histVars, threadVars
<1>6. TypeOK'
  BY <1>1, <1>2 DEF TypeInv, TypeOK, DequeInv, InboxTypeOK, NodeTypeOK, PoolTypeOK,
     FlagTypeOK, ThreadTypeOK, HistTypeOK, inboxVars, nodeVars, poolVars, flagVars,
     threadVars, histVars
<1>7. QED
  BY <1>2, <1>4, <1>5, <1>6 DEF TypeInv

\* how far a call of dispatch is
LEMMA DispatchMoves ==
  ASSUME TypeInv, NEW th \in Thread, Dispatching(th),
         NEW at \in {"none", "push", "inbox", "publish"}, NEW n \in MaybeNode,
         at # "none" => n \in Node,
         dsp' = [dsp EXCEPT ![th] = [at |-> at, node |-> n]],
         UNCHANGED loc, dq'[th].pc = "idle",
         \A q \in Thread \ {th} : stk'[q] = stk[q] /\ dq'[q] = dq[q]
  PROVE  /\ ControlOK'
         /\ dsp' \in [Thread -> [at : {"none", "push", "inbox", "publish"}, node : MaybeNode]]
<1>1. dsp'[th] = [at |-> at, node |-> n] /\ \A q \in Thread \ {th} : dsp'[q] = dsp[q]
  BY GraphTypes
<1>2. loc[th] \in {"loop", "wait", "submit", "client"}
  BY DEF TypeInv, ControlOK, Control
<1>3. Control(th)'
  BY <1>1, <1>2 DEF Control, PopPC
<1>4. QED
  BY <1>1, <1>3, ControlMoves, GraphTypes DEF TypeInv

LEMMA DispatchPushedTyped ==
  ASSUME TypeInv, NEW th \in Thread, DispatchPushed(th)
  PROVE  TypeInv'
<1>1. /\ dsp[th].at = "push" /\ dq[th].pc = "done" /\ Collect(th)
      /\ \/ dsp' = [dsp EXCEPT ![th] = NotDispatching]
         \/ dsp' = [dsp EXCEPT ![th] = [at |-> "inbox", node |-> dsp[th].node]]
      /\ UNCHANGED <<top, bottom, buffer, inboxVars, nodeVars, poolVars, flagVars, loc, idx,
                     stk, histVars>>
  BY DEF DispatchPushed
<1>2. /\ DequeInv' /\ dq'[th].pc = "idle"
      /\ \A q \in Thread \ {th} : dq'[q] = dq[q]
  BY <1>1, Collected
<1>3. /\ ControlOK'
      /\ dsp' \in [Thread -> [at : {"none", "push", "inbox", "publish"}, node : MaybeNode]]
  <2>1. Dispatching(th) /\ dsp[th].node \in Node
    BY <1>1 DEF Dispatching, TypeInv, ControlOK, Control
  <2>2. UNCHANGED <<loc, stk>>
    BY <1>1
  <2>3. CASE dsp' = [dsp EXCEPT ![th] = NotDispatching]
    BY <1>2, <2>1, <2>2, <2>3, DispatchMoves DEF NotDispatching, MaybeNode
  <2>4. CASE dsp' = [dsp EXCEPT ![th] = [at |-> "inbox", node |-> dsp[th].node]]
    BY <1>2, <2>1, <2>2, <2>4, DispatchMoves DEF MaybeNode
  <2>5. QED
    BY <1>1, <2>3, <2>4
<1>4. HandlesOK'
  BY <1>1 DEF TypeInv, HandlesOK, histVars
<1>5. TypeOK'
  BY <1>1, <1>2, <1>3 DEF TypeInv, TypeOK, DequeInv, InboxTypeOK, NodeTypeOK, PoolTypeOK,
     FlagTypeOK, ThreadTypeOK, HistTypeOK, inboxVars, nodeVars, poolVars, flagVars, histVars
<1>6. QED
  BY <1>2, <1>3, <1>4, <1>5 DEF TypeInv

LEMMA DispatchReserveTyped ==
  ASSUME TypeInv, NEW th \in Thread, DispatchReserve(th)
  PROVE  TypeInv'
<1>1. /\ dsp[th].at = "inbox" /\ Reserve(th, dsp[th].node)
      /\ dsp' = [dsp EXCEPT ![th] = [at |-> "publish", node |-> dsp[th].node]]
      /\ UNCHANGED <<dequeVars, nodeVars, poolVars, flagVars, loc, idx, stk, histVars>>
  BY DEF DispatchReserve
<1>2. Dispatching(th) /\ dsp[th].node \in Node /\ dq[th].pc = "idle"
  BY <1>1 DEF Dispatching, TypeInv, ControlOK, Control
<1>3. DequeInv'
  BY <1>1, DequeStays DEF TypeInv
<1>4. /\ ControlOK'
      /\ dsp' \in [Thread -> [at : {"none", "push", "inbox", "publish"}, node : MaybeNode]]
  <2>1. UNCHANGED <<loc, stk, dq>>
    BY <1>1 DEF dequeVars
  <2>2. QED
    BY <1>1, <1>2, <2>1, DispatchMoves DEF MaybeNode
<1>5. InboxTypeOK'
  <2>1. /\ Len(cells) < QueueCap /\ UNCHANGED taking
        /\ cells' = Append(cells, [node |-> dsp[th].node, writer |-> {th}])
    BY <1>1 DEF Reserve
  <2>2. [node |-> dsp[th].node, writer |-> {th}] \in Cell
    BY <1>2 DEF Cell
  <2>3. cells \in Seq(Cell) /\ taking \in [Thread -> MaybeNode] /\ QueueCap \in Nat
    BY InboxAssumption DEF TypeInv, TypeOK, InboxTypeOK
  <2>4. cells' \in Seq(Cell) /\ Len(cells') = Len(cells) + 1
    BY <2>1, <2>2, <2>3
  <2>5. QED
    BY <2>1, <2>3, <2>4 DEF InboxTypeOK
<1>6. HandlesOK'
  BY <1>1 DEF TypeInv, HandlesOK, histVars
<1>7. TypeOK'
  BY <1>1, <1>3, <1>4, <1>5 DEF TypeInv, TypeOK, DequeInv, NodeTypeOK, PoolTypeOK,
     FlagTypeOK, ThreadTypeOK, HistTypeOK, nodeVars, poolVars, flagVars, histVars
<1>8. QED
  BY <1>3, <1>4, <1>6, <1>7 DEF TypeInv

LEMMA DispatchPublishTyped ==
  ASSUME TypeInv, NEW th \in Thread, DispatchPublish(th)
  PROVE  TypeInv'
<1>1. /\ dsp[th].at = "publish" /\ Publish(th)
      /\ dsp' = [dsp EXCEPT ![th] = NotDispatching]
      /\ UNCHANGED <<dequeVars, nodeVars, poolVars, flagVars, loc, idx, stk, histVars>>
  BY DEF DispatchPublish
<1>2. Dispatching(th) /\ dq[th].pc = "idle"
  BY <1>1 DEF Dispatching, TypeInv, ControlOK, Control
<1>3. DequeInv'
  BY <1>1, DequeStays DEF TypeInv
<1>4. /\ ControlOK'
      /\ dsp' \in [Thread -> [at : {"none", "push", "inbox", "publish"}, node : MaybeNode]]
  <2>1. UNCHANGED <<loc, stk, dq>>
    BY <1>1 DEF dequeVars
  <2>2. QED
    BY <1>1, <1>2, <2>1, DispatchMoves DEF MaybeNode, NotDispatching
<1>5. InboxTypeOK'
  <2>1. PICK i \in MyCell(th) : cells' = [cells EXCEPT ![i].writer = {}]
    BY <1>1 DEF Publish
  <2>2. /\ i \in 1 .. Len(cells) /\ cells \in Seq(Cell) /\ Len(cells) <= QueueCap
        /\ taking \in [Thread -> MaybeNode] /\ UNCHANGED taking
    BY <1>1 DEF TypeInv, TypeOK, InboxTypeOK, MyCell, Publish
  <2>3. [cells[i] EXCEPT !.writer = {}] \in Cell
    <3>1. cells[i] \in Cell
      BY <2>2
    <3>2. QED
      BY <3>1 DEF Cell
  <2>4. cells' = [cells EXCEPT ![i] = [cells[i] EXCEPT !.writer = {}]]
    BY <2>1
  <2> DEFINE c == [cells[i] EXCEPT !.writer = {}]
  <2> HIDE DEF c
  <2>5. cells' \in Seq(Cell) /\ Len(cells') = Len(cells)
    BY <2>2, <2>3, <2>4 DEF c
  <2>6. QED
    BY <2>2, <2>5 DEF InboxTypeOK
<1>6. HandlesOK'
  BY <1>1 DEF TypeInv, HandlesOK, histVars
<1>7. TypeOK'
  BY <1>1, <1>3, <1>4, <1>5 DEF TypeInv, TypeOK, DequeInv, NodeTypeOK, PoolTypeOK,
     FlagTypeOK, ThreadTypeOK, HistTypeOK, nodeVars, poolVars, flagVars, histVars
<1>8. QED
  BY <1>3, <1>4, <1>6, <1>7 DEF TypeInv

\* execute is entered, wherever from
LEMMA EnterTyped ==
  ASSUME TypeInv, NEW th \in Thread, NEW n \in Node, Enter(th, n)
  PROVE  /\ Stacked' /\ invoke' \in [Node -> MaybeTask]
         /\ \A q \in Thread \ {th} : stk'[q] = stk[q]
<1>1. NoTask \in MaybeTask
  BY DEF MaybeTask
<1>2. QED
  BY <1>1, EnterMoves, GraphTypes DEF Stacked

LEMMA DispatchInlineTyped ==
  ASSUME TypeInv, NEW th \in Thread, DispatchInline(th)
  PROVE  TypeInv'
<1>1. /\ dsp[th].at = "inbox" /\ Enter(th, dsp[th].node)
      /\ dsp' = [dsp EXCEPT ![th] = NotDispatching]
      /\ UNCHANGED <<dequeVars, inboxVars, callable, pending, successors, lane, poolVars,
                     flagVars, loc, idx, histVars>>
  BY DEF DispatchInline, Full
<1>2. Dispatching(th) /\ dsp[th].node \in Node /\ dq[th].pc = "idle"
  BY <1>1 DEF Dispatching, TypeInv, ControlOK, Control
<1>3. DequeInv'
  BY <1>1, DequeStays DEF TypeInv
<1>4. /\ Stacked' /\ invoke' \in [Node -> MaybeTask]
      /\ \A q \in Thread \ {th} : stk'[q] = stk[q]
  BY <1>1, <1>2, EnterTyped
<1>5. /\ ControlOK'
      /\ dsp' \in [Thread -> [at : {"none", "push", "inbox", "publish"}, node : MaybeNode]]
  <2>1. UNCHANGED <<loc, dq>>
    BY <1>1 DEF dequeVars
  <2>2. QED
    BY <1>1, <1>2, <1>4, <2>1, DispatchMoves DEF MaybeNode, NotDispatching
<1>6. HandlesOK'
  BY <1>1 DEF TypeInv, HandlesOK, histVars
<1>7. TypeOK'
  BY <1>1, <1>3, <1>4, <1>5 DEF TypeInv, TypeOK, DequeInv, InboxTypeOK, NodeTypeOK, PoolTypeOK,
     FlagTypeOK, ThreadTypeOK, HistTypeOK, Stacked, inboxVars, poolVars, flagVars, histVars
<1>8. QED
  BY <1>3, <1>5, <1>6, <1>7 DEF TypeInv

-----------------------------------------------------------------------------
(* TypeInv: the steps of take_task, help and worker_loop *)

LEMMA Went ==
  ASSUME TypeInv, NEW th \in Thread, NEW l \in Loc, Goto(th, l)
  PROVE  /\ loc' \in [Thread -> Loc] /\ loc'[th] = l
         /\ \A q \in Thread \ {th} : loc'[q] = loc[q]
BY GraphTypes DEF Goto

\* a step that creates no task and does not enter submit
LEMMA HandlesStay ==
  ASSUME TypeInv, NEW th \in Thread,
         NEW l \in Loc \ {"create_fill", "create_count", "submit"}, Goto(th, l),
         UNCHANGED <<created, handle>>,
         \A q \in Thread \ {th} : idx'[q] = idx[q]
  PROVE  HandlesOK'
<1>1. /\ loc'[th] = l /\ \A q \in Thread \ {th} : loc'[q] = loc[q]
      /\ Main \in Thread /\ UNCHANGED <<created, handle>>
  BY Went, GraphTypes
<1>2. HandlesOK
  BY DEF TypeInv
<1>3. \A t \in Task : t <= created' => handle'[t] \in Node
  BY <1>1, <1>2 DEF HandlesOK
<1>4. CASE Main = th
  BY <1>1, <1>3, <1>4 DEF HandlesOK
<1>5. CASE Main # th
  BY <1>1, <1>2, <1>3, <1>5 DEF HandlesOK
<1>6. QED
  BY <1>4, <1>5

\* the next victim, or none left
LEMMA StealFromMoves ==
  ASSUME TypeInv, NEW th \in Thread, NEW k \in Nat, dq[th].pc \in {"idle", "done"},
         UNCHANGED <<top, bottom, buffer>>, StealFrom(th, k)
  PROVE  /\ DequeInv' /\ dq'[th].pc \in {"idle", "steal_top"}
         /\ \A q \in Thread \ {th} : dq'[q] = dq[q] /\ idx'[q] = idx[q]
         /\ idx' \in [Thread -> Nat]
         /\ \/ dq'[th].pc = "idle" /\ Goto(th, Home(th))
            \/ Goto(th, "stealing")
<1>1. CASE /\ k < NumWorkers /\ CallSteal(th, Victim(th, k))
           /\ Goto(th, "stealing") /\ idx' = [idx EXCEPT ![th] = k]
  <2>1. Victim(th, k) \in Deque /\ NoNode \in MaybeNode
    BY <1>1, VictimIsWorker DEF MaybeNode
  <2>2. Call(th, "steal_top", Victim(th, k), NoNode)
    BY <1>1 DEF CallSteal
  <2>3. /\ DequeInv' /\ dq'[th].pc = "steal_top"
        /\ \A q \in Thread \ {th} : dq'[q] = dq[q]
    BY <2>1, <2>2, Called
  <2>4. QED
    BY <1>1, <2>3, GraphTypes
<1>2. CASE Collect(th) /\ Goto(th, Home(th)) /\ idx' = [idx EXCEPT ![th] = 0]
  <2>1. /\ DequeInv' /\ dq'[th].pc = "idle" /\ \A q \in Thread \ {th} : dq'[q] = dq[q]
    BY <1>2, Collected
  <2>2. QED
    BY <1>2, <2>1, GraphTypes
<1>3. QED
  BY <1>1, <1>2 DEF StealFrom

LEMMA InboxTurnFacts ==
  ASSUME TypeInv, NEW th \in Thread, InboxTurn(th)
  PROVE  /\ dq[th].pc \in {"idle", "done"} /\ stk[th] = <<>> /\ dsp[th].at = "none"
<1>1. CASE AtHome(th, "popping") /\ dq[th].pc = "done"
  BY <1>1, HomeFacts
<1>2. CASE AtHome(th, "help")
  BY <1>2, HomeFacts
<1>3. QED
  BY <1>1, <1>2 DEF InboxTurn

LEMMA TakeInboxTyped ==
  ASSUME TypeInv, NEW th \in Thread, TakeInbox(th)
  PROVE  TypeInv'
<1>1. /\ InboxTurn(th) /\ Take(th) /\ Collect(th) /\ Goto(th, "releasing")
      /\ UNCHANGED <<top, bottom, buffer, nodeVars, poolVars, flagVars, idx, stk, dsp,
                     histVars>>
  BY DEF TakeInbox
<1>2. dq[th].pc \in {"idle", "done"} /\ stk[th] = <<>> /\ dsp[th].at = "none"
  BY <1>1, InboxTurnFacts
<1>3. DequeInv' /\ dq'[th].pc = "idle" /\ \A q \in Thread \ {th} : dq'[q] = dq[q]
  BY <1>1, <1>2, Collected
<1>4. /\ loc' \in [Thread -> Loc] /\ loc'[th] = "releasing"
      /\ \A q \in Thread \ {th} : loc'[q] = loc[q]
  BY <1>1, Went DEF Loc
<1>5. ControlOK'
  <2>1. UNCHANGED <<stk, dsp>>
    BY <1>1
  <2>2. Control(th)'
    BY <1>2, <1>3, <2>1 DEF Control, Dispatching, PopPC
  <2>3. QED
    BY <1>3, <1>4, <2>1, <2>2, ControlMoves DEF TypeInv
<1>6. InboxTypeOK'
  <2>1. /\ cells # <<>> /\ taking' = [taking EXCEPT ![th] = Head(cells).node]
        /\ cells' = Tail(cells)
    BY <1>1 DEF Take, HeadReady
  <2>2. cells \in Seq(Cell) /\ Len(cells) <= QueueCap /\ taking \in [Thread -> MaybeNode]
        /\ QueueCap \in Nat
    BY InboxAssumption DEF TypeInv, TypeOK, InboxTypeOK
  <2>3. Head(cells) \in Cell /\ Tail(cells) \in Seq(Cell) /\ Len(Tail(cells)) = Len(cells) - 1
        /\ Len(cells) \in Nat
    BY <2>1, <2>2
  <2>4. Head(cells).node \in MaybeNode
    BY <2>3 DEF Cell, MaybeNode
  <2>5. QED
    BY <2>1, <2>2, <2>3, <2>4 DEF InboxTypeOK
<1>7. HandlesOK'
  <2>1. UNCHANGED <<created, handle, idx>>
    BY <1>1 DEF histVars
  <2>2. QED
    BY <1>1, <2>1, HandlesStay DEF Loc
<1>8. TypeOK'
  BY <1>1, <1>3, <1>4, <1>6 DEF TypeInv, TypeOK, DequeInv, NodeTypeOK, PoolTypeOK,
     FlagTypeOK, ThreadTypeOK, HistTypeOK, nodeVars, poolVars, flagVars, histVars
<1>9. QED
  BY <1>3, <1>5, <1>7, <1>8 DEF TypeInv

\* a step from one steal to the next
LEMMA StealStepTyped ==
  ASSUME TypeInv, NEW th \in Thread, NEW k \in Nat, dq[th].pc \in {"idle", "done"},
         stk[th] = <<>>, dsp[th].at = "none", StealFrom(th, k),
         UNCHANGED <<top, bottom, buffer, inboxVars, nodeVars, poolVars, flagVars, stk, dsp,
                     histVars>>
  PROVE  TypeInv'
<1>1. /\ DequeInv' /\ dq'[th].pc \in {"idle", "steal_top"}
      /\ \A q \in Thread \ {th} : dq'[q] = dq[q] /\ idx'[q] = idx[q]
      /\ idx' \in [Thread -> Nat]
      /\ \/ dq'[th].pc = "idle" /\ Goto(th, Home(th))
         \/ Goto(th, "stealing")
  BY StealFromMoves
<1>2. PICK l \in Loc \ {"create_fill", "create_count", "submit"} :
        Goto(th, l) /\ (dq'[th].pc # "idle" => l = "stealing")
  BY <1>1 DEF Home, Loc
<1>3. /\ loc' \in [Thread -> Loc] /\ loc'[th] = l
      /\ \A q \in Thread \ {th} : loc'[q] = loc[q]
  BY <1>2, Went
<1>4. ControlOK'
  <2>1. Control(th)'
    BY <1>1, <1>2, <1>3 DEF Control, Dispatching, PopPC
  <2>2. QED
    BY <1>1, <1>3, <2>1, ControlMoves DEF TypeInv
<1>5. HandlesOK'
  BY <1>1, <1>2, HandlesStay DEF histVars
<1>6. TypeOK'
  BY <1>1, <1>3 DEF TypeInv, TypeOK, DequeInv, InboxTypeOK, NodeTypeOK, PoolTypeOK,
     FlagTypeOK, ThreadTypeOK, HistTypeOK, inboxVars, nodeVars, poolVars, flagVars, histVars
<1>7. QED
  BY <1>1, <1>4, <1>5, <1>6 DEF TypeInv

LEMMA InboxEmptyTyped ==
  ASSUME TypeInv, NEW th \in Thread, InboxEmpty(th)
  PROVE  TypeInv'
<1>1. FirstVictim(th) \in Nat
  BY DEF FirstVictim
<1>2. /\ InboxTurn(th) /\ StealFrom(th, FirstVictim(th))
      /\ UNCHANGED <<top, bottom, buffer, inboxVars, nodeVars, poolVars, flagVars, stk, dsp,
                     histVars>>
  BY DEF InboxEmpty, Empty
<1>3. QED
  BY <1>1, <1>2, InboxTurnFacts, StealStepTyped

LEMMA StealFailedTyped ==
  ASSUME TypeInv, NEW th \in Thread, StealFailed(th)
  PROVE  TypeInv'
<1>1. /\ AtHome(th, "stealing") /\ dq[th].pc = "done" /\ StealFrom(th, idx[th] + 1)
      /\ UNCHANGED <<top, bottom, buffer, inboxVars, nodeVars, poolVars, flagVars, stk, dsp,
                     histVars>>
  BY DEF StealFailed
<1>2. idx[th] + 1 \in Nat
  BY GraphTypes
<1>3. QED
  BY <1>1, <1>2, HomeFacts, StealStepTyped

LEMMA ReleaseAndEnterTyped ==
  ASSUME TypeInv, NEW th \in Thread, ReleaseAndEnter(th)
  PROVE  TypeInv'
<1>1. /\ AtHome(th, "releasing") /\ Release(th) /\ Enter(th, taking[th])
      /\ Goto(th, Home(th))
      /\ UNCHANGED <<dequeVars, callable, pending, successors, lane, poolVars, flagVars, idx,
                     dsp, histVars>>
  BY DEF ReleaseAndEnter
<1>2. /\ taking \in [Thread -> MaybeNode] /\ taking[th] \in Node
      /\ taking' = [taking EXCEPT ![th] = NoNode] /\ UNCHANGED cells
  BY <1>1 DEF Release, TypeInv, TypeOK, InboxTypeOK, MaybeNode
<1>3. dsp[th].at = "none" /\ dq[th].pc = "idle"
  BY <1>1, HomeFacts
<1>4. /\ Stacked' /\ invoke' \in [Node -> MaybeTask]
      /\ \A q \in Thread \ {th} : stk'[q] = stk[q]
  BY <1>1, <1>2, EnterTyped
<1>5. Home(th) \in {"loop", "wait"}
      /\ Home(th) \in Loc \ {"create_fill", "create_count", "submit"}
  BY DEF Home, Loc
<1>6. /\ loc' \in [Thread -> Loc] /\ loc'[th] = Home(th)
      /\ \A q \in Thread \ {th} : loc'[q] = loc[q]
  BY <1>1, <1>5, Went
<1>7. DequeInv'
  BY <1>1, DequeStays DEF TypeInv
<1>8. ControlOK'
  <2>1. UNCHANGED <<dsp, dq>>
    BY <1>1 DEF dequeVars
  <2>2. Control(th)'
    BY <1>3, <1>5, <1>6, <2>1 DEF Control, Dispatching, PopPC
  <2>3. QED
    BY <1>4, <1>6, <2>1, <2>2, ControlMoves DEF TypeInv
<1>9. HandlesOK'
  BY <1>1, <1>5, HandlesStay DEF histVars
<1>10. InboxTypeOK'
  BY <1>2 DEF TypeInv, TypeOK, InboxTypeOK, MaybeNode
<1>11. TypeOK'
  BY <1>1, <1>4, <1>6, <1>7, <1>10 DEF TypeInv, TypeOK, DequeInv, NodeTypeOK, PoolTypeOK,
     FlagTypeOK, ThreadTypeOK, HistTypeOK, Stacked, poolVars, flagVars, histVars
<1>12. QED
  BY <1>7, <1>8, <1>9, <1>11 DEF TypeInv

LEMMA EnterTakenTyped ==
  ASSUME TypeInv, NEW th \in Thread, EnterTaken(th)
  PROVE  TypeInv'
<1>1. /\ AtHome(th, "popping") \/ AtHome(th, "stealing")
      /\ dq[th].pc = "done" /\ dq[th].node # NoNode
      /\ Collect(th) /\ Enter(th, dq[th].node) /\ Goto(th, Home(th))
      /\ idx' = [idx EXCEPT ![th] = 0]
      /\ UNCHANGED <<top, bottom, buffer, inboxVars, callable, pending, successors, lane,
                     poolVars, flagVars, dsp, histVars>>
  BY DEF EnterTaken
<1>2. dq[th].node \in Node
  BY <1>1, GraphTypes, FrameTypes DEF MaybeNode
<1>3. dsp[th].at = "none"
  BY <1>1, HomeFacts
<1>4. /\ Stacked' /\ invoke' \in [Node -> MaybeTask]
      /\ \A q \in Thread \ {th} : stk'[q] = stk[q]
  BY <1>1, <1>2, EnterTyped
<1>5. Home(th) \in {"loop", "wait"}
      /\ Home(th) \in Loc \ {"create_fill", "create_count", "submit"}
  BY DEF Home, Loc
<1>6. /\ loc' \in [Thread -> Loc] /\ loc'[th] = Home(th)
      /\ \A q \in Thread \ {th} : loc'[q] = loc[q]
  BY <1>1, <1>5, Went
<1>7. DequeInv' /\ dq'[th].pc = "idle" /\ \A q \in Thread \ {th} : dq'[q] = dq[q]
  BY <1>1, Collected
<1>8. ControlOK'
  <2>1. UNCHANGED dsp
    BY <1>1
  <2>2. Control(th)'
    BY <1>3, <1>5, <1>6, <1>7, <2>1 DEF Control, Dispatching, PopPC
  <2>3. QED
    BY <1>4, <1>6, <1>7, <2>1, <2>2, ControlMoves DEF TypeInv
<1>9. idx' \in [Thread -> Nat] /\ \A q \in Thread \ {th} : idx'[q] = idx[q]
  BY <1>1, GraphTypes
<1>10. HandlesOK'
  BY <1>1, <1>5, <1>9, HandlesStay DEF histVars
<1>11. TypeOK'
  BY <1>1, <1>4, <1>6, <1>7, <1>9 DEF TypeInv, TypeOK, DequeInv, InboxTypeOK, NodeTypeOK,
     PoolTypeOK, FlagTypeOK, ThreadTypeOK, HistTypeOK, Stacked, inboxVars, poolVars, flagVars,
     histVars
<1>12. QED
  BY <1>7, <1>8, <1>10, <1>11 DEF TypeInv

LEMMA WorkerPopTyped ==
  ASSUME TypeInv, NEW w \in Worker, WorkerPop(w)
  PROVE  TypeInv'
<1>1. /\ AtHome(w, "loop") /\ Call(w, "pop_bottom", w, NoNode) /\ Goto(w, "popping")
      /\ UNCHANGED <<top, bottom, buffer, inboxVars, nodeVars, poolVars, flagVars, idx, stk,
                     dsp, histVars>>
  BY DEF WorkerPop, CallPop
<1>2. w \in Thread /\ w \in Deque /\ NoNode \in MaybeNode
  BY GraphTypes DEF Worker, MaybeNode
<1>3. dq[w].pc = "idle" /\ stk[w] = <<>> /\ dsp[w].at = "none"
  BY <1>1, <1>2, HomeFacts
<1>4. /\ DequeInv' /\ dq'[w].pc = "pop_bottom" /\ dq'[w].d = w
      /\ \A q \in Thread \ {w} : dq'[q] = dq[q]
  BY <1>1, <1>2, <1>3, Called
<1>5. /\ loc' \in [Thread -> Loc] /\ loc'[w] = "popping"
      /\ \A q \in Thread \ {w} : loc'[q] = loc[q]
  BY <1>1, <1>2, Went DEF Loc
<1>6. ControlOK'
  <2>1. UNCHANGED <<stk, dsp>>
    BY <1>1
  <2>2. Control(w)'
    BY <1>3, <1>4, <1>5, <2>1 DEF Control, Dispatching
  <2>3. QED
    BY <1>2, <1>4, <1>5, <2>1, <2>2, ControlMoves DEF TypeInv
<1>7. HandlesOK'
  <2>1. UNCHANGED <<created, handle, idx>>
    BY <1>1 DEF histVars
  <2>2. QED
    BY <1>1, <1>2, <2>1, HandlesStay DEF Loc
<1>8. TypeOK'
  BY <1>1, <1>4, <1>5 DEF TypeInv, TypeOK, DequeInv, InboxTypeOK, NodeTypeOK, PoolTypeOK,
     FlagTypeOK, ThreadTypeOK, HistTypeOK, inboxVars, nodeVars, poolVars, flagVars, histVars
<1>9. QED
  BY <1>4, <1>6, <1>7, <1>8 DEF TypeInv

\* a thread with no activation goes from one place to another and does nothing else
LEMMA GoTyped ==
  ASSUME TypeInv, NEW th \in Thread, dq[th].pc = "idle", stk[th] = <<>>, dsp[th].at = "none",
         NEW l \in Loc, Goto(th, l), HandlesOK',
         idx' \in [Thread -> Nat], submitted' \in BOOLEAN, stop' \in BOOLEAN,
         resetting' \in BOOLEAN,
         UNCHANGED <<dequeVars, inboxVars, nodeVars, poolVars, outstanding, laneRr, stk, dsp,
                     resets, created, batch, handle, prereq, runs>>
  PROVE  TypeInv'
<1>1. /\ loc' \in [Thread -> Loc] /\ loc'[th] = l
      /\ \A q \in Thread \ {th} : loc'[q] = loc[q]
  BY Went
<1>2. DequeInv'
  BY DequeStays DEF TypeInv
<1>3. ControlOK'
  <2>1. UNCHANGED <<stk, dsp, dq>>
    BY DEF dequeVars
  <2>2. Control(th)'
    BY <2>1 DEF Control, Dispatching, PopPC
  <2>3. QED
    BY <1>1, <2>1, <2>2, ControlMoves DEF TypeInv
<1>4. TypeOK'
  BY <1>1, <1>2 DEF TypeInv, TypeOK, DequeInv, InboxTypeOK, NodeTypeOK, PoolTypeOK,
     FlagTypeOK, ThreadTypeOK, HistTypeOK, inboxVars, nodeVars, poolVars
<1>5. QED
  BY <1>2, <1>3, <1>4 DEF TypeInv

LEMMA WorkerExitTyped ==
  ASSUME TypeInv, NEW w \in Worker, WorkerExit(w)
  PROVE  TypeInv'
<1>1. /\ AtHome(w, "loop") /\ Goto(w, "exited") /\ w \in Thread
      /\ UNCHANGED <<dequeVars, inboxVars, nodeVars, poolVars, flagVars, idx, stk, dsp,
                     histVars>>
  BY GraphTypes DEF WorkerExit, Worker
<1>2. dq[w].pc = "idle" /\ stk[w] = <<>> /\ dsp[w].at = "none"
  BY <1>1, HomeFacts
<1>3. /\ submitted' \in BOOLEAN /\ stop' \in BOOLEAN /\ resetting' \in BOOLEAN
      /\ idx' \in [Thread -> Nat]
  BY <1>1 DEF TypeInv, TypeOK, FlagTypeOK, HistTypeOK, ThreadTypeOK, flagVars, histVars
<1>4. HandlesOK'
  <2>1. UNCHANGED <<created, handle, idx>>
    BY <1>1 DEF histVars
  <2>2. QED
    BY <1>1, <2>1, HandlesStay DEF Loc
<1>5. QED
  BY <1>1, <1>2, <1>3, <1>4, GoTyped DEF Loc, flagVars, histVars

-----------------------------------------------------------------------------
(* TypeInv: the steps of the client *)

LEMMA MainHome ==
  ASSUME TypeInv, NEW l \in Loc \ {"popping", "stealing"}, AtHome(Main, l)
  PROVE  /\ Main \in Thread /\ loc[Main] = l /\ dq[Main].pc = "idle" /\ stk[Main] = <<>>
         /\ dsp[Main].at = "none"
BY GraphTypes, HomeFacts

\* a node goes to a new task
LEMMA GivenNode ==
  ASSUME TypeInv, created < MaxCreates, NEW n \in Node, GiveNode(n)
  PROVE  /\ created' = created + 1 /\ created' \in 0 .. MaxCreates /\ created' \in Task
         /\ handle' \in [Task -> MaybeNode] /\ handle'[created'] = n
         /\ \A t \in Task : t # created' => handle'[t] = handle[t]
         /\ invoke' \in [Node -> MaybeTask] /\ invoke'[n] = created'
         /\ \A m \in Node : m # n => invoke'[m] = invoke[m]
         /\ \A t \in Task : t <= created' => handle'[t] \in Node
<1>1. created \in 0 .. MaxCreates /\ MaxCreates \in Nat
  BY GraphTypes, TaskGraphAssumption
<1>2. created + 1 \in Task /\ created + 1 \in 0 .. MaxCreates /\ created + 1 \in MaybeTask
      /\ n \in MaybeNode
  BY <1>1 DEF Task, MaybeTask, MaybeNode
<1>3. /\ created' = created + 1 /\ handle' = [handle EXCEPT ![created + 1] = n]
      /\ invoke' = [invoke EXCEPT ![n] = created + 1]
  BY DEF GiveNode
<1>4. /\ handle' \in [Task -> MaybeNode] /\ handle'[created + 1] = n
      /\ \A t \in Task : t # created + 1 => handle'[t] = handle[t]
      /\ invoke' \in [Node -> MaybeTask] /\ invoke'[n] = created + 1
      /\ \A m \in Node : m # n => invoke'[m] = invoke[m]
  BY <1>2, <1>3, GraphTypes
<1>5. ASSUME NEW t \in Task, t <= created + 1
      PROVE  handle'[t] \in Node
  <2>1. CASE t = created + 1
    BY <1>4, <2>1
  <2>2. CASE t # created + 1
    <3>1. t \in Int /\ created \in Int
      BY <1>1 DEF Task
    <3>2. t <= created
      BY <1>5, <2>2, <3>1
    <3>3. QED
      BY <1>4, <2>2, <3>2 DEF TypeInv, HandlesOK
  <2>3. QED
    BY <2>1, <2>2
<1>6. QED
  BY <1>2, <1>3, <1>4, <1>5

\* where create_task gets its node: the last of free_nodes_ or the first of the pool
LEMMA TakenNode ==
  ASSUME TypeInv, CreateTake
  PROVE  \E n \in Node :
           /\ GiveNode(n)
           /\ \/ /\ freeNodes # <<>> /\ n = freeNodes[Len(freeNodes)]
                 /\ freeNodes' \in Seq(Node) /\ Len(freeNodes') = Len(freeNodes) - 1
                 /\ \A i \in 1 .. Len(freeNodes') : freeNodes'[i] = freeNodes[i]
                 /\ UNCHANGED <<pool, tasks, callable, pending, successors>>
              \/ /\ pool # <<>> /\ n = pool[1]
                 /\ pool' \in Seq(Node) /\ Len(pool') = Len(pool) - 1
                 /\ \A i \in 1 .. Len(pool') : pool'[i] = pool[i + 1]
                 /\ tasks' = Append(tasks, n)
                 /\ callable' = [callable EXCEPT ![n] = NoTask]
                 /\ pending' = [pending EXCEPT ![n] = 0]
                 /\ successors' = [successors EXCEPT ![n] = <<>>]
                 /\ UNCHANGED freeNodes
<1>1. CASE /\ freeNodes # <<>> /\ GiveNode(Last(freeNodes))
           /\ freeNodes' = Front(freeNodes)
           /\ UNCHANGED <<pool, tasks, callable, pending, successors>>
  <2>1. freeNodes \in Seq(Node) /\ Len(freeNodes) \in Nat \ {0}
    BY <1>1, GraphTypes
  <2>2. Last(freeNodes) = freeNodes[Len(freeNodes)] /\ Last(freeNodes) \in Node
    BY <2>1 DEF Last
  <2>3. /\ Front(freeNodes) \in Seq(Node) /\ Len(Front(freeNodes)) = Len(freeNodes) - 1
        /\ \A i \in 1 .. (Len(freeNodes) - 1) : Front(freeNodes)[i] = freeNodes[i]
    <3>1. Front(freeNodes) = SubSeq(freeNodes, 1, Len(freeNodes) - 1)
      BY DEF Front
    <3>2. /\ SubSeq(freeNodes, 1, Len(freeNodes) - 1) \in Seq(Node)
          /\ Len(SubSeq(freeNodes, 1, Len(freeNodes) - 1)) = Len(freeNodes) - 1
          /\ \A i \in 1 .. (Len(freeNodes) - 1) :
               SubSeq(freeNodes, 1, Len(freeNodes) - 1)[i] = freeNodes[i]
      <4> DEFINE k == Len(freeNodes) - 1
      <4>1. k \in Nat /\ \A i \in 1 .. k : freeNodes[i] \in Node
        BY <2>1
      <4> HIDE DEF k
      <4>2. /\ SubSeq(freeNodes, 1, k) \in Seq(Node)
            /\ Len(SubSeq(freeNodes, 1, k)) = IF 1 <= k THEN k - 1 + 1 ELSE 0
            /\ \A i \in 1 .. k - 1 + 1 : SubSeq(freeNodes, 1, k)[i] = freeNodes[1 + i - 1]
        BY <4>1, SubSeqProperties
      <4>3. \A i \in 1 .. k : i \in 1 .. k - 1 + 1 /\ 1 + i - 1 = i
        BY <4>1
      <4>4. Len(SubSeq(freeNodes, 1, k)) = k
        BY <4>1, <4>2
      <4>5. \A i \in 1 .. k : SubSeq(freeNodes, 1, k)[i] = freeNodes[i]
        BY <4>2, <4>3
      <4>6. QED
        BY <4>2, <4>4, <4>5 DEF k
    <3>3. QED
      BY <3>1, <3>2
  <2>4. QED
    BY <1>1, <2>2, <2>3
<1>2. CASE /\ pool # <<>> /\ GiveNode(Head(pool))
           /\ pool' = Tail(pool) /\ tasks' = Append(tasks, Head(pool))
           /\ callable' = [callable EXCEPT ![Head(pool)] = NoTask]
           /\ pending' = [pending EXCEPT ![Head(pool)] = 0]
           /\ successors' = [successors EXCEPT ![Head(pool)] = <<>>]
           /\ UNCHANGED freeNodes
  <2>1. pool \in Seq(Node)
    BY GraphTypes
  <2>2. Head(pool) = pool[1] /\ Head(pool) \in Node
    BY <1>2, <2>1
  <2>3. /\ Tail(pool) \in Seq(Node) /\ Len(Tail(pool)) = Len(pool) - 1
        /\ \A i \in 1 .. Len(Tail(pool)) : Tail(pool)[i] = pool[i + 1]
    BY <1>2, <2>1, HeadTailProperties
  <2>4. QED
    BY <1>2, <2>2, <2>3
<1>3. QED
  BY <1>1, <1>2 DEF CreateTake

LEMMA CreateTakeTyped ==
  ASSUME TypeInv, CreateTake
  PROVE  TypeInv'
<1>1. /\ Client /\ created < MaxCreates /\ Goto(Main, "create_fill")
      /\ UNCHANGED <<dequeVars, inboxVars, lane, flagVars, idx, stk, dsp, resetting, resets,
                     batch, prereq, runs>>
  BY DEF CreateTake
<1>2. PICK n \in Node :
        /\ GiveNode(n)
        /\ \/ /\ freeNodes' \in Seq(Node)
              /\ UNCHANGED <<pool, tasks, callable, pending, successors>>
           \/ /\ pool' \in Seq(Node)
              /\ tasks' = Append(tasks, n)
              /\ callable' = [callable EXCEPT ![n] = NoTask]
              /\ pending' = [pending EXCEPT ![n] = 0]
              /\ successors' = [successors EXCEPT ![n] = <<>>]
              /\ UNCHANGED freeNodes
  BY TakenNode
<1>3. /\ created' = created + 1 /\ created' \in 0 .. MaxCreates /\ created' \in Task
      /\ handle' \in [Task -> MaybeNode] /\ invoke' \in [Node -> MaybeTask]
      /\ \A t \in Task : t <= created' => handle'[t] \in Node
  BY <1>1, <1>2, GivenNode
<1>4. /\ pool' \in Seq(Node) /\ tasks' \in Seq(Node) /\ freeNodes' \in Seq(Node)
      /\ callable' \in [Node -> MaybeTask] /\ pending' \in [Node -> 0 .. CounterMod - 1]
      /\ successors' \in [Node -> Seq(Node)]
  <2>1. NoTask \in MaybeTask /\ 0 \in 0 .. CounterMod - 1 /\ <<>> \in Seq(Node)
    BY TaskGraphAssumption DEF MaybeTask
  <2>2. Append(tasks, n) \in Seq(Node)
    BY GraphTypes, AppendProperties
  <2>3. /\ pool \in Seq(Node) /\ tasks \in Seq(Node) /\ freeNodes \in Seq(Node)
        /\ callable \in [Node -> MaybeTask] /\ pending \in [Node -> 0 .. CounterMod - 1]
        /\ successors \in [Node -> Seq(Node)]
    BY GraphTypes
  <2>4. CASE UNCHANGED <<pool, tasks, callable, pending, successors>> /\ freeNodes' \in Seq(Node)
    BY <2>3, <2>4
  <2>5. CASE /\ pool' \in Seq(Node)
             /\ tasks' = Append(tasks, n)
             /\ callable' = [callable EXCEPT ![n] = NoTask]
             /\ pending' = [pending EXCEPT ![n] = 0]
             /\ successors' = [successors EXCEPT ![n] = <<>>]
             /\ UNCHANGED freeNodes
    BY <2>1, <2>2, <2>3, <2>5
  <2>6. QED
    BY <1>2, <2>4, <2>5
<1>5. Main \in Thread /\ dq[Main].pc = "idle" /\ stk[Main] = <<>> /\ dsp[Main].at = "none"
  BY <1>1, MainHome DEF Client, Loc
<1>6. /\ loc' \in [Thread -> Loc] /\ loc'[Main] = "create_fill"
      /\ \A q \in Thread \ {Main} : loc'[q] = loc[q]
  BY <1>1, <1>5, Went DEF Loc
<1>7. DequeInv'
  BY <1>1, DequeStays DEF TypeInv
<1>8. ControlOK'
  <2>1. UNCHANGED <<stk, dsp, dq>>
    BY <1>1 DEF dequeVars
  <2>2. Control(Main)'
    BY <1>5, <2>1 DEF Control, Dispatching, PopPC
  <2>3. QED
    BY <1>5, <1>6, <2>1, <2>2, ControlMoves DEF TypeInv
<1>9. HandlesOK'
  <2>1. created' > 0
    BY <1>3, GraphTypes
  <2>2. QED
    BY <1>3, <1>6, <2>1 DEF HandlesOK
<1>10. TypeOK'
  BY <1>1, <1>3, <1>4, <1>6, <1>7 DEF TypeInv, TypeOK, DequeInv, InboxTypeOK, NodeTypeOK,
     PoolTypeOK, FlagTypeOK, ThreadTypeOK, HistTypeOK, inboxVars, flagVars
<1>11. QED
  BY <1>7, <1>8, <1>9, <1>10 DEF TypeInv

\* the task being created and its node
LEMMA LastTask ==
  ASSUME TypeInv, loc[Main] \in {"create_fill", "create_count"}
  PROVE  created \in Task /\ handle[created] \in Node
<1>1. created \in 0 .. MaxCreates /\ created > 0 /\ MaxCreates \in Nat
  BY GraphTypes, TaskGraphAssumption DEF TypeInv, HandlesOK
<1>2. created \in Task
  BY <1>1 DEF Task
<1>3. QED
  BY <1>1, <1>2 DEF TypeInv, HandlesOK

LEMMA CreateFillTyped ==
  ASSUME TypeInv, CreateFill
  PROVE  TypeInv'
<1> DEFINE n == handle[created]
<1>1. /\ AtHome(Main, "create_fill") /\ Goto(Main, "create_count")
      /\ pending' = [pending EXCEPT ![n] = IF submitted THEN 0 ELSE 1]
      /\ successors' = [successors EXCEPT ![n] = <<>>]
      /\ callable' = [callable EXCEPT ![n] = created]
      /\ \E l \in Lane : lane' = [lane EXCEPT ![n] = l]
      /\ UNCHANGED <<dequeVars, inboxVars, invoke, poolVars, flagVars, idx, stk, dsp, histVars>>
  BY DEF CreateFill
<1>2. /\ Main \in Thread /\ dq[Main].pc = "idle" /\ stk[Main] = <<>>
      /\ dsp[Main].at = "none" /\ loc[Main] = "create_fill"
  BY <1>1, MainHome DEF Loc
<1>3. n \in Node /\ created \in Task /\ created > 0
  BY <1>2, LastTask DEF TypeInv, HandlesOK
<1> HIDE DEF n
<1>4. /\ callable' \in [Node -> MaybeTask] /\ successors' \in [Node -> Seq(Node)]
      /\ lane' \in [Node -> Lane]
  <2>1. created \in MaybeTask /\ <<>> \in Seq(Node)
    BY <1>3 DEF MaybeTask
  <2>2. QED
    BY <1>1, <1>3, <2>1, GraphTypes
<1>5. pending' \in [Node -> 0 .. CounterMod - 1]
  <2>1. CounterMod \in Nat \ {0, 1}
    BY TaskGraphAssumption
  <2>2. (IF submitted THEN 0 ELSE 1) \in 0 .. CounterMod - 1
    BY <2>1
  <2>3. QED
    BY <1>1, <1>3, <2>2, GraphTypes
<1>6. /\ loc' \in [Thread -> Loc] /\ loc'[Main] = "create_count"
      /\ \A q \in Thread \ {Main} : loc'[q] = loc[q]
  BY <1>1, <1>2, Went DEF Loc
<1>7. DequeInv'
  BY <1>1, DequeStays DEF TypeInv
<1>8. ControlOK'
  <2>1. UNCHANGED <<stk, dsp, dq>>
    BY <1>1 DEF dequeVars
  <2>2. Control(Main)'
    BY <1>2, <2>1 DEF Control, Dispatching, PopPC
  <2>3. QED
    BY <1>2, <1>6, <2>1, <2>2, ControlMoves DEF TypeInv
<1>9. HandlesOK'
  BY <1>1, <1>3, <1>6 DEF TypeInv, HandlesOK, histVars
<1>10. TypeOK'
  BY <1>1, <1>4, <1>5, <1>6, <1>7 DEF TypeInv, TypeOK, DequeInv, InboxTypeOK, NodeTypeOK,
     PoolTypeOK, FlagTypeOK, ThreadTypeOK, HistTypeOK, inboxVars, poolVars, flagVars, histVars
<1>11. QED
  BY <1>7, <1>8, <1>9, <1>10 DEF TypeInv

LEMMA CreateCountTyped ==
  ASSUME TypeInv, CreateCount
  PROVE  TypeInv'
<1> DEFINE n == handle[created]
<1>1. /\ AtHome(Main, "create_count") /\ Goto(Main, "client")
      /\ outstanding' = Inc(outstanding)
      /\ Dispatch(Main, n) \/ UNCHANGED <<dequeVars, laneRr, dsp>>
      /\ UNCHANGED <<inboxVars, nodeVars, poolVars, submitted, stop, idx, stk, histVars>>
  BY DEF CreateCount
<1>2. /\ Main \in Thread /\ dq[Main].pc = "idle" /\ stk[Main] = <<>>
      /\ dsp[Main].at = "none" /\ loc[Main] = "create_count"
  BY <1>1, MainHome DEF Loc
<1>3. n \in Node
  BY <1>2, LastTask
<1> HIDE DEF n
<1>4. /\ DequeInv' /\ laneRr' \in [Lane -> 0 .. NumWorkers - 1]
      /\ dsp' \in [Thread -> [at : {"none", "push", "inbox", "publish"}, node : MaybeNode]]
      /\ \A q \in Thread \ {Main} : dq'[q] = dq[q] /\ dsp'[q] = dsp[q]
      /\ \/ dq'[Main] = dq[Main] /\ dsp'[Main] = dsp[Main]
         \/ dq'[Main].pc = "push_bottom" /\ dsp'[Main] = [at |-> "push", node |-> n]
  BY <1>1, <1>2, <1>3, DispatchesOrNot
<1>5. outstanding' \in 0 .. CounterMod - 1
  BY <1>1, GraphTypes, CountersTyped
<1>6. /\ loc' \in [Thread -> Loc] /\ loc'[Main] = "client"
      /\ \A q \in Thread \ {Main} : loc'[q] = loc[q]
  BY <1>1, <1>2, Went DEF Loc
<1>7. ControlOK'
  <2>1. stk' = stk
    BY <1>1
  <2>2. Control(Main)'
    BY <1>2, <1>3, <1>4, <1>6, <2>1 DEF Control, Dispatching, PopPC
  <2>3. QED
    BY <1>2, <1>4, <1>6, <2>1, <2>2, ControlMoves DEF TypeInv
<1>8. HandlesOK'
  <2>1. UNCHANGED <<created, handle, idx>>
    BY <1>1 DEF histVars
  <2>2. QED
    BY <1>1, <1>2, <2>1, HandlesStay DEF Loc
<1>9. TypeOK'
  BY <1>1, <1>4, <1>5, <1>6 DEF TypeInv, TypeOK, DequeInv, InboxTypeOK, NodeTypeOK,
     PoolTypeOK, FlagTypeOK, ThreadTypeOK, HistTypeOK, inboxVars, nodeVars, poolVars, histVars
<1>10. QED
  BY <1>4, <1>7, <1>8, <1>9 DEF TypeInv

LEMMA AddDependencyTyped ==
  ASSUME TypeInv, AddDependency
  PROVE  TypeInv'
<1>1. UNCHANGED <<dequeVars, inboxVars, invoke, callable, lane, poolVars, flagVars,
                  threadVars, resetting, resets, created, batch, handle, runs>>
  BY DEF AddDependency
<1>2. PICK p \in batch + 1 .. created : \E d \in batch + 1 .. created :
        /\ successors' = [successors EXCEPT ![handle[p]] = Append(@, handle[d])]
        /\ pending' = [pending EXCEPT ![handle[d]] = Inc(@)]
        /\ prereq' = prereq \cup {<<p, d>>}
  BY DEF AddDependency
<1>3. PICK d \in batch + 1 .. created :
        /\ successors' = [successors EXCEPT ![handle[p]] = Append(@, handle[d])]
        /\ pending' = [pending EXCEPT ![handle[d]] = Inc(@)]
        /\ prereq' = prereq \cup {<<p, d>>}
  BY <1>2
<1>4. batch \in 0 .. MaxCreates /\ created \in 0 .. MaxCreates /\ MaxCreates \in Nat
  BY TaskGraphAssumption DEF TypeInv, TypeOK, HistTypeOK
<1>5. p \in Task /\ d \in Task /\ handle[p] \in Node /\ handle[d] \in Node
  <2>1. p \in Task /\ d \in Task /\ p <= created /\ d <= created
    BY <1>4 DEF Task
  <2>2. QED
    BY <2>1 DEF TypeInv, HandlesOK
<1>6. successors' \in [Node -> Seq(Node)]
  <2>1. Append(successors[handle[p]], handle[d]) \in Seq(Node)
    BY <1>5, GraphTypes, AppendProperties
  <2>2. QED
    BY <1>3, <1>5, <2>1, GraphTypes
<1>7. pending' \in [Node -> 0 .. CounterMod - 1]
  <2>1. Inc(pending[handle[d]]) \in 0 .. CounterMod - 1
    BY <1>5, GraphTypes, CountersTyped
  <2>2. QED
    BY <1>3, <1>5, <2>1, GraphTypes
<1>8. prereq' \subseteq Task \X Task
  BY <1>3, <1>5 DEF TypeInv, TypeOK, HistTypeOK
<1>9. DequeInv'
  BY <1>1, DequeStays DEF TypeInv
<1>10. ControlOK' /\ HandlesOK'
  BY <1>1 DEF TypeInv, ControlOK, Control, Dispatching, HandlesOK, threadVars, dequeVars
<1>11. TypeOK'
  BY <1>1, <1>6, <1>7, <1>8, <1>9 DEF TypeInv, TypeOK, DequeInv, InboxTypeOK, NodeTypeOK,
     PoolTypeOK, FlagTypeOK, ThreadTypeOK, HistTypeOK, inboxVars, poolVars, flagVars, threadVars
<1>12. QED
  BY <1>9, <1>10, <1>11 DEF TypeInv

LEMMA SubmitTyped ==
  ASSUME TypeInv, Submit
  PROVE  TypeInv'
<1>1. /\ AtHome(Main, "client") /\ submitted' = TRUE /\ Goto(Main, "submit")
      /\ idx' = [idx EXCEPT ![Main] = 1]
      /\ UNCHANGED <<dequeVars, inboxVars, nodeVars, poolVars, outstanding, stop, laneRr, stk,
                     dsp, histVars>>
  BY DEF Submit, Client
<1>2. /\ Main \in Thread /\ dq[Main].pc = "idle" /\ stk[Main] = <<>> /\ dsp[Main].at = "none"
  BY <1>1, MainHome DEF Loc
<1>3. idx' \in [Thread -> Nat] /\ idx'[Main] = 1
  BY <1>1, <1>2, GraphTypes
<1>4. loc'[Main] = "submit"
  BY <1>1, <1>2, Went DEF Loc
<1>5. HandlesOK'
  BY <1>1, <1>3, <1>4 DEF TypeInv, HandlesOK, histVars
<1>6. stop' \in BOOLEAN /\ resetting' \in BOOLEAN /\ submitted' \in BOOLEAN
  BY <1>1 DEF TypeInv, TypeOK, FlagTypeOK, HistTypeOK, histVars
<1>7. "submit" \in Loc
  BY DEF Loc
<1>8. QED
  BY <1>1, <1>2, <1>3, <1>5, <1>6, <1>7, GoTyped DEF histVars

LEMMA SubmitTaskTyped ==
  ASSUME TypeInv, SubmitTask
  PROVE  TypeInv'
<1> DEFINE n == tasks[idx[Main]]
<1>1. /\ AtHome(Main, "submit") /\ idx[Main] <= Len(tasks)
      /\ pending' = [pending EXCEPT ![n] = Dec(@)]
      /\ Dispatch(Main, n) \/ UNCHANGED <<dequeVars, laneRr, dsp>>
      /\ idx' = [idx EXCEPT ![Main] = @ + 1]
      /\ UNCHANGED <<inboxVars, invoke, callable, successors, lane, poolVars, outstanding,
                     submitted, stop, loc, stk, histVars>>
  BY DEF SubmitTask
<1>2. /\ Main \in Thread /\ dq[Main].pc = "idle" /\ stk[Main] = <<>>
      /\ dsp[Main].at = "none" /\ loc[Main] = "submit"
  BY <1>1, MainHome DEF Loc
<1>3. n \in Node
  <2>1. idx[Main] \in Nat /\ idx[Main] > 0 /\ tasks \in Seq(Node)
    BY <1>2, GraphTypes DEF TypeInv, HandlesOK
  <2>2. QED
    BY <1>1, <2>1
<1> HIDE DEF n
<1>4. /\ DequeInv' /\ laneRr' \in [Lane -> 0 .. NumWorkers - 1]
      /\ dsp' \in [Thread -> [at : {"none", "push", "inbox", "publish"}, node : MaybeNode]]
      /\ \A q \in Thread \ {Main} : dq'[q] = dq[q] /\ dsp'[q] = dsp[q]
      /\ \/ dq'[Main] = dq[Main] /\ dsp'[Main] = dsp[Main]
         \/ dq'[Main].pc = "push_bottom" /\ dsp'[Main] = [at |-> "push", node |-> n]
  BY <1>1, <1>2, <1>3, DispatchesOrNot
<1>5. pending' \in [Node -> 0 .. CounterMod - 1]
  <2>1. Dec(pending[n]) \in 0 .. CounterMod - 1
    BY <1>3, GraphTypes, CountersTyped
  <2>2. QED
    BY <1>1, <1>3, <2>1, GraphTypes
<1>6. idx' \in [Thread -> Nat] /\ idx'[Main] > 0
  BY <1>1, <1>2, GraphTypes
<1>7. ControlOK'
  <2>1. stk' = stk /\ loc' = loc
    BY <1>1
  <2>2. Control(Main)'
    BY <1>2, <1>3, <1>4, <2>1 DEF Control, Dispatching, PopPC
  <2>3. QED
    BY <1>2, <1>4, <2>1, <2>2, ControlMoves DEF TypeInv
<1>8. HandlesOK'
  BY <1>1, <1>6 DEF TypeInv, HandlesOK, histVars
<1>9. TypeOK'
  BY <1>1, <1>4, <1>5, <1>6 DEF TypeInv, TypeOK, DequeInv, InboxTypeOK, NodeTypeOK,
     PoolTypeOK, FlagTypeOK, ThreadTypeOK, HistTypeOK, inboxVars, poolVars, histVars
<1>10. QED
  BY <1>4, <1>7, <1>8, <1>9 DEF TypeInv

\* the client moves on within its calls, and at most its flags change
LEMMA ClientGoes ==
  ASSUME TypeInv,
         NEW m \in {"client", "submit", "wait", "join"}, AtHome(Main, m),
         NEW l \in Loc \ {"create_fill", "create_count", "submit"}, Goto(Main, l),
         idx' \in [Thread -> Nat], \A q \in Thread \ {Main} : idx'[q] = idx[q],
         submitted' \in BOOLEAN, stop' \in BOOLEAN, resetting' \in BOOLEAN,
         UNCHANGED <<dequeVars, inboxVars, nodeVars, poolVars, outstanding, laneRr, stk, dsp,
                     resets, created, batch, handle, prereq, runs>>
  PROVE  TypeInv'
<1>1. /\ Main \in Thread /\ dq[Main].pc = "idle" /\ stk[Main] = <<>> /\ dsp[Main].at = "none"
  BY MainHome DEF Loc
<1>2. HandlesOK'
  BY <1>1, HandlesStay
<1>3. QED
  BY <1>1, <1>2, GoTyped

LEMMA SubmitReturnTyped ==
  ASSUME TypeInv, SubmitReturn
  PROVE  TypeInv'
<1>1. /\ AtHome(Main, "submit") /\ idx' = [idx EXCEPT ![Main] = 0] /\ Goto(Main, "client")
      /\ UNCHANGED <<dequeVars, inboxVars, nodeVars, poolVars, flagVars, stk, dsp, histVars>>
  BY DEF SubmitReturn
<1>2. submitted' \in BOOLEAN /\ stop' \in BOOLEAN /\ resetting' \in BOOLEAN
  BY <1>1 DEF TypeInv, TypeOK, FlagTypeOK, HistTypeOK, flagVars, histVars
<1>3. idx' \in [Thread -> Nat] /\ \A q \in Thread \ {Main} : idx'[q] = idx[q]
  BY <1>1, GraphTypes
<1>4. QED
  BY <1>1, <1>2, <1>3, ClientGoes DEF Loc, flagVars, histVars

LEMMA CallWaitTyped ==
  ASSUME TypeInv, CallWait
  PROVE  TypeInv'
<1>1. /\ AtHome(Main, "client") /\ Goto(Main, "wait") /\ resetting' \in BOOLEAN
      /\ UNCHANGED <<dequeVars, inboxVars, nodeVars, poolVars, flagVars, idx, stk, dsp,
                     resets, created, batch, handle, prereq, runs>>
  BY DEF CallWait, Client
<1>2. submitted' \in BOOLEAN /\ stop' \in BOOLEAN
  BY <1>1 DEF TypeInv, TypeOK, FlagTypeOK, flagVars
<1>3. idx' \in [Thread -> Nat] /\ \A q \in Thread \ {Main} : idx'[q] = idx[q]
  BY <1>1, GraphTypes
<1>4. QED
  BY <1>1, <1>2, <1>3, ClientGoes DEF Loc, flagVars

LEMMA WaitTyped ==
  ASSUME TypeInv, WaitHelp \/ WaitReturn
  PROVE  TypeInv'
<1>1. /\ AtHome(Main, "wait")
      /\ Goto(Main, "help") \/ Goto(Main, "client")
      /\ UNCHANGED <<dequeVars, inboxVars, nodeVars, poolVars, flagVars, idx, stk, dsp,
                     histVars>>
  BY DEF WaitHelp, WaitReturn
<1>2. submitted' \in BOOLEAN /\ stop' \in BOOLEAN /\ resetting' \in BOOLEAN
  BY <1>1 DEF TypeInv, TypeOK, FlagTypeOK, HistTypeOK, flagVars, histVars
<1>3. idx' \in [Thread -> Nat] /\ \A q \in Thread \ {Main} : idx'[q] = idx[q]
  BY <1>1, GraphTypes
<1>4. PICK l \in {"help", "client"} : Goto(Main, l)
  BY <1>1
<1>5. QED
  BY <1>1, <1>2, <1>3, <1>4, ClientGoes DEF Loc, flagVars, histVars

LEMMA DestroyTyped ==
  ASSUME TypeInv, Destroy
  PROVE  TypeInv'
<1>1. /\ AtHome(Main, "client") /\ Goto(Main, "join") /\ stop' = TRUE
      /\ UNCHANGED <<dequeVars, inboxVars, nodeVars, poolVars, outstanding, submitted, laneRr,
                     idx, stk, dsp, histVars>>
  BY DEF Destroy, Client
<1>2. submitted' \in BOOLEAN /\ stop' \in BOOLEAN /\ resetting' \in BOOLEAN
  BY <1>1 DEF TypeInv, TypeOK, FlagTypeOK, HistTypeOK, histVars
<1>3. idx' \in [Thread -> Nat] /\ \A q \in Thread \ {Main} : idx'[q] = idx[q]
  BY <1>1, GraphTypes
<1>4. QED
  BY <1>1, <1>2, <1>3, ClientGoes DEF Loc, histVars

\* every node of the graph goes back to the pool, the last created on top
LEMMA ReturnedNodes ==
  ASSUME TypeInv, ResetNodes
  PROVE  /\ pool' \in Seq(Node) /\ Len(pool') = Len(tasks) + Len(pool)
         /\ Len(tasks) \in Nat /\ Len(pool) \in Nat
         /\ \A i \in 1 .. Len(pool') :
              pool'[i] = IF i <= Len(tasks) THEN tasks[Len(tasks) - i + 1]
                         ELSE pool[i - Len(tasks)]
         /\ tasks' \in Seq(Node) /\ Len(tasks') = 0
         /\ freeNodes' \in Seq(Node) /\ Len(freeNodes') = 0
         /\ callable' \in [Node -> MaybeTask]
<1>1. tasks \in Seq(Node) /\ pool \in Seq(Node) /\ Len(tasks) \in Nat /\ Len(pool) \in Nat
  BY GraphTypes
<1>2. /\ Reverse(tasks) \in Seq(Node) /\ Len(Reverse(tasks)) = Len(tasks)
      /\ \A i \in 1 .. Len(tasks) : Reverse(tasks)[i] = tasks[Len(tasks) - i + 1]
  <2>1. Reverse(tasks) = [i \in 1 .. Len(tasks) |-> tasks[(Len(tasks) - i) + 1]]
    BY DEF Reverse
  <2>2. \A i \in 1 .. Len(tasks) : tasks[(Len(tasks) - i) + 1] \in Node
    BY <1>1
  <2>3. Reverse(tasks) \in Seq(Node)
    BY <1>1, <2>1, <2>2, IsASeq
  <2>4. Len(Reverse(tasks)) = Len(tasks)
    BY <1>1, <2>1, <2>3, LenProperties
  <2>5. QED
    BY <1>1, <2>1, <2>3, <2>4
<1>3. pool' = Reverse(tasks) \o pool /\ tasks' = <<>> /\ freeNodes' = <<>>
  BY DEF ResetNodes
<1>4. /\ pool' \in Seq(Node) /\ Len(pool') = Len(tasks) + Len(pool)
      /\ \A i \in 1 .. (Len(tasks) + Len(pool)) :
           pool'[i] = IF i <= Len(tasks) THEN Reverse(tasks)[i] ELSE pool[i - Len(tasks)]
  <2> DEFINE r == Reverse(tasks)
  <2>1. r \in Seq(Node) /\ Len(r) = Len(tasks) /\ pool' = r \o pool
    BY <1>2, <1>3
  <2> HIDE DEF r
  <2>2. /\ r \o pool \in Seq(Node) /\ Len(r \o pool) = Len(r) + Len(pool)
        /\ \A i \in 1 .. Len(r) + Len(pool) :
             (r \o pool)[i] = IF i <= Len(r) THEN r[i] ELSE pool[i - Len(r)]
    BY <1>1, <2>1, ConcatProperties
  <2>3. /\ pool' \in Seq(Node) /\ Len(pool') = Len(tasks) + Len(pool)
        /\ \A i \in 1 .. (Len(tasks) + Len(pool)) :
             pool'[i] = IF i <= Len(tasks) THEN r[i] ELSE pool[i - Len(tasks)]
    BY <2>1, <2>2
  <2>4. QED
    BY <2>3 DEF r
<1>5. ASSUME NEW i \in 1 .. (Len(tasks) + Len(pool))
      PROVE  pool'[i] = IF i <= Len(tasks) THEN tasks[Len(tasks) - i + 1]
                        ELSE pool[i - Len(tasks)]
  BY <1>1, <1>2, <1>4
<1>6. callable' \in [Node -> MaybeTask]
  <2>1. callable' = [n \in Node |-> IF n \in Range(tasks) THEN NoTask ELSE callable[n]]
    BY DEF ResetNodes
  <2>2. NoTask \in MaybeTask /\ callable \in [Node -> MaybeTask]
    BY GraphTypes DEF MaybeTask
  <2>3. QED
    BY <2>1, <2>2
<1>7. <<>> \in Seq(Node) /\ Len(<<>>) = 0
  OBVIOUS
<1>8. QED
  BY <1>1, <1>3, <1>4, <1>5, <1>6, <1>7

LEMMA ResetTyped ==
  ASSUME TypeInv, Reset \/ Join
  PROVE  TypeInv'
<1>1. /\ ResetNodes
      /\ \/ AtHome(Main, "wait") /\ Goto(Main, "client")
         \/ AtHome(Main, "join") /\ Goto(Main, "gone")
      /\ UNCHANGED <<dequeVars, inboxVars, invoke, pending, successors, lane, outstanding,
                     stop, laneRr, idx, stk, dsp, created, handle, prereq, runs>>
  BY DEF Reset, Join, flagVars, histVars
<1>2. /\ submitted' \in BOOLEAN /\ resetting' \in BOOLEAN /\ resets' \in Nat
      /\ batch' \in 0 .. MaxCreates
  <2>1. CASE Reset
    <3>1. /\ submitted' = FALSE /\ resetting' = FALSE /\ batch' = created
          /\ resets' = resets + 1
      BY <2>1 DEF Reset
    <3>2. resets \in Nat /\ created \in 0 .. MaxCreates
      BY DEF TypeInv, TypeOK, HistTypeOK
    <3>3. resets + 1 \in Nat
      BY <3>2
    <3>4. QED
      BY <3>1, <3>2, <3>3
  <2>2. CASE Join
    BY <2>2 DEF Join, TypeInv, TypeOK, HistTypeOK, FlagTypeOK, flagVars, histVars
  <2>3. QED
    BY <2>1, <2>2
<1>3. PICK l \in {"client", "gone"} : Goto(Main, l)
  BY <1>1
<1>4. Main \in Thread /\ dq[Main].pc = "idle" /\ stk[Main] = <<>> /\ dsp[Main].at = "none"
  BY <1>1, MainHome DEF Loc
<1>5. l \in Loc \ {"create_fill", "create_count", "submit"}
  BY DEF Loc
<1>6. /\ loc' \in [Thread -> Loc] /\ loc'[Main] = l
      /\ \A q \in Thread \ {Main} : loc'[q] = loc[q]
  BY <1>3, <1>4, <1>5, Went
<1>7. /\ pool' \in Seq(Node) /\ tasks' \in Seq(Node) /\ freeNodes' \in Seq(Node)
      /\ callable' \in [Node -> MaybeTask]
  BY <1>1, ReturnedNodes
<1>8. DequeInv'
  BY <1>1, DequeStays DEF TypeInv
<1>9. ControlOK'
  <2>1. UNCHANGED <<stk, dsp, dq>>
    BY <1>1 DEF dequeVars
  <2>2. Control(Main)'
    BY <1>4, <2>1 DEF Control, Dispatching, PopPC
  <2>3. QED
    BY <1>4, <1>6, <2>1, <2>2, ControlMoves DEF TypeInv
<1>10. HandlesOK'
  BY <1>1, <1>3, <1>4, <1>5, HandlesStay
<1>11. TypeOK'
  BY <1>1, <1>2, <1>6, <1>7, <1>8 DEF TypeInv, TypeOK, DequeInv, InboxTypeOK, NodeTypeOK,
     PoolTypeOK, FlagTypeOK, ThreadTypeOK, HistTypeOK, inboxVars
<1>12. QED
  BY <1>8, <1>9, <1>10, <1>11 DEF TypeInv

-----------------------------------------------------------------------------
(* TypeInv: every step *)

LEMMA StutterTyped ==
  ASSUME TypeInv, UNCHANGED vars
  PROVE  TypeInv'
<1>1. UNCHANGED <<dequeVars, inboxVars, nodeVars, poolVars, flagVars, threadVars, histVars>>
  BY DEF vars
<1>2. DequeInv'
  BY <1>1, DequeStays DEF TypeInv
<1>3. ControlOK' /\ HandlesOK'
  BY <1>1 DEF TypeInv, ControlOK, Control, Dispatching, HandlesOK, threadVars, dequeVars,
     histVars
<1>4. TypeOK'
  BY <1>1, <1>2 DEF TypeInv, TypeOK, DequeInv, InboxTypeOK, NodeTypeOK, PoolTypeOK,
     FlagTypeOK, ThreadTypeOK, HistTypeOK, inboxVars, nodeVars, poolVars, flagVars,
     threadVars, histVars
<1>5. QED
  BY <1>2, <1>3, <1>4 DEF TypeInv

LEMMA InitTyped == Init => TypeInv
<1> SUFFICES ASSUME Init PROVE TypeInv
  OBVIOUS
<1>1. DequeInv
  <2>1. 0 \in Deque
    BY TaskGraphAssumption
  <2>2. QED
    BY <2>1, DequeInitInv DEF Init
<1>2. InboxTypeOK
  BY InboxAssumption DEF Init, InboxInit, InboxTypeOK, MaybeNode
<1>3. NodeTypeOK
  <2>1. NoTask \in MaybeTask /\ 0 \in 0 .. CounterMod - 1 /\ <<>> \in Seq(Node)
    BY TaskGraphAssumption DEF MaybeTask
  <2>2. ASSUME NEW m \in Node
        PROVE  (CHOOSE l \in Lane : TRUE) \in Lane
    <3>1. Preferred[0] \in Lane
      BY TaskGraphAssumption
    <3>2. QED
      BY <3>1
  <2>3. lane \in [Node -> Lane]
    BY <2>2 DEF Init
  <2>4. QED
    BY <2>1, <2>3 DEF Init, NodeTypeOK
<1>4. PoolTypeOK
  BY TaskGraphAssumption DEF Init, PoolTypeOK
<1>5. FlagTypeOK
  <2>1. 0 \in 0 .. CounterMod - 1 /\ 0 \in 0 .. NumWorkers - 1
    BY TaskGraphAssumption
  <2>2. QED
    BY <2>1 DEF Init, FlagTypeOK
<1>6. ThreadTypeOK
  <2>1. <<>> \in Seq(Activation)
    OBVIOUS
  <2>2. NotDispatching \in [at : {"none", "push", "inbox", "publish"}, node : MaybeNode]
    BY DEF NotDispatching, MaybeNode
  <2>3. QED
    BY <2>1, <2>2 DEF Init, ThreadTypeOK, Loc
<1>7. HistTypeOK
  <2>1. 0 \in 0 .. MaxCreates
    BY TaskGraphAssumption
  <2>2. QED
    BY <2>1 DEF Init, HistTypeOK, MaybeNode
<1>8. ControlOK
  <2>1. \A q \in Thread : dq[q].pc = "idle" /\ dsp[q].at = "none" /\ stk[q] = <<>>
    BY DEF Init, DequeInit, NotDispatching
  <2>2. QED
    BY <2>1 DEF ControlOK, Control, Dispatching, PopPC
<1>9. HandlesOK
  <2>1. loc[Main] = "client" /\ created = 0 /\ \A t \in Task : ~(t <= 0)
    BY TaskGraphAssumption DEF Init, Task
  <2>2. QED
    BY <2>1 DEF HandlesOK
<1>10. QED
  BY <1>1, <1>2, <1>3, <1>4, <1>5, <1>6, <1>7, <1>8, <1>9 DEF TypeInv, TypeOK, DequeInv

LEMMA NextTyped == TypeInv /\ [Next]_vars => TypeInv'
<1> SUFFICES ASSUME TypeInv, [Next]_vars PROVE TypeInv'
  OBVIOUS
<1>1. ASSUME NEW th \in Thread, ExecuteStep(th)
      PROVE  TypeInv'
  BY <1>1, BodyTyped, SuccessorTyped, RecycleTyped, FreeNodeTyped, RetireTyped,
     DispatchPushedTyped, DispatchReserveTyped, DispatchPublishTyped, DispatchInlineTyped,
     DequesTyped DEF ExecuteStep
<1>2. ASSUME NEW th \in Thread, TakeStep(th)
      PROVE  TypeInv'
  BY <1>2, TakeInboxTyped, InboxEmptyTyped, ReleaseAndEnterTyped, EnterTakenTyped,
     StealFailedTyped DEF TakeStep
<1>3. ASSUME NEW w \in Worker, WorkerStep(w)
      PROVE  TypeInv'
  BY <1>3, WorkerPopTyped, WorkerExitTyped DEF WorkerStep
<1>4. CASE ClientChoice
  BY <1>4, CreateTakeTyped, AddDependencyTyped, SubmitTyped, CallWaitTyped, DestroyTyped
     DEF ClientChoice
<1>5. CASE ClientStep
  BY <1>5, CreateFillTyped, CreateCountTyped, SubmitTaskTyped, SubmitReturnTyped, WaitTyped,
     ResetTyped DEF ClientStep
<1>6. QED
  BY <1>1, <1>2, <1>3, <1>4, <1>5, StutterTyped DEF Next, ThreadStep

\* The types of every variable, that a thread is inside at most one deque operation
\* and enters it from where it returns to, that only the worker pops its deque, and
\* that top_ and bottom_ of every deque keep their bounds whatever runs in between.
THEOREM GraphTypesHold == Spec => []TypeInv
<1>1. QED
  BY InitTyped, NextTyped, PTL DEF Spec

-----------------------------------------------------------------------------
(* What a step does to the activations *)

LEMMA FrameAt ==
  ASSUME Stacked, NEW th \in Thread, NEW i \in 1 .. Len(stk[th])
  PROVE  /\ Len(stk[th]) \in Nat /\ stk[th][i].node \in Node /\ stk[th][i].task \in Task
         /\ stk[th][i].at \in {"body", "succ", "free", "retire"}
<1>1. stk[th] \in Seq(Activation)
  BY DEF Stacked
<1>2. stk[th][i] \in Activation /\ Len(stk[th]) \in Nat
  BY <1>1
<1>3. QED
  BY <1>2 DEF Activation

\* execute has been entered: one activation more
LEMMA EnterFrames ==
  ASSUME Stacked, invoke \in [Node -> MaybeTask], NEW th \in Thread, NEW n \in Node,
         Enter(th, n), invoke[n] # NoTask
  PROVE  /\ invoke[n] \in Task /\ invoke'[n] = NoTask
         /\ \A m \in Node : m # n => invoke'[m] = invoke[m]
         /\ \A q \in Thread : \A j \in 1 .. Len(stk[q]) :
              j \in 1 .. Len(stk'[q]) /\ stk'[q][j] = stk[q][j]
         /\ Len(stk[th]) + 1 \in 1 .. Len(stk'[th])
         /\ Len(stk[th]) + 1 \notin 1 .. Len(stk[th])
         /\ stk'[th][Len(stk[th]) + 1] =
              [node |-> n, task |-> invoke[n], i |-> 1, at |-> "body"]
         /\ \A q \in Thread : \A j \in 1 .. Len(stk'[q]) :
              j \in 1 .. Len(stk[q]) \/ (q = th /\ j = Len(stk[th]) + 1)
<1>1. /\ invoke[n] \in Task
      /\ invoke' = [invoke EXCEPT ![n] = NoTask]
      /\ Len(stk'[th]) = Len(stk[th]) + 1
      /\ \A q \in Thread \ {th} : stk'[q] = stk[q]
      /\ \A j \in 1 .. Len(stk[th]) : stk'[th][j] = stk[th][j]
      /\ stk'[th][Len(stk[th]) + 1] = [node |-> n, task |-> invoke[n], i |-> 1, at |-> "body"]
  BY EnterMoves
<1>2. Len(stk[th]) \in Nat
  BY DEF Stacked
<1>3. invoke'[n] = NoTask /\ \A m \in Node : m # n => invoke'[m] = invoke[m]
  BY <1>1
<1>4. ASSUME NEW q \in Thread, NEW j \in 1 .. Len(stk[q])
      PROVE  j \in 1 .. Len(stk'[q]) /\ stk'[q][j] = stk[q][j]
  BY <1>1, <1>2
<1>5. ASSUME NEW q \in Thread, NEW j \in 1 .. Len(stk'[q])
      PROVE  j \in 1 .. Len(stk[q]) \/ (q = th /\ j = Len(stk[th]) + 1)
  BY <1>1, <1>2
<1>6. Len(stk[th]) + 1 \in 1 .. Len(stk'[th]) /\ Len(stk[th]) + 1 \notin 1 .. Len(stk[th])
  BY <1>1, <1>2
<1>7. QED
  BY <1>1, <1>3, <1>4, <1>5, <1>6

\* the innermost activation has moved on
LEMMA FrmToFrames ==
  ASSUME Stacked, NEW th \in Thread, stk[th] # <<>>, NEW i \in Nat \ {0},
         NEW at \in {"body", "succ", "free", "retire"}, FrmTo(th, i, at)
  PROVE  /\ Len(stk[th]) \in 1 .. Len(stk[th])
         /\ stk'[th][Len(stk[th])].at = at
         /\ \A q \in Thread : Len(stk'[q]) = Len(stk[q])
         /\ \A q \in Thread : \A j \in 1 .. Len(stk[q]) :
              /\ stk'[q][j].node = stk[q][j].node /\ stk'[q][j].task = stk[q][j].task
              /\ (q = th /\ j = Len(stk[th])) \/ stk'[q][j].at = stk[q][j].at
<1>1. /\ \A q \in Thread : Len(stk'[q]) = Len(stk[q])
      /\ \A q \in Thread \ {th} : stk'[q] = stk[q]
      /\ \A j \in 1 .. Len(stk[th]) : j # Len(stk[th]) => stk'[th][j] = stk[th][j]
      /\ stk'[th][Len(stk[th])] =
           [node |-> Frm(th).node, task |-> Frm(th).task, i |-> i, at |-> at]
  BY FrameMoves
<1>2. Len(stk[th]) \in 1 .. Len(stk[th]) /\ Frm(th) = stk[th][Len(stk[th])]
  BY TopFrame
<1>3. ASSUME NEW q \in Thread, NEW j \in 1 .. Len(stk[q])
      PROVE  /\ stk'[q][j].node = stk[q][j].node /\ stk'[q][j].task = stk[q][j].task
             /\ (q = th /\ j = Len(stk[th])) \/ stk'[q][j].at = stk[q][j].at
  BY <1>1, <1>2
<1>4. QED
  BY <1>1, <1>2, <1>3

\* execute has returned: one activation less
LEMMA ReturnFrames ==
  ASSUME Stacked, NEW th \in Thread, stk[th] # <<>>,
         stk' = [stk EXCEPT ![th] = SubSeq(@, 1, Len(@) - 1)]
  PROVE  /\ Len(stk[th]) \in 1 .. Len(stk[th])
         /\ \A q \in Thread : \A j \in 1 .. Len(stk'[q]) :
              /\ j \in 1 .. Len(stk[q]) /\ stk'[q][j] = stk[q][j]
              /\ ~(q = th /\ j = Len(stk[th]))
         /\ \A q \in Thread : \A j \in 1 .. Len(stk[q]) :
              (q = th /\ j = Len(stk[th])) \/ j \in 1 .. Len(stk'[q])
<1>1. /\ Len(stk'[th]) = Len(stk[th]) - 1
      /\ \A q \in Thread \ {th} : stk'[q] = stk[q]
      /\ \A j \in 1 .. (Len(stk[th]) - 1) : stk'[th][j] = stk[th][j]
  BY ReturnMoves
<1>2. Len(stk[th]) \in 1 .. Len(stk[th]) /\ Len(stk[th]) \in Nat
  BY TopFrame
<1>3. ASSUME NEW q \in Thread, NEW j \in 1 .. Len(stk'[q])
      PROVE  /\ j \in 1 .. Len(stk[q]) /\ stk'[q][j] = stk[q][j]
             /\ ~(q = th /\ j = Len(stk[th]))
  <2>1. CASE q = th
    BY <1>1, <1>2, <2>1
  <2>2. CASE q # th
    BY <1>1, <2>2
  <2>3. QED
    BY <2>1, <2>2
<1>4. ASSUME NEW q \in Thread, NEW j \in 1 .. Len(stk[q])
      PROVE  (q = th /\ j = Len(stk[th])) \/ j \in 1 .. Len(stk'[q])
  <2>1. CASE q = th
    BY <1>1, <1>2, <2>1
  <2>2. CASE q # th
    BY <1>1, <2>2
  <2>3. QED
    BY <2>1, <2>2
<1>5. QED
  BY <1>2, <1>3, <1>4

-----------------------------------------------------------------------------
(* The tasks that have not finished *)

LEMMA EnterUnfinished ==
  ASSUME TypeInv, NEW th \in Thread, NEW n \in Node, Enter(th, n)
  PROVE  Unfinished' = Unfinished
<1>1. Stacked /\ invoke \in [Node -> MaybeTask]
  BY GraphTypes
<1>2. CASE invoke[n] = NoTask
  BY <1>2 DEF Enter, Unfinished
<1>3. CASE invoke[n] # NoTask
  <2> DEFINE l == Len(stk[th]) + 1
  <2>1. /\ invoke[n] \in Task /\ invoke'[n] = NoTask
        /\ \A m \in Node : m # n => invoke'[m] = invoke[m]
        /\ \A q \in Thread : \A j \in 1 .. Len(stk[q]) :
             j \in 1 .. Len(stk'[q]) /\ stk'[q][j] = stk[q][j]
        /\ l \in 1 .. Len(stk'[th])
        /\ stk'[th][l] = [node |-> n, task |-> invoke[n], i |-> 1, at |-> "body"]
        /\ \A q \in Thread : \A j \in 1 .. Len(stk'[q]) :
             j \in 1 .. Len(stk[q]) \/ (q = th /\ j = l)
    BY <1>1, <1>3, EnterFrames
  <2> HIDE DEF l
  <2>2. ASSUME NEW t \in Task, t \in Unfinished
        PROVE  t \in Unfinished'
    <3>1. CASE \E m \in Node : invoke[m] = t
      <4>1. PICK m \in Node : invoke[m] = t
        BY <3>1
      <4>2. CASE m = n
        BY <2>1, <4>1, <4>2 DEF Unfinished
      <4>3. CASE m # n
        BY <2>1, <4>1, <4>3 DEF Unfinished
      <4>4. QED
        BY <4>2, <4>3
    <3>2. CASE \E q \in Thread : \E j \in 1 .. Len(stk[q]) : stk[q][j].task = t
      BY <2>1, <3>2 DEF Unfinished
    <3>3. QED
      BY <2>2, <3>1, <3>2 DEF Unfinished
  <2>3. ASSUME NEW t \in Task, t \in Unfinished'
        PROVE  t \in Unfinished
    <3>1. CASE \E m \in Node : invoke'[m] = t
      <4>1. PICK m \in Node : invoke'[m] = t
        BY <3>1
      <4>2. t # NoTask
        BY DEF Task, NoTask
      <4>3. QED
        BY <2>1, <4>1, <4>2 DEF Unfinished
    <3>2. CASE \E q \in Thread : \E j \in 1 .. Len(stk'[q]) : stk'[q][j].task = t
      <4>1. PICK q \in Thread : \E j \in 1 .. Len(stk'[q]) : stk'[q][j].task = t
        BY <3>2
      <4>2. PICK j \in 1 .. Len(stk'[q]) : stk'[q][j].task = t
        BY <4>1
      <4>3. CASE j \in 1 .. Len(stk[q])
        BY <2>1, <4>2, <4>3 DEF Unfinished
      <4>4. CASE q = th /\ j = l
        BY <2>1, <4>2, <4>4 DEF Unfinished
      <4>5. QED
        BY <2>1, <4>3, <4>4
    <3>3. QED
      BY <2>3, <3>1, <3>2 DEF Unfinished
  <2>4. QED
    BY <2>2, <2>3 DEF Unfinished
<1>4. QED
  BY <1>2, <1>3

\* an activation that moves on keeps its task
LEMMA FrmToUnfinished ==
  ASSUME Stacked, NEW th \in Thread, stk[th] # <<>>, NEW i \in Nat \ {0},
         NEW at \in {"body", "succ", "free", "retire"}, FrmTo(th, i, at), UNCHANGED invoke
  PROVE  Unfinished' = Unfinished
<1>1. /\ \A q \in Thread : Len(stk'[q]) = Len(stk[q])
      /\ \A q \in Thread : \A j \in 1 .. Len(stk[q]) : stk'[q][j].task = stk[q][j].task
  BY FrmToFrames
<1>2. \A q \in Thread : \A t \in Task :
        (\E j \in 1 .. Len(stk'[q]) : stk'[q][j].task = t)
          <=> (\E j \in 1 .. Len(stk[q]) : stk[q][j].task = t)
  BY <1>1
<1>3. \A t \in Task :
        ((\E n \in Node : invoke'[n] = t) \/ (\E q \in Thread : \E j \in 1 .. Len(stk'[q]) : stk'[q][j].task = t))
          <=> ((\E n \in Node : invoke[n] = t) \/ (\E q \in Thread : \E j \in 1 .. Len(stk[q]) : stk[q][j].task = t))
  <2>1. invoke' = invoke
    OBVIOUS
  <2>2. QED
    BY <1>2, <2>1
<1>4. QED
  BY <1>3 DEF Unfinished

-----------------------------------------------------------------------------
(* OnePlace *)

\* what OnePlace says of one activation, and of two
LEMMA FramePlace ==
  ASSUME Stacked, OnePlace, NEW th \in Thread, NEW i \in 1 .. Len(stk[th])
  PROVE  /\ stk[th][i].task <= created
         /\ stk[th][i].at = "body" => runs[stk[th][i].task] = 0
         /\ stk[th][i].at # "body" => runs[stk[th][i].task] = 1
         /\ \A n \in Node : invoke[n] # stk[th][i].task
BY DEF OnePlace

LEMMA FramesDiffer ==
  ASSUME OnePlace, NEW th \in Thread, NEW i \in 1 .. Len(stk[th]),
         NEW q \in Thread, NEW j \in 1 .. Len(stk[q]), stk[q][j].task = stk[th][i].task
  PROVE  q = th /\ j = i
BY DEF OnePlace

LEMMA QuietOnePlace ==
  ASSUME OnePlace, UNCHANGED <<invoke, stk, runs, created>>
  PROVE  OnePlace'
BY DEF OnePlace, Unfinished

LEMMA EnterOnePlace ==
  ASSUME TypeInv, OnePlace, NEW th \in Thread, NEW n \in Node, Enter(th, n),
         UNCHANGED <<runs, created>>
  PROVE  OnePlace'
<1>1. Stacked /\ invoke \in [Node -> MaybeTask] /\ Unfinished' = Unfinished
  BY GraphTypes, EnterUnfinished
<1>2. CASE invoke[n] = NoTask
  BY <1>2, QuietOnePlace DEF Enter
<1>3. CASE invoke[n] # NoTask
  <2> DEFINE l == Len(stk[th]) + 1
             t0 == invoke[n]
  <2>1. /\ t0 \in Task /\ invoke'[n] = NoTask
        /\ \A m \in Node : m # n => invoke'[m] = invoke[m]
        /\ \A q \in Thread : \A j \in 1 .. Len(stk[q]) :
             j \in 1 .. Len(stk'[q]) /\ stk'[q][j] = stk[q][j]
        /\ l \in 1 .. Len(stk'[th])
        /\ stk'[th][l] = [node |-> n, task |-> t0, i |-> 1, at |-> "body"]
        /\ \A q \in Thread : \A j \in 1 .. Len(stk'[q]) :
             j \in 1 .. Len(stk[q]) \/ (q = th /\ j = l)
    BY <1>1, <1>3, EnterFrames
  <2>2. stk'[th][l].task = t0 /\ stk'[th][l].at = "body"
    BY <2>1
  <2>3. t0 <= created /\ runs[t0] = 0
    BY <1>3 DEF OnePlace
  <2>4. t0 # NoTask
    BY <1>3
  <2>5. \A m \in Node : invoke'[m] # NoTask => m # n /\ invoke[m] = invoke'[m] /\ invoke[m] # t0
    BY <1>3, <2>1 DEF OnePlace
  <2>6. \A m \in Node : invoke'[m] # t0
    BY <2>4, <2>5
  <2> HIDE DEF l, t0
  <2>7. \A t \in Task : t > created => runs[t] = 0
    BY DEF OnePlace
  <2>8. \A t \in Task : t <= created => t \in Unfinished' \/ runs[t] = 1
    BY <1>1 DEF OnePlace
  <2>9. \A m \in Node : invoke'[m] # NoTask => invoke'[m] <= created /\ runs[invoke'[m]] = 0
    BY <2>5 DEF OnePlace
  <2>10. \A m, k \in Node : invoke'[m] # NoTask /\ invoke'[m] = invoke'[k] => m = k
    BY <2>5 DEF OnePlace
  <2>11. ASSUME NEW q \in Thread, NEW j \in 1 .. Len(stk'[q])
         PROVE  /\ stk'[q][j].task <= created
                /\ runs[stk'[q][j].task] = IF stk'[q][j].at = "body" THEN 0 ELSE 1
                /\ \A m \in Node : invoke'[m] # stk'[q][j].task
    <3>1. CASE j \in 1 .. Len(stk[q])
      <4>1. /\ stk[q][j].task <= created /\ stk[q][j].task \in Task
            /\ stk[q][j].at = "body" => runs[stk[q][j].task] = 0
            /\ stk[q][j].at # "body" => runs[stk[q][j].task] = 1
            /\ \A m \in Node : invoke[m] # stk[q][j].task
        BY <1>1, <3>1, FramePlace, FrameAt
      <4>2. stk'[q][j] = stk[q][j]
        BY <2>1, <3>1
      <4>3. \A m \in Node : invoke'[m] # stk[q][j].task
        BY <2>5, <4>1 DEF Task, NoTask
      <4>4. QED
        BY <4>1, <4>2, <4>3
    <3>2. CASE q = th /\ j = l
      BY <2>2, <2>3, <2>6, <3>2
    <3>3. QED
      BY <2>1, <3>1, <3>2
  <2>12. ASSUME NEW q \in Thread, NEW j \in 1 .. Len(stk'[q]),
                NEW p \in Thread, NEW i \in 1 .. Len(stk'[p]),
                stk'[p][i].task = stk'[q][j].task
         PROVE  p = q /\ i = j
    <3>1. ASSUME NEW r \in Thread, NEW k \in 1 .. Len(stk[r])
          PROVE  stk[r][k].task # t0 /\ stk'[r][k] = stk[r][k]
      <4>1. invoke[n] # stk[r][k].task
        BY <1>1, FramePlace
      <4>2. QED
        BY <2>1, <4>1 DEF t0
    <3>2. CASE j \in 1 .. Len(stk[q]) /\ i \in 1 .. Len(stk[p])
      <4>1. stk[p][i].task = stk[q][j].task
        BY <2>12, <3>1, <3>2
      <4>2. QED
        BY <3>2, <4>1, FramesDiffer
    <3>3. CASE j \in 1 .. Len(stk[q]) /\ p = th /\ i = l
      BY <2>2, <2>12, <3>1, <3>3
    <3>4. CASE i \in 1 .. Len(stk[p]) /\ q = th /\ j = l
      BY <2>2, <2>12, <3>1, <3>4
    <3>5. CASE q = th /\ j = l /\ p = th /\ i = l
      BY <3>5
    <3>6. /\ j \in 1 .. Len(stk[q]) \/ (q = th /\ j = l)
          /\ i \in 1 .. Len(stk[p]) \/ (p = th /\ i = l)
      BY <2>1
    <3>7. QED
      BY <3>2, <3>3, <3>4, <3>5, <3>6
  <2>13. UNCHANGED <<runs, created>>
    OBVIOUS
  <2>14. QED
    BY <2>7, <2>8, <2>9, <2>10, <2>11, <2>12, <2>13 DEF OnePlace
<1>4. QED
  BY <1>2, <1>3

\* an activation moves on after its task's body
LEMMA FrmToOnePlace ==
  ASSUME TypeInv, OnePlace, NEW th \in Thread, stk[th] # <<>>, NEW i \in Nat \ {0},
         NEW at \in {"succ", "free", "retire"}, FrmTo(th, i, at), Frm(th).at # "body",
         UNCHANGED <<invoke, runs, created>>
  PROVE  OnePlace'
<1>1. Stacked /\ Frm(th) = stk[th][Len(stk[th])]
  BY GraphTypes, TopFrame
<1>2. FrmTo(th, i, at) /\ at \in {"body", "succ", "free", "retire"} /\ at # "body"
  OBVIOUS
<1>3. /\ stk'[th][Len(stk[th])].at = at
      /\ \A q \in Thread : Len(stk'[q]) = Len(stk[q])
      /\ \A q \in Thread : \A j \in 1 .. Len(stk[q]) :
           /\ stk'[q][j].node = stk[q][j].node /\ stk'[q][j].task = stk[q][j].task
           /\ (q = th /\ j = Len(stk[th])) \/ stk'[q][j].at = stk[q][j].at
  BY <1>1, <1>2, FrmToFrames
<1>4. Unfinished' = Unfinished
  BY <1>1, <1>2, FrmToUnfinished
<1>5. ASSUME NEW q \in Thread, NEW j \in 1 .. Len(stk'[q])
      PROVE  /\ j \in 1 .. Len(stk[q]) /\ stk'[q][j].task = stk[q][j].task
             /\ stk'[q][j].at = "body" <=> stk[q][j].at = "body"
  BY <1>1, <1>2, <1>3
<1>6. ASSUME NEW q \in Thread, NEW j \in 1 .. Len(stk'[q])
      PROVE  /\ stk'[q][j].task <= created
             /\ runs[stk'[q][j].task] = IF stk'[q][j].at = "body" THEN 0 ELSE 1
             /\ \A m \in Node : invoke[m] # stk'[q][j].task
  <2>1. /\ stk[q][j].task <= created
        /\ stk[q][j].at = "body" => runs[stk[q][j].task] = 0
        /\ stk[q][j].at # "body" => runs[stk[q][j].task] = 1
        /\ \A m \in Node : invoke[m] # stk[q][j].task
    BY <1>1, <1>5, FramePlace
  <2>2. QED
    BY <1>5, <2>1
<1>7. ASSUME NEW q \in Thread, NEW j \in 1 .. Len(stk'[q]),
             NEW p \in Thread, NEW k \in 1 .. Len(stk'[p]),
             stk'[p][k].task = stk'[q][j].task
      PROVE  p = q /\ k = j
  BY <1>5, <1>7, FramesDiffer
<1>8. UNCHANGED <<invoke, runs, created>>
  OBVIOUS
<1>9. QED
  BY <1>4, <1>6, <1>7, <1>8 DEF OnePlace

LEMMA BodyOnePlace ==
  ASSUME TypeInv, OnePlace, NEW th \in Thread, Body(th)
  PROVE  OnePlace'
<1> DEFINE l == Len(stk[th])
           t0 == stk[th][l].task
<1>1. /\ Executing(th) /\ Frm(th).at = "body" /\ FrmTo(th, 1, "succ")
      /\ runs' = [runs EXCEPT ![Frm(th).task] = @ + 1]
      /\ UNCHANGED <<invoke, created>>
  BY DEF Body, nodeVars
<1>2. stk[th] # <<>> /\ Stacked /\ runs \in [Task -> Nat] /\ created \in Nat
  BY <1>1, ExecutingFacts, GraphTypes
<1>3. l \in 1 .. Len(stk[th]) /\ Frm(th) = stk[th][l] /\ t0 \in Task
  BY <1>2, TopFrame
<1>4. /\ stk'[th][l].at = "succ"
      /\ \A q \in Thread : Len(stk'[q]) = Len(stk[q])
      /\ \A q \in Thread : \A j \in 1 .. Len(stk[q]) :
           /\ stk'[q][j].node = stk[q][j].node /\ stk'[q][j].task = stk[q][j].task
           /\ (q = th /\ j = l) \/ stk'[q][j].at = stk[q][j].at
  <2>1. FrmTo(th, 1, "succ") /\ 1 \in Nat \ {0}
    BY <1>1
  <2>2. QED
    BY <1>2, <2>1, FrmToFrames
<1>5. Unfinished' = Unfinished
  <2>1. FrmTo(th, 1, "succ") /\ 1 \in Nat \ {0}
    BY <1>1
  <2>2. QED
    BY <1>1, <1>2, <2>1, FrmToUnfinished
<1>6. t0 <= created /\ runs[t0] = 0 /\ \A m \in Node : invoke[m] # t0
  BY <1>1, <1>2, <1>3, FramePlace
<1>7. runs'[t0] = 1 /\ \A t \in Task : t # t0 => runs'[t] = runs[t]
  <2>1. runs' = [runs EXCEPT ![t0] = runs[t0] + 1]
    BY <1>1, <1>3
  <2> HIDE DEF t0, l
  <2>2. QED
    BY <1>2, <1>3, <1>6, <2>1
<1> HIDE DEF t0, l
<1>8. \A t \in Task : t > created => runs'[t] = 0
  <2>1. t0 \in Int
    BY <1>3 DEF Task
  <2>2. \A t \in Task : t > created => t # t0
    BY <1>2, <1>6, <2>1
  <2>3. QED
    BY <1>7, <2>2 DEF OnePlace
<1>9. \A t \in Task : t <= created => t \in Unfinished' \/ runs'[t] = 1
  BY <1>5, <1>7 DEF OnePlace
<1>10. \A m \in Node : invoke[m] # NoTask => invoke[m] <= created /\ runs'[invoke[m]] = 0
  <2>1. \A m \in Node : invoke[m] # NoTask => invoke[m] \in Task
    BY GraphTypes DEF MaybeTask
  <2>2. QED
    BY <1>6, <1>7, <2>1 DEF OnePlace
<1>11. ASSUME NEW q \in Thread, NEW j \in 1 .. Len(stk'[q])
       PROVE  /\ stk'[q][j].task <= created
              /\ runs'[stk'[q][j].task] = IF stk'[q][j].at = "body" THEN 0 ELSE 1
              /\ \A m \in Node : invoke[m] # stk'[q][j].task
  <2>1. j \in 1 .. Len(stk[q]) /\ stk'[q][j].task = stk[q][j].task
    BY <1>4
  <2>2. /\ stk[q][j].task <= created /\ stk[q][j].task \in Task
        /\ stk[q][j].at = "body" => runs[stk[q][j].task] = 0
        /\ stk[q][j].at # "body" => runs[stk[q][j].task] = 1
        /\ \A m \in Node : invoke[m] # stk[q][j].task
    BY <1>2, <2>1, FramePlace, FrameAt
  <2>3. CASE q = th /\ j = l
    <3>1. stk'[q][j].task = t0 /\ stk'[q][j].at = "succ"
      BY <1>4, <2>1, <2>3 DEF t0
    <3>2. QED
      BY <1>6, <1>7, <3>1
  <2>4. CASE ~(q = th /\ j = l)
    <3>1. stk[q][j].task # t0
      BY <1>3, <2>1, <2>4, FramesDiffer DEF t0
    <3>2. stk'[q][j].at = stk[q][j].at /\ runs'[stk[q][j].task] = runs[stk[q][j].task]
      BY <1>4, <1>7, <2>1, <2>2, <2>4, <3>1
    <3>3. QED
      BY <2>1, <2>2, <3>2
  <2>5. QED
    BY <2>3, <2>4
<1>12. ASSUME NEW q \in Thread, NEW j \in 1 .. Len(stk'[q]),
              NEW p \in Thread, NEW k \in 1 .. Len(stk'[p]),
              stk'[p][k].task = stk'[q][j].task
       PROVE  p = q /\ k = j
  <2>1. /\ j \in 1 .. Len(stk[q]) /\ stk'[q][j].task = stk[q][j].task
        /\ k \in 1 .. Len(stk[p]) /\ stk'[p][k].task = stk[p][k].task
    BY <1>4
  <2>2. stk[p][k].task = stk[q][j].task
    BY <1>12, <2>1
  <2>3. QED
    BY <2>1, <2>2 DEF OnePlace
<1>13. QED
  BY <1>1, <1>8, <1>9, <1>10, <1>11, <1>12 DEF OnePlace

\* execute returns: its task is finished, and the only one that is new there
LEMMA RetireUnfinished ==
  ASSUME TypeInv, OnePlace, NEW th \in Thread, Retire(th)
  PROVE  /\ Frm(th).task \in Unfinished /\ Frm(th).task <= created
         /\ runs[Frm(th).task] = 1
         /\ Unfinished' = Unfinished \ {Frm(th).task}
<1> DEFINE l == Len(stk[th])
           t0 == stk[th][l].task
<1>1. /\ Executing(th) /\ Frm(th).at = "retire" /\ UNCHANGED invoke
      /\ stk' = [stk EXCEPT ![th] = SubSeq(@, 1, Len(@) - 1)]
  BY DEF Retire, nodeVars
<1>2. stk[th] # <<>> /\ Stacked
  BY <1>1, ExecutingFacts, GraphTypes
<1>3. l \in 1 .. Len(stk[th]) /\ Frm(th) = stk[th][l] /\ t0 \in Task
  BY <1>2, TopFrame
<1>4. /\ \A q \in Thread : \A j \in 1 .. Len(stk'[q]) :
           /\ j \in 1 .. Len(stk[q]) /\ stk'[q][j] = stk[q][j]
           /\ ~(q = th /\ j = l)
      /\ \A q \in Thread : \A j \in 1 .. Len(stk[q]) :
           (q = th /\ j = l) \/ j \in 1 .. Len(stk'[q])
  BY <1>1, <1>2, ReturnFrames
<1>5. t0 <= created /\ runs[t0] = 1 /\ \A m \in Node : invoke[m] # t0
  BY <1>1, <1>2, <1>3, FramePlace
<1> HIDE DEF l
<1>6. t0 \in Unfinished
  BY <1>3 DEF Unfinished
<1>7. ASSUME NEW t \in Unfinished'
      PROVE  t \in Unfinished /\ t # t0
  <2>1. CASE \E m \in Node : invoke'[m] = t
    BY <1>1, <1>5, <1>7, <2>1 DEF Unfinished
  <2>2. CASE \E q \in Thread : \E j \in 1 .. Len(stk'[q]) : stk'[q][j].task = t
    <3>1. PICK q \in Thread : \E j \in 1 .. Len(stk'[q]) : stk'[q][j].task = t
      BY <2>2
    <3>2. PICK j \in 1 .. Len(stk'[q]) : stk'[q][j].task = t
      BY <3>1
    <3>3. j \in 1 .. Len(stk[q]) /\ stk[q][j].task = t /\ ~(q = th /\ j = l)
      BY <1>4, <3>2
    <3>4. stk[q][j].task # stk[th][l].task
      BY <1>3, <3>3, FramesDiffer
    <3>5. QED
      BY <1>7, <3>3, <3>4 DEF Unfinished
  <2>3. QED
    BY <1>7, <2>1, <2>2 DEF Unfinished
<1>8. ASSUME NEW t \in Unfinished, t # t0
      PROVE  t \in Unfinished'
  <2>1. CASE \E m \in Node : invoke[m] = t
    BY <1>1, <1>8, <2>1 DEF Unfinished
  <2>2. CASE \E q \in Thread : \E j \in 1 .. Len(stk[q]) : stk[q][j].task = t
    <3>1. PICK q \in Thread : \E j \in 1 .. Len(stk[q]) : stk[q][j].task = t
      BY <2>2
    <3>2. PICK j \in 1 .. Len(stk[q]) : stk[q][j].task = t
      BY <3>1
    <3>3. ~(q = th /\ j = l)
      BY <1>8, <3>2
    <3>4. j \in 1 .. Len(stk'[q]) /\ stk'[q][j].task = t
      BY <1>4, <3>2, <3>3
    <3>5. QED
      BY <1>8, <3>4 DEF Unfinished
  <2>3. QED
    BY <1>8, <2>1, <2>2 DEF Unfinished
<1>9. Unfinished' = Unfinished \ {t0}
  BY <1>7, <1>8
<1>10. Frm(th).task = t0
  BY <1>3
<1>11. QED
  BY <1>5, <1>6, <1>9, <1>10

LEMMA RetireOnePlace ==
  ASSUME TypeInv, OnePlace, NEW th \in Thread, Retire(th)
  PROVE  OnePlace'
<1> DEFINE l == Len(stk[th])
<1>1. /\ Executing(th) /\ UNCHANGED <<invoke, runs, created>>
      /\ stk' = [stk EXCEPT ![th] = SubSeq(@, 1, Len(@) - 1)]
  BY DEF Retire, nodeVars, histVars
<1>2. stk[th] # <<>> /\ Stacked
  BY <1>1, ExecutingFacts, GraphTypes
<1>3. \A q \in Thread : \A j \in 1 .. Len(stk'[q]) :
        j \in 1 .. Len(stk[q]) /\ stk'[q][j] = stk[q][j]
  BY <1>1, <1>2, ReturnFrames
<1>4. runs[Frm(th).task] = 1 /\ Unfinished' = Unfinished \ {Frm(th).task}
  BY RetireUnfinished
<1>5. \A t \in Task : t <= created => t \in Unfinished' \/ runs[t] = 1
  BY <1>4 DEF OnePlace
<1>6. ASSUME NEW q \in Thread, NEW j \in 1 .. Len(stk'[q])
      PROVE  /\ stk'[q][j].task <= created
             /\ runs[stk'[q][j].task] = IF stk'[q][j].at = "body" THEN 0 ELSE 1
             /\ \A m \in Node : invoke[m] # stk'[q][j].task
  <2>1. j \in 1 .. Len(stk[q]) /\ stk'[q][j] = stk[q][j]
    BY <1>3
  <2>2. /\ stk[q][j].task <= created
        /\ stk[q][j].at = "body" => runs[stk[q][j].task] = 0
        /\ stk[q][j].at # "body" => runs[stk[q][j].task] = 1
        /\ \A m \in Node : invoke[m] # stk[q][j].task
    BY <1>2, <2>1, FramePlace
  <2>3. QED
    BY <2>1, <2>2
<1>7. ASSUME NEW q \in Thread, NEW j \in 1 .. Len(stk'[q]),
             NEW p \in Thread, NEW k \in 1 .. Len(stk'[p]),
             stk'[p][k].task = stk'[q][j].task
      PROVE  p = q /\ k = j
  <2>1. /\ j \in 1 .. Len(stk[q]) /\ stk'[q][j].task = stk[q][j].task
        /\ k \in 1 .. Len(stk[p]) /\ stk'[p][k].task = stk[p][k].task
    BY <1>3
  <2>2. stk[p][k].task = stk[q][j].task
    BY <1>7, <2>1
  <2>3. QED
    BY <2>1, <2>2 DEF OnePlace
<1>8. QED
  BY <1>1, <1>5, <1>6, <1>7 DEF OnePlace

\* A node that create_task takes is idle: no task of it is lost.
LEMMA CreateUnfinished ==
  ASSUME TypeInv, OnePlace, CreateTake, NEW n \in Node, GiveNode(n), Idle(n)
  PROVE  /\ Unfinished' = Unfinished \cup {created + 1}
         /\ created + 1 \in Task /\ created + 1 \notin Unfinished
<1>1. created < MaxCreates /\ UNCHANGED stk
  BY DEF CreateTake
<1>2. /\ created' = created + 1 /\ created' \in Task /\ invoke'[n] = created'
      /\ \A m \in Node : m # n => invoke'[m] = invoke[m]
  BY <1>1, GivenNode
<1>3. invoke[n] = NoTask /\ created \in Nat /\ \A t \in Task : t # NoTask /\ t \in Nat
  BY GraphTypes DEF Idle, Task, NoTask
<1>4. created + 1 \notin Unfinished
  <2>1. ASSUME NEW m \in Node
        PROVE  invoke[m] # created + 1
    <3>1. CASE invoke[m] = NoTask
      BY <1>3, <3>1 DEF NoTask
    <3>2. CASE invoke[m] # NoTask
      BY <1>3, <3>2 DEF OnePlace
    <3>3. QED
      BY <3>1, <3>2
  <2>2. ASSUME NEW q \in Thread, NEW j \in 1 .. Len(stk[q])
        PROVE  stk[q][j].task # created + 1
    <3>1. stk[q][j].task <= created /\ stk[q][j].task \in Task
      BY GraphTypes, FramePlace, FrameAt
    <3>2. stk[q][j].task \in Nat
      BY <1>3, <3>1
    <3>3. QED
      BY <1>3, <3>1, <3>2
  <2>3. QED
    BY <2>1, <2>2 DEF Unfinished
<1>5. ASSUME NEW t \in Task
      PROVE  (\E m \in Node : invoke'[m] = t) <=> (\E m \in Node : invoke[m] = t) \/ t = created'
  BY <1>2, <1>3
<1>6. \A t \in Task : t \in Unfinished' <=> t \in Unfinished \/ t = created'
  BY <1>1, <1>5 DEF Unfinished
<1>7. created' \in Task /\ Unfinished \subseteq Task /\ Unfinished' \subseteq Task
  BY <1>2 DEF Unfinished
<1>8. Unfinished' = Unfinished \cup {created'}
  BY <1>6, <1>7
<1>9. QED
  BY <1>2, <1>4, <1>8

LEMMA CreateOnePlace ==
  ASSUME TypeInv, OnePlace, CreateTake, NEW n \in Node, GiveNode(n), Idle(n)
  PROVE  OnePlace'
<1>1. created < MaxCreates /\ UNCHANGED <<stk, runs>>
  BY DEF CreateTake
<1>2. /\ created' = created + 1 /\ created' \in Task /\ invoke'[n] = created'
      /\ \A m \in Node : m # n => invoke'[m] = invoke[m]
  BY <1>1, GivenNode
<1>3. /\ created \in Nat /\ \A t \in Task : t \in Nat
      /\ \A m \in Node : invoke[m] # NoTask => invoke[m] \in Task
      /\ Stacked
  BY GraphTypes DEF Task, MaybeTask
<1>4. /\ Unfinished' = Unfinished \cup {created + 1} /\ created + 1 \notin Unfinished
  BY CreateUnfinished
<1>5. ASSUME NEW t \in Task, t > created'
      PROVE  runs[t] = 0
  <2>1. t \in Nat /\ t > created + 1 /\ created \in Nat
    BY <1>2, <1>3, <1>5
  <2>2. t > created
    BY <2>1
  <2>3. QED
    BY <2>2 DEF OnePlace
<1>6. ASSUME NEW t \in Task, t <= created'
      PROVE  t \in Unfinished' \/ runs[t] = 1
  <2>1. t = created + 1 \/ t <= created
    <3>1. t \in Nat /\ created \in Nat /\ t <= created + 1
      BY <1>2, <1>3, <1>6
    <3>2. QED
      BY <3>1
  <2>2. QED
    BY <1>4, <2>1 DEF OnePlace
<1>7. runs[created'] = 0
  BY <1>2, <1>3 DEF OnePlace
<1>8. ASSUME NEW m \in Node, invoke'[m] # NoTask
      PROVE  invoke'[m] <= created' /\ runs[invoke'[m]] = 0
  <2>1. CASE m = n
    BY <1>2, <1>3, <1>7, <2>1
  <2>2. CASE m # n
    <3>1. invoke[m] <= created /\ runs[invoke[m]] = 0 /\ invoke'[m] = invoke[m] /\ invoke[m] \in Nat
      BY <1>2, <1>3, <1>8, <2>2 DEF OnePlace
    <3>2. QED
      BY <1>2, <1>3, <3>1
  <2>3. QED
    BY <2>1, <2>2
<1>9. \A m \in Node : invoke[m] # created'
  <2>1. ASSUME NEW m \in Node, invoke[m] = created'
        PROVE  FALSE
    <3>1. created + 1 \in Unfinished
      BY <1>2, <2>1 DEF Unfinished
    <3>2. QED
      BY <1>4, <3>1
  <2>2. QED
    BY <2>1
<1>10. \A m, k \in Node : invoke'[m] # NoTask /\ invoke'[m] = invoke'[k] => m = k
  BY <1>2, <1>9 DEF OnePlace
<1>11. ASSUME NEW q \in Thread, NEW j \in 1 .. Len(stk[q])
       PROVE  /\ stk[q][j].task <= created'
              /\ runs[stk[q][j].task] = IF stk[q][j].at = "body" THEN 0 ELSE 1
              /\ \A m \in Node : invoke'[m] # stk[q][j].task
  <2>1. /\ stk[q][j].task <= created /\ stk[q][j].task \in Task
        /\ stk[q][j].at = "body" => runs[stk[q][j].task] = 0
        /\ stk[q][j].at # "body" => runs[stk[q][j].task] = 1
        /\ \A m \in Node : invoke[m] # stk[q][j].task
    BY <1>3, FramePlace, FrameAt
  <2>2. stk[q][j].task # created' /\ stk[q][j].task <= created'
    <3>1. stk[q][j].task \in Nat
      BY <1>3, <2>1
    <3>2. QED
      BY <1>2, <1>3, <2>1, <3>1
  <2>3. QED
    BY <1>2, <2>1, <2>2
<1>12. ASSUME NEW q \in Thread, NEW j \in 1 .. Len(stk[q]),
              NEW p \in Thread, NEW k \in 1 .. Len(stk[p]),
              stk[p][k].task = stk[q][j].task
       PROVE  p = q /\ k = j
  BY <1>12, FramesDiffer
<1>13. QED
  BY <1>1, <1>5, <1>6, <1>8, <1>10, <1>11, <1>12 DEF OnePlace

-----------------------------------------------------------------------------
(* NodesHeldOnce *)

\* a step that leaves the idle nodes idle, and free_nodes_ and the pool alone
LEMMA QuietNodesWait ==
  ASSUME TypeInv, NodesWait, \A m \in Node : Idle(m) => Idle(m)',
         UNCHANGED <<freeNodes, pool, tasks>>, loc[Main] = "gone" => loc'[Main] = "gone"
  PROVE  NodesWait'
<1>1. freeNodes \in Seq(Node) /\ pool \in Seq(Node)
  BY GraphTypes
<1>2. \A i \in 1 .. Len(freeNodes) : freeNodes[i] \in Node /\ Idle(freeNodes[i])
  BY <1>1 DEF NodesWait
<1>3. \A i \in 1 .. Len(freeNodes) : Idle(freeNodes[i])'
  BY <1>2 DEF Idle, Holds
<1>4. loc[Main] # "gone" => \A i \in 1 .. Len(pool) : pool[i] \in Node /\ Idle(pool[i])
  BY <1>1 DEF NodesWait
<1>5. loc'[Main] # "gone" => \A i \in 1 .. Len(pool) : Idle(pool[i])'
  BY <1>4 DEF Idle, Holds
<1>6. QED
  BY <1>3, <1>5 DEF NodesWait, IsInjective, Idle, Holds

LEMMA QuietNodesHeld ==
  ASSUME TypeInv, NodesHeldOnce, UNCHANGED <<invoke, stk, freeNodes, pool, tasks>>,
         loc[Main] = "gone" => loc'[Main] = "gone"
  PROVE  NodesHeldOnce'
<1>1. \A m \in Node : Idle(m) => Idle(m)'
  BY DEF Idle, Holds
<1>2. NodesWait'
  BY <1>1, QuietNodesWait DEF NodesHeldOnce
<1>3. QED
  BY <1>2 DEF NodesHeldOnce, HeldOnce, Holds

LEMMA EnterNodesHeld ==
  ASSUME TypeInv, NodesHeldOnce, NEW th \in Thread, NEW n \in Node, Enter(th, n),
         UNCHANGED <<freeNodes, pool, tasks>>, loc[Main] = "gone" => loc'[Main] = "gone"
  PROVE  NodesHeldOnce'
<1>1. Stacked /\ invoke \in [Node -> MaybeTask]
  BY GraphTypes
<1>2. CASE invoke[n] = NoTask
  BY <1>2, QuietNodesHeld DEF Enter
<1>3. CASE invoke[n] # NoTask
  <2> DEFINE l == Len(stk[th]) + 1
  <2>1. /\ invoke'[n] = NoTask
        /\ \A m \in Node : m # n => invoke'[m] = invoke[m]
        /\ \A q \in Thread : \A j \in 1 .. Len(stk[q]) :
             j \in 1 .. Len(stk'[q]) /\ stk'[q][j] = stk[q][j]
        /\ l \in 1 .. Len(stk'[th])
        /\ stk'[th][l] = [node |-> n, task |-> invoke[n], i |-> 1, at |-> "body"]
        /\ \A q \in Thread : \A j \in 1 .. Len(stk'[q]) :
             j \in 1 .. Len(stk[q]) \/ (q = th /\ j = l)
    BY <1>1, <1>3, EnterFrames
  <2> HIDE DEF l
  <2>2. ASSUME NEW m \in Node, NEW q \in Thread, NEW j \in 1 .. Len(stk'[q]), Holds(q, j, m)'
        PROVE  \/ j \in 1 .. Len(stk[q]) /\ Holds(q, j, m) /\ m # n
               \/ q = th /\ j = l /\ m = n
    <3>1. stk'[q][j].node = m /\ stk'[q][j].at # "retire"
      BY <2>2 DEF Holds
    <3>2. CASE j \in 1 .. Len(stk[q])
      <4>1. stk'[q][j] = stk[q][j]
        BY <2>1, <3>2
      <4>2. Holds(q, j, m)
        BY <3>1, <4>1 DEF Holds
      <4>3. m # n
        BY <1>3, <3>2, <4>2 DEF NodesHeldOnce, HeldOnce
      <4>4. QED
        BY <3>2, <4>2, <4>3
    <3>3. CASE q = th /\ j = l
      BY <2>1, <3>1, <3>3
    <3>4. QED
      BY <2>1, <3>2, <3>3
  <2>3. ASSUME NEW m \in Node, invoke'[m] # NoTask, NEW q \in Thread,
               NEW j \in 1 .. Len(stk'[q])
        PROVE  ~Holds(q, j, m)'
    <3>1. m # n /\ invoke[m] # NoTask
      BY <2>1, <2>3
    <3>2. SUFFICES ASSUME Holds(q, j, m)' PROVE FALSE
      OBVIOUS
    <3>3. j \in 1 .. Len(stk[q]) /\ Holds(q, j, m)
      BY <2>2, <3>1, <3>2
    <3>4. QED
      BY <3>1, <3>3 DEF NodesHeldOnce, HeldOnce
  <2>4. ASSUME NEW m \in Node, NEW q \in Thread, NEW p \in Thread,
               NEW j \in 1 .. Len(stk'[q]), NEW k \in 1 .. Len(stk'[p]),
               Holds(q, j, m)', Holds(p, k, m)'
        PROVE  q = p /\ j = k
    <3>1. CASE m = n
      <4>1. (q = th /\ j = l) /\ (p = th /\ k = l)
        BY <2>2, <2>4, <3>1
      <4>2. QED
        BY <4>1
    <3>2. CASE m # n
      <4>1. j \in 1 .. Len(stk[q]) /\ Holds(q, j, m)
        BY <2>2, <2>4, <3>2
      <4>2. k \in 1 .. Len(stk[p]) /\ Holds(p, k, m)
        BY <2>2, <2>4, <3>2
      <4>3. QED
        BY <4>1, <4>2 DEF NodesHeldOnce, HeldOnce
    <3>3. QED
      BY <3>1, <3>2
  <2>5. HeldOnce'
    BY <2>3, <2>4 DEF HeldOnce, Holds
  <2>6. ASSUME NEW m \in Node, Idle(m)
        PROVE  Idle(m)'
    <3>1. m # n /\ invoke[m] = NoTask
      BY <1>3, <2>6 DEF Idle
    <3>2. ASSUME NEW q \in Thread, NEW j \in 1 .. Len(stk'[q]), Holds(q, j, m)'
          PROVE  FALSE
      <4>1. j \in 1 .. Len(stk[q]) /\ Holds(q, j, m)
        BY <2>2, <3>1, <3>2
      <4>2. QED
        BY <2>6, <4>1 DEF Idle
    <3>3. QED
      BY <2>1, <3>1, <3>2 DEF Idle, Holds
  <2>7. NodesWait'
    BY <2>6, QuietNodesWait DEF NodesHeldOnce
  <2>8. QED
    BY <2>5, <2>7 DEF NodesHeldOnce
<1>4. QED
  BY <1>2, <1>3

\* no activation gets a node, whichever gives one up
LEMMA FewerHolds ==
  ASSUME TypeInv, NodesHeldOnce, UNCHANGED invoke,
         \A m \in Node : \A q \in Thread : \A j \in 1 .. Len(stk'[q]) :
           Holds(q, j, m)' => j \in 1 .. Len(stk[q]) /\ Holds(q, j, m)
  PROVE  HeldOnce' /\ \A m \in Node : Idle(m) => Idle(m)'
<1>1. ASSUME NEW m \in Node, invoke'[m] # NoTask, NEW q \in Thread,
             NEW j \in 1 .. Len(stk'[q])
      PROVE  ~Holds(q, j, m)'
  BY <1>1 DEF NodesHeldOnce, HeldOnce
<1>2. ASSUME NEW m \in Node, NEW q \in Thread, NEW p \in Thread,
             NEW j \in 1 .. Len(stk'[q]), NEW k \in 1 .. Len(stk'[p]),
             Holds(q, j, m)', Holds(p, k, m)'
      PROVE  q = p /\ j = k
  <2>1. j \in 1 .. Len(stk[q]) /\ Holds(q, j, m) /\ k \in 1 .. Len(stk[p]) /\ Holds(p, k, m)
    BY <1>2
  <2>2. QED
    BY <2>1 DEF NodesHeldOnce, HeldOnce
<1>3. HeldOnce'
  BY <1>1, <1>2 DEF HeldOnce, Holds
<1>4. ASSUME NEW m \in Node, Idle(m)
      PROVE  Idle(m)'
  <2>1. \A q \in Thread : \A j \in 1 .. Len(stk'[q]) : ~Holds(q, j, m)'
    BY <1>4 DEF Idle
  <2>2. invoke'[m] = NoTask
    BY <1>4 DEF Idle
  <2>3. QED
    BY <2>1, <2>2 DEF Idle, Holds
<1>5. QED
  BY <1>3, <1>4

\* an activation moves on: what it holds is what it held
LEMMA FrmToHolds ==
  ASSUME Stacked, NEW th \in Thread, stk[th] # <<>>, NEW i \in Nat \ {0},
         NEW at \in {"body", "succ", "free", "retire"}, FrmTo(th, i, at), Frm(th).at # "retire",
         NEW m \in Node, NEW q \in Thread, NEW j \in 1 .. Len(stk'[q]), Holds(q, j, m)'
  PROVE  /\ j \in 1 .. Len(stk[q]) /\ Holds(q, j, m)
         /\ at = "retire" => ~(q = th /\ j = Len(stk[th]))
<1>1. /\ stk'[th][Len(stk[th])].at = at
      /\ \A p \in Thread : Len(stk'[p]) = Len(stk[p])
      /\ \A p \in Thread : \A k \in 1 .. Len(stk[p]) :
           /\ stk'[p][k].node = stk[p][k].node
           /\ (p = th /\ k = Len(stk[th])) \/ stk'[p][k].at = stk[p][k].at
  <2>1. /\ stk'[th][Len(stk[th])].at = at
        /\ \A p \in Thread : Len(stk'[p]) = Len(stk[p])
        /\ \A p \in Thread : \A k \in 1 .. Len(stk[p]) :
             /\ stk'[p][k].node = stk[p][k].node /\ stk'[p][k].task = stk[p][k].task
             /\ (p = th /\ k = Len(stk[th])) \/ stk'[p][k].at = stk[p][k].at
    BY FrmToFrames
  <2>2. QED
    BY <2>1
<1>2. stk'[q][j].node = m /\ stk'[q][j].at # "retire"
  BY DEF Holds
<1>3. j \in 1 .. Len(stk[q]) /\ stk[q][j].node = m
  BY <1>1, <1>2
<1>4. Frm(th) = stk[th][Len(stk[th])]
  BY TopFrame
<1>5. stk[q][j].at # "retire"
  BY <1>1, <1>2, <1>3, <1>4
<1>6. QED
  BY <1>1, <1>2, <1>3, <1>5 DEF Holds

LEMMA FrmToNodesHeld ==
  ASSUME TypeInv, NodesHeldOnce, NEW th \in Thread, stk[th] # <<>>, NEW i \in Nat \ {0},
         NEW at \in {"succ", "free"}, FrmTo(th, i, at), Frm(th).at # "retire",
         UNCHANGED <<invoke, freeNodes, pool, tasks>>,
         loc[Main] = "gone" => loc'[Main] = "gone"
  PROVE  NodesHeldOnce'
<1>1. Stacked /\ at \in {"body", "succ", "free", "retire"}
  BY GraphTypes
<1>2. \A m \in Node : \A q \in Thread : \A j \in 1 .. Len(stk'[q]) :
        Holds(q, j, m)' => j \in 1 .. Len(stk[q]) /\ Holds(q, j, m)
  BY <1>1, FrmToHolds
<1>3. HeldOnce' /\ \A m \in Node : Idle(m) => Idle(m)'
  BY <1>2, FewerHolds
<1>4. NodesWait'
  BY <1>3, QuietNodesWait DEF NodesHeldOnce
<1>5. QED
  BY <1>3, <1>4 DEF NodesHeldOnce

LEMMA RetireNodesHeld ==
  ASSUME TypeInv, NodesHeldOnce, NEW th \in Thread, Retire(th)
  PROVE  NodesHeldOnce'
<1>1. /\ Executing(th) /\ UNCHANGED <<invoke, freeNodes, pool, tasks, loc>>
      /\ stk' = [stk EXCEPT ![th] = SubSeq(@, 1, Len(@) - 1)]
  BY DEF Retire, nodeVars, poolVars
<1>2. stk[th] # <<>> /\ Stacked
  BY <1>1, ExecutingFacts, GraphTypes
<1>3. \A q \in Thread : \A j \in 1 .. Len(stk'[q]) :
        j \in 1 .. Len(stk[q]) /\ stk'[q][j] = stk[q][j]
  BY <1>1, <1>2, ReturnFrames
<1>4. \A m \in Node : \A q \in Thread : \A j \in 1 .. Len(stk'[q]) :
        Holds(q, j, m)' => j \in 1 .. Len(stk[q]) /\ Holds(q, j, m)
  BY <1>3 DEF Holds
<1>5. HeldOnce' /\ \A m \in Node : Idle(m) => Idle(m)'
  BY <1>1, <1>4, FewerHolds
<1>6. NodesWait'
  BY <1>1, <1>5, QuietNodesWait DEF NodesHeldOnce
<1>7. QED
  BY <1>5, <1>6 DEF NodesHeldOnce

LEMMA InjectiveSeq ==
  ASSUME NEW s \in Seq(Node)
  PROVE  IsInjective(s) <=> \A i, j \in 1 .. Len(s) : s[i] = s[j] => i = j
<1>1. DOMAIN s = 1 .. Len(s)
  OBVIOUS
<1>2. QED
  BY <1>1 DEF IsInjective

LEMMA InjectiveEmpty ==
  ASSUME NEW s \in Seq(Node), Len(s) = 0
  PROVE  IsInjective(s)
<1>1. 1 .. Len(s) = {}
  OBVIOUS
<1>2. QED
  BY <1>1, InjectiveSeq

LEMMA FreeNodeNodesHeld ==
  ASSUME TypeInv, NodesHeldOnce, NEW th \in Thread, FreeNode(th)
  PROVE  NodesHeldOnce'
<1> DEFINE l == Len(stk[th])
           k == Len(freeNodes)
<1>0. PICK n0 \in Node : n0 = Frm(th).node
  BY ExecutingFacts, GraphTypes, TopFrame DEF FreeNode
<1>1. /\ Executing(th) /\ Frm(th).at = "free" /\ FrmTo(th, 1, "retire")
      /\ freeNodes' = Append(freeNodes, n0)
      /\ UNCHANGED <<invoke, pool, tasks, loc>>
  BY <1>0 DEF FreeNode, nodeVars
<1>2. stk[th] # <<>> /\ Stacked /\ freeNodes \in Seq(Node) /\ pool \in Seq(Node)
      /\ tasks \in Seq(Node) /\ k \in Nat
  BY <1>1, ExecutingFacts, GraphTypes
<1>3. l \in 1 .. Len(stk[th]) /\ Frm(th) = stk[th][l]
  BY <1>2, TopFrame
<1>4. Holds(th, l, n0)
  BY <1>0, <1>1, <1>3 DEF Holds
<1>5. ASSUME NEW m \in Node, NEW q \in Thread, NEW j \in 1 .. Len(stk'[q]), Holds(q, j, m)'
      PROVE  j \in 1 .. Len(stk[q]) /\ Holds(q, j, m) /\ ~(q = th /\ j = l)
  <2>1. FrmTo(th, 1, "retire") /\ 1 \in Nat \ {0} /\ Frm(th).at # "retire"
    BY <1>1
  <2>2. QED
    BY <1>2, <1>5, <2>1, FrmToHolds
<1>6. HeldOnce' /\ \A m \in Node : Idle(m) => Idle(m)'
  BY <1>1, <1>5, FewerHolds
<1> HIDE DEF l, k
<1>7. Idle(n0)' /\ ~Idle(n0)
  <2>1. invoke'[n0] = NoTask
    BY <1>1, <1>3, <1>4 DEF NodesHeldOnce, HeldOnce
  <2>2. ASSUME NEW q \in Thread, NEW j \in 1 .. Len(stk'[q]), Holds(q, j, n0)'
        PROVE  FALSE
    <3>1. j \in 1 .. Len(stk[q]) /\ Holds(q, j, n0) /\ ~(q = th /\ j = l)
      BY <1>3, <1>5, <2>2
    <3>2. QED
      BY <1>3, <1>4, <3>1 DEF NodesHeldOnce, HeldOnce
  <2>3. ~Idle(n0)
    BY <1>3, <1>4 DEF Idle
  <2>4. QED
    BY <2>1, <2>2, <2>3 DEF Idle, Holds
<1>8. /\ freeNodes' \in Seq(Node) /\ Len(freeNodes') = k + 1 /\ freeNodes'[k + 1] = n0
      /\ \A i \in 1 .. k : freeNodes'[i] = freeNodes[i]
  BY <1>1, <1>2, <1>3, AppendProperties DEF k
<1>9. \A i \in 1 .. k : freeNodes[i] \in Node /\ Idle(freeNodes[i]) /\ freeNodes[i] # n0
  BY <1>2, <1>7 DEF NodesHeldOnce, NodesWait, k
<1>10. \A i, j \in 1 .. k : freeNodes[i] = freeNodes[j] => i = j
  BY <1>2, InjectiveSeq DEF NodesHeldOnce, NodesWait, k
<1>11. IsInjective(freeNodes')
  <2>1. ASSUME NEW i \in 1 .. k + 1, NEW j \in 1 .. k + 1, freeNodes'[i] = freeNodes'[j]
        PROVE  i = j
    <3>1. CASE i \in 1 .. k /\ j \in 1 .. k
      BY <1>8, <1>10, <2>1, <3>1
    <3>2. CASE i = k + 1 /\ j \in 1 .. k
      BY <1>8, <1>9, <2>1, <3>2
    <3>3. CASE j = k + 1 /\ i \in 1 .. k
      BY <1>8, <1>9, <2>1, <3>3
    <3>4. (i \in 1 .. k \/ i = k + 1) /\ (j \in 1 .. k \/ j = k + 1)
      BY <1>2
    <3>5. QED
      BY <3>1, <3>2, <3>3, <3>4
  <2>2. QED
    BY <1>8, <2>1, InjectiveSeq
<1>12. ASSUME NEW i \in 1 .. Len(freeNodes')
       PROVE  Idle(freeNodes[i])' /\ (i \in 1 .. k \/ freeNodes'[i] = n0)
  <2>1. CASE i \in 1 .. k
    <3>1. PICK m \in Node : m = freeNodes[i]
      BY <1>9, <2>1
    <3>2. Idle(m)' /\ freeNodes'[i] = m
      BY <1>6, <1>8, <1>9, <2>1, <3>1
    <3>3. QED
      BY <2>1, <3>2 DEF Idle, Holds
  <2>2. CASE i = k + 1
    <3>1. freeNodes'[i] = n0
      BY <1>8, <2>2
    <3>2. QED
      BY <1>7, <3>1 DEF Idle, Holds
  <2>3. QED
    BY <1>2, <1>8, <2>1, <2>2
<1>13. ASSUME loc[Main] # "gone", NEW i \in 1 .. Len(pool)
       PROVE  /\ Idle(pool[i])'
              /\ \A j \in 1 .. Len(freeNodes') : freeNodes'[j] # pool[i]
  <2>1. pool[i] \in Node /\ Idle(pool[i]) /\ pool[i] # n0
    BY <1>2, <1>7, <1>13 DEF NodesHeldOnce, NodesWait
  <2>2. Idle(pool[i])'
    BY <1>1, <1>6, <2>1 DEF Idle, Holds
  <2>3. \A j \in 1 .. k : freeNodes[j] # pool[i]
    BY <1>13 DEF NodesHeldOnce, NodesWait, k
  <2>4. QED
    BY <1>8, <1>12, <2>1, <2>2, <2>3
<1>14. NodesWait'
  <2>1. /\ loc'[Main] # "gone" => loc[Main] # "gone"
        /\ loc[Main] # "gone" => IsInjective(pool) /\ IsInjective(tasks)
        /\ loc[Main] # "gone" => \A i \in 1 .. Len(pool) : \A j \in 1 .. Len(tasks) :
                                   tasks[j] # pool[i]
        /\ pool' = pool /\ tasks' = tasks
    BY <1>1 DEF NodesHeldOnce, NodesWait
  <2>2. \A i \in 1 .. Len(freeNodes') : Idle(freeNodes[i])'
    BY <1>12 DEF Idle, Holds
  <2>3. \A i \in 1 .. Len(pool') : loc'[Main] # "gone" =>
          Idle(pool[i])' /\ \A j \in 1 .. Len(freeNodes') : freeNodes'[j] # pool'[i]
    BY <1>13, <2>1 DEF Idle, Holds
  <2>4. QED
    BY <1>11, <2>1, <2>2, <2>3 DEF NodesWait
<1>15. QED
  BY <1>6, <1>14 DEF NodesHeldOnce

\* what create_task takes is idle and waits nowhere else
LEMMA CreateNodesHeld ==
  ASSUME TypeInv, NodesHeldOnce, CreateTake
  PROVE  /\ \E n \in Node : GiveNode(n) /\ Idle(n)
         /\ NodesHeldOnce'
<1>1. Client /\ created < MaxCreates /\ Goto(Main, "create_fill") /\ UNCHANGED stk
  BY DEF CreateTake
<1>2. loc[Main] = "client" /\ loc'[Main] # "gone" /\ loc[Main] # "gone"
  <2>1. Main \in Thread /\ loc[Main] = "client"
    BY <1>1, MainHome DEF Client, Loc
  <2>2. loc'[Main] = "create_fill"
    BY <1>1, <2>1, Went DEF Loc
  <2>3. QED
    BY <2>1, <2>2
<1>3. /\ freeNodes \in Seq(Node) /\ pool \in Seq(Node) /\ tasks \in Seq(Node)
      /\ Len(freeNodes) \in Nat /\ Len(pool) \in Nat /\ Len(tasks) \in Nat
  BY GraphTypes
<1>4. /\ \A i, j \in 1 .. Len(freeNodes) : freeNodes[i] = freeNodes[j] => i = j
      /\ \A i, j \in 1 .. Len(pool) : pool[i] = pool[j] => i = j
      /\ \A i, j \in 1 .. Len(tasks) : tasks[i] = tasks[j] => i = j
      /\ \A i \in 1 .. Len(freeNodes) : Idle(freeNodes[i]) /\ freeNodes[i] \in Node
      /\ \A i \in 1 .. Len(pool) :
           /\ Idle(pool[i]) /\ pool[i] \in Node
           /\ \A j \in 1 .. Len(freeNodes) : freeNodes[j] # pool[i]
           /\ \A j \in 1 .. Len(tasks) : tasks[j] # pool[i]
  <2>1. IsInjective(freeNodes) /\ IsInjective(pool) /\ IsInjective(tasks)
    BY <1>2 DEF NodesHeldOnce, NodesWait
  <2>2. /\ \A i, j \in 1 .. Len(freeNodes) : freeNodes[i] = freeNodes[j] => i = j
        /\ \A i, j \in 1 .. Len(pool) : pool[i] = pool[j] => i = j
        /\ \A i, j \in 1 .. Len(tasks) : tasks[i] = tasks[j] => i = j
    BY <1>3, <2>1, InjectiveSeq
  <2>3. QED
    BY <1>2, <1>3, <2>2 DEF NodesHeldOnce, NodesWait
<1>5. PICK n \in Node :
        /\ GiveNode(n)
        /\ \/ /\ freeNodes # <<>> /\ n = freeNodes[Len(freeNodes)]
              /\ freeNodes' \in Seq(Node) /\ Len(freeNodes') = Len(freeNodes) - 1
              /\ \A i \in 1 .. Len(freeNodes') : freeNodes'[i] = freeNodes[i]
              /\ UNCHANGED <<pool, tasks>>
           \/ /\ pool # <<>> /\ n = pool[1]
              /\ pool' \in Seq(Node) /\ Len(pool') = Len(pool) - 1
              /\ \A i \in 1 .. Len(pool') : pool'[i] = pool[i + 1]
              /\ tasks' = Append(tasks, n)
              /\ UNCHANGED freeNodes
  BY TakenNode
<1>6. Idle(n)
  <2>1. CASE freeNodes # <<>> /\ n = freeNodes[Len(freeNodes)]
    <3>1. Len(freeNodes) \in 1 .. Len(freeNodes)
      BY <1>3, <2>1
    <3>2. QED
      BY <1>4, <2>1, <3>1
  <2>2. CASE pool # <<>> /\ n = pool[1]
    <3>1. 1 \in 1 .. Len(pool)
      BY <1>3, <2>2
    <3>2. QED
      BY <1>4, <2>2, <3>1
  <2>3. QED
    BY <1>5, <2>1, <2>2
<1>7. \A m \in Node : m # n => invoke'[m] = invoke[m]
  BY <1>1, <1>5, GivenNode
<1>8. HeldOnce'
  <2>1. ASSUME NEW m \in Node, invoke'[m] # NoTask, NEW q \in Thread,
               NEW j \in 1 .. Len(stk[q])
        PROVE  ~Holds(q, j, m)
    BY <1>6, <1>7, <2>1 DEF NodesHeldOnce, HeldOnce, Idle
  <2>2. \A m \in Node : \A q, p \in Thread :
          \A i \in 1 .. Len(stk[q]) : \A j \in 1 .. Len(stk[p]) :
            Holds(q, i, m) /\ Holds(p, j, m) => q = p /\ i = j
    BY DEF NodesHeldOnce, HeldOnce
  <2>3. QED
    BY <1>1, <2>1, <2>2 DEF HeldOnce, Holds
<1>9. \A m \in Node : Idle(m) /\ m # n => Idle(m)'
  BY <1>1, <1>7 DEF Idle, Holds
<1>10. /\ IsInjective(freeNodes') /\ IsInjective(pool') /\ IsInjective(tasks')
       /\ \A i \in 1 .. Len(freeNodes') :
            freeNodes'[i] \in Node /\ Idle(freeNodes'[i]) /\ freeNodes'[i] # n
       /\ \A i \in 1 .. Len(pool') :
            /\ pool'[i] \in Node /\ Idle(pool'[i]) /\ pool'[i] # n
            /\ \A j \in 1 .. Len(freeNodes') : freeNodes'[j] # pool'[i]
            /\ \A j \in 1 .. Len(tasks') : tasks'[j] # pool'[i]
  <2>1. CASE /\ freeNodes # <<>> /\ n = freeNodes[Len(freeNodes)]
             /\ freeNodes' \in Seq(Node) /\ Len(freeNodes') = Len(freeNodes) - 1
             /\ \A i \in 1 .. Len(freeNodes') : freeNodes'[i] = freeNodes[i]
             /\ UNCHANGED <<pool, tasks>>
    <3>1. \A i \in 1 .. Len(freeNodes') : i \in 1 .. Len(freeNodes) /\ i # Len(freeNodes)
      BY <1>3, <2>1
    <3>2. Len(freeNodes) \in 1 .. Len(freeNodes)
      BY <1>3, <2>1
    <3>3. IsInjective(freeNodes') /\ IsInjective(pool) /\ IsInjective(tasks)
      <4>1. ASSUME NEW i \in 1 .. Len(freeNodes'), NEW j \in 1 .. Len(freeNodes'),
                   freeNodes'[i] = freeNodes'[j]
            PROVE  i = j
        BY <1>4, <2>1, <3>1, <4>1
      <4>2. IsInjective(freeNodes')
        BY <2>1, <4>1, InjectiveSeq
      <4>3. QED
        BY <1>2, <4>2 DEF NodesHeldOnce, NodesWait
    <3>4. \A i \in 1 .. Len(freeNodes') :
            freeNodes'[i] \in Node /\ Idle(freeNodes[i]) /\ freeNodes'[i] # n
      BY <1>4, <2>1, <3>1, <3>2
    <3>5. \A i \in 1 .. Len(freeNodes') : Idle(freeNodes'[i])
      BY <2>1, <3>4 DEF Idle, Holds
    <3>6. \A i \in 1 .. Len(pool) :
            /\ pool[i] \in Node /\ Idle(pool[i]) /\ pool[i] # n
            /\ \A j \in 1 .. Len(freeNodes') : freeNodes'[j] # pool[i]
            /\ \A j \in 1 .. Len(tasks) : tasks[j] # pool[i]
      BY <1>4, <2>1, <3>1, <3>2
    <3>7. pool' = pool /\ tasks' = tasks
      BY <2>1
    <3>8. QED
      BY <3>3, <3>4, <3>5, <3>6, <3>7 DEF Idle, Holds
  <2>2. CASE /\ pool # <<>> /\ n = pool[1]
             /\ pool' \in Seq(Node) /\ Len(pool') = Len(pool) - 1
             /\ \A i \in 1 .. Len(pool') : pool'[i] = pool[i + 1]
             /\ tasks' = Append(tasks, n)
             /\ UNCHANGED freeNodes
    <3>1. \A i \in 1 .. Len(pool') : i \in Nat /\ i + 1 \in 1 .. Len(pool) /\ i + 1 # 1
      BY <1>3, <2>2
    <3>2. 1 \in 1 .. Len(pool)
      BY <1>3, <2>2
    <3>3. /\ tasks' \in Seq(Node) /\ Len(tasks') = Len(tasks) + 1 /\ tasks'[Len(tasks) + 1] = n
          /\ \A i \in 1 .. Len(tasks) : tasks'[i] = tasks[i]
      BY <1>3, <2>2, AppendProperties
    <3>4. \A i \in 1 .. Len(tasks') : i \in 1 .. Len(tasks) \/ (i = Len(tasks) + 1 /\ tasks'[i] = n)
      BY <1>3, <3>3
    <3>5. \A i \in 1 .. Len(tasks) : tasks[i] # n
      BY <1>4, <2>2, <3>2
    <3>6. IsInjective(tasks')
      <4>1. ASSUME NEW i \in 1 .. Len(tasks'), NEW j \in 1 .. Len(tasks'), tasks'[i] = tasks'[j]
            PROVE  i = j
        BY <1>4, <3>3, <3>4, <3>5, <4>1
      <4>2. QED
        BY <3>3, <4>1, InjectiveSeq
    <3>7. IsInjective(pool')
      <4>1. ASSUME NEW i \in 1 .. Len(pool'), NEW j \in 1 .. Len(pool'), pool'[i] = pool'[j]
            PROVE  i = j
        <5>1. i + 1 = j + 1 /\ i \in Nat /\ j \in Nat
          BY <1>4, <2>2, <3>1, <4>1
        <5>2. QED
          BY <5>1
      <4>2. QED
        BY <2>2, <4>1, InjectiveSeq
    <3>8. \A i \in 1 .. Len(pool') :
            /\ pool[i + 1] \in Node /\ Idle(pool[i + 1]) /\ pool[i + 1] # n
            /\ \A j \in 1 .. Len(freeNodes) : freeNodes[j] # pool[i + 1]
            /\ \A j \in 1 .. Len(tasks) : tasks[j] # pool[i + 1]
      BY <1>4, <2>2, <3>1, <3>2
    <3>9. \A i \in 1 .. Len(pool') : pool'[i] = pool[i + 1]
      BY <2>2
    <3>10. \A i \in 1 .. Len(pool') : \A j \in 1 .. Len(tasks') : tasks'[j] # pool'[i]
      BY <3>3, <3>4, <3>8, <3>9
    <3>11. \A i \in 1 .. Len(freeNodes) :
             freeNodes[i] \in Node /\ Idle(freeNodes[i]) /\ freeNodes[i] # n
      BY <1>4, <2>2, <3>2
    <3>12. freeNodes' = freeNodes /\ IsInjective(freeNodes)
      BY <2>2 DEF NodesHeldOnce, NodesWait
    <3>13. \A i \in 1 .. Len(pool') :
             /\ pool'[i] \in Node /\ Idle(pool'[i]) /\ pool'[i] # n
             /\ \A j \in 1 .. Len(freeNodes) : freeNodes[j] # pool'[i]
      BY <3>8, <3>9
    <3>14. QED
      BY <3>6, <3>7, <3>10, <3>11, <3>12, <3>13
  <2>3. QED
    BY <1>5, <2>1, <2>2
<1>11. NodesWait'
  <2>1. \A i \in 1 .. Len(freeNodes') : Idle(freeNodes[i])'
    BY <1>9, <1>10 DEF Idle, Holds
  <2>2. \A i \in 1 .. Len(pool') : Idle(pool[i])'
    BY <1>9, <1>10 DEF Idle, Holds
  <2>3. QED
    BY <1>10, <2>1, <2>2 DEF NodesWait
<1>12. QED
  BY <1>5, <1>6, <1>8, <1>11 DEF NodesHeldOnce

-----------------------------------------------------------------------------
(* Nested *)

\* only th moves, and where it then is is where Nested lets it be
LEMMA NestedMoves ==
  ASSUME Nested, NEW th \in Thread,
         \A q \in Thread \ {th} : stk'[q] = stk[q] /\ dsp'[q] = dsp[q],
         \A j \in 1 .. Len(stk'[th]) :
           stk'[th][j].at = "succ" \/ (j = Len(stk'[th]) /\ dsp'[th].at = "none")
  PROVE  Nested'
<1>1. ASSUME NEW q \in Thread, NEW j \in 1 .. Len(stk'[q])
      PROVE  stk'[q][j].at = "succ" \/ (j = Len(stk'[q]) /\ dsp'[q].at = "none")
  <2>1. CASE q = th
    BY <2>1
  <2>2. CASE q # th
    BY <2>2 DEF Nested, Dispatching
  <2>3. QED
    BY <2>1, <2>2
<1>2. QED
  BY <1>1 DEF Nested, Dispatching

\* nothing but dsp changes, for a thread that dispatches from no unfinished call
LEMMA NestedStays ==
  ASSUME Nested, NEW th \in Thread, UNCHANGED stk,
         \A q \in Thread \ {th} : dsp'[q] = dsp[q],
         dsp[th].at # "none" \/ stk[th] = <<>> \/ dsp'[th] = dsp[th]
  PROVE  Nested'
<1>1. ASSUME NEW j \in 1 .. Len(stk'[th])
      PROVE  stk'[th][j].at = "succ" \/ (j = Len(stk'[th]) /\ dsp'[th].at = "none")
  <2>1. CASE dsp[th].at # "none"
    BY <2>1 DEF Nested, Dispatching
  <2>2. CASE stk[th] = <<>>
    BY <2>2
  <2>3. CASE dsp'[th] = dsp[th]
    BY <2>3 DEF Nested, Dispatching
  <2>4. QED
    BY <2>1, <2>2, <2>3
<1>2. QED
  BY <1>1, NestedMoves

LEMMA EnterNested ==
  ASSUME TypeInv, Nested, NEW th \in Thread, NEW n \in Node, Enter(th, n),
         dsp[th].at # "none" \/ stk[th] = <<>>, dsp'[th].at = "none",
         \A q \in Thread \ {th} : dsp'[q] = dsp[q]
  PROVE  Nested'
<1>1. Stacked /\ invoke \in [Node -> MaybeTask]
  BY GraphTypes
<1>2. CASE invoke[n] = NoTask
  <2>1. UNCHANGED stk
    BY <1>2 DEF Enter
  <2>2. QED
    BY <2>1, NestedStays
<1>3. CASE invoke[n] # NoTask
  <2>1. /\ Len(stk'[th]) = Len(stk[th]) + 1
        /\ \A q \in Thread \ {th} : stk'[q] = stk[q]
        /\ \A j \in 1 .. Len(stk[th]) : stk'[th][j] = stk[th][j]
    BY <1>1, <1>3, EnterMoves
  <2>2. Len(stk[th]) \in Nat
    BY <1>1 DEF Stacked
  <2>3. \A j \in 1 .. Len(stk[th]) : stk[th][j].at = "succ"
    <3>1. CASE dsp[th].at # "none"
      BY <3>1 DEF Nested, Dispatching
    <3>2. CASE stk[th] = <<>>
      BY <3>2
    <3>3. QED
      BY <3>1, <3>2
  <2>4. ASSUME NEW j \in 1 .. Len(stk'[th])
        PROVE  stk'[th][j].at = "succ" \/ (j = Len(stk'[th]) /\ dsp'[th].at = "none")
    <3>1. j \in 1 .. Len(stk[th]) \/ j = Len(stk'[th])
      BY <2>1, <2>2
    <3>2. CASE j \in 1 .. Len(stk[th])
      BY <2>1, <2>3, <3>2
    <3>3. QED
      BY <3>1, <3>2
  <2>5. QED
    BY <2>1, <2>4, NestedMoves
<1>4. QED
  BY <1>2, <1>3

\* the innermost activation moves on, or dispatches a successor
LEMMA FrmToNested ==
  ASSUME TypeInv, Nested, NEW th \in Thread, Executing(th), NEW i \in Nat \ {0},
         NEW at \in {"body", "succ", "free", "retire"}, FrmTo(th, i, at),
         \A q \in Thread \ {th} : dsp'[q] = dsp[q], at = "succ" \/ dsp'[th] = dsp[th]
  PROVE  Nested'
<1>1. stk[th] # <<>> /\ dsp[th].at = "none" /\ Stacked
  BY ExecutingFacts, GraphTypes
<1>2. /\ Len(stk[th]) \in 1 .. Len(stk[th])
      /\ stk'[th][Len(stk[th])].at = at
      /\ Len(stk'[th]) = Len(stk[th])
      /\ \A j \in 1 .. Len(stk[th]) : j = Len(stk[th]) \/ stk'[th][j].at = stk[th][j].at
  BY <1>1, FrmToFrames
<1>3. \A q \in Thread \ {th} : stk'[q] = stk[q]
  BY <1>1, FrameMoves
<1>4. ASSUME NEW j \in 1 .. Len(stk'[th])
      PROVE  stk'[th][j].at = "succ" \/ (j = Len(stk'[th]) /\ dsp'[th].at = "none")
  <2>1. CASE j = Len(stk[th])
    BY <1>1, <1>2, <2>1
  <2>2. CASE j # Len(stk[th])
    BY <1>2, <2>2 DEF Nested
  <2>3. QED
    BY <2>1, <2>2
<1>5. QED
  BY <1>3, <1>4, NestedMoves

LEMMA RetireNested ==
  ASSUME TypeInv, Nested, NEW th \in Thread, Retire(th)
  PROVE  Nested'
<1>1. /\ Executing(th) /\ UNCHANGED dsp
      /\ stk' = [stk EXCEPT ![th] = SubSeq(@, 1, Len(@) - 1)]
  BY DEF Retire
<1>2. stk[th] # <<>> /\ Stacked
  BY <1>1, ExecutingFacts, GraphTypes
<1>3. \A q \in Thread : \A j \in 1 .. Len(stk'[q]) :
        /\ j \in 1 .. Len(stk[q]) /\ stk'[q][j] = stk[q][j]
        /\ ~(q = th /\ j = Len(stk[th]))
  BY <1>1, <1>2, ReturnFrames
<1>4. \A q \in Thread \ {th} : stk'[q] = stk[q]
  BY <1>1, <1>2, ReturnMoves
<1>5. \A j \in 1 .. Len(stk'[th]) : stk'[th][j].at = "succ"
  BY <1>3 DEF Nested
<1>6. QED
  BY <1>1, <1>4, <1>5, NestedMoves

LEMMA ExecuteNested ==
  ASSUME TypeInv, Nested, NEW th \in Thread, ExecuteStep(th)
  PROVE  Nested'
<1>1. CASE Body(th) \/ Recycle(th) \/ FreeNode(th)
  <2>1. /\ Executing(th) /\ UNCHANGED dsp /\ 1 \in Nat \ {0}
        /\ FrmTo(th, 1, "succ") \/ FrmTo(th, 1, "free") \/ FrmTo(th, 1, "retire")
    BY <1>1 DEF Body, Recycle, FreeNode
  <2>2. QED
    BY <2>1, FrmToNested
<1>2. CASE Successor(th)
  <2> DEFINE s == successors[Frm(th).node][Frm(th).i]
  <2>1. /\ Executing(th) /\ FrmTo(th, Frm(th).i + 1, "succ")
        /\ Dispatch(th, s) \/ UNCHANGED dsp
    BY <1>2 DEF Successor
  <2>2. Frm(th).i + 1 \in Nat \ {0}
    <3>1. stk[th] # <<>> /\ Stacked
      BY <2>1, ExecutingFacts, GraphTypes
    <3>2. Frm(th).i \in Nat
      BY <3>1, TopFrame
    <3>3. QED
      BY <3>2
  <2>3. \A q \in Thread \ {th} : dsp'[q] = dsp[q]
    <3>1. CASE UNCHANGED dsp
      BY <3>1
    <3>2. CASE Dispatch(th, s)
      <4>1. dsp' = [dsp EXCEPT ![th] = [at |-> "push", node |-> s]]
        BY <3>2 DEF Dispatch
      <4>2. QED
        BY <4>1, GraphTypes
    <3>3. QED
      BY <2>1, <3>1, <3>2
  <2>4. QED
    BY <2>1, <2>2, <2>3, FrmToNested
<1>3. CASE Retire(th)
  BY <1>3, RetireNested
<1>4. CASE DispatchPushed(th) \/ DispatchReserve(th) \/ DispatchPublish(th)
  <2>1. UNCHANGED stk /\ dsp[th].at # "none" /\ \E x : dsp' = [dsp EXCEPT ![th] = x]
    BY <1>4 DEF DispatchPushed, DispatchReserve, DispatchPublish
  <2>2. \A q \in Thread \ {th} : dsp'[q] = dsp[q]
    BY <2>1, GraphTypes
  <2>3. QED
    BY <2>1, <2>2, NestedStays
<1>5. CASE DispatchInline(th)
  <2>1. /\ dsp[th].at = "inbox" /\ Enter(th, dsp[th].node)
        /\ dsp' = [dsp EXCEPT ![th] = NotDispatching]
    BY <1>5 DEF DispatchInline
  <2>2. dsp[th].node \in Node
    BY <2>1 DEF TypeInv, ControlOK, Control
  <2>3. dsp'[th].at = "none" /\ \A q \in Thread \ {th} : dsp'[q] = dsp[q]
    BY <2>1, GraphTypes DEF NotDispatching
  <2>4. QED
    BY <2>1, <2>2, <2>3, EnterNested
<1>6. CASE Deques(th)
  <2>1. UNCHANGED <<stk, dsp>>
    BY <1>6 DEF Deques, threadVars
  <2>2. QED
    BY <2>1 DEF Nested, Dispatching
<1>7. QED
  BY <1>1, <1>2, <1>3, <1>4, <1>5, <1>6 DEF ExecuteStep

LEMMA TakeNested ==
  ASSUME TypeInv, Nested, NEW th \in Thread, TakeStep(th)
  PROVE  Nested'
<1>1. CASE TakeInbox(th) \/ InboxEmpty(th) \/ StealFailed(th)
  <2>1. UNCHANGED <<stk, dsp>>
    BY <1>1 DEF TakeInbox, InboxEmpty, StealFailed
  <2>2. QED
    BY <2>1 DEF Nested, Dispatching
<1>2. CASE ReleaseAndEnter(th)
  <2>1. AtHome(th, "releasing") /\ Enter(th, taking[th]) /\ taking[th] # NoNode /\ UNCHANGED dsp
    BY <1>2 DEF ReleaseAndEnter, Release
  <2>2. taking[th] \in Node
    BY <2>1 DEF TypeInv, TypeOK, InboxTypeOK, MaybeNode
  <2>3. QED
    BY <2>1, <2>2, EnterNested DEF AtHome, Dispatching
<1>3. CASE EnterTaken(th)
  <2>1. /\ AtHome(th, "popping") \/ AtHome(th, "stealing")
        /\ Enter(th, dq[th].node) /\ dq[th].node # NoNode /\ UNCHANGED dsp
    BY <1>3 DEF EnterTaken
  <2>2. dq[th].node \in Node
    BY <2>1, GraphTypes, FrameTypes DEF MaybeNode
  <2>3. QED
    BY <2>1, <2>2, EnterNested DEF AtHome, Dispatching
<1>4. QED
  BY <1>1, <1>2, <1>3 DEF TakeStep

LEMMA ClientNested ==
  ASSUME TypeInv, Nested, ClientChoice \/ ClientStep
  PROVE  Nested'
<1>1. CASE CreateCount \/ SubmitTask
  <2>1. PICK n : Dispatch(Main, n) \/ UNCHANGED dsp
    BY <1>1 DEF CreateCount, SubmitTask
  <2>2. UNCHANGED stk /\ stk[Main] = <<>> /\ Main \in Thread
    BY <1>1, GraphTypes DEF CreateCount, SubmitTask, AtHome
  <2>3. \A q \in Thread \ {Main} : dsp'[q] = dsp[q]
    <3>1. CASE UNCHANGED dsp
      BY <3>1
    <3>2. CASE Dispatch(Main, n)
      <4>1. dsp' = [dsp EXCEPT ![Main] = [at |-> "push", node |-> n]]
        BY <3>2 DEF Dispatch
      <4>2. QED
        BY <4>1, GraphTypes
    <3>3. QED
      BY <2>1, <3>1, <3>2
  <2>4. QED
    BY <2>2, <2>3, NestedStays
<1>2. CASE ~(CreateCount \/ SubmitTask)
  <2>1. UNCHANGED <<stk, dsp>>
    BY <1>2 DEF ClientChoice, ClientStep, CreateTake, AddDependency, Submit, CallWait, Destroy,
       CreateFill, SubmitReturn, WaitHelp, WaitReturn, Reset, Join, threadVars
  <2>2. QED
    BY <2>1 DEF Nested, Dispatching
<1>3. QED
  BY <1>1, <1>2

LEMMA NextNested ==
  ASSUME TypeInv, Nested, [Next]_vars
  PROVE  Nested'
<1>1. CASE \E th \in Thread : ThreadStep(th)
  BY <1>1, ExecuteNested, TakeNested DEF ThreadStep
<1>2. CASE \E w \in Worker : WorkerStep(w)
  <2>1. UNCHANGED <<stk, dsp>>
    BY <1>2 DEF WorkerStep, WorkerPop, WorkerExit
  <2>2. QED
    BY <2>1 DEF Nested, Dispatching
<1>3. CASE ClientChoice \/ ClientStep
  BY <1>3, ClientNested
<1>4. CASE UNCHANGED vars
  <2>1. UNCHANGED <<stk, dsp>>
    BY <1>4 DEF vars, threadVars
  <2>2. QED
    BY <2>1 DEF Nested, Dispatching
<1>5. QED
  BY <1>1, <1>2, <1>3, <1>4 DEF Next

-----------------------------------------------------------------------------
(* Accounted *)

LEMMA FinishedFinite ==
  ASSUME TypeInv
  PROVE  /\ Finished \subseteq 1 .. created
         /\ IsFiniteSet(Finished) /\ Cardinality(Finished) \in 0 .. created
         /\ Cardinality(Finished) = created => Finished = 1 .. created
<1>1. created \in Nat
  BY GraphTypes
<1>2. IsFiniteSet(1 .. created) /\ Cardinality(1 .. created) = created
  BY <1>1, FS_Interval
<1>3. Finished \in SUBSET (1 .. created)
  BY DEF Finished
<1>4. /\ IsFiniteSet(Finished) /\ Cardinality(Finished) <= created
      /\ created = Cardinality(Finished) => 1 .. created = Finished
  BY <1>2, <1>3, FS_Subset
<1>5. Cardinality(Finished) \in Nat
  BY <1>4, FS_CardinalityType
<1>6. QED
  BY <1>1, <1>3, <1>4, <1>5

LEMMA QuietAccounted ==
  ASSUME Accounted, Unfinished' = Unfinished, UNCHANGED <<created, outstanding>>,
         Counted' = Counted
  PROVE  Accounted'
BY DEF Accounted, CountedIn, Finished

\* An unfinished task has a node to itself, or it is the innermost activation of a
\* thread, past recycle: there are no more of them than nodes and threads.
LEMMA UnfinishedCount ==
  ASSUME TypeInv, OnePlace, HeldOnce, Nested
  PROVE  IsFiniteSet(Unfinished) /\ Cardinality(Unfinished) < CounterMod
<1> DEFINE HasNode(t, n) == \/ invoke[n] = t
                            \/ \E th \in Thread : \E i \in 1 .. Len(stk[th]) :
                                 stk[th][i].task = t /\ Holds(th, i, n)
           Retiring(t, th) == \E i \in 1 .. Len(stk[th]) :
                                stk[th][i].task = t /\ stk[th][i].at = "retire"
           A == {t \in Task : \E n \in Node : HasNode(t, n)}
           B == {t \in Task : \E th \in Thread : Retiring(t, th)}
<1>1. ASSUME NEW t \in Unfinished
      PROVE  t \in A \cup B
  <2>1. t \in Task
    BY DEF Unfinished
  <2>2. CASE \E n \in Node : invoke[n] = t
    BY <2>1, <2>2
  <2>3. CASE \E th \in Thread : \E i \in 1 .. Len(stk[th]) : stk[th][i].task = t
    <3>1. PICK th \in Thread : \E i \in 1 .. Len(stk[th]) : stk[th][i].task = t
      BY <2>3
    <3>2. PICK i \in 1 .. Len(stk[th]) : stk[th][i].task = t
      BY <3>1
    <3>3. CASE stk[th][i].at = "retire"
      BY <2>1, <3>2, <3>3
    <3>4. CASE stk[th][i].at # "retire"
      <4>1. stk[th][i].node \in Node
        BY GraphTypes, FrameAt
      <4>2. Holds(th, i, stk[th][i].node)
        BY <3>4 DEF Holds
      <4>3. QED
        BY <2>1, <3>2, <4>1, <4>2
    <3>5. QED
      BY <3>3, <3>4
  <2>4. QED
    BY <2>2, <2>3 DEF Unfinished
<1>2. ASSUME NEW t \in Task, NEW u \in Task, NEW n \in Node, HasNode(t, n), HasNode(u, n)
      PROVE  t = u
  <2>1. t # NoTask /\ u # NoTask
    BY DEF Task, NoTask
  <2>2. CASE invoke[n] = t
    BY <1>2, <2>1, <2>2 DEF HeldOnce
  <2>3. CASE invoke[n] = u
    BY <1>2, <2>1, <2>3 DEF HeldOnce
  <2>4. CASE invoke[n] # t /\ invoke[n] # u
    <3>1. PICK th \in Thread : \E i \in 1 .. Len(stk[th]) : stk[th][i].task = t /\ Holds(th, i, n)
      BY <1>2, <2>4
    <3>2. PICK i \in 1 .. Len(stk[th]) : stk[th][i].task = t /\ Holds(th, i, n)
      BY <3>1
    <3>3. PICK q \in Thread : \E j \in 1 .. Len(stk[q]) : stk[q][j].task = u /\ Holds(q, j, n)
      BY <1>2, <2>4
    <3>4. PICK j \in 1 .. Len(stk[q]) : stk[q][j].task = u /\ Holds(q, j, n)
      BY <3>3
    <3>5. th = q /\ i = j
      BY <3>2, <3>4 DEF HeldOnce
    <3>6. QED
      BY <3>2, <3>4, <3>5
  <2>5. QED
    BY <2>2, <2>3, <2>4
<1>3. ASSUME NEW t \in Task, NEW u \in Task, NEW th \in Thread, Retiring(t, th), Retiring(u, th)
      PROVE  t = u
  <2>1. PICK i \in 1 .. Len(stk[th]) : stk[th][i].task = t /\ stk[th][i].at = "retire"
    BY <1>3
  <2>2. PICK j \in 1 .. Len(stk[th]) : stk[th][j].task = u /\ stk[th][j].at = "retire"
    BY <1>3
  <2>3. i = Len(stk[th]) /\ j = Len(stk[th])
    BY <2>1, <2>2 DEF Nested
  <2>4. QED
    BY <2>1, <2>2, <2>3
<1> HIDE DEF HasNode, Retiring
<1>4. IsFiniteSet(A) /\ Cardinality(A) <= Cardinality(Node)
  <2> DEFINE f == [t \in A |-> CHOOSE n \in Node : HasNode(t, n)]
  <2>1. \A t \in A : f[t] \in Node /\ HasNode(t, f[t])
    OBVIOUS
  <2>2. \A t, u \in A : f[t] = f[u] => t = u
    BY <1>2, <2>1
  <2>3. f \in [A -> Node]
    BY <2>1
  <2> HIDE DEF f
  <2>4. f \in Injection(A, Node)
    BY <2>2, <2>3 DEF Injection, IsInjective
  <2>5. QED
    BY <2>4, FS_Injection, CounterAssumption
<1>5. IsFiniteSet(Thread)
  <2>1. IsFiniteSet(0 .. NumWorkers - 1)
    BY TaskGraphAssumption, FS_Interval
  <2>2. QED
    BY <2>1, TaskGraphAssumption, FS_AddElement
<1>6. IsFiniteSet(B) /\ Cardinality(B) <= Cardinality(Thread)
  <2> DEFINE f == [t \in B |-> CHOOSE th \in Thread : Retiring(t, th)]
  <2>1. \A t \in B : f[t] \in Thread /\ Retiring(t, f[t])
    OBVIOUS
  <2>2. \A t, u \in B : f[t] = f[u] => t = u
    BY <1>3, <2>1
  <2>3. f \in [B -> Thread]
    BY <2>1
  <2> HIDE DEF f
  <2>4. f \in Injection(B, Thread)
    BY <2>2, <2>3 DEF Injection, IsInjective
  <2>5. QED
    BY <1>5, <2>4, FS_Injection
<1> HIDE DEF A, B
<1>7. IsFiniteSet(A \cup B) /\ Cardinality(A \cup B) <= Cardinality(A) + Cardinality(B)
  <2>1. /\ IsFiniteSet(A \cup B)
        /\ Cardinality(A \cup B) = Cardinality(A) + Cardinality(B) - Cardinality(A \cap B)
    BY <1>4, <1>6, FS_Union
  <2>2. IsFiniteSet(A \cap B)
    <3>1. A \cap B \in SUBSET A
      OBVIOUS
    <3>2. QED
      BY <1>4, <3>1, FS_Subset
  <2>3. Cardinality(A \cap B) \in Nat /\ Cardinality(A) \in Nat /\ Cardinality(B) \in Nat
    BY <1>4, <1>6, <2>2, FS_CardinalityType
  <2>4. QED
    BY <2>1, <2>3
<1>8. Unfinished \in SUBSET (A \cup B)
  BY <1>1
<1>9. IsFiniteSet(Unfinished) /\ Cardinality(Unfinished) <= Cardinality(A \cup B)
  BY <1>7, <1>8, FS_Subset
<1>10. /\ Cardinality(A) \in Nat /\ Cardinality(B) \in Nat /\ Cardinality(A \cup B) \in Nat
       /\ Cardinality(Unfinished) \in Nat /\ Cardinality(Node) \in Nat
       /\ Cardinality(Thread) \in Nat /\ CounterMod \in Nat
  BY <1>4, <1>5, <1>6, <1>7, <1>9, FS_CardinalityType, CounterAssumption, TaskGraphAssumption
<1>11. Cardinality(Node) + Cardinality(Thread) < CounterMod
  BY CounterAssumption
<1>12. QED
  BY <1>4, <1>6, <1>7, <1>9, <1>10, <1>11

\* the tasks created are those that have finished and those that have not
LEMMA FinishedCount ==
  ASSUME TypeInv, OnePlace, IsFiniteSet(Unfinished)
  PROVE  /\ Unfinished \subseteq 1 .. created
         /\ created - Cardinality(Finished) = Cardinality(Unfinished)
<1>1. created \in Nat
  BY GraphTypes
<1>2. ASSUME NEW t \in Unfinished
      PROVE  t \in 1 .. created
  <2>1. t \in Nat \ {0}
    BY DEF Unfinished, Task
  <2>2. CASE \E n \in Node : invoke[n] = t
    BY <1>1, <2>1, <2>2 DEF OnePlace, NoTask
  <2>3. CASE \E th \in Thread : \E i \in 1 .. Len(stk[th]) : stk[th][i].task = t
    <3>1. t <= created
      BY <2>3 DEF OnePlace
    <3>2. QED
      BY <1>1, <2>1, <3>1
  <2>4. QED
    BY <2>2, <2>3 DEF Unfinished
<1>3. IsFiniteSet(1 .. created) /\ Cardinality(1 .. created) = created
  BY <1>1, FS_Interval
<1>4. Cardinality(Finished) = created - Cardinality((1 .. created) \cap Unfinished)
  BY <1>3, FS_Difference DEF Finished
<1>5. (1 .. created) \cap Unfinished = Unfinished
  BY <1>2
<1>6. Cardinality(Unfinished) \in Nat
  BY FS_CardinalityType
<1>7. QED
  BY <1>1, <1>2, <1>4, <1>5, <1>6

\* A client that finds outstanding_ zero finds every task finished: 2^32 unfinished
\* ones it cannot mistake for none.
LEMMA ZeroMeansFinished ==
  ASSUME TypeInv, OnePlace, HeldOnce, Nested, Accounted, outstanding = 0, Counted
  PROVE  Unfinished = {} /\ \A t \in 1 .. created : runs[t] = 1
<1> DEFINE u == Cardinality(Unfinished)
<1>1. IsFiniteSet(Unfinished) /\ u < CounterMod
  BY UnfinishedCount
<1>2. u \in Nat /\ CounterMod \in Nat \ {0} /\ created \in Nat
  BY <1>1, FS_CardinalityType, TaskGraphAssumption, GraphTypes
<1>3. CountedIn = created
  BY <1>2 DEF CountedIn
<1>4. u % CounterMod = 0
  <2>1. created - Cardinality(Finished) = u
    BY <1>1, FinishedCount
  <2>2. QED
    BY <1>3, <2>1 DEF Accounted
<1> HIDE DEF u
<1>5. u % CounterMod = u
  <2>1. u \in 0 .. CounterMod - 1 /\ u = CounterMod * 0 + u
    BY <1>1, <1>2
  <2>2. u \in Int
    BY <1>2
  <2>3. QED
    BY <1>2, <2>1, <2>2, RemainderIs
<1>6. Unfinished = {}
  <2>1. u = 0
    BY <1>4, <1>5
  <2>2. QED
    BY <1>1, <2>1, FS_EmptySet DEF u
<1>7. ASSUME NEW t \in 1 .. created
      PROVE  runs[t] = 1
  <2>1. t \in Task /\ t <= created
    <3>1. created \in 0 .. MaxCreates /\ MaxCreates \in Nat
      BY GraphTypes, TaskGraphAssumption
    <3>2. QED
      BY <1>2, <3>1 DEF Task
  <2>2. QED
    BY <1>6, <2>1 DEF OnePlace
<1>8. QED
  BY <1>6, <1>7

LEMMA RetireAccounted ==
  ASSUME TypeInv, OnePlace, Accounted, NEW th \in Thread, Retire(th)
  PROVE  Accounted'
<1> DEFINE t0 == Frm(th).task
           f == Cardinality(Finished)
           c == CountedIn
<1>1. /\ t0 \in Unfinished /\ t0 <= created /\ Unfinished' = Unfinished \ {t0}
  BY RetireUnfinished
<1>2. outstanding' = Dec(outstanding) /\ UNCHANGED <<created, loc>>
  BY DEF Retire, histVars
<1>3. created \in Nat /\ t0 \in Nat \ {0}
  BY <1>1, GraphTypes DEF Unfinished, Task
<1> HIDE DEF t0
<1>4. Finished' = Finished \cup {t0} /\ t0 \notin Finished
  <2>1. t0 \in 1 .. created
    BY <1>1, <1>3
  <2>2. QED
    BY <1>1, <1>2, <2>1 DEF Finished
<1>5. IsFiniteSet(Finished) /\ f \in Int
  BY FinishedFinite
<1>6. Cardinality(Finished') = f + 1
  BY <1>4, <1>5, FS_AddElement
<1>7. c \in Int /\ CountedIn' = c
  BY <1>2, <1>3 DEF CountedIn, Counted
<1>8. outstanding = (c - f) % CounterMod
  BY DEF Accounted
<1> HIDE DEF c, f
<1>9. outstanding' = (c - (f + 1)) % CounterMod
  <2>1. outstanding' = (((c - f) % CounterMod) - 1) % CounterMod
    BY <1>2, <1>8 DEF Dec
  <2>2. CounterMod \in Nat \ {0} /\ c - f \in Int /\ -1 \in Int
    BY <1>5, <1>7, TaskGraphAssumption
  <2>3. (((c - f) % CounterMod) + (-1)) % CounterMod = (c - f + (-1)) % CounterMod
    BY <2>2, RemainderSteps
  <2>4. (c - f) % CounterMod \in Int
    BY <2>2, ModInRange
  <2>5. ((c - f) % CounterMod) - 1 = ((c - f) % CounterMod) + (-1) /\ c - f + (-1) = c - (f + 1)
    BY <1>5, <1>7, <2>4
  <2>6. QED
    BY <2>1, <2>3, <2>5
<1>10. QED
  BY <1>6, <1>7, <1>9 DEF Accounted

LEMMA CreateAccounted ==
  ASSUME TypeInv, OnePlace, Accounted, CreateTake, NEW n \in Node, GiveNode(n), Idle(n)
  PROVE  Accounted'
<1>1. created < MaxCreates /\ UNCHANGED outstanding /\ Client /\ Goto(Main, "create_fill")
  BY DEF CreateTake, flagVars
<1>2. created' = created + 1 /\ created \in Nat
  BY <1>1, GivenNode, GraphTypes
<1>3. Unfinished' = Unfinished \cup {created + 1} /\ created + 1 \notin Unfinished
  BY CreateUnfinished
<1>4. Finished' = Finished
  <2>1. 1 .. (created + 1) = (1 .. created) \cup {created + 1} /\ created + 1 \notin 1 .. created
    BY <1>2
  <2>2. QED
    BY <1>2, <1>3, <2>1 DEF Finished
<1>5. Counted /\ ~Counted'
  <2>1. Main \in Thread /\ loc[Main] = "client"
    BY <1>1, MainHome DEF Client, Loc
  <2>2. loc'[Main] = "create_fill"
    BY <1>1, <2>1, Went DEF Loc
  <2>3. QED
    BY <2>1, <2>2 DEF Counted
<1>6. CountedIn' = CountedIn
  BY <1>2, <1>5 DEF CountedIn
<1>7. QED
  BY <1>1, <1>4, <1>6 DEF Accounted

LEMMA CreateCountAccounted ==
  ASSUME TypeInv, OnePlace, Accounted, CreateCount
  PROVE  Accounted'
<1> DEFINE f == Cardinality(Finished)
           c == CountedIn
<1>1. /\ AtHome(Main, "create_count") /\ Goto(Main, "client")
      /\ outstanding' = Inc(outstanding) /\ UNCHANGED <<created, invoke, stk>>
  BY DEF CreateCount, nodeVars, histVars
<1>2. ~Counted /\ Counted'
  <2>1. Main \in Thread /\ loc[Main] = "create_count"
    BY <1>1, MainHome DEF Loc
  <2>2. loc'[Main] = "client"
    BY <1>1, <2>1, Went DEF Loc
  <2>3. QED
    BY <2>1, <2>2 DEF Counted
<1>3. created \in Nat /\ IsFiniteSet(Finished) /\ f \in Int
  BY GraphTypes, FinishedFinite
<1>4. Finished' = Finished
  BY <1>1 DEF Finished, Unfinished
<1>5. c \in Int /\ CountedIn' = c + 1
  BY <1>1, <1>2, <1>3 DEF CountedIn
<1>6. outstanding = (c - f) % CounterMod
  BY DEF Accounted
<1> HIDE DEF c, f
<1>7. outstanding' = (c + 1 - f) % CounterMod
  <2>1. outstanding' = (((c - f) % CounterMod) + 1) % CounterMod
    BY <1>1, <1>6 DEF Inc
  <2>2. CounterMod \in Nat \ {0} /\ c - f \in Int /\ 1 \in Int
    BY <1>3, <1>5, TaskGraphAssumption
  <2>3. (((c - f) % CounterMod) + 1) % CounterMod = (c - f + 1) % CounterMod
    BY <2>2, RemainderSteps
  <2>4. c - f + 1 = c + 1 - f
    BY <1>3, <1>5
  <2>5. QED
    BY <2>1, <2>3, <2>4
<1>8. Cardinality(Finished') = f
  BY <1>4 DEF f
<1>9. CountedIn' - Cardinality(Finished') = c + 1 - f
  BY <1>3, <1>5, <1>8
<1>10. outstanding' = (CountedIn' - Cardinality(Finished')) % CounterMod
  BY <1>7, <1>9
<1>11. QED
  BY <1>10 DEF Accounted

-----------------------------------------------------------------------------
(* GraphInv *)

OneEach == OnePlace /\ NodesHeldOnce /\ Accounted

LEMMA QuietStep ==
  ASSUME TypeInv, OneEach, Counted' = Counted, loc[Main] = "gone" => loc'[Main] = "gone",
         UNCHANGED <<invoke, stk, runs, created, freeNodes, pool, tasks, outstanding>>
  PROVE  OneEach'
<1>1. OnePlace'
  BY QuietOnePlace DEF OneEach
<1>2. NodesHeldOnce'
  BY QuietNodesHeld DEF OneEach
<1>3. Unfinished' = Unfinished
  BY DEF Unfinished
<1>4. Accounted'
  BY <1>3, QuietAccounted DEF OneEach
<1>5. QED
  BY <1>1, <1>2, <1>4 DEF OneEach

LEMMA EnterStep ==
  ASSUME TypeInv, OneEach, Counted' = Counted, loc[Main] = "gone" => loc'[Main] = "gone",
         NEW th \in Thread, NEW n \in Node, Enter(th, n),
         UNCHANGED <<runs, created, freeNodes, pool, tasks, outstanding>>
  PROVE  OneEach'
<1>1. OnePlace'
  BY EnterOnePlace DEF OneEach
<1>2. NodesHeldOnce'
  BY EnterNodesHeld DEF OneEach
<1>3. Accounted'
  BY EnterUnfinished, QuietAccounted DEF OneEach
<1>4. QED
  BY <1>1, <1>2, <1>3 DEF OneEach

\* a thread that is not in create_task goes somewhere that is not in it either
LEMMA WentOutside ==
  ASSUME TypeInv, NEW th \in Thread,
         loc[th] \notin {"create_fill", "create_count", "gone"},
         NEW l \in Loc \ {"create_fill", "create_count", "gone"}, Goto(th, l)
  PROVE  Counted' = Counted /\ (loc[Main] = "gone" => loc'[Main] = "gone")
<1>1. loc'[th] = l /\ \A q \in Thread \ {th} : loc'[q] = loc[q]
  BY Went
<1>2. CASE th = Main
  BY <1>1, <1>2 DEF Counted
<1>3. CASE th # Main
  BY <1>1, <1>3, GraphTypes DEF Counted
<1>4. QED
  BY <1>2, <1>3

LEMMA BodyStep ==
  ASSUME TypeInv, OneEach, NEW th \in Thread, Body(th)
  PROVE  OneEach'
<1>1. /\ Executing(th) /\ FrmTo(th, 1, "succ") /\ Frm(th).at # "retire"
      /\ UNCHANGED <<invoke, created, freeNodes, pool, tasks, outstanding, loc>>
  BY DEF Body, nodeVars, poolVars, flagVars
<1>2. stk[th] # <<>> /\ Stacked /\ 1 \in Nat \ {0} /\ OnePlace /\ NodesHeldOnce /\ Accounted
  BY <1>1, ExecutingFacts, GraphTypes DEF OneEach
<1>3. OnePlace'
  BY <1>2, BodyOnePlace
<1>4. NodesHeldOnce'
  BY <1>1, <1>2, FrmToNodesHeld
<1>5. Unfinished' = Unfinished
  BY <1>1, <1>2, FrmToUnfinished
<1>6. Accounted'
  BY <1>1, <1>2, <1>5, QuietAccounted DEF Counted
<1>7. QED
  BY <1>3, <1>4, <1>6 DEF OneEach

\* a step after the body that holds on to the node
LEMMA HoldingStep ==
  ASSUME TypeInv, OneEach, NEW th \in Thread, Executing(th), NEW i \in Nat \ {0},
         NEW at \in {"succ", "free"}, FrmTo(th, i, at), Frm(th).at \in {"succ", "free"},
         UNCHANGED <<invoke, runs, created, freeNodes, pool, tasks, outstanding, loc>>
  PROVE  OneEach'
<1>1. /\ stk[th] # <<>> /\ Stacked /\ OnePlace /\ NodesHeldOnce /\ Accounted
      /\ Frm(th).at # "retire" /\ Frm(th).at # "body"
      /\ at \in {"succ", "free", "retire"} /\ at \in {"body", "succ", "free", "retire"}
  BY ExecutingFacts, GraphTypes DEF OneEach
<1>2. OnePlace'
  BY <1>1, FrmToOnePlace
<1>3. NodesHeldOnce'
  BY <1>1, FrmToNodesHeld
<1>4. Unfinished' = Unfinished
  BY <1>1, FrmToUnfinished
<1>5. Accounted'
  BY <1>1, <1>4, QuietAccounted DEF Counted
<1>6. QED
  BY <1>2, <1>3, <1>5 DEF OneEach

LEMMA SuccessorStep ==
  ASSUME TypeInv, OneEach, NEW th \in Thread, Successor(th)
  PROVE  OneEach'
<1>1. /\ Executing(th) /\ FrmTo(th, Frm(th).i + 1, "succ") /\ Frm(th).at = "succ"
      /\ UNCHANGED <<invoke, runs, created, freeNodes, pool, tasks, outstanding, loc>>
  BY DEF Successor, poolVars, histVars
<1>2. Frm(th).i + 1 \in Nat \ {0}
  BY <1>1, ExecutingFacts, GraphTypes, TopFrame
<1>3. QED
  BY <1>1, <1>2, HoldingStep

\* recycle clears an invoke that execute has cleared already
LEMMA RecycleStep ==
  ASSUME TypeInv, OneEach, NEW th \in Thread, Recycle(th)
  PROVE  OneEach'
<1>1. /\ Executing(th) /\ FrmTo(th, 1, "free") /\ Frm(th).at = "succ"
      /\ invoke' = [invoke EXCEPT ![Frm(th).node] = NoTask]
      /\ UNCHANGED <<runs, created, freeNodes, pool, tasks, outstanding, loc>>
  BY DEF Recycle, poolVars, histVars, flagVars
<1>2. /\ Frm(th).node \in Node /\ Len(stk[th]) \in 1 .. Len(stk[th])
      /\ Frm(th) = stk[th][Len(stk[th])]
  BY <1>1, ExecutingFacts, GraphTypes, TopFrame
<1>3. Holds(th, Len(stk[th]), Frm(th).node)
  BY <1>1, <1>2 DEF Holds
<1>4. invoke[Frm(th).node] = NoTask
  BY <1>2, <1>3 DEF OneEach, NodesHeldOnce, HeldOnce
<1>5. invoke' = invoke
  BY <1>1, <1>2, <1>4, GraphTypes
<1>6. 1 \in Nat \ {0}
  OBVIOUS
<1>7. QED
  BY <1>1, <1>5, <1>6, HoldingStep

LEMMA FreeNodeStep ==
  ASSUME TypeInv, OneEach, NEW th \in Thread, FreeNode(th)
  PROVE  OneEach'
<1>1. /\ Executing(th) /\ FrmTo(th, 1, "retire") /\ Frm(th).at = "free"
      /\ UNCHANGED <<invoke, runs, created, outstanding, loc>>
  BY DEF FreeNode, nodeVars, histVars, flagVars
<1>2. /\ stk[th] # <<>> /\ Stacked /\ OnePlace /\ NodesHeldOnce /\ Accounted
      /\ Frm(th).at # "body" /\ 1 \in Nat \ {0}
  BY <1>1, ExecutingFacts, GraphTypes DEF OneEach
<1>3. OnePlace'
  BY <1>1, <1>2, FrmToOnePlace
<1>4. NodesHeldOnce'
  BY <1>2, FreeNodeNodesHeld
<1>5. Unfinished' = Unfinished
  BY <1>1, <1>2, FrmToUnfinished
<1>6. Accounted'
  BY <1>1, <1>2, <1>5, QuietAccounted DEF Counted
<1>7. QED
  BY <1>3, <1>4, <1>6 DEF OneEach

LEMMA RetireStep ==
  ASSUME TypeInv, OneEach, NEW th \in Thread, Retire(th)
  PROVE  OneEach'
<1>1. OnePlace /\ NodesHeldOnce /\ Accounted
  BY DEF OneEach
<1>2. OnePlace' /\ NodesHeldOnce' /\ Accounted'
  BY <1>1, RetireOnePlace, RetireNodesHeld, RetireAccounted
<1>3. QED
  BY <1>2 DEF OneEach

LEMMA ExecuteOneEach ==
  ASSUME TypeInv, OneEach, NEW th \in Thread, ExecuteStep(th)
  PROVE  OneEach'
<1>1. CASE Body(th) \/ Successor(th) \/ Recycle(th) \/ FreeNode(th) \/ Retire(th)
  BY <1>1, BodyStep, SuccessorStep, RecycleStep, FreeNodeStep, RetireStep
<1>2. CASE DispatchPushed(th) \/ DispatchReserve(th) \/ DispatchPublish(th) \/ Deques(th)
  <2>1. UNCHANGED <<invoke, stk, runs, created, freeNodes, pool, tasks, outstanding, loc>>
    BY <1>2 DEF DispatchPushed, DispatchReserve, DispatchPublish, Deques, nodeVars, poolVars,
       flagVars, threadVars, histVars
  <2>2. QED
    BY <2>1, QuietStep DEF Counted
<1>3. CASE DispatchInline(th)
  <2>1. /\ dsp[th].at = "inbox" /\ Enter(th, dsp[th].node)
        /\ UNCHANGED <<runs, created, freeNodes, pool, tasks, outstanding, loc>>
    BY <1>3 DEF DispatchInline, poolVars, flagVars, histVars
  <2>2. dsp[th].node \in Node
    BY <2>1 DEF TypeInv, ControlOK, Control
  <2>3. QED
    BY <2>1, <2>2, EnterStep DEF Counted
<1>4. QED
  BY <1>1, <1>2, <1>3 DEF ExecuteStep

LEMMA TakeOneEach ==
  ASSUME TypeInv, OneEach, NEW th \in Thread, TakeStep(th)
  PROVE  OneEach'
<1>1. Home(th) \in Loc \ {"create_fill", "create_count", "gone"}
      /\ "releasing" \in Loc \ {"create_fill", "create_count", "gone"}
      /\ "stealing" \in Loc \ {"create_fill", "create_count", "gone"}
  BY DEF Home, Loc
<1>2. CASE TakeInbox(th) \/ InboxEmpty(th) \/ StealFailed(th)
  <2>1. UNCHANGED <<invoke, stk, runs, created, freeNodes, pool, tasks, outstanding>>
    BY <1>2 DEF TakeInbox, InboxEmpty, StealFailed, nodeVars, poolVars, flagVars, histVars
  <2>2. loc[th] \notin {"create_fill", "create_count", "gone"}
    BY <1>2 DEF TakeInbox, InboxEmpty, StealFailed, InboxTurn, AtHome
  <2>3. Goto(th, "releasing") \/ Goto(th, "stealing") \/ Goto(th, Home(th))
    BY <1>2 DEF TakeInbox, InboxEmpty, StealFailed, StealFrom
  <2>4. Counted' = Counted /\ (loc[Main] = "gone" => loc'[Main] = "gone")
    BY <1>1, <2>2, <2>3, WentOutside
  <2>5. QED
    BY <2>1, <2>4, QuietStep
<1>3. CASE ReleaseAndEnter(th)
  <2>1. /\ AtHome(th, "releasing") /\ Enter(th, taking[th]) /\ Goto(th, Home(th))
        /\ taking[th] # NoNode
        /\ UNCHANGED <<runs, created, freeNodes, pool, tasks, outstanding>>
    BY <1>3 DEF ReleaseAndEnter, Release, poolVars, flagVars, histVars
  <2>2. taking[th] \in Node
    BY <2>1 DEF TypeInv, TypeOK, InboxTypeOK, MaybeNode
  <2>3. Counted' = Counted /\ (loc[Main] = "gone" => loc'[Main] = "gone")
    BY <1>1, <2>1, WentOutside DEF AtHome
  <2>4. QED
    BY <2>1, <2>2, <2>3, EnterStep
<1>4. CASE EnterTaken(th)
  <2>1. /\ AtHome(th, "popping") \/ AtHome(th, "stealing")
        /\ Enter(th, dq[th].node) /\ Goto(th, Home(th)) /\ dq[th].node # NoNode
        /\ UNCHANGED <<runs, created, freeNodes, pool, tasks, outstanding>>
    BY <1>4 DEF EnterTaken, poolVars, flagVars, histVars
  <2>2. dq[th].node \in Node
    BY <2>1, GraphTypes, FrameTypes DEF MaybeNode
  <2>3. Counted' = Counted /\ (loc[Main] = "gone" => loc'[Main] = "gone")
    BY <1>1, <2>1, WentOutside DEF AtHome
  <2>4. QED
    BY <2>1, <2>2, <2>3, EnterStep
<1>5. QED
  BY <1>2, <1>3, <1>4 DEF TakeStep

LEMMA WorkerOneEach ==
  ASSUME TypeInv, OneEach, NEW w \in Worker, WorkerStep(w)
  PROVE  OneEach'
<1>1. /\ AtHome(w, "loop") /\ w \in Thread
      /\ Goto(w, "popping") \/ Goto(w, "exited")
      /\ UNCHANGED <<invoke, stk, runs, created, freeNodes, pool, tasks, outstanding>>
  BY GraphTypes DEF WorkerStep, WorkerPop, WorkerExit, Worker, nodeVars, poolVars, flagVars,
     histVars
<1>2. {"popping", "exited"} \subseteq Loc \ {"create_fill", "create_count", "gone"}
  BY DEF Loc
<1>3. Counted' = Counted /\ (loc[Main] = "gone" => loc'[Main] = "gone")
  BY <1>1, <1>2, WentOutside DEF AtHome
<1>4. QED
  BY <1>1, <1>3, QuietStep

LEMMA CreateTakeStep ==
  ASSUME TypeInv, OneEach, CreateTake
  PROVE  OneEach'
<1>1. OnePlace /\ NodesHeldOnce /\ Accounted
  BY DEF OneEach
<1>2. PICK n \in Node : GiveNode(n) /\ Idle(n)
  BY <1>1, CreateNodesHeld
<1>3. OnePlace' /\ NodesHeldOnce' /\ Accounted'
  BY <1>1, <1>2, CreateOnePlace, CreateNodesHeld, CreateAccounted
<1>4. QED
  BY <1>3 DEF OneEach

LEMMA CreateFillStep ==
  ASSUME TypeInv, OneEach, CreateFill
  PROVE  OneEach'
<1>1. /\ AtHome(Main, "create_fill") /\ Goto(Main, "create_count")
      /\ UNCHANGED <<invoke, stk, runs, created, freeNodes, pool, tasks, outstanding>>
  BY DEF CreateFill, poolVars, flagVars, histVars
<1>2. Main \in Thread /\ loc[Main] = "create_fill"
  BY <1>1, MainHome DEF Loc
<1>3. loc'[Main] = "create_count"
  BY <1>1, <1>2, Went DEF Loc
<1>4. Counted' = Counted
  BY <1>2, <1>3 DEF Counted
<1>5. QED
  BY <1>1, <1>2, <1>4, QuietStep

LEMMA CreateCountStep ==
  ASSUME TypeInv, OneEach, CreateCount
  PROVE  OneEach'
<1>1. /\ AtHome(Main, "create_count") /\ OnePlace /\ NodesHeldOnce /\ Accounted
      /\ UNCHANGED <<invoke, stk, runs, created, freeNodes, pool, tasks>>
  BY DEF CreateCount, OneEach, nodeVars, poolVars, histVars
<1>2. loc[Main] = "create_count"
  BY <1>1, MainHome DEF Loc
<1>3. OnePlace' /\ NodesHeldOnce' /\ Accounted'
  BY <1>1, <1>2, QuietOnePlace, QuietNodesHeld, CreateCountAccounted
<1>4. QED
  BY <1>3 DEF OneEach

LEMMA ClientOneEach ==
  ASSUME TypeInv, OneEach,
         \/ AddDependency \/ Submit \/ SubmitTask \/ SubmitReturn \/ CallWait \/ WaitHelp
         \/ WaitReturn \/ Destroy
  PROVE  OneEach'
<1>1. UNCHANGED <<invoke, stk, runs, created, freeNodes, pool, tasks, outstanding>>
  BY DEF AddDependency, Submit, SubmitTask, SubmitReturn, CallWait, WaitHelp, WaitReturn,
     Destroy, nodeVars, poolVars, flagVars, histVars, threadVars
<1>2. \/ UNCHANGED loc
      \/ /\ loc[Main] \in {"client", "submit", "wait"}
         /\ Goto(Main, "submit") \/ Goto(Main, "client") \/ Goto(Main, "wait")
            \/ Goto(Main, "help") \/ Goto(Main, "join")
  BY DEF AddDependency, Submit, SubmitTask, SubmitReturn, CallWait, WaitHelp, WaitReturn,
     Destroy, Client, AtHome, threadVars
<1>3. {"submit", "client", "wait", "help", "join"}
        \subseteq Loc \ {"create_fill", "create_count", "gone"}
  BY DEF Loc
<1>4. Counted' = Counted /\ (loc[Main] = "gone" => loc'[Main] = "gone")
  <2>1. CASE UNCHANGED loc
    BY <2>1 DEF Counted
  <2>2. CASE ~UNCHANGED loc
    BY <1>2, <1>3, <2>2, WentOutside, GraphTypes
  <2>3. QED
    BY <2>1, <2>2
<1>5. QED
  BY <1>1, <1>4, QuietStep

\* reset finds every task finished: every node it returns to the pool is idle
LEMMA ResetStep ==
  ASSUME TypeInv, OneEach, Nested, Reset
  PROVE  OneEach'
<1>1. /\ AtHome(Main, "wait") /\ outstanding = 0 /\ ResetNodes /\ Goto(Main, "client")
      /\ UNCHANGED <<invoke, stk, runs, created, outstanding>>
  BY DEF Reset
<1>2. OnePlace /\ NodesHeldOnce /\ Accounted
  BY DEF OneEach
<1>3. Main \in Thread /\ loc[Main] = "wait" /\ loc'[Main] = "client"
  <2>1. Main \in Thread /\ loc[Main] = "wait"
    BY <1>1, MainHome DEF Loc
  <2>2. QED
    BY <1>1, <2>1, Went DEF Loc
<1>4. Counted /\ Counted' = Counted
  BY <1>3 DEF Counted
<1>5. Unfinished = {}
  BY <1>1, <1>2, <1>4, ZeroMeansFinished DEF NodesHeldOnce
<1>6. Unfinished' = Unfinished
  BY <1>1 DEF Unfinished
<1>7. OnePlace' /\ Accounted'
  BY <1>1, <1>2, <1>4, <1>6, QuietOnePlace, QuietAccounted
<1>8. HeldOnce'
  BY <1>1, <1>2 DEF NodesHeldOnce, HeldOnce, Holds
<1>9. ASSUME NEW m \in Node
      PROVE  Idle(m)'
  <2>1. invoke[m] = NoTask
    BY <1>5, GraphTypes DEF Unfinished, MaybeTask
  <2>2. ASSUME NEW q \in Thread, NEW j \in 1 .. Len(stk[q])
        PROVE  FALSE
    <3>1. stk[q][j].task \in Task
      BY GraphTypes, FrameAt
    <3>2. QED
      BY <1>5, <3>1 DEF Unfinished
  <2>3. QED
    BY <1>1, <2>1, <2>2 DEF Idle, Holds
<1> DEFINE a == Len(tasks)
           b == Len(pool)
<1>10. /\ pool' \in Seq(Node) /\ Len(pool') = a + b /\ a \in Nat /\ b \in Nat
       /\ \A i \in 1 .. Len(pool') :
            pool'[i] = IF i <= a THEN tasks[a - i + 1] ELSE pool[i - a]
       /\ tasks' \in Seq(Node) /\ Len(tasks') = 0
       /\ freeNodes' \in Seq(Node) /\ Len(freeNodes') = 0
  BY <1>1, ReturnedNodes
<1>11. IsInjective(freeNodes') /\ IsInjective(tasks')
  BY <1>10, InjectiveEmpty
<1> HIDE DEF a, b
<1>12. IsInjective(pool')
  <2>1. /\ \A i, j \in 1 .. a : tasks[i] = tasks[j] => i = j
        /\ \A i, j \in 1 .. b : pool[i] = pool[j] => i = j
        /\ \A i \in 1 .. b : \A j \in 1 .. a : tasks[j] # pool[i]
    <3>1. IsInjective(pool) /\ IsInjective(tasks) /\ pool \in Seq(Node) /\ tasks \in Seq(Node)
      BY <1>2, <1>3, GraphTypes DEF NodesHeldOnce, NodesWait
    <3>2. /\ \A i, j \in 1 .. a : tasks[i] = tasks[j] => i = j
          /\ \A i, j \in 1 .. b : pool[i] = pool[j] => i = j
      BY <3>1, InjectiveSeq DEF a, b
    <3>3. \A i \in 1 .. b : \A j \in 1 .. a : tasks[j] # pool[i]
      BY <1>2, <1>3 DEF NodesHeldOnce, NodesWait, a, b
    <3>4. QED
      BY <3>2, <3>3
  <2>2. ASSUME NEW i \in 1 .. Len(pool')
        PROVE  \/ i <= a /\ a - i + 1 \in 1 .. a /\ pool'[i] = tasks[a - i + 1]
               \/ i > a /\ i - a \in 1 .. b /\ pool'[i] = pool[i - a]
    <3>1. CASE i <= a
      BY <1>10, <3>1
    <3>2. CASE ~(i <= a)
      BY <1>10, <3>2
    <3>3. QED
      BY <3>1, <3>2
  <2>3. ASSUME NEW i \in 1 .. Len(pool'), NEW j \in 1 .. Len(pool'), pool'[i] = pool'[j]
        PROVE  i = j
    <3>1. i \in Int /\ j \in Int /\ a \in Int
      BY <1>10
    <3>2. CASE i <= a /\ j <= a
      <4>1. a - i + 1 = a - j + 1
        BY <2>1, <2>2, <2>3, <3>1, <3>2
      <4>2. QED
        BY <3>1, <4>1
    <3>3. CASE i > a /\ j > a
      <4>1. i - a = j - a
        BY <2>1, <2>2, <2>3, <3>1, <3>3
      <4>2. QED
        BY <3>1, <4>1
    <3>4. CASE i <= a /\ j > a
      BY <2>1, <2>2, <2>3, <3>1, <3>4
    <3>5. CASE i > a /\ j <= a
      BY <2>1, <2>2, <2>3, <3>1, <3>5
    <3>6. QED
      BY <3>1, <3>2, <3>3, <3>4, <3>5
  <2>4. QED
    BY <1>10, <2>3, InjectiveSeq
<1>13. \A i \in 1 .. Len(pool') : Idle(pool[i])'
  <2>1. ASSUME NEW i \in 1 .. Len(pool')
        PROVE  Idle(pool[i])'
    <3>1. PICK m \in Node : m = pool'[i]
      BY <1>10
    <3>2. QED
      BY <1>9, <3>1 DEF Idle, Holds
  <2>2. QED
    BY <2>1
<1>14. 1 .. Len(freeNodes') = {} /\ 1 .. Len(tasks') = {}
  BY <1>10
<1>15. NodesWait'
  BY <1>11, <1>12, <1>13, <1>14 DEF NodesWait
<1>16. QED
  BY <1>7, <1>8, <1>15 DEF OneEach, NodesHeldOnce

LEMMA JoinStep ==
  ASSUME TypeInv, OneEach, Join
  PROVE  OneEach'
<1>1. /\ AtHome(Main, "join") /\ ResetNodes /\ Goto(Main, "gone")
      /\ UNCHANGED <<invoke, stk, runs, created, outstanding>>
  BY DEF Join, flagVars, histVars
<1>2. OnePlace /\ NodesHeldOnce /\ Accounted
  BY DEF OneEach
<1>3. loc[Main] = "join" /\ loc'[Main] = "gone"
  <2>1. Main \in Thread /\ loc[Main] = "join"
    BY <1>1, MainHome DEF Loc
  <2>2. QED
    BY <1>1, <2>1, Went DEF Loc
<1>4. Counted' = Counted /\ Unfinished' = Unfinished
  BY <1>1, <1>3 DEF Counted, Unfinished
<1>5. OnePlace' /\ Accounted'
  BY <1>1, <1>2, <1>4, QuietOnePlace, QuietAccounted
<1>6. HeldOnce'
  BY <1>1, <1>2 DEF NodesHeldOnce, HeldOnce, Holds
<1>7. freeNodes' \in Seq(Node) /\ Len(freeNodes') = 0
  BY <1>1, ReturnedNodes
<1>8. IsInjective(freeNodes')
  BY <1>7, InjectiveEmpty
<1>9. NodesWait'
  <2>1. 1 .. Len(freeNodes') = {}
    BY <1>7
  <2>2. QED
    BY <1>3, <1>8, <2>1 DEF NodesWait
<1>10. QED
  BY <1>5, <1>6, <1>9 DEF OneEach, NodesHeldOnce

LEMMA NextOneEach ==
  ASSUME TypeInv, OneEach, Nested, [Next]_vars
  PROVE  OneEach'
<1>1. CASE \E th \in Thread : ThreadStep(th)
  BY <1>1, ExecuteOneEach, TakeOneEach DEF ThreadStep
<1>2. CASE \E w \in Worker : WorkerStep(w)
  BY <1>2, WorkerOneEach
<1>3. CASE ClientChoice
  BY <1>3, CreateTakeStep, ClientOneEach DEF ClientChoice
<1>4. CASE ClientStep
  BY <1>4, CreateFillStep, CreateCountStep, ClientOneEach, ResetStep, JoinStep DEF ClientStep
<1>5. CASE UNCHANGED vars
  <2>1. UNCHANGED <<invoke, stk, runs, created, freeNodes, pool, tasks, outstanding, loc>>
    BY <1>5 DEF vars, nodeVars, poolVars, flagVars, threadVars, histVars
  <2>2. QED
    BY <2>1, QuietStep DEF Counted
<1>6. QED
  BY <1>1, <1>2, <1>3, <1>4, <1>5 DEF Next

LEMMA InitNested == Init => Nested
<1> SUFFICES ASSUME Init PROVE Nested
  OBVIOUS
<1>1. \A th \in Thread : stk[th] = <<>>
  BY DEF Init
<1>2. \A th \in Thread : 1 .. Len(stk[th]) = {}
  <2>1. Len(<<>>) = 0 /\ 1 .. 0 = {}
    OBVIOUS
  <2>2. QED
    BY <1>1, <2>1
<1>3. QED
  BY <1>2 DEF Nested

LEMMA InitOneEach == Init => OneEach
<1> SUFFICES ASSUME Init PROVE OneEach
  OBVIOUS
<1>1. TypeInv
  BY InitTyped
<1>2. /\ \A n \in Node : invoke[n] = NoTask
      /\ \A th \in Thread : stk[th] = <<>>
      /\ \A t \in Task : runs[t] = 0
      /\ created = 0 /\ outstanding = 0 /\ freeNodes = <<>> /\ tasks = <<>> /\ pool = Pool
      /\ Counted
  <2>1. /\ invoke = [n \in Node |-> NoTask] /\ stk = [th \in Thread |-> <<>>]
        /\ runs = [t \in Task |-> 0]
        /\ created = 0 /\ outstanding = 0 /\ freeNodes = <<>> /\ tasks = <<>> /\ pool = Pool
        /\ loc = [th \in Thread |-> IF th = Main THEN "client" ELSE "loop"]
    BY DEF Init
  <2>2. Main \in Thread
    BY TaskGraphAssumption
  <2>3. Counted
    BY <2>1, <2>2 DEF Counted
  <2>4. QED
    BY <2>1, <2>3
<1>3. \A th \in Thread : 1 .. Len(stk[th]) = {}
  <2>1. Len(<<>>) = 0 /\ 1 .. 0 = {}
    OBVIOUS
  <2>2. QED
    BY <1>2, <2>1
<1>4. \A t \in Task : t > 0
  BY DEF Task
<1>5. Unfinished = {}
  BY <1>2, <1>3, <1>4 DEF Unfinished, NoTask
<1>6. OnePlace
  <2>1. \A t \in Task : ~(t <= created)
    BY <1>2 DEF Task
  <2>2. QED
    BY <1>2, <1>3, <2>1 DEF OnePlace
<1>7. HeldOnce /\ \A n \in Node : Idle(n)
  BY <1>2, <1>3 DEF HeldOnce, Idle
<1>8. NodesWait
  <2>1. 1 .. Len(freeNodes) = {} /\ 1 .. Len(tasks) = {}
    BY <1>2
  <2>2. freeNodes \in Seq(Node) /\ tasks \in Seq(Node) /\ pool \in Seq(Node)
    BY <1>1, GraphTypes
  <2>3. IsInjective(freeNodes) /\ IsInjective(tasks)
    BY <2>1, <2>2, InjectiveSeq
  <2>4. IsInjective(pool)
    BY <1>2, TaskGraphAssumption
  <2>5. QED
    BY <1>7, <2>1, <2>2, <2>3, <2>4 DEF NodesWait
<1>9. Accounted
  <2>1. Finished = {} /\ CountedIn = 0
    <3>1. 1 .. created = {} /\ created - 0 = 0
      BY <1>2
    <3>2. Finished = {}
      BY <3>1 DEF Finished
    <3>3. CountedIn = 0
      BY <1>2, <3>1 DEF CountedIn
    <3>4. QED
      BY <3>2, <3>3
  <2>2. Cardinality(Finished) = 0
    BY <2>1, FS_EmptySet
  <2>3. 0 % CounterMod = 0
    <3>1. CounterMod \in Nat \ {0}
      BY TaskGraphAssumption
    <3>2. 0 \in 0 .. CounterMod - 1 /\ 0 = CounterMod * 0 + 0
      BY <3>1
    <3>3. QED
      BY <3>1, <3>2, RemainderIs
  <2>4. QED
    BY <1>2, <2>1, <2>2, <2>3 DEF Accounted
<1>10. QED
  BY <1>6, <1>7, <1>8, <1>9 DEF OneEach, NodesHeldOnce

LEMMA GraphInvStep ==
  ASSUME GraphInv, [Next]_vars
  PROVE  GraphInv'
<1>1. TypeInv /\ OneEach /\ Nested
  BY DEF GraphInv, OneEach
<1>2. TypeInv' /\ Nested'
  BY <1>1, NextTyped, NextNested
<1>3. OneEach'
  BY <1>1, NextOneEach
<1>4. QED
  BY <1>2, <1>3 DEF GraphInv, OneEach

\* The inductive invariant of the task graph: one permission per task, which moves
\* from invoke to one activation; every node in one place; outstanding_ exact.
THEOREM GraphInduction == Spec => []GraphInv
<1>1. Init => GraphInv
  BY InitTyped, InitOneEach, InitNested DEF GraphInv, OneEach
<1>2. GraphInv /\ [Next]_vars => GraphInv'
  BY GraphInvStep
<1>3. QED
  BY <1>1, <1>2, PTL DEF Spec

\* No task's body runs twice, for any number of workers, tasks, resets and reused
\* nodes and whatever the deques hand out twice: the exchange of execute.
THEOREM GraphAtMostOnce == Spec => []AtMostOnce
<1>1. ASSUME GraphInv
      PROVE  AtMostOnce
  <2>1. ASSUME NEW t \in Task
        PROVE  runs[t] <= 1
    <3>1. CASE \E n \in Node : invoke[n] = t
      <4>1. PICK n \in Node : invoke[n] = t
        BY <3>1
      <4>2. invoke[n] # NoTask
        BY <4>1 DEF Task, NoTask
      <4>3. QED
        BY <1>1, <4>1, <4>2 DEF GraphInv, OnePlace
    <3>2. CASE \E th \in Thread : \E i \in 1 .. Len(stk[th]) : stk[th][i].task = t
      <4>1. PICK th \in Thread : \E i \in 1 .. Len(stk[th]) : stk[th][i].task = t
        BY <3>2
      <4>2. PICK i \in 1 .. Len(stk[th]) : stk[th][i].task = t
        BY <4>1
      <4>3. runs[t] = 0 \/ runs[t] = 1
        BY <1>1, <4>2, GraphTypes, FramePlace DEF GraphInv
      <4>4. QED
        BY <4>3
    <3>3. CASE t \notin Unfinished
      <4>1. t \in Int /\ created \in Int
        BY <1>1, GraphTypes DEF GraphInv, Task
      <4>2. t > created \/ t <= created
        BY <4>1
      <4>3. runs[t] = 0 \/ runs[t] = 1
        BY <1>1, <3>3, <4>2 DEF GraphInv, OnePlace
      <4>4. QED
        BY <4>3
    <3>4. QED
      BY <3>1, <3>2, <3>3 DEF Unfinished
  <2>2. QED
    BY <2>1 DEF AtMostOnce
<1>2. QED
  BY <1>1, GraphInduction, PTL

\* What waits in free_nodes_ waits once, has no task to run, and is in no activation
\* but one that has given it up already.
THEOREM GraphFreeNodesAreIdle == Spec => []FreeNodesAreIdle
<1>1. GraphInv => FreeNodesAreIdle
  BY DEF GraphInv, NodesHeldOnce, NodesWait, Idle, Holds, FreeNodesAreIdle
<1>2. QED
  BY <1>1, GraphInduction, PTL

\* wait and reset return only when every task created so far has run exactly once
\* and no thread is inside execute: outstanding_ is exact, and no 32-bit counter
\* can be zero for another reason.
THEOREM GraphWaitMeansDone == Spec => WaitMeansDone
<1>1. ASSUME GraphInv, WaitReturn \/ Reset
      PROVE  (\A t \in 1 .. created : runs[t] = 1) /\ Running = {}
  <2>1. AtHome(Main, "wait") /\ outstanding = 0
    BY <1>1 DEF WaitReturn, Reset
  <2>2. TypeInv /\ OnePlace /\ HeldOnce /\ Nested /\ Accounted
    BY <1>1 DEF GraphInv, NodesHeldOnce
  <2>3. Counted
    BY <2>1 DEF Counted, AtHome
  <2>4. Unfinished = {} /\ \A t \in 1 .. created : runs[t] = 1
    BY <2>1, <2>2, <2>3, ZeroMeansFinished
  <2>5. ASSUME NEW th \in Thread
        PROVE  Range(stk[th]) = {}
    <3>1. ASSUME NEW i \in 1 .. Len(stk[th])
          PROVE  FALSE
      <4>1. stk[th][i].task \in Task
        BY <2>2, GraphTypes, FrameAt
      <4>2. QED
        BY <2>4, <4>1 DEF Unfinished
    <3>2. stk[th] \in Seq(Activation)
      BY <2>2, GraphTypes DEF Stacked
    <3>3. DOMAIN stk[th] = 1 .. Len(stk[th])
      BY <3>2
    <3>4. QED
      BY <3>1, <3>3 DEF Range
  <2>6. Running = {}
    BY <2>5 DEF Running
  <2>7. QED
    BY <2>4, <2>6
<1>2. GraphInv /\ [Next]_vars =>
        [(WaitReturn \/ Reset) =>
           /\ \A t \in 1 .. created : runs[t] = 1
           /\ Running = {}]_vars
  BY <1>1
<1>3. QED
  BY <1>2, GraphInduction, PTL DEF Spec, WaitMeansDone

-----------------------------------------------------------------------------
(* One batch on fresh nodes: a client that creates its tasks before submit and *)
(* does not reset.  What makes BatchInv inductive and the promise kept.        *)

\* where the client is: not in worker_loop, in create_task only before submit; the
\* workers have left when the destructor has joined them
ClientPlace ==
  /\ loc[Main] \notin {"loop", "popping", "exited"}
  /\ loc[Main] = "gone" => \A w \in Worker : loc[w] = "exited"
  /\ ~resetting /\ batch = 0
  /\ submitted => loc[Main] \notin {"create_fill", "create_count"}
  /\ loc[Main] = "submit" => submitted
  /\ ~submitted => Len(freeNodes) = 0

\* a node has one task, ever: the one it was handed out for
FreshNodes ==
  /\ loc[Main] # "gone" => Len(tasks) = created /\ \A t \in 1 .. created : tasks[t] = handle[t]
  /\ \A t, u \in 1 .. created : handle[t] = handle[u] => t = u
  /\ \A n \in Node : invoke[n] # NoTask => handle[invoke[n]] = n
  /\ \A th \in Thread : \A k \in 1 .. Len(stk[th]) : handle[stk[th][k].task] = stk[th][k].node

\* create_task has stored the fields of t's node
Filled(t) == t = created => loc[Main] # "create_fill"

Callables ==
  loc[Main] # "gone" =>
    \A t \in 1 .. created : Filled(t) /\ runs[t] = 0 => callable[handle[t]] = t

\* p's body has returned and the loop over its successors is at the i-th
Passing(p, i) ==
  \E th \in Thread : \E k \in 1 .. Len(stk[th]) :
    stk[th][k].task = p /\ stk[th][k].at = "succ" /\ stk[th][k].i = i

\* the successors of p's node are the nodes of the tasks that depend on p, once each
Lists(p) ==
  /\ \A i, j \in 1 .. Len(successors[handle[p]]) :
       successors[handle[p]][i] = successors[handle[p]][j] => i = j
  /\ \A i \in 1 .. Len(successors[handle[p]]) :
       \E d \in 1 .. created : <<p, d>> \in prereq /\ successors[handle[p]][i] = handle[d]
  /\ \A d \in 1 .. created : <<p, d>> \in prereq =>
       \E i \in 1 .. Len(successors[handle[p]]) : successors[handle[p]][i] = handle[d]

EdgeLists ==
  /\ \A p, d \in Task : <<p, d>> \in prereq => p < d /\ d <= created /\ Filled(d)
  /\ \A p \in 1 .. created : runs[p] = 0 => Lists(p)
  /\ \A th \in Thread : \A k \in 1 .. Len(stk[th]) :
       stk[th][k].at = "succ" => Lists(stk[th][k].task)

\* the shares of pending: submit's, and that of each prerequisite that has not yet
\* decremented it
SubmitOwes(d) == ~submitted \/ (loc[Main] = "submit" /\ idx[Main] <= d)
Behind(p, d) ==
  \E j \in 1 .. Len(successors[handle[p]]) :
    successors[handle[p]][j] = handle[d] /\ \E i \in 1 .. j : Passing(p, i)
Owes(p, d) == <<p, d>> \in prereq /\ (runs[p] = 0 \/ Behind(p, d))
Unmet(d) == {p \in 0 .. created : IF p = 0 THEN SubmitOwes(d) ELSE Owes(p, d)}

SharesCounted ==
  \A t \in 1 .. created : Filled(t) => pending[handle[t]] = Cardinality(Unmet(t))

\* a task nothing is owed to any more; the nodes of these are all the threads see
Ready(t) == submitted /\ Unmet(t) = {}
ReadyNodes == {handle[t] : t \in {u \in 1 .. created : Ready(u)}}

\* every pointer to a node the threads hold or exchange is to one of ns
InboxNodes(ns) ==
  /\ \A i \in 1 .. Len(cells) : cells[i].node \in ns
  /\ \A th \in Thread : taking[th] \in ns \cup {NoNode}
DispatchNodes(ns) == \A th \in Thread : dsp[th].node \in ns \cup {NoNode}
StackNodes(ns) == \A th \in Thread : \A k \in 1 .. Len(stk[th]) : stk[th][k].node \in ns
Pointers(ns) == Held(ns) /\ InboxNodes(ns) /\ DispatchNodes(ns) /\ StackNodes(ns)

RanReady == \A t \in 1 .. created : runs[t] > 0 => Ready(t)

OneBatch ==
  /\ ClientPlace /\ FreshNodes /\ Callables /\ EdgeLists /\ SharesCounted
  /\ Pointers(ReadyNodes) /\ RanReady

BatchInduction == GraphInv /\ OneBatch

-----------------------------------------------------------------------------
(* What the pieces of OneBatch depend on *)

\* the client stays where the batch is concerned
ClientQuiet ==
  /\ loc'[Main] = "create_fill" <=> loc[Main] = "create_fill"
  /\ \A d \in 1 .. created : SubmitOwes(d)' = SubmitOwes(d)
  /\ loc'[Main] = "gone" \/ UNCHANGED <<callable, tasks>>
  /\ loc[Main] = "gone" => loc'[Main] = "gone"

\* activations may go, may be entered, and may change, but not at "succ"
StacksQuiet ==
  /\ \A q \in Thread : \A k \in 1 .. Len(stk'[q]) :
       \/ /\ k \in 1 .. Len(stk[q])
          /\ stk'[q][k].task = stk[q][k].task /\ stk'[q][k].node = stk[q][k].node
          /\ stk'[q][k].at = "succ" => stk[q][k] = stk'[q][k]
       \/ /\ stk'[q][k].at # "succ"
          /\ \E n \in Node : /\ invoke[n] # NoTask
                            /\ stk'[q][k].node = n /\ stk'[q][k].task = invoke[n]
  /\ \A q \in Thread : \A k \in 1 .. Len(stk[q]) :
       stk[q][k].at = "succ" => k \in 1 .. Len(stk'[q]) /\ stk'[q][k] = stk[q][k]

LEMMA CreatedTypes ==
  ASSUME TypeInv
  PROVE  /\ created \in Nat /\ 1 .. created \subseteq Task
         /\ \A t \in 1 .. created : handle[t] \in Node
         /\ \A t \in 1 .. created : t \in Nat /\ t # 0 /\ t # NoTask /\ runs[t] \in Nat
<1>1. created \in 0 .. MaxCreates /\ MaxCreates \in Nat /\ runs \in [Task -> Nat]
  BY GraphTypes, TaskGraphAssumption
<1>2. 1 .. created \subseteq Task /\ created \in Nat
  BY <1>1 DEF Task
<1>3. \A t \in 1 .. created : t <= created /\ t \in Nat /\ t # 0
  BY <1>2
<1>4. QED
  BY <1>1, <1>2, <1>3 DEF TypeInv, HandlesOK, NoTask

LEMMA PassingStays ==
  ASSUME StacksQuiet, NEW p, NEW i
  PROVE  Passing(p, i)' <=> Passing(p, i)
<1>1. ASSUME NEW th \in Thread, NEW k \in 1 .. Len(stk[th]),
             stk[th][k].task = p, stk[th][k].at = "succ", stk[th][k].i = i
      PROVE  Passing(p, i)'
  <2>1. k \in 1 .. Len(stk'[th]) /\ stk'[th][k] = stk[th][k]
    BY <1>1 DEF StacksQuiet
  <2>2. QED
    BY <1>1, <2>1 DEF Passing
<1>2. ASSUME NEW th \in Thread, NEW k \in 1 .. Len(stk'[th]),
             stk'[th][k].task = p, stk'[th][k].at = "succ", stk'[th][k].i = i
      PROVE  Passing(p, i)
  <2>1. k \in 1 .. Len(stk[th]) /\ stk[th][k] = stk'[th][k]
    BY <1>2 DEF StacksQuiet
  <2>2. QED
    BY <1>2, <2>1 DEF Passing
<1>3. QED
  BY <1>1, <1>2 DEF Passing

LEMMA UnmetByOwes ==
  ASSUME UNCHANGED created, created \in Nat, NEW d, SubmitOwes(d)' = SubmitOwes(d),
         \A p \in 1 .. created : Owes(p, d)' <=> Owes(p, d)
  PROVE  Unmet(d)' = Unmet(d)
<1>1. ASSUME NEW p \in 0 .. created
      PROVE  (IF p = 0 THEN SubmitOwes(d)' ELSE Owes(p, d)') <=> (IF p = 0 THEN SubmitOwes(d) ELSE Owes(p, d))
  <2>1. p = 0 \/ p \in 1 .. created
    OBVIOUS
  <2>2. QED
    BY <2>1
<1>2. Unmet(d)' = {p \in 0 .. created : IF p = 0 THEN SubmitOwes(d)' ELSE Owes(p, d)'}
  BY DEF Unmet
<1>3. QED
  BY <1>1, <1>2 DEF Unmet

\* p, and only p, no longer owes d its share
LEMMA UnmetLoses ==
  ASSUME UNCHANGED created, created \in Nat, NEW d, SubmitOwes(d)' = SubmitOwes(d),
         NEW t \in 1 .. created, Owes(t, d), ~Owes(t, d)',
         \A p \in 1 .. created : p # t => (Owes(p, d)' <=> Owes(p, d))
  PROVE  t \in Unmet(d) /\ Unmet(d)' = Unmet(d) \ {t}
<1>1. ASSUME NEW p \in 0 .. created
      PROVE  (IF p = 0 THEN SubmitOwes(d)' ELSE Owes(p, d)')
               <=> (p # t /\ IF p = 0 THEN SubmitOwes(d) ELSE Owes(p, d))
  <2>1. p = 0 \/ p \in 1 .. created
    OBVIOUS
  <2>2. QED
    BY <2>1
<1>2. Unmet(d)' = {p \in 0 .. created : IF p = 0 THEN SubmitOwes(d)' ELSE Owes(p, d)'}
  BY DEF Unmet
<1>3. t \in Unmet(d)
  BY DEF Unmet
<1>4. QED
  BY <1>1, <1>2, <1>3 DEF Unmet

LEMMA OwesStays ==
  ASSUME NEW p, NEW d, UNCHANGED <<prereq, successors, handle>>,
         runs'[p] = runs[p], \A i \in Nat : Passing(p, i)' <=> Passing(p, i)
  PROVE  Owes(p, d)' <=> Owes(p, d)
<1>1. ASSUME NEW j \in 1 .. Len(successors[handle[p]]), NEW i \in 1 .. j
      PROVE  Passing(p, i)' <=> Passing(p, i)
  OBVIOUS
<1>2. Behind(p, d)' <=> Behind(p, d)
  BY <1>1 DEF Behind
<1>3. QED
  BY <1>2 DEF Owes

\* who owes d what does not change with the edges, the runs and the loops over
\* successors
LEMMA UnmetStays ==
  ASSUME UNCHANGED <<created, handle, prereq, runs, successors>>,
         NEW d, SubmitOwes(d)' = SubmitOwes(d),
         \A p \in 1 .. created : \A i \in Nat : Passing(p, i)' <=> Passing(p, i),
         created \in Nat
  PROVE  Unmet(d)' = Unmet(d)
BY OwesStays, UnmetByOwes

LEMMA ReadyStays ==
  ASSUME UNCHANGED <<submitted, created, handle>>,
         \A t \in 1 .. created : Unmet(t)' = Unmet(t)
  PROVE  ReadyNodes' = ReadyNodes /\ \A t \in 1 .. created : Ready(t)' <=> Ready(t)
<1>1. \A t \in 1 .. created : Ready(t)' <=> Ready(t)
  BY DEF Ready
<1>2. {u \in 1 .. created' : Ready(u)'} = {u \in 1 .. created : Ready(u)}
  BY <1>1
<1>3. QED
  BY <1>1, <1>2 DEF ReadyNodes

LEMMA ListsStays ==
  ASSUME UNCHANGED <<created, handle, prereq, successors>>, NEW p
  PROVE  Lists(p)' <=> Lists(p)
BY DEF Lists

LEMMA ListsKept ==
  ASSUME NEW p, Lists(p), UNCHANGED <<created, handle>>,
         successors'[handle[p]] = successors[handle[p]],
         \A e : <<p, e>> \in prereq' <=> <<p, e>> \in prereq
  PROVE  Lists(p)'
<1>1. PICK s : s = successors[handle[p]] /\ s = successors'[handle'[p]]
  OBVIOUS
<1>2. /\ \A i, j \in 1 .. Len(s) : s[i] = s[j] => i = j
      /\ \A i \in 1 .. Len(s) : \E e \in 1 .. created : <<p, e>> \in prereq /\ s[i] = handle[e]
      /\ \A e \in 1 .. created : <<p, e>> \in prereq => \E i \in 1 .. Len(s) : s[i] = handle[e]
  BY <1>1 DEF Lists
<1>3. /\ \A i \in 1 .. Len(s) :
           \E e \in 1 .. created' : <<p, e>> \in prereq' /\ s[i] = handle'[e]
      /\ \A e \in 1 .. created' :
           <<p, e>> \in prereq' => \E i \in 1 .. Len(s) : s[i] = handle'[e]
  BY <1>2
<1>4. QED
  BY <1>1, <1>2, <1>3 DEF Lists

LEMMA QuietFresh ==
  ASSUME TypeInv, FreshNodes, ClientQuiet, StacksQuiet, UNCHANGED <<created, handle>>,
         \A n \in Node : invoke'[n] \in {invoke[n], NoTask}
  PROVE  FreshNodes'
<1>1. \A th \in Thread : \A k \in 1 .. Len(stk'[th]) : handle[stk'[th][k].task] = stk'[th][k].node
  <2> SUFFICES ASSUME NEW th \in Thread, NEW k \in 1 .. Len(stk'[th])
               PROVE  handle[stk'[th][k].task] = stk'[th][k].node
    OBVIOUS
  <2>1. CASE /\ k \in 1 .. Len(stk[th])
             /\ stk'[th][k].task = stk[th][k].task /\ stk'[th][k].node = stk[th][k].node
    BY <2>1 DEF FreshNodes
  <2>2. CASE \E n \in Node : /\ invoke[n] # NoTask
                             /\ stk'[th][k].node = n /\ stk'[th][k].task = invoke[n]
    BY <2>2 DEF FreshNodes
  <2>3. QED
    BY <2>1, <2>2 DEF StacksQuiet
<1>2. \A n \in Node : invoke'[n] # NoTask => handle[invoke'[n]] = n
  BY DEF FreshNodes
<1>3. loc'[Main] # "gone" => Len(tasks') = created /\ \A t \in 1 .. created : tasks'[t] = handle[t]
  BY DEF FreshNodes, ClientQuiet
<1>4. \A t, u \in 1 .. created : handle[t] = handle[u] => t = u
  BY DEF FreshNodes
<1>5. QED
  BY <1>1, <1>2, <1>3, <1>4 DEF FreshNodes

LEMMA QuietLists ==
  ASSUME TypeInv, EdgeLists, StacksQuiet, loc'[Main] = "create_fill" => loc[Main] = "create_fill",
         UNCHANGED <<created, handle, prereq, runs, successors>>
  PROVE  EdgeLists'
<1>1. \A th \in Thread : \A k \in 1 .. Len(stk'[th]) :
        stk'[th][k].at = "succ" => Lists(stk'[th][k].task)
  BY DEF EdgeLists, StacksQuiet
<1>2. \A p, d \in Task : <<p, d>> \in prereq => p < d /\ d <= created /\ Filled(d)'
  BY DEF EdgeLists, Filled
<1>3. \A th \in Thread : \A k \in 1 .. Len(stk'[th]) :
        stk'[th][k].at = "succ" => Lists(stk[th][k].task)'
  <2> SUFFICES ASSUME NEW th \in Thread, NEW k \in 1 .. Len(stk'[th]), stk'[th][k].at = "succ"
               PROVE  Lists(stk[th][k].task)'
    OBVIOUS
  <2>1. PICK p : p = stk'[th][k].task
    OBVIOUS
  <2>2. Lists(p)
    BY <1>1, <2>1
  <2>3. Lists(p)'
    BY <2>2, ListsStays
  <2>4. QED
    BY <2>1, <2>3, ZenonT(40)
<1>4. \A p \in 1 .. created : runs[p] = 0 => Lists(p)'
  BY ListsStays DEF EdgeLists
<1>5. QED
  BY <1>2, <1>3, <1>4 DEF EdgeLists

\* a step that leaves the graph alone keeps what is known about it
LEMMA QuietBatch ==
  ASSUME TypeInv, FreshNodes, Callables, EdgeLists, SharesCounted, RanReady,
         ClientQuiet, StacksQuiet,
         UNCHANGED <<pending, successors, submitted, created, handle, prereq, runs>>,
         \A n \in Node : invoke'[n] \in {invoke[n], NoTask}
  PROVE  /\ FreshNodes' /\ Callables' /\ EdgeLists' /\ SharesCounted' /\ RanReady'
         /\ ReadyNodes' = ReadyNodes
<1>1. \A t \in 1 .. created : Unmet(t)' = Unmet(t)
  <2>1. \A d \in 1 .. created : SubmitOwes(d)' = SubmitOwes(d)
    BY DEF ClientQuiet
  <2>2. QED
    BY <2>1, CreatedTypes, PassingStays, UnmetStays
<1>2. ReadyNodes' = ReadyNodes /\ \A t \in 1 .. created : Ready(t)' <=> Ready(t)
  BY <1>1, ReadyStays
<1>3. \A t \in 1 .. created : Filled(t)' <=> Filled(t)
  BY DEF Filled, ClientQuiet
<1>4. SharesCounted'
  BY <1>1, <1>3 DEF SharesCounted
<1>5. RanReady'
  BY <1>2 DEF RanReady
<1>6. Callables'
  BY <1>3 DEF Callables, ClientQuiet
<1>7. FreshNodes' /\ EdgeLists'
  BY QuietFresh, QuietLists DEF ClientQuiet
<1>8. QED
  BY <1>2, <1>4, <1>5, <1>6, <1>7

-----------------------------------------------------------------------------
(* Pointers: nothing but submit and the last prerequisite dispatches a node; the *)
(* other steps pass on what they got                                             *)

LEMMA CallHeld ==
  ASSUME TypeInv, NEW ns, Held(ns), NEW th \in Thread, NEW pc, NEW d, NEW n \in ns \cup {NoNode},
         UNCHANGED buffer, Call(th, pc, d, n)
  PROVE  Held(ns)'
<1>1. dq \in [Thread -> Frame]
  BY DEF TypeInv, DequeInv, DequeTypeOK
<1>2. dq'[th].node = n /\ \A q \in Thread \ {th} : dq'[q] = dq[q]
  BY <1>1 DEF Call, SetFrame
<1>3. QED
  BY <1>2 DEF Held

LEMMA EnterStack ==
  ASSUME TypeInv, NEW ns, StackNodes(ns), NEW th \in Thread, NEW n \in Node, n \in ns, Enter(th, n)
  PROVE  StackNodes(ns)'
<1>1. CASE invoke[n] = NoTask
  BY <1>1 DEF Enter, StackNodes
<1>2. CASE invoke[n] # NoTask
  <2>1. /\ \A q \in Thread : \A j \in 1 .. Len(stk[q]) : stk'[q][j] = stk[q][j]
        /\ stk'[th][Len(stk[th]) + 1] = [node |-> n, task |-> invoke[n], i |-> 1, at |-> "body"]
        /\ \A q \in Thread : \A j \in 1 .. Len(stk'[q]) :
             j \in 1 .. Len(stk[q]) \/ (q = th /\ j = Len(stk[th]) + 1)
    <3>1. Stacked /\ invoke \in [Node -> MaybeTask]
      BY GraphTypes
    <3>2. QED
      BY <1>2, <3>1, EnterFrames
  <2>2. stk'[th][Len(stk[th]) + 1].node = n
    BY <2>1
  <2>3. QED
    BY <2>1, <2>2 DEF StackNodes
<1>3. QED
  BY <1>1, <1>2

LEMMA FrmToStack ==
  ASSUME TypeInv, NEW ns, StackNodes(ns), NEW th \in Thread, stk[th] # <<>>,
         NEW i \in Nat \ {0}, NEW at \in {"body", "succ", "free", "retire"}, FrmTo(th, i, at)
  PROVE  StackNodes(ns)'
<1>1. Stacked
  BY GraphTypes
<1>2. \A q \in Thread : Len(stk'[q]) = Len(stk[q])
  BY <1>1, FrmToFrames
<1>3. \A q \in Thread : \A j \in 1 .. Len(stk[q]) : stk'[q][j].node = stk[q][j].node
  BY <1>1, FrmToFrames
<1>4. QED
  BY <1>2, <1>3 DEF StackNodes

\* a call of dispatch moves on with its node or returns
LEMMA DispatchNodesMove ==
  ASSUME TypeInv, NEW ns, DispatchNodes(ns), NEW th \in Thread, NEW at, NEW n \in {NoNode, dsp[th].node},
         dsp' = [dsp EXCEPT ![th] = [at |-> at, node |-> n]]
  PROVE  DispatchNodes(ns)'
<1>1. dsp'[th] = [at |-> at, node |-> n] /\ \A q \in Thread \ {th} : dsp'[q] = dsp[q]
  BY GraphTypes
<1>2. dsp'[th].node = n
  BY <1>1
<1>3. QED
  BY <1>1, <1>2 DEF DispatchNodes

LEMMA DispatchPointers ==
  ASSUME TypeInv, NEW ns, Held(ns), DispatchNodes(ns), NEW th \in Thread, NEW n \in Node,
         dq[th].pc = "idle",
         (Dispatch(th, n) /\ n \in ns) \/ UNCHANGED <<dequeVars, laneRr, dsp>>
  PROVE  Held(ns)' /\ DispatchNodes(ns)'
<1>1. CASE Dispatch(th, n) /\ n \in ns
  <2>1. Call(th, "push_bottom", PickWorker(lane[n]), n) /\ UNCHANGED buffer
    BY <1>1 DEF Dispatch, CallPush
  <2>2. Held(ns)'
    BY <1>1, <2>1, CallHeld
  <2>3. \A q \in Thread : dsp'[q] = dsp[q] \/ dsp'[q] = [at |-> "push", node |-> n]
    BY <1>1, GraphTypes DEF Dispatch
  <2>4. \A q \in Thread : dsp'[q].node = dsp[q].node \/ dsp'[q].node = n
    BY <2>3
  <2>5. QED
    BY <1>1, <2>2, <2>4 DEF DispatchNodes
<1>2. CASE UNCHANGED <<dequeVars, laneRr, dsp>>
  BY <1>2 DEF Held, DispatchNodes, dequeVars
<1>3. QED
  BY <1>1, <1>2

LEMMA DispatchedPointers ==
  ASSUME TypeInv, NEW ns, Pointers(ns), NEW th \in Thread,
         DispatchPushed(th) \/ DispatchReserve(th) \/ DispatchPublish(th)
  PROVE  Pointers(ns)'
<1>1. CASE DispatchPushed(th)
  <2>1. /\ Collect(th) /\ UNCHANGED <<buffer, inboxVars, stk>>
        /\ \/ dsp' = [dsp EXCEPT ![th] = NotDispatching]
           \/ dsp' = [dsp EXCEPT ![th] = [at |-> "inbox", node |-> dsp[th].node]]
    BY <1>1 DEF DispatchPushed
  <2>2. Held(ns)'
    BY <2>1, CallHeld DEF Collect, Pointers
  <2>3. DispatchNodes(ns)'
    BY <2>1, DispatchNodesMove DEF Pointers, NotDispatching
  <2>4. QED
    BY <2>1, <2>2, <2>3 DEF Pointers, InboxNodes, StackNodes, inboxVars
<1>2. CASE DispatchReserve(th)
  <2>1. /\ dsp[th].at = "inbox" /\ UNCHANGED <<dequeVars, stk, taking>>
        /\ cells' = Append(cells, [node |-> dsp[th].node, writer |-> {th}])
        /\ dsp' = [dsp EXCEPT ![th] = [at |-> "publish", node |-> dsp[th].node]]
    BY <1>2 DEF DispatchReserve, Reserve
  <2>2. dsp[th].node \in Node
    BY <2>1 DEF TypeInv, ControlOK, Control
  <2>3. dsp[th].node \in ns
    BY <2>2, NodeAssumption DEF Pointers, DispatchNodes
  <2>4. cells \in Seq(Cell) /\ [node |-> dsp[th].node, writer |-> {th}] \in Cell
    BY <2>2 DEF Cell, TypeInv, TypeOK, InboxTypeOK
  <2>5. PICK c : c = [node |-> dsp[th].node, writer |-> {th}]
    OBVIOUS
  <2>6. \A i \in 1 .. Len(cells') : cells'[i] = c \/ (i \in 1 .. Len(cells) /\ cells'[i] = cells[i])
    BY <2>1, <2>4, <2>5
  <2>7. c.node = dsp[th].node
    BY <2>5
  <2>8. InboxNodes(ns)'
    BY <2>1, <2>3, <2>6, <2>7 DEF Pointers, InboxNodes
  <2>9. DispatchNodes(ns)'
    BY <2>1, DispatchNodesMove DEF Pointers
  <2>10. QED
    BY <2>1, <2>8, <2>9 DEF Pointers, Held, StackNodes, dequeVars
<1>3. CASE DispatchPublish(th)
  <2>1. /\ UNCHANGED <<dequeVars, stk, taking>>
        /\ \E i \in MyCell(th) : cells' = [cells EXCEPT ![i].writer = {}]
        /\ dsp' = [dsp EXCEPT ![th] = NotDispatching]
    BY <1>3 DEF DispatchPublish, Publish
  <2>2. PICK i \in MyCell(th) : cells' = [cells EXCEPT ![i].writer = {}]
    BY <2>1
  <2>3. cells \in Seq(Cell) /\ i \in 1 .. Len(cells)
    BY DEF TypeInv, TypeOK, InboxTypeOK, MyCell
  <2>4. cells' = [cells EXCEPT ![i] = [cells[i] EXCEPT !.writer = {}]]
    BY <2>2
  <2>5. PICK c : c = [cells[i] EXCEPT !.writer = {}]
    OBVIOUS
  <2>6. c.node = cells[i].node
    <3>1. cells[i] \in Cell
      BY <2>3
    <3>2. QED
      BY <2>5, <3>1 DEF Cell
  <2>7. \A j \in 1 .. Len(cells') : j \in 1 .. Len(cells) /\ ((cells'[j] = c /\ j = i) \/ cells'[j] = cells[j])
    BY <2>3, <2>4, <2>5
  <2>8. InboxNodes(ns)'
    BY <2>1, <2>6, <2>7 DEF Pointers, InboxNodes
  <2>9. DispatchNodes(ns)'
    BY <2>1, DispatchNodesMove DEF Pointers, NotDispatching
  <2>10. QED
    BY <2>1, <2>8, <2>9 DEF Pointers, Held, StackNodes, dequeVars
<1>4. QED
  BY <1>1, <1>2, <1>3

-----------------------------------------------------------------------------
(* Steps that leave the graph alone *)

LEMMA PassedOn ==
  ASSUME TypeInv, OneBatch, ClientPlace', ClientQuiet, StacksQuiet,
         UNCHANGED <<pending, successors, submitted, created, handle, prereq, runs>>,
         \A n \in Node : invoke'[n] \in {invoke[n], NoTask},
         \A ns : Pointers(ns) => Pointers(ns)'
  PROVE  OneBatch'
<1>1. /\ FreshNodes' /\ Callables' /\ EdgeLists' /\ SharesCounted' /\ RanReady'
      /\ ReadyNodes' = ReadyNodes
  BY QuietBatch DEF OneBatch
<1>2. PICK ns : ns = ReadyNodes
  OBVIOUS
<1>3. Pointers(ns)'
  BY <1>2 DEF OneBatch
<1>4. Pointers(ReadyNodes)'
  BY <1>1, <1>2, <1>3 DEF Pointers, Held, InboxNodes, DispatchNodes, StackNodes
<1>5. QED
  BY <1>1, <1>4 DEF OneBatch

LEMMA StackStays ==
  ASSUME UNCHANGED stk
  PROVE  StacksQuiet
BY DEF StacksQuiet

LEMMA EnterQuiet ==
  ASSUME TypeInv, NEW th \in Thread, NEW n \in Node, Enter(th, n)
  PROVE  StacksQuiet /\ \A m \in Node : invoke'[m] \in {invoke[m], NoTask}
<1>1. CASE invoke[n] = NoTask
  BY <1>1, StackStays DEF Enter
<1>2. CASE invoke[n] # NoTask
  <2>1. /\ invoke'[n] = NoTask
        /\ \A m \in Node : m # n => invoke'[m] = invoke[m]
        /\ \A q \in Thread : \A j \in 1 .. Len(stk[q]) :
             j \in 1 .. Len(stk'[q]) /\ stk'[q][j] = stk[q][j]
        /\ stk'[th][Len(stk[th]) + 1] = [node |-> n, task |-> invoke[n], i |-> 1, at |-> "body"]
        /\ \A q \in Thread : \A j \in 1 .. Len(stk'[q]) :
             j \in 1 .. Len(stk[q]) \/ (q = th /\ j = Len(stk[th]) + 1)
    <3>1. Stacked /\ invoke \in [Node -> MaybeTask]
      BY GraphTypes
    <3>2. QED
      BY <1>2, <3>1, EnterFrames
  <2>2. LET a == stk'[th][Len(stk[th]) + 1]
        IN  a.at # "succ" /\ a.node = n /\ a.task = invoke[n]
    BY <2>1
  <2>3. QED
    BY <1>2, <2>1, <2>2 DEF StacksQuiet
<1>3. QED
  BY <1>1, <1>2

\* a thread that takes work goes on, back home or out
LEMMA WentOn ==
  ASSUME TypeInv, ClientPlace, NEW th \in Thread,
         loc[th] \in {"popping", "help", "releasing", "stealing", "loop"},
         NEW l \in {"releasing", "stealing", "popping", "exited", Home(th)},
         th = Main => l \notin {"popping", "exited"}, Goto(th, l),
         \A q \in Thread \ {th} : idx'[q] = idx[q],
         UNCHANGED <<callable, tasks, submitted, resetting, batch, freeNodes>>
  PROVE  ClientPlace' /\ ClientQuiet
<1>1. l \in {"releasing", "stealing", "popping", "exited", "loop", "wait"}
      /\ (th = Main => l \in {"releasing", "stealing", "wait"})
  BY DEF Home
<1>2. l \in Loc
  BY <1>1 DEF Loc
<1>3. loc'[th] = l /\ \A q \in Thread \ {th} : loc'[q] = loc[q]
  BY <1>2, Went
<1>4. Main \in Thread /\ Worker \subseteq Thread /\ Main \notin Worker
  BY GraphTypes, TaskGraphAssumption DEF Worker
<1>5. CASE th = Main
  BY <1>1, <1>3, <1>4, <1>5 DEF ClientPlace, ClientQuiet, SubmitOwes
<1>6. CASE th # Main
  <2>1. loc'[Main] = loc[Main] /\ idx'[Main] = idx[Main]
    BY <1>3, <1>4, <1>6
  <2>2. ClientQuiet
    BY <2>1 DEF ClientQuiet, SubmitOwes
  <2>3. ASSUME loc[Main] = "gone", NEW w \in Worker
        PROVE  loc'[w] = "exited"
    BY <1>3, <1>4, <2>3 DEF ClientPlace
  <2>4. QED
    BY <2>1, <2>2, <2>3 DEF ClientPlace
<1>7. QED
  BY <1>5, <1>6

LEMMA StillThere ==
  ASSUME ClientPlace,
         UNCHANGED <<loc, idx, callable, tasks, submitted, resetting, batch, freeNodes>>
  PROVE  ClientPlace' /\ ClientQuiet
BY DEF ClientPlace, ClientQuiet, SubmitOwes

LEMMA DispatchBatch ==
  ASSUME TypeInv, OneBatch, NEW th \in Thread,
         DispatchPushed(th) \/ DispatchReserve(th) \/ DispatchPublish(th)
  PROVE  OneBatch'
<1>1. UNCHANGED <<nodeVars, poolVars, flagVars, loc, idx, stk, histVars>>
  BY DEF DispatchPushed, DispatchReserve, DispatchPublish
<1>2. ClientPlace' /\ ClientQuiet
  BY <1>1, StillThere DEF OneBatch, nodeVars, poolVars, flagVars, histVars
<1>3. /\ StacksQuiet /\ UNCHANGED <<pending, successors, submitted, created, handle, prereq, runs>>
      /\ \A n \in Node : invoke'[n] \in {invoke[n], NoTask}
  BY <1>1, StackStays DEF nodeVars, flagVars, histVars
<1>4. \A ns : Pointers(ns) => Pointers(ns)'
  BY DispatchedPointers
<1>5. QED
  BY <1>2, <1>3, <1>4, PassedOn

LEMMA InlineBatch ==
  ASSUME TypeInv, OneBatch, NEW th \in Thread, DispatchInline(th)
  PROVE  OneBatch'
<1>1. /\ dsp[th].at = "inbox" /\ Enter(th, dsp[th].node)
      /\ dsp' = [dsp EXCEPT ![th] = NotDispatching] /\ UNCHANGED inboxVars
      /\ UNCHANGED <<dequeVars, callable, pending, successors, lane, poolVars, flagVars, loc, idx,
                     histVars>>
  BY DEF DispatchInline, Full
<1>2. ClientPlace' /\ ClientQuiet
  BY <1>1, StillThere DEF OneBatch, poolVars, flagVars, histVars
<1>3. dsp[th].node \in Node
  BY <1>1 DEF TypeInv, ControlOK, Control
<1>4. StacksQuiet /\ \A n \in Node : invoke'[n] \in {invoke[n], NoTask}
  BY <1>1, <1>3, EnterQuiet
<1>5. ASSUME NEW ns, Pointers(ns)
      PROVE  Pointers(ns)'
  <2>1. dsp[th].node \in ns
    BY <1>3, <1>5, NodeAssumption DEF Pointers, DispatchNodes
  <2>2. StackNodes(ns)'
    BY <1>1, <1>3, <1>5, <2>1, EnterStack DEF Pointers
  <2>3. DispatchNodes(ns)'
    BY <1>1, <1>5, DispatchNodesMove DEF Pointers, NotDispatching
  <2>4. QED
    BY <1>1, <1>5, <2>2, <2>3 DEF Pointers, Held, InboxNodes, dequeVars, inboxVars
<1>6. UNCHANGED <<pending, successors, submitted, created, handle, prereq, runs>>
  BY <1>1 DEF flagVars, histVars
<1>7. QED
  BY <1>2, <1>4, <1>5, <1>6, PassedOn

LEMMA DequesBatch ==
  ASSUME TypeInv, OneBatch, NEW th \in Thread, Deques(th)
  PROVE  OneBatch'
<1>1. /\ DequeStep(th)
      /\ UNCHANGED <<inboxVars, nodeVars, poolVars, flagVars, threadVars, histVars>>
  BY DEF Deques
<1>2. ClientPlace' /\ ClientQuiet
  BY <1>1, StillThere DEF OneBatch, nodeVars, poolVars, flagVars, threadVars, histVars
<1>3. /\ StacksQuiet /\ UNCHANGED <<pending, successors, submitted, created, handle, prereq, runs>>
      /\ \A n \in Node : invoke'[n] \in {invoke[n], NoTask}
  BY <1>1, StackStays DEF nodeVars, flagVars, threadVars, histVars
<1>4. ASSUME NEW ns, Pointers(ns)
      PROVE  Pointers(ns)'
  <2>1. DequeTypeOK /\ Held(ns)
    BY <1>4, GraphTypes DEF Pointers
  <2>2. Held(ns)'
    BY <1>1, <2>1, DequeStepHeld DEF Held
  <2>3. QED
    BY <1>1, <1>4, <2>2 DEF Pointers, InboxNodes, DispatchNodes, StackNodes, inboxVars, threadVars
<1>5. QED
  BY <1>2, <1>3, <1>4, PassedOn

LEMMA TakeBatch ==
  ASSUME TypeInv, OneBatch, NEW th \in Thread, TakeInbox(th)
  PROVE  OneBatch'
<1>1. /\ InboxTurn(th) /\ Take(th) /\ Collect(th) /\ Goto(th, "releasing")
      /\ UNCHANGED <<buffer, nodeVars, poolVars, flagVars, idx, stk, dsp, histVars>>
  BY DEF TakeInbox
<1>2. loc[th] \in {"popping", "help"}
  BY <1>1 DEF InboxTurn, AtHome
<1>3. ClientPlace' /\ ClientQuiet
  BY <1>1, <1>2, WentOn DEF OneBatch, nodeVars, poolVars, flagVars, histVars
<1>4. /\ StacksQuiet /\ UNCHANGED <<pending, successors, submitted, created, handle, prereq, runs>>
      /\ \A n \in Node : invoke'[n] \in {invoke[n], NoTask}
  BY <1>1, StackStays DEF nodeVars, flagVars, histVars
<1>5. ASSUME NEW ns, Pointers(ns)
      PROVE  Pointers(ns)'
  <2>1. Held(ns)'
    BY <1>1, <1>5, CallHeld DEF Collect, Pointers
  <2>2. /\ cells # <<>> /\ taking' = [taking EXCEPT ![th] = Head(cells).node]
        /\ cells' = Tail(cells)
    BY <1>1 DEF Take, HeadReady
  <2>3. cells \in Seq(Cell) /\ taking \in [Thread -> MaybeNode]
    BY DEF TypeInv, TypeOK, InboxTypeOK
  <2>4. /\ Head(cells) = cells[1] /\ 1 \in 1 .. Len(cells)
        /\ \A i \in 1 .. Len(cells') : i + 1 \in 1 .. Len(cells) /\ cells'[i] = cells[i + 1]
    BY <2>2, <2>3
  <2>5. InboxNodes(ns)'
    BY <1>5, <2>2, <2>3, <2>4 DEF Pointers, InboxNodes
  <2>6. QED
    BY <1>1, <1>5, <2>1, <2>5 DEF Pointers, DispatchNodes, StackNodes
<1>6. QED
  BY <1>3, <1>4, <1>5, PassedOn

\* from one steal to the next, or back home with nothing
LEMMA StealBatch ==
  ASSUME TypeInv, OneBatch, NEW th \in Thread, InboxEmpty(th) \/ StealFailed(th)
  PROVE  OneBatch'
<1>1. /\ loc[th] \in {"popping", "help", "stealing"}
      /\ \E k : StealFrom(th, k)
      /\ UNCHANGED <<buffer, inboxVars, nodeVars, poolVars, flagVars, stk, dsp, histVars>>
  BY DEF InboxEmpty, StealFailed, InboxTurn, AtHome, Empty
<1>2. PICK k : StealFrom(th, k)
  BY <1>1
<1>3. PICK l \in {"stealing", Home(th)} : Goto(th, l) /\ \E i : idx' = [idx EXCEPT ![th] = i]
  BY <1>2 DEF StealFrom
<1>4. \A q \in Thread \ {th} : idx'[q] = idx[q]
  BY <1>3, GraphTypes
<1>5. l \notin {"popping", "exited"}
  BY DEF Home
<1>6. ClientPlace' /\ ClientQuiet
  BY <1>1, <1>3, <1>4, <1>5, WentOn DEF OneBatch, nodeVars, poolVars, flagVars, histVars
<1>7. /\ StacksQuiet /\ UNCHANGED <<pending, successors, submitted, created, handle, prereq, runs>>
      /\ \A n \in Node : invoke'[n] \in {invoke[n], NoTask}
  BY <1>1, StackStays DEF nodeVars, flagVars, histVars
<1>8. ASSUME NEW ns, Pointers(ns)
      PROVE  Pointers(ns)'
  <2>1. \E pc, d : Call(th, pc, d, NoNode)
    BY <1>2 DEF StealFrom, CallSteal, Collect
  <2>2. Held(ns)'
    BY <1>1, <1>8, <2>1, CallHeld DEF Pointers
  <2>3. QED
    BY <1>1, <1>8, <2>2 DEF Pointers, InboxNodes, DispatchNodes, StackNodes, inboxVars
<1>9. QED
  BY <1>6, <1>7, <1>8, PassedOn

LEMMA ReleaseBatch ==
  ASSUME TypeInv, OneBatch, NEW th \in Thread, ReleaseAndEnter(th)
  PROVE  OneBatch'
<1>1. /\ AtHome(th, "releasing") /\ Release(th) /\ Enter(th, taking[th]) /\ Goto(th, Home(th))
      /\ UNCHANGED <<dequeVars, callable, pending, successors, lane, poolVars, flagVars, idx, dsp,
                     histVars>>
  BY DEF ReleaseAndEnter
<1>2. /\ taking[th] # NoNode /\ taking' = [taking EXCEPT ![th] = NoNode] /\ UNCHANGED cells
      /\ taking \in [Thread -> MaybeNode]
  BY <1>1 DEF Release, TypeInv, TypeOK, InboxTypeOK
<1>3. taking[th] \in Node
  BY <1>2 DEF MaybeNode
<1>4. ClientPlace' /\ ClientQuiet
  <2>1. loc[th] = "releasing" /\ Home(th) \notin {"popping", "exited"}
    BY <1>1 DEF AtHome, Home
  <2>2. QED
    BY <1>1, <2>1, WentOn DEF OneBatch, poolVars, flagVars, histVars
<1>5. StacksQuiet /\ \A n \in Node : invoke'[n] \in {invoke[n], NoTask}
  BY <1>1, <1>3, EnterQuiet
<1>6. ASSUME NEW ns, Pointers(ns)
      PROVE  Pointers(ns)'
  <2>1. taking[th] \in ns
    BY <1>2, <1>6 DEF Pointers, InboxNodes
  <2>2. StackNodes(ns)'
    BY <1>1, <1>3, <1>6, <2>1, EnterStack DEF Pointers
  <2>3. InboxNodes(ns)'
    BY <1>2, <1>6 DEF Pointers, InboxNodes
  <2>4. QED
    BY <1>1, <1>6, <2>2, <2>3 DEF Pointers, Held, DispatchNodes, dequeVars
<1>7. UNCHANGED <<pending, successors, submitted, created, handle, prereq, runs>>
  BY <1>1 DEF flagVars, histVars
<1>8. QED
  BY <1>4, <1>5, <1>6, <1>7, PassedOn

LEMMA TakenBatch ==
  ASSUME TypeInv, OneBatch, NEW th \in Thread, EnterTaken(th)
  PROVE  OneBatch'
<1>1. /\ AtHome(th, "popping") \/ AtHome(th, "stealing")
      /\ dq[th].node # NoNode /\ Collect(th) /\ Enter(th, dq[th].node) /\ Goto(th, Home(th))
      /\ idx' = [idx EXCEPT ![th] = 0]
      /\ UNCHANGED <<buffer, inboxVars, callable, pending, successors, lane, poolVars, flagVars, dsp,
                     histVars>>
  BY DEF EnterTaken
<1>2. dq[th].node \in Node
  BY <1>1, GraphTypes, FrameTypes DEF MaybeNode
<1>3. ClientPlace' /\ ClientQuiet
  <2>1. loc[th] \in {"popping", "stealing"} /\ Home(th) \notin {"popping", "exited"}
    BY <1>1 DEF AtHome, Home
  <2>2. \A q \in Thread \ {th} : idx'[q] = idx[q]
    BY <1>1, GraphTypes
  <2>3. QED
    BY <1>1, <2>1, <2>2, WentOn DEF OneBatch, poolVars, flagVars, histVars
<1>4. StacksQuiet /\ \A n \in Node : invoke'[n] \in {invoke[n], NoTask}
  BY <1>1, <1>2, EnterQuiet
<1>5. ASSUME NEW ns, Pointers(ns)
      PROVE  Pointers(ns)'
  <2>1. dq[th].node \in ns
    BY <1>1, <1>5 DEF Pointers, Held
  <2>2. StackNodes(ns)'
    BY <1>1, <1>2, <1>5, <2>1, EnterStack DEF Pointers
  <2>3. Held(ns)'
    BY <1>1, <1>5, CallHeld DEF Collect, Pointers
  <2>4. QED
    BY <1>1, <1>5, <2>2, <2>3 DEF Pointers, InboxNodes, DispatchNodes, inboxVars
<1>6. UNCHANGED <<pending, successors, submitted, created, handle, prereq, runs>>
  BY <1>1 DEF flagVars, histVars
<1>7. QED
  BY <1>3, <1>4, <1>5, <1>6, PassedOn

LEMMA WorkerBatch ==
  ASSUME TypeInv, OneBatch, NEW w \in Worker, WorkerStep(w)
  PROVE  OneBatch'
<1>1. /\ AtHome(w, "loop") /\ w \in Thread /\ w # Main
      /\ Goto(w, "popping") \/ Goto(w, "exited")
      /\ CallPop(w, w) \/ UNCHANGED dq
      /\ UNCHANGED <<buffer, inboxVars, nodeVars, poolVars, flagVars, idx, stk, dsp, histVars>>
  BY GraphTypes, TaskGraphAssumption DEF WorkerStep, WorkerPop, WorkerExit, Worker, dequeVars
<1>2. ClientPlace' /\ ClientQuiet
  <2>1. loc[w] = "loop"
    BY <1>1 DEF AtHome
  <2>2. QED
    BY <1>1, <2>1, WentOn DEF OneBatch, nodeVars, poolVars, flagVars, histVars
<1>3. /\ StacksQuiet /\ UNCHANGED <<pending, successors, submitted, created, handle, prereq, runs>>
      /\ \A n \in Node : invoke'[n] \in {invoke[n], NoTask}
  BY <1>1, StackStays DEF nodeVars, flagVars, histVars
<1>4. ASSUME NEW ns, Pointers(ns)
      PROVE  Pointers(ns)'
  <2>1. Held(ns)'
    <3>1. CASE CallPop(w, w)
      BY <1>1, <1>4, <3>1, CallHeld DEF CallPop, Pointers
    <3>2. CASE UNCHANGED dq
      BY <1>1, <1>4, <3>2 DEF Pointers, Held
    <3>3. QED
      BY <1>1, <3>1, <3>2
  <2>2. QED
    BY <1>1, <1>4, <2>1 DEF Pointers, InboxNodes, DispatchNodes, StackNodes, inboxVars
<1>5. QED
  BY <1>2, <1>3, <1>4, PassedOn

-----------------------------------------------------------------------------
(* execute *)

LEMMA PointersGrow ==
  ASSUME NEW ns, NEW ms, ns \subseteq ms, Pointers(ns)
  PROVE  Pointers(ms)
BY DEF Pointers, Held, InboxNodes, DispatchNodes, StackNodes

\* a task in an activation was submitted and is owed nothing
LEMMA ActiveReady ==
  ASSUME TypeInv, OnePlace, OneBatch, NEW th \in Thread, NEW k \in 1 .. Len(stk[th])
  PROVE  /\ stk[th][k].task \in 1 .. created /\ handle[stk[th][k].task] = stk[th][k].node
         /\ Ready(stk[th][k].task) /\ submitted
<1>1. stk[th][k].task \in Task /\ stk[th][k].task <= created /\ created \in Nat
  BY GraphTypes, FrameAt, FramePlace, CreatedTypes
<1>2. stk[th][k].task \in 1 .. created /\ handle[stk[th][k].task] = stk[th][k].node
  BY <1>1 DEF OneBatch, FreshNodes, Task
<1>3. stk[th][k].node \in ReadyNodes
  BY DEF OneBatch, Pointers, StackNodes
<1>4. PICK u \in 1 .. created : Ready(u) /\ handle[u] = stk[th][k].node
  BY <1>3 DEF ReadyNodes
<1>5. u = stk[th][k].task
  BY <1>2, <1>4 DEF OneBatch, FreshNodes
<1>6. QED
  BY <1>2, <1>4, <1>5 DEF Ready

LEMMA TopReady ==
  ASSUME TypeInv, OnePlace, OneBatch, NEW th \in Thread, Executing(th)
  PROVE  /\ stk[th] # <<>> /\ Frm(th).node \in Node /\ Frm(th).at \in {"body", "succ", "free", "retire"}
         /\ Frm(th).task \in 1 .. created /\ handle[Frm(th).task] = Frm(th).node
         /\ Ready(Frm(th).task) /\ submitted /\ Frm(th).i \in Nat \ {0}
         /\ loc[Main] \notin {"create_fill", "create_count"}
         /\ Frm(th).at = "body" => runs[Frm(th).task] = 0
         /\ Frm(th).at # "body" => runs[Frm(th).task] = 1
<1>1. stk[th] # <<>> /\ Stacked
  BY ExecutingFacts, GraphTypes
<1>2. /\ Len(stk[th]) \in 1 .. Len(stk[th]) /\ Frm(th) = stk[th][Len(stk[th])]
      /\ Frm(th).node \in Node /\ Frm(th).i \in Nat \ {0}
      /\ Frm(th).at \in {"body", "succ", "free", "retire"}
  BY <1>1, TopFrame
<1>3. PICK k \in 1 .. Len(stk[th]) : Frm(th) = stk[th][k]
  BY <1>2
<1>4. /\ stk[th][k].task \in 1 .. created /\ handle[stk[th][k].task] = stk[th][k].node
      /\ Ready(stk[th][k].task) /\ submitted
  BY ActiveReady
<1>5. /\ stk[th][k].at = "body" => runs[stk[th][k].task] = 0
      /\ stk[th][k].at # "body" => runs[stk[th][k].task] = 1
  BY <1>1, FramePlace
<1>6. QED
  BY <1>1, <1>2, <1>3, <1>4, <1>5 DEF OneBatch, ClientPlace

LEMMA TopMoves ==
  ASSUME TypeInv, NEW th \in Thread, stk[th] # <<>>, NEW i \in Nat \ {0},
         NEW at \in {"body", "succ", "free", "retire"}, FrmTo(th, i, at)
  PROVE  /\ Len(stk[th]) \in 1 .. Len(stk[th]) /\ Frm(th) = stk[th][Len(stk[th])]
         /\ \A q \in Thread : Len(stk'[q]) = Len(stk[q])
         /\ \A q \in Thread \ {th} : stk'[q] = stk[q]
         /\ \A k \in 1 .. Len(stk[th]) : k # Len(stk[th]) => stk'[th][k] = stk[th][k]
         /\ stk'[th][Len(stk[th])] =
              [node |-> Frm(th).node, task |-> Frm(th).task, i |-> i, at |-> at]
<1>1. Stacked
  BY GraphTypes
<1>2. Len(stk[th]) \in 1 .. Len(stk[th]) /\ Frm(th) = stk[th][Len(stk[th])]
  BY <1>1, TopFrame
<1>3. /\ \A q \in Thread : Len(stk'[q]) = Len(stk[q])
      /\ \A q \in Thread \ {th} : stk'[q] = stk[q]
      /\ \A k \in 1 .. Len(stk[th]) : k # Len(stk[th]) => stk'[th][k] = stk[th][k]
      /\ stk'[th][Len(stk[th])] =
           [node |-> Frm(th).node, task |-> Frm(th).task, i |-> i, at |-> at]
  BY <1>1, FrameMoves
<1>4. QED
  BY <1>2, <1>3

\* the innermost activation moves on: the loops of the other tasks stay
LEMMA FrmToPassing ==
  ASSUME TypeInv, OnePlace, NEW th \in Thread, stk[th] # <<>>, NEW i \in Nat \ {0},
         NEW at \in {"body", "succ", "free", "retire"}, FrmTo(th, i, at), NEW j
  PROVE  /\ \A p : p # Frm(th).task => (Passing(p, j)' <=> Passing(p, j))
         /\ \A t : t = Frm(th).task => (Passing(t, j)' <=> (at = "succ" /\ j = i))
         /\ Passing(Frm(th).task, j) <=> (Frm(th).at = "succ" /\ j = Frm(th).i)
<1> DEFINE m == Len(stk[th])
<1>1. /\ m \in 1 .. m /\ Frm(th) = stk[th][m]
      /\ \A q \in Thread : Len(stk'[q]) = Len(stk[q])
      /\ \A q \in Thread \ {th} : stk'[q] = stk[q]
      /\ \A k \in 1 .. m : k # m => stk'[th][k] = stk[th][k]
      /\ stk'[th][m] = [node |-> Frm(th).node, task |-> Frm(th).task, i |-> i, at |-> at]
  BY TopMoves
<1>2. stk'[th][m].task = Frm(th).task /\ stk'[th][m].i = i /\ stk'[th][m].at = at
  BY <1>1
<1>3. \A q \in Thread : \A k \in 1 .. Len(stk[q]) :
        stk[q][k].task = Frm(th).task => q = th /\ k = m
  BY <1>1, FramesDiffer
<1>4. PICK h : h = m
  OBVIOUS
<1> HIDE DEF m
<1>5. \A q \in Thread : \A k \in 1 .. Len(stk'[q]) :
        /\ k \in 1 .. Len(stk[q])
        /\ (q = th /\ k = h) \/ stk'[q][k] = stk[q][k]
  BY <1>1, <1>4 DEF m
<1>6. ASSUME NEW p, p # Frm(th).task
      PROVE  Passing(p, j)' <=> Passing(p, j)
  <2>1. ASSUME NEW q \in Thread, NEW k \in 1 .. Len(stk[q]),
               stk[q][k].task = p /\ stk[q][k].at = "succ" /\ stk[q][k].i = j
        PROVE  Passing(p, j)'
    <3>1. k \in 1 .. Len(stk'[q]) /\ stk'[q][k] = stk[q][k]
      BY <1>1, <1>4, <1>5, <1>6, <2>1
    <3>2. QED
      BY <2>1, <3>1 DEF Passing
  <2>2. ASSUME NEW q \in Thread, NEW k \in 1 .. Len(stk'[q]),
               stk'[q][k].task = p /\ stk'[q][k].at = "succ" /\ stk'[q][k].i = j
        PROVE  Passing(p, j)
    <3>1. k \in 1 .. Len(stk[q]) /\ stk'[q][k] = stk[q][k]
      BY <1>2, <1>4, <1>5, <1>6, <2>2
    <3>2. QED
      BY <2>2, <3>1 DEF Passing
  <2>3. QED
    BY <2>1, <2>2 DEF Passing
<1>7. ASSUME NEW t, t = Frm(th).task
      PROVE  Passing(t, j)' <=> (at = "succ" /\ j = i)
  <2>1. ASSUME NEW q \in Thread, NEW k \in 1 .. Len(stk'[q]),
               stk'[q][k].task = t
        PROVE  q = th /\ k = m
    BY <1>3, <1>4, <1>5, <1>7, <2>1
  <2>2. m \in 1 .. Len(stk'[th])
    BY <1>1 DEF m
  <2>3. Passing(t, j)' <=> \E q \in Thread : \E k \in 1 .. Len(stk'[q]) :
            stk'[q][k].task = t /\ stk'[q][k].at = "succ" /\ stk'[q][k].i = j
    BY DEF Passing
  <2>4. QED
    BY <1>2, <1>7, <2>1, <2>2, <2>3
<1>8. Passing(Frm(th).task, j) <=> (Frm(th).at = "succ" /\ j = Frm(th).i)
  BY <1>1, <1>3 DEF Passing, m
<1>9. QED
  BY <1>6, <1>7, <1>8

\* an activation that moves on without passing successors, before or after
LEMMA FrmToQuiet ==
  ASSUME TypeInv, NEW th \in Thread, stk[th] # <<>>, NEW i \in Nat \ {0},
         NEW at \in {"body", "free", "retire"}, FrmTo(th, i, at), Frm(th).at # "succ"
  PROVE  StacksQuiet
<1> DEFINE m == Len(stk[th])
<1>1. /\ m \in 1 .. m /\ Frm(th) = stk[th][m]
      /\ \A q \in Thread : Len(stk'[q]) = Len(stk[q])
      /\ \A q \in Thread \ {th} : stk'[q] = stk[q]
      /\ \A k \in 1 .. m : k # m => stk'[th][k] = stk[th][k]
      /\ stk'[th][m] = [node |-> Frm(th).node, task |-> Frm(th).task, i |-> i, at |-> at]
  <2>1. at \in {"body", "succ", "free", "retire"}
    OBVIOUS
  <2>2. QED
    BY <2>1, TopMoves
<1>2. /\ stk'[th][m].task = Frm(th).task /\ stk'[th][m].node = Frm(th).node
      /\ stk'[th][m].at # "succ"
  BY <1>1
<1>3. ASSUME NEW q \in Thread, NEW k \in 1 .. Len(stk'[q])
      PROVE  /\ k \in 1 .. Len(stk[q])
             /\ stk'[q][k] = stk[q][k] \/ (q = th /\ k = m)
  BY <1>1
<1>4. ASSUME NEW q \in Thread, NEW k \in 1 .. Len(stk[q]), stk[q][k].at = "succ"
      PROVE  k \in 1 .. Len(stk'[q]) /\ stk'[q][k] = stk[q][k]
  BY <1>1, <1>4
<1> HIDE DEF m
<1>5. QED
  BY <1>1, <1>2, <1>3, <1>4 DEF StacksQuiet

LEMMA FreeNodeBatch ==
  ASSUME TypeInv, OnePlace, OneBatch, NEW th \in Thread, FreeNode(th)
  PROVE  OneBatch'
<1>1. /\ Executing(th) /\ Frm(th).at = "free" /\ FrmTo(th, 1, "retire")
      /\ UNCHANGED <<dequeVars, inboxVars, nodeVars, pool, tasks, flagVars, loc, idx, dsp, histVars>>
  BY DEF FreeNode
<1>2. submitted /\ stk[th] # <<>>
  BY <1>1, TopReady
<1>3. ClientPlace' /\ ClientQuiet
  BY <1>1, <1>2 DEF OneBatch, ClientPlace, ClientQuiet, SubmitOwes, nodeVars, flagVars, histVars
<1>4. StacksQuiet
  BY <1>1, <1>2, FrmToQuiet
<1>5. ASSUME NEW ns, Pointers(ns)
      PROVE  Pointers(ns)'
  <2>1. StackNodes(ns)'
    BY <1>1, <1>2, <1>5, FrmToStack DEF Pointers
  <2>2. QED
    BY <1>1, <1>5, <2>1 DEF Pointers, Held, InboxNodes, DispatchNodes, dequeVars, inboxVars
<1>6. /\ UNCHANGED <<pending, successors, submitted, created, handle, prereq, runs>>
      /\ \A n \in Node : invoke'[n] \in {invoke[n], NoTask}
  BY <1>1 DEF nodeVars, flagVars, histVars
<1>7. QED
  BY <1>3, <1>4, <1>5, <1>6, PassedOn

LEMMA RetireBatch ==
  ASSUME TypeInv, OneBatch, NEW th \in Thread, Retire(th)
  PROVE  OneBatch'
<1>1. /\ Executing(th) /\ Frm(th).at = "retire"
      /\ stk' = [stk EXCEPT ![th] = SubSeq(@, 1, Len(@) - 1)]
      /\ UNCHANGED <<dequeVars, inboxVars, nodeVars, poolVars, submitted, stop, laneRr, loc, idx, dsp,
                     histVars>>
  BY DEF Retire
<1>2. ClientPlace' /\ ClientQuiet
  BY <1>1, StillThere DEF OneBatch, nodeVars, poolVars, histVars
<1>3. /\ Frm(th) = stk[th][Len(stk[th])]
      /\ \A q \in Thread : \A j \in 1 .. Len(stk'[q]) :
           j \in 1 .. Len(stk[q]) /\ stk'[q][j] = stk[q][j]
      /\ \A q \in Thread : \A j \in 1 .. Len(stk[q]) :
           (q = th /\ j = Len(stk[th])) \/ j \in 1 .. Len(stk'[q])
  <2>1. Stacked /\ stk[th] # <<>>
    BY <1>1, GraphTypes, ExecutingFacts
  <2>2. QED
    BY <1>1, <2>1, TopFrame, ReturnFrames
<1>4. StacksQuiet
  BY <1>1, <1>3 DEF StacksQuiet
<1>5. ASSUME NEW ns, Pointers(ns)
      PROVE  Pointers(ns)'
  <2>1. StackNodes(ns)'
    BY <1>3, <1>5 DEF Pointers, StackNodes
  <2>2. QED
    BY <1>1, <1>5, <2>1 DEF Pointers, Held, InboxNodes, DispatchNodes, dequeVars, inboxVars
<1>6. /\ UNCHANGED <<pending, successors, submitted, created, handle, prereq, runs>>
      /\ \A n \in Node : invoke'[n] \in {invoke[n], NoTask}
  BY <1>1 DEF nodeVars, histVars
<1>7. QED
  BY <1>2, <1>4, <1>5, <1>6, PassedOn

-----------------------------------------------------------------------------
(* execute: the body, the successors, recycle *)

\* the activations keep their tasks and nodes
LEMMA FrmToFresh ==
  ASSUME TypeInv, FreshNodes, NEW th \in Thread, stk[th] # <<>>, NEW i \in Nat \ {0},
         NEW at \in {"body", "succ", "free", "retire"}, FrmTo(th, i, at),
         UNCHANGED <<tasks, created, handle, loc>>,
         \A n \in Node : invoke'[n] \in {invoke[n], NoTask}
  PROVE  FreshNodes'
<1>1. /\ \A q \in Thread : Len(stk'[q]) = Len(stk[q])
      /\ \A q \in Thread : \A j \in 1 .. Len(stk[q]) :
           stk'[q][j].node = stk[q][j].node /\ stk'[q][j].task = stk[q][j].task
  <2>1. Stacked
    BY GraphTypes
  <2>2. QED
    BY <2>1, FrmToFrames
<1>2. \A q \in Thread : \A k \in 1 .. Len(stk'[q]) : handle[stk'[q][k].task] = stk'[q][k].node
  BY <1>1 DEF FreshNodes
<1>3. \A n \in Node : invoke'[n] # NoTask => handle[invoke'[n]] = n
  BY DEF FreshNodes
<1>4. QED
  BY <1>2, <1>3 DEF FreshNodes

\* after the body, an activation's task keeps its successors
LEMMA FrmToLists ==
  ASSUME TypeInv, OnePlace, EdgeLists, NEW th \in Thread, stk[th] # <<>>, NEW i \in Nat \ {0},
         NEW at \in {"succ", "free"}, FrmTo(th, i, at), at = "succ" => Lists(Frm(th).task),
         UNCHANGED <<created, handle, prereq, loc>>,
         \A p \in 1 .. created : runs'[p] = 0 => runs[p] = 0,
         \A p \in 1 .. created :
           p # Frm(th).task => successors'[handle[p]] = successors[handle[p]],
         at = "succ" => UNCHANGED successors,
         runs'[Frm(th).task] # 0
  PROVE  EdgeLists'
<1> DEFINE m == Len(stk[th])
<1>1. /\ m \in 1 .. m /\ Frm(th) = stk[th][m]
      /\ \A q \in Thread : Len(stk'[q]) = Len(stk[q])
      /\ \A q \in Thread \ {th} : stk'[q] = stk[q]
      /\ \A k \in 1 .. m : k # m => stk'[th][k] = stk[th][k]
      /\ stk'[th][m] = [node |-> Frm(th).node, task |-> Frm(th).task, i |-> i, at |-> at]
  <2>1. at \in {"body", "succ", "free", "retire"}
    OBVIOUS
  <2>2. QED
    BY <2>1, TopMoves
<1>2. stk'[th][m].task = Frm(th).task /\ stk'[th][m].at = at
  BY <1>1
<1>3. \A q \in Thread : \A k \in 1 .. Len(stk[q]) :
        stk[q][k].task = Frm(th).task => q = th /\ k = m
  BY <1>1, FramesDiffer
<1>4. ASSUME NEW p \in 1 .. created, p # Frm(th).task \/ at = "succ", Lists(p)
      PROVE  Lists(p)'
  <2>1. successors'[handle[p]] = successors[handle[p]]
    BY <1>4
  <2>2. QED
    BY <1>4, <2>1 DEF Lists
<1>5. \A p \in 1 .. created : runs'[p] = 0 => Lists(p)'
  BY <1>4 DEF EdgeLists
<1>6. ASSUME NEW q \in Thread, NEW k \in 1 .. Len(stk'[q]), stk'[q][k].at = "succ",
             NEW t, t = stk'[q][k].task
      PROVE  Lists(t)'
  <2>1. k \in 1 .. Len(stk[q]) /\ stk[q][k].task = t
    BY <1>1, <1>2, <1>6
  <2>2. t \in 1 .. created
    BY <2>1, GraphTypes, FrameAt, FramePlace, CreatedTypes DEF Task
  <2>3. CASE q = th /\ k = m
    BY <1>1, <1>2, <1>4, <1>6, <2>2, <2>3
  <2>4. CASE ~(q = th /\ k = m)
    <3>1. stk'[q][k] = stk[q][k] /\ t # Frm(th).task
      BY <1>1, <1>3, <2>1, <2>4
    <3>2. Lists(t)
      BY <1>6, <2>1, <3>1 DEF EdgeLists
    <3>3. QED
      BY <1>4, <2>2, <3>1, <3>2
  <2>5. QED
    BY <2>3, <2>4
<1>7. \A p, d \in Task : <<p, d>> \in prereq' => p < d /\ d <= created' /\ Filled(d)'
  BY DEF EdgeLists, Filled
<1> HIDE DEF m
<1>8. \A q \in Thread : \A k \in 1 .. Len(stk'[q]) :
        stk'[q][k].at = "succ" => Lists(stk[q][k].task)'
  <2> SUFFICES ASSUME NEW q \in Thread, NEW k \in 1 .. Len(stk'[q]), stk'[q][k].at = "succ",
                      NEW t, t = stk'[q][k].task
               PROVE  Lists(stk[q][k].task)'
    OBVIOUS
  <2>1. Lists(t)'
    BY <1>6
  <2>2. QED
    BY <2>1, ZenonT(40)
<1>9. QED
  BY <1>5, <1>7, <1>8 DEF EdgeLists

LEMMA BodyBatch ==
  ASSUME TypeInv, OnePlace, OneBatch, NEW th \in Thread, Body(th)
  PROVE  OneBatch'
<1>1. /\ Executing(th) /\ Frm(th).at = "body"
      /\ runs' = [runs EXCEPT ![Frm(th).task] = @ + 1] /\ FrmTo(th, 1, "succ")
      /\ UNCHANGED <<dequeVars, inboxVars, nodeVars, poolVars, flagVars, loc, idx, dsp, resetting,
                     resets, created, batch, handle, prereq>>
  BY DEF Body
<1>2. /\ stk[th] # <<>> /\ Frm(th).task \in 1 .. created /\ runs[Frm(th).task] = 0
      /\ Ready(Frm(th).task) /\ submitted
  BY <1>1, TopReady
<1>3. PICK t \in 1 .. created : t = Frm(th).task
  BY <1>2
<1>4. /\ runs \in [Task -> Nat] /\ 1 .. created \subseteq Task /\ created \in Nat
      /\ \A p \in 1 .. created : p # 0
  BY GraphTypes, CreatedTypes
<1>5. /\ runs'[t] = 1 /\ runs[t] = 0
      /\ \A p \in 1 .. created : p # t => runs'[p] = runs[p]
  BY <1>1, <1>2, <1>3, <1>4
<1>6. Lists(t)
  BY <1>5 DEF OneBatch, EdgeLists
<1>7. ClientPlace' /\ ClientQuiet
  BY <1>1, StillThere DEF OneBatch, nodeVars, poolVars, flagVars
<1>8. FreshNodes'
  BY <1>1, <1>2, FrmToFresh DEF OneBatch, nodeVars, poolVars
<1>9. Callables'
  BY <1>1, <1>5 DEF OneBatch, Callables, Filled, nodeVars
<1>10. EdgeLists'
  <2>1. \A p \in 1 .. created : runs'[p] = 0 => runs[p] = 0
    BY <1>5
  <2>2. runs'[Frm(th).task] # 0 /\ Lists(Frm(th).task) /\ UNCHANGED successors
    BY <1>1, <1>3, <1>5, <1>6 DEF nodeVars
  <2>3. QED
    BY <1>1, <1>2, <2>1, <2>2, FrmToLists DEF OneBatch
<1>11. \A p : \A j : /\ p # t => (Passing(p, j)' <=> Passing(p, j))
                     /\ p = t => (Passing(p, j)' <=> j = 1)
  BY <1>1, <1>2, <1>3, FrmToPassing
<1>12. ASSUME NEW d \in 1 .. created
       PROVE  Unmet(d)' = Unmet(d)
  <2>1. SubmitOwes(d)' = SubmitOwes(d)
    BY <1>1 DEF SubmitOwes, flagVars
  <2>2. ASSUME NEW p \in 1 .. created, p # t
        PROVE  Owes(p, d)' <=> Owes(p, d)
    BY <1>1, <1>5, <1>11, <2>2, OwesStays DEF nodeVars
  <2>3. Owes(t, d) <=> <<t, d>> \in prereq
    BY <1>5 DEF Owes
  <2>4. Owes(t, d)' <=> <<t, d>> \in prereq
    <3>1. ASSUME <<t, d>> \in prereq
          PROVE  Behind(t, d)'
      <4>1. PICK j \in 1 .. Len(successors[handle[t]]) : successors[handle[t]][j] = handle[d]
        BY <1>6, <3>1 DEF Lists
      <4>2. Passing(t, 1)' /\ 1 \in 1 .. j
        BY <1>11
      <4>3. \E i \in 1 .. j : Passing(t, i)'
        BY <4>2
      <4>4. QED
        BY <1>1, <4>1, <4>3 DEF Behind, nodeVars
    <3>2. QED
      BY <1>1, <1>5, <3>1 DEF Owes
  <2>5. QED
    BY <1>1, <1>4, <2>1, <2>2, <2>3, <2>4, UnmetByOwes
<1>13. ReadyNodes' = ReadyNodes /\ \A u \in 1 .. created : Ready(u)' <=> Ready(u)
  BY <1>1, <1>12, ReadyStays DEF flagVars
<1>14. SharesCounted'
  BY <1>1, <1>12 DEF OneBatch, SharesCounted, Filled, nodeVars
<1>15. RanReady'
  BY <1>1, <1>2, <1>3, <1>5, <1>13 DEF OneBatch, RanReady
<1>16. Pointers(ReadyNodes)'
  <2>1. PICK ns : ns = ReadyNodes
    OBVIOUS
  <2>2. Pointers(ns)
    BY <2>1 DEF OneBatch
  <2>3. StackNodes(ns)'
    BY <1>1, <1>2, <2>2, FrmToStack DEF Pointers
  <2>4. Pointers(ns)'
    BY <1>1, <2>2, <2>3 DEF Pointers, Held, InboxNodes, DispatchNodes, dequeVars, inboxVars
  <2>5. QED
    BY <1>13, <2>1, <2>4 DEF Pointers, Held, InboxNodes, DispatchNodes, StackNodes
<1>17. QED
  BY <1>7, <1>8, <1>9, <1>10, <1>14, <1>15, <1>16 DEF OneBatch

-----------------------------------------------------------------------------
(* Counting the shares *)

LEMMA UnmetFinite ==
  ASSUME TypeInv, EdgeLists, NEW d \in 1 .. created
  PROVE  /\ IsFiniteSet(Unmet(d)) /\ Unmet(d) \subseteq 0 .. d - 1
         /\ Cardinality(Unmet(d)) \in Nat /\ Cardinality(Unmet(d)) <= d
<1>1. created \in Nat /\ d \in Nat /\ d \in Task /\ 1 .. created \subseteq Task
  BY CreatedTypes
<1>2. ASSUME NEW p \in Unmet(d)
      PROVE  p \in 0 .. d - 1
  <2>1. p \in 0 .. created /\ (p # 0 => <<p, d>> \in prereq)
    BY DEF Unmet, Owes
  <2>2. CASE p = 0
    BY <1>1, <2>2
  <2>3. CASE p # 0
    <3>1. p \in Task /\ <<p, d>> \in prereq
      BY <1>1, <2>1, <2>3
    <3>2. p < d
      BY <1>1, <3>1 DEF EdgeLists
    <3>3. QED
      BY <1>1, <2>1, <3>2
  <2>4. QED
    BY <2>2, <2>3
<1>3. IsFiniteSet(0 .. d - 1) /\ Cardinality(0 .. d - 1) = d
  BY <1>1, FS_Interval
<1>4. /\ IsFiniteSet(Unmet(d)) /\ Cardinality(Unmet(d)) <= Cardinality(0 .. d - 1)
  BY <1>2, <1>3, FS_Subset
<1>5. Cardinality(Unmet(d)) \in Nat
  BY <1>4, FS_CardinalityType
<1>6. QED
  BY <1>2, <1>3, <1>4, <1>5

LEMMA SmallRemainder ==
  ASSUME NEW m \in Nat \ {0}, NEW x \in 0 .. m - 1
  PROVE  x % m = x
<1>1. x \in Int /\ x = m * 0 + x /\ 0 \in Int
  OBVIOUS
<1>2. QED
  BY <1>1, RemainderIs

\* one share is handed in: the counter goes down by one, and to zero with the last
LEMMA ShareTaken ==
  ASSUME NEW S, IsFiniteSet(S), NEW p \in S, Cardinality(S) \in 0 .. CounterMod - 1
  PROVE  /\ Cardinality(S) \in Nat \ {0}
         /\ Dec(Cardinality(S)) = Cardinality(S \ {p})
         /\ Cardinality(S) = 1 => S \ {p} = {}
<1>1. CounterMod \in Nat \ {0, 1}
  BY TaskGraphAssumption
<1>2. IsFiniteSet(S \ {p}) /\ Cardinality(S \ {p}) = Cardinality(S) - 1
  BY FS_RemoveElement
<1>3. Cardinality(S \ {p}) \in Nat
  BY <1>2, FS_CardinalityType
<1>4. Cardinality(S) - 1 \in 0 .. CounterMod - 1 /\ Cardinality(S) \in Nat \ {0}
  BY <1>1, <1>2, <1>3
<1>5. (Cardinality(S) - 1) % CounterMod = Cardinality(S) - 1
  BY <1>1, <1>4, SmallRemainder
<1>6. Cardinality(S) = 1 => S \ {p} = {}
  BY <1>2, FS_EmptySet
<1>7. QED
  BY <1>2, <1>4, <1>5, <1>6 DEF Dec

\* a share of d is handed in, by submit (0) or by a prerequisite
LEMMA ShareHandedIn ==
  ASSUME TypeInv, EdgeLists, SharesCounted, FreshNodes, NEW d \in 1 .. created,
         \A t \in 1 .. created : Filled(t) /\ Filled(t)',
         NEW p \in Unmet(d), Unmet(d)' = Unmet(d) \ {p},
         \A t \in 1 .. created : t # d => Unmet(t)' = Unmet(t),
         pending' = [pending EXCEPT ![handle[d]] = Dec(@)],
         UNCHANGED <<created, handle>>
  PROVE  SharesCounted' /\ (pending[handle[d]] = 1 => Unmet(d)' = {})
<1>1. /\ pending \in [Node -> 0 .. CounterMod - 1] /\ \A t \in 1 .. created : handle[t] \in Node
      /\ IsFiniteSet(Unmet(d))
  BY GraphTypes, CreatedTypes, UnmetFinite
<1>2. pending[handle[d]] = Cardinality(Unmet(d)) /\ pending[handle[d]] \in 0 .. CounterMod - 1
  BY <1>1 DEF SharesCounted
<1>3. /\ Dec(pending[handle[d]]) = Cardinality(Unmet(d) \ {p})
      /\ pending[handle[d]] = 1 => Unmet(d) \ {p} = {}
  <2>1. Cardinality(Unmet(d)) \in 0 .. CounterMod - 1
    BY <1>2
  <2>2. QED
    BY <1>1, <1>2, <2>1, ShareTaken
<1>4. pending'[handle[d]] = Cardinality(Unmet(d)')
  BY <1>1, <1>3
<1>5. ASSUME NEW t \in 1 .. created, t # d
      PROVE  pending'[handle[t]] = Cardinality(Unmet(t)')
  <2>1. handle[t] # handle[d]
    BY <1>5 DEF FreshNodes
  <2>2. pending'[handle[t]] = pending[handle[t]]
    BY <1>1, <2>1
  <2>3. QED
    BY <1>5, <2>2 DEF SharesCounted
<1>6. \A t \in 1 .. created' : pending'[handle'[t]] = Cardinality(Unmet(t)')
  BY <1>4, <1>5
<1>7. QED
  BY <1>3, <1>6 DEF SharesCounted

\* what is owed only shrinks after submit: a ready task stays ready
LEMMA ReadyGrows ==
  ASSUME submitted, submitted', UNCHANGED <<created, handle>>,
         \A t \in 1 .. created : Unmet(t)' \subseteq Unmet(t)
  PROVE  ReadyNodes \subseteq ReadyNodes' /\ \A t \in 1 .. created : Ready(t) => Ready(t)'
<1>1. \A t \in 1 .. created : Ready(t) => Ready(t)'
  BY DEF Ready
<1>2. QED
  BY <1>1 DEF ReadyNodes

LEMMA SuccessorBatch ==
  ASSUME TypeInv, OnePlace, OneBatch, NEW th \in Thread, Successor(th)
  PROVE  OneBatch'
<1>1. /\ Executing(th) /\ Frm(th).at = "succ" /\ FrmTo(th, Frm(th).i + 1, "succ")
      /\ Frm(th).i <= Len(successors[Frm(th).node])
      /\ pending' = [pending EXCEPT ![successors[Frm(th).node][Frm(th).i]] = Dec(@)]
      /\ \/ pending[successors[Frm(th).node][Frm(th).i]] = 1
            /\ Dispatch(th, successors[Frm(th).node][Frm(th).i])
         \/ UNCHANGED <<dequeVars, laneRr, dsp>>
      /\ UNCHANGED <<inboxVars, invoke, callable, successors, lane, poolVars, outstanding, submitted,
                     stop, loc, idx, histVars>>
  BY DEF Successor
<1>2. /\ stk[th] # <<>> /\ Frm(th).task \in 1 .. created /\ handle[Frm(th).task] = Frm(th).node
      /\ runs[Frm(th).task] = 1 /\ submitted /\ Frm(th).i \in Nat \ {0} /\ Frm(th).node \in Node
      /\ loc[Main] # "create_fill"
  BY <1>1, TopReady
<1>3. PICK t \in 1 .. created : t = Frm(th).task
  BY <1>2
<1>4. PICK i \in Nat \ {0} : i = Frm(th).i
  BY <1>2
<1>5. Lists(t)
  <2>1. Len(stk[th]) \in 1 .. Len(stk[th]) /\ Frm(th) = stk[th][Len(stk[th])]
    BY <1>2, GraphTypes, TopFrame
  <2>2. QED
    BY <1>1, <1>3, <2>1 DEF OneBatch, EdgeLists
<1>6. successors[handle[t]] \in Seq(Node) /\ i \in 1 .. Len(successors[handle[t]])
  <2>1. handle[t] = Frm(th).node /\ successors[Frm(th).node] \in Seq(Node)
    BY <1>2, <1>3, GraphTypes
  <2>2. Len(successors[Frm(th).node]) \in Nat
    BY <2>1
  <2>3. QED
    BY <1>1, <1>2, <1>4, <2>1, <2>2
<1>7. PICK d \in 1 .. created : <<t, d>> \in prereq /\ successors[handle[t]][i] = handle[d]
  BY <1>5, <1>6 DEF Lists
<1>8. /\ pending' = [pending EXCEPT ![handle[d]] = Dec(@)]
      /\ (pending[handle[d]] = 1 /\ Dispatch(th, handle[d])) \/ UNCHANGED <<dequeVars, laneRr, dsp>>
  BY <1>1, <1>2, <1>3, <1>4, <1>7
<1>9. UNCHANGED <<inboxVars, invoke, callable, successors, tasks, freeNodes, submitted, loc, idx,
                  resetting, created, batch, handle, prereq, runs>>
  BY <1>1 DEF poolVars, histVars
<1>10. /\ created \in Nat /\ 1 .. created \subseteq Task
       /\ \A u \in 1 .. created : handle[u] \in Node /\ u \in Nat /\ u # 0
       /\ \A u, v \in 1 .. created : handle[u] = handle[v] => u = v
  BY CreatedTypes DEF OneBatch, FreshNodes
<1>11. ClientPlace' /\ ClientQuiet
  BY <1>9, StillThere DEF OneBatch
<1>12. FreshNodes'
  <2>1. i + 1 \in Nat \ {0} /\ FrmTo(th, i + 1, "succ")
    BY <1>1, <1>4
  <2>2. QED
    BY <1>2, <1>9, <2>1, FrmToFresh DEF OneBatch
<1>13. Callables'
  BY <1>9 DEF OneBatch, Callables, Filled
<1>14. EdgeLists'
  <2>1. i + 1 \in Nat \ {0} /\ FrmTo(th, i + 1, "succ")
    BY <1>1, <1>4
  <2>2. runs'[Frm(th).task] # 0 /\ Lists(Frm(th).task)
    BY <1>2, <1>3, <1>5, <1>9
  <2>3. QED
    BY <1>2, <1>9, <2>1, <2>2, FrmToLists DEF OneBatch
<1>15. /\ \A p : \A j : /\ p # t => (Passing(p, j)' <=> Passing(p, j))
                        /\ p = t => (Passing(p, j)' <=> j = i + 1)
       /\ \A j : Passing(t, j) <=> j = i
  <2>1. i + 1 \in Nat \ {0} /\ FrmTo(th, i + 1, "succ")
    BY <1>1, <1>4
  <2>2. QED
    BY <1>1, <1>2, <1>3, <1>4, <2>1, FrmToPassing
<1>16. \A e : SubmitOwes(e)' = SubmitOwes(e)
  BY <1>9 DEF SubmitOwes
<1>17. ASSUME NEW p \in 1 .. created, p # t, NEW e \in 1 .. created
       PROVE  Owes(p, e)' <=> Owes(p, e)
  BY <1>9, <1>15, <1>17, OwesStays
<1>18. ASSUME NEW e \in 1 .. created
       PROVE  /\ Owes(t, e) <=>
                   (<<t, e>> \in prereq /\ \E j \in 1 .. Len(successors[handle[t]]) :
                        successors[handle[t]][j] = handle[e] /\ i <= j)
              /\ Owes(t, e)' <=>
                   (<<t, e>> \in prereq /\ \E j \in 1 .. Len(successors[handle[t]]) :
                        successors[handle[t]][j] = handle[e] /\ i + 1 <= j)
  <2>1. runs[t] = 1 /\ runs'[t] = 1
    BY <1>2, <1>3, <1>9
  <2>2. \A j \in 1 .. Len(successors[handle[t]]) : (\E k \in 1 .. j : Passing(t, k)) <=> i <= j
    BY <1>15
  <2>3. \A j \in 1 .. Len(successors[handle[t]]) :
          (\E k \in 1 .. j : Passing(t, k)') <=> i + 1 <= j
    BY <1>15
  <2>4. Behind(t, e) <=> \E j \in 1 .. Len(successors[handle[t]]) :
                           successors[handle[t]][j] = handle[e] /\ i <= j
    BY <2>2 DEF Behind
  <2>5. Behind(t, e)' <=> \E j \in 1 .. Len(successors[handle[t]]) :
                           successors[handle[t]][j] = handle[e] /\ i + 1 <= j
    BY <1>9, <2>3 DEF Behind
  <2>6. QED
    BY <1>9, <2>1, <2>4, <2>5 DEF Owes
<1>19. ASSUME NEW e \in 1 .. created, e # d
       PROVE  Unmet(e)' = Unmet(e)
  <2>1. \A j \in 1 .. Len(successors[handle[t]]) :
          successors[handle[t]][j] = handle[e] => (i <= j <=> i + 1 <= j)
    BY <1>7, <1>10, <1>19
  <2>2. Owes(t, e)' <=> Owes(t, e)
    BY <1>18, <2>1
  <2>3. \A p \in 1 .. created : Owes(p, e)' <=> Owes(p, e)
    BY <1>17, <2>2
  <2>4. SubmitOwes(e)' = SubmitOwes(e)
    BY <1>16
  <2>5. QED
    BY <1>9, <1>10, <2>3, <2>4, UnmetByOwes
<1>20. Owes(t, d) /\ ~Owes(t, d)'
  <2>1. Owes(t, d)
    BY <1>6, <1>7, <1>18
  <2>2. \A j \in 1 .. Len(successors[handle[t]]) : successors[handle[t]][j] = handle[d] => j = i
    BY <1>5, <1>6, <1>7 DEF Lists
  <2>3. ~\E j \in 1 .. Len(successors[handle[t]]) : successors[handle[t]][j] = handle[d] /\ i + 1 <= j
    BY <2>2
  <2>4. ~Owes(t, d)'
    BY <1>18, <2>3
  <2>5. QED
    BY <2>1, <2>4
<1>21. t \in Unmet(d) /\ Unmet(d)' = Unmet(d) \ {t}
  BY <1>9, <1>10, <1>16, <1>17, <1>20, UnmetLoses
<1>22. \A u \in 1 .. created : Filled(u) /\ Filled(u)'
  BY <1>2, <1>9 DEF Filled
<1>23. SharesCounted' /\ (pending[handle[d]] = 1 => Unmet(d)' = {})
  BY <1>8, <1>9, <1>19, <1>21, <1>22, ShareHandedIn DEF OneBatch
<1>24. ReadyNodes \subseteq ReadyNodes' /\ \A u \in 1 .. created : Ready(u) => Ready(u)'
  <2>1. \A u \in 1 .. created : Unmet(u)' \subseteq Unmet(u)
    BY <1>19, <1>21
  <2>2. QED
    BY <1>2, <1>9, <2>1, ReadyGrows
<1>25. RanReady'
  BY <1>9, <1>24 DEF OneBatch, RanReady
<1>26. pending[handle[d]] = 1 => handle[d] \in ReadyNodes'
  BY <1>2, <1>9, <1>23 DEF ReadyNodes, Ready
<1>27. Pointers(ReadyNodes)'
  <2>1. PICK ns : ns = ReadyNodes'
    OBVIOUS
  <2>2. Pointers(ns)
    BY <1>24, <2>1, PointersGrow DEF OneBatch
  <2>3. i + 1 \in Nat \ {0} /\ FrmTo(th, i + 1, "succ")
    BY <1>1, <1>4
  <2>4. StackNodes(ns)'
    BY <1>2, <2>2, <2>3, FrmToStack DEF Pointers
  <2>5. (Dispatch(th, handle[d]) /\ handle[d] \in ns) \/ UNCHANGED <<dequeVars, laneRr, dsp>>
    BY <1>8, <1>26, <2>1
  <2>6. dq[th].pc = "idle" /\ handle[d] \in Node
    BY <1>1, <1>10, ExecutingFacts
  <2>7. Held(ns)' /\ DispatchNodes(ns)'
    BY <2>2, <2>5, <2>6, DispatchPointers DEF Pointers
  <2>8. Pointers(ns)'
    BY <1>9, <2>2, <2>4, <2>7 DEF Pointers, InboxNodes, inboxVars
  <2>9. QED
    BY <2>1, <2>8 DEF Pointers, Held, InboxNodes, DispatchNodes, StackNodes
<1>28. QED
  BY <1>11, <1>12, <1>13, <1>14, <1>23, <1>25, <1>27 DEF OneBatch

LEMMA RecycleBatch ==
  ASSUME TypeInv, OnePlace, OneBatch, NEW th \in Thread, Recycle(th)
  PROVE  OneBatch'
<1>1. /\ Executing(th) /\ Frm(th).at = "succ" /\ FrmTo(th, 1, "free")
      /\ Frm(th).i > Len(successors[Frm(th).node])
      /\ callable' = [callable EXCEPT ![Frm(th).node] = NoTask]
      /\ invoke' = [invoke EXCEPT ![Frm(th).node] = NoTask]
      /\ successors' = [successors EXCEPT ![Frm(th).node] = <<>>]
      /\ pending' = [pending EXCEPT ![Frm(th).node] = 0]
      /\ UNCHANGED <<dequeVars, inboxVars, tasks, freeNodes, submitted, loc, idx, dsp, resetting,
                     created, batch, handle, prereq, runs>>
  BY DEF Recycle, poolVars, flagVars, histVars
<1>2. /\ stk[th] # <<>> /\ Frm(th).task \in 1 .. created /\ handle[Frm(th).task] = Frm(th).node
      /\ runs[Frm(th).task] = 1 /\ submitted /\ Frm(th).i \in Nat \ {0} /\ Frm(th).node \in Node
      /\ Ready(Frm(th).task)
  BY <1>1, TopReady
<1>3. PICK t \in 1 .. created : t = Frm(th).task
  BY <1>2
<1>4. PICK i \in Nat \ {0} : i = Frm(th).i
  BY <1>2
<1>5. /\ created \in Nat /\ 1 .. created \subseteq Task
      /\ \A u \in 1 .. created : handle[u] \in Node /\ u \in Nat /\ u # 0
      /\ \A u, v \in 1 .. created : handle[u] = handle[v] => u = v
  BY CreatedTypes DEF OneBatch, FreshNodes
<1>6. /\ callable \in [Node -> MaybeTask] /\ invoke \in [Node -> MaybeTask]
      /\ successors \in [Node -> Seq(Node)] /\ pending \in [Node -> 0 .. CounterMod - 1]
  BY GraphTypes
<1>7. ASSUME NEW p \in 1 .. created, p # t
      PROVE  /\ successors'[handle[p]] = successors[handle[p]]
             /\ callable'[handle[p]] = callable[handle[p]]
             /\ pending'[handle[p]] = pending[handle[p]]
  <2>1. handle[p] # Frm(th).node /\ handle[p] \in Node
    BY <1>2, <1>3, <1>5, <1>7
  <2>2. QED
    BY <1>1, <1>6, <2>1
<1>8. successors'[handle[t]] = <<>> /\ pending'[handle[t]] = 0
  BY <1>1, <1>2, <1>3, <1>6
<1>9. ClientPlace'
  BY <1>1 DEF OneBatch, ClientPlace
<1>10. FreshNodes'
  <2>1. \A n \in Node : invoke'[n] \in {invoke[n], NoTask}
    BY <1>1, <1>6
  <2>2. QED
    BY <1>1, <1>2, <2>1, FrmToFresh DEF OneBatch
<1>11. Callables'
  <2>1. \A p \in 1 .. created : runs[p] = 0 => p # t
    BY <1>2, <1>3
  <2>2. QED
    BY <1>1, <1>7, <2>1 DEF OneBatch, Callables, Filled
<1>12. EdgeLists'
  <2>1. \A p \in 1 .. created :
          p # Frm(th).task => successors'[handle[p]] = successors[handle[p]]
    BY <1>3, <1>7
  <2>2. runs'[Frm(th).task] # 0 /\ UNCHANGED <<created, handle, prereq, loc>>
        /\ \A p \in 1 .. created : runs'[p] = 0 => runs[p] = 0
    BY <1>1, <1>2
  <2>3. QED
    BY <1>1, <1>2, <2>1, <2>2, FrmToLists DEF OneBatch
<1>13. /\ \A p : \A j : /\ p # t => (Passing(p, j)' <=> Passing(p, j))
                        /\ p = t => ~Passing(p, j)'
       /\ \A j : Passing(t, j) <=> j = i
  BY <1>1, <1>2, <1>3, <1>4, FrmToPassing
<1>14. ASSUME NEW d \in 1 .. created
       PROVE  Unmet(d)' = Unmet(d)
  <2>1. SubmitOwes(d)' = SubmitOwes(d)
    BY <1>1 DEF SubmitOwes
  <2>2. ASSUME NEW p \in 1 .. created, p # t
        PROVE  Owes(p, d)' <=> Owes(p, d)
    <3>1. Behind(p, d)' <=> Behind(p, d)
      BY <1>1, <1>7, <1>13, <2>2 DEF Behind
    <3>2. QED
      BY <1>1, <3>1 DEF Owes
  <2>3. ~Owes(t, d)
    <3>1. Len(successors[handle[t]]) < i
      <4>1. handle[t] = Frm(th).node /\ successors[Frm(th).node] \in Seq(Node)
        BY <1>2, <1>3, <1>6
      <4>2. Len(successors[Frm(th).node]) \in Nat
        BY <4>1
      <4>3. QED
        BY <1>1, <1>4, <4>1, <4>2
    <3>2. ~Behind(t, d)
      <4>1. successors[handle[t]] \in Seq(Node)
        BY <1>5, <1>6
      <4>2. Len(successors[handle[t]]) \in Nat
        BY <4>1
      <4>3. QED
        BY <1>13, <3>1, <4>2 DEF Behind
    <3>3. QED
      BY <1>2, <1>3, <3>2 DEF Owes
  <2>4. ~Owes(t, d)'
    <3>1. ~Behind(t, d)'
      BY <1>13 DEF Behind
    <3>2. QED
      BY <1>1, <1>2, <1>3, <3>1 DEF Owes
  <2>5. QED
    BY <1>1, <1>5, <2>1, <2>2, <2>3, <2>4, UnmetByOwes
<1>15. ReadyNodes' = ReadyNodes /\ \A u \in 1 .. created : Ready(u)' <=> Ready(u)
  BY <1>1, <1>14, ReadyStays
<1>16. SharesCounted'
  <2>1. Cardinality(Unmet(t)) = 0
    <3>1. Unmet(t) = {}
      BY <1>2, <1>3 DEF Ready
    <3>2. QED
      BY <3>1, FS_EmptySet
  <2>2. pending'[handle[t]] = Cardinality(Unmet(t)')
    BY <1>8, <1>14, <2>1
  <2>3. ASSUME NEW p \in 1 .. created, p # t, Filled(p)
        PROVE  pending'[handle[p]] = Cardinality(Unmet(p)')
    BY <1>7, <1>14, <2>3 DEF OneBatch, SharesCounted
  <2>4. \A p \in 1 .. created : Filled(p)' <=> Filled(p)
    BY <1>1 DEF Filled
  <2>5. QED
    BY <1>1, <2>2, <2>3, <2>4 DEF SharesCounted
<1>17. RanReady'
  BY <1>1, <1>15 DEF OneBatch, RanReady
<1>18. Pointers(ReadyNodes)'
  <2>1. PICK ns : ns = ReadyNodes
    OBVIOUS
  <2>2. Pointers(ns)
    BY <2>1 DEF OneBatch
  <2>3. StackNodes(ns)'
    BY <1>1, <1>2, <2>2, FrmToStack DEF Pointers
  <2>4. Pointers(ns)'
    BY <1>1, <2>2, <2>3 DEF Pointers, Held, InboxNodes, DispatchNodes, dequeVars, inboxVars
  <2>5. QED
    BY <1>15, <2>1, <2>4 DEF Pointers, Held, InboxNodes, DispatchNodes, StackNodes
<1>19. QED
  BY <1>9, <1>10, <1>11, <1>12, <1>16, <1>17, <1>18 DEF OneBatch

-----------------------------------------------------------------------------
(* The client's steps *)

\* the client moves on in its calls and leaves the graph as it is
LEMMA ClientMoves ==
  ASSUME TypeInv, OneBatch, NEW l \in {"client", "wait", "help", "join", "gone"}, Goto(Main, l),
         loc[Main] # "create_fill", loc[Main] # "gone",
         l = "gone" => \A w \in Worker : loc[w] = "exited",
         l = "gone" \/ UNCHANGED <<callable, tasks>>,
         ~resetting', Len(freeNodes') = 0 \/ UNCHANGED freeNodes,
         \A d \in 1 .. created : SubmitOwes(d)' = SubmitOwes(d),
         UNCHANGED <<dequeVars, inboxVars, invoke, pending, successors, submitted, stk, dsp, created,
                     batch, handle, prereq, runs>>
  PROVE  OneBatch'
<1>1. loc'[Main] = l /\ \A q \in Thread \ {Main} : loc'[q] = loc[q]
  <2>1. l \in Loc /\ Main \in Thread
    BY GraphTypes DEF Loc
  <2>2. QED
    BY <2>1, Went
<1>2. \A w \in Worker : loc'[w] = loc[w]
  BY <1>1, GraphTypes, TaskGraphAssumption DEF Worker
<1>3. ClientPlace'
  BY <1>1, <1>2 DEF OneBatch, ClientPlace
<1>4. ClientQuiet
  BY <1>1 DEF ClientQuiet
<1>5. \A ns : Pointers(ns) => Pointers(ns)'
  BY DEF Pointers, Held, InboxNodes, DispatchNodes, StackNodes, dequeVars, inboxVars
<1>6. StacksQuiet /\ \A n \in Node : invoke'[n] \in {invoke[n], NoTask}
  BY StackStays
<1>7. QED
  BY <1>3, <1>4, <1>5, <1>6, PassedOn

LEMMA CreateCountBatch ==
  ASSUME TypeInv, OneBatch, CreateCount
  PROVE  OneBatch'
<1>1. /\ loc[Main] = "create_count" /\ Goto(Main, "client")
      /\ submitted \/ UNCHANGED <<dequeVars, laneRr, dsp>>
      /\ UNCHANGED <<inboxVars, nodeVars, poolVars, submitted, stop, idx, stk, histVars>>
  BY DEF CreateCount, AtHome
<1>2. ~submitted
  BY <1>1 DEF OneBatch, ClientPlace
<1>3. \A d \in 1 .. created : SubmitOwes(d)' = SubmitOwes(d)
  BY <1>1, <1>2 DEF SubmitOwes
<1>4. ~resetting'
  BY <1>1 DEF OneBatch, ClientPlace, histVars
<1>5. QED
  BY <1>1, <1>2, <1>3, <1>4, ClientMoves DEF nodeVars, poolVars, histVars

LEMMA SubmitReturnBatch ==
  ASSUME TypeInv, OneBatch, SubmitReturn
  PROVE  OneBatch'
<1>1. /\ loc[Main] = "submit" /\ Goto(Main, "client") /\ idx[Main] > Len(tasks)
      /\ UNCHANGED <<dequeVars, inboxVars, nodeVars, poolVars, flagVars, stk, dsp, histVars>>
  BY DEF SubmitReturn, AtHome
<1>2. \A d \in 1 .. created : SubmitOwes(d)' = SubmitOwes(d)
  <2>1. Len(tasks) = created /\ submitted /\ created \in Nat /\ idx[Main] \in Nat
    BY <1>1, CreatedTypes, GraphTypes DEF OneBatch, FreshNodes, ClientPlace
  <2>2. loc'[Main] = "client" /\ submitted'
    BY <1>1, <2>1, GraphTypes DEF Goto, flagVars
  <2>3. QED
    BY <1>1, <2>1, <2>2 DEF SubmitOwes
<1>3. ~resetting'
  BY <1>1 DEF OneBatch, ClientPlace, histVars
<1>4. QED
  BY <1>1, <1>2, <1>3, ClientMoves DEF nodeVars, poolVars, flagVars, histVars

LEMMA WaitBatch ==
  ASSUME TypeInv, OneBatch, MaxResets = 0, CallWait \/ WaitHelp \/ WaitReturn \/ Destroy
  PROVE  OneBatch'
<1>1. PICK l \in {"wait", "help", "client", "join"} : Goto(Main, l)
  BY DEF CallWait, WaitHelp, WaitReturn, Destroy
<1>2. loc[Main] \in {"client", "wait"} /\ l # "submit"
  BY DEF CallWait, WaitHelp, WaitReturn, Destroy, Client, AtHome
<1>3. UNCHANGED <<dequeVars, inboxVars, nodeVars, poolVars, submitted, stk, dsp, created, batch,
                  handle, prereq, runs>>
  BY DEF CallWait, WaitHelp, WaitReturn, Destroy, flagVars, histVars
<1>4. ~resetting'
  <2>1. ~resetting /\ resets \in Nat
    BY DEF OneBatch, ClientPlace, TypeInv, TypeOK, HistTypeOK
  <2>2. ~(resets < MaxResets)
    BY <2>1
  <2>3. QED
    BY <2>1, <2>2 DEF CallWait, WaitHelp, WaitReturn, Destroy, histVars
<1>5. \A d \in 1 .. created : SubmitOwes(d)' = SubmitOwes(d)
  <2>1. loc'[Main] = l
    BY <1>1, GraphTypes DEF Goto
  <2>2. QED
    BY <1>2, <1>3, <2>1 DEF SubmitOwes
<1>6. QED
  BY <1>1, <1>2, <1>3, <1>4, <1>5, ClientMoves DEF nodeVars, poolVars

LEMMA JoinBatch ==
  ASSUME TypeInv, OneBatch, Join
  PROVE  OneBatch'
<1>1. /\ loc[Main] = "join" /\ Goto(Main, "gone") /\ ResetNodes
      /\ \A w \in Worker : loc[w] = "exited"
      /\ UNCHANGED <<dequeVars, inboxVars, invoke, pending, successors, lane, flagVars, idx, stk, dsp,
                     histVars>>
  BY DEF Join, AtHome
<1>2. Len(freeNodes') = 0
  BY <1>1, ReturnedNodes
<1>3. ~resetting'
  BY <1>1 DEF OneBatch, ClientPlace, histVars
<1>4. \A d \in 1 .. created : SubmitOwes(d)' = SubmitOwes(d)
  <2>1. loc'[Main] = "gone"
    BY <1>1, GraphTypes DEF Goto
  <2>2. QED
    BY <1>1, <2>1 DEF SubmitOwes, flagVars
<1>5. QED
  BY <1>1, <1>2, <1>3, <1>4, ClientMoves DEF flagVars, histVars

-----------------------------------------------------------------------------
(* The client: before submit no thread has anything *)

LEMMA BeforeSubmit ==
  ASSUME TypeInv, OnePlace, OneBatch, ~submitted
  PROVE  /\ ReadyNodes = {} /\ \A th \in Thread : Len(stk[th]) = 0
         /\ \A t \in 1 .. created : runs[t] = 0 /\ ~Ready(t)
         /\ \A p : \A i : ~Passing(p, i)
         /\ \A p \in 1 .. created : \A d : Owes(p, d) <=> <<p, d>> \in prereq
<1>1. ReadyNodes = {} /\ \A t \in 1 .. created : ~Ready(t)
  BY DEF ReadyNodes, Ready
<1>2. ASSUME NEW th \in Thread
      PROVE  Len(stk[th]) = 0
  <2>1. \A k \in 1 .. Len(stk[th]) : FALSE
    BY <1>1 DEF OneBatch, Pointers, StackNodes
  <2>2. Len(stk[th]) \in Nat
    BY GraphTypes DEF Stacked
  <2>3. QED
    BY <2>1, <2>2
<1>3. \A t \in 1 .. created : runs[t] = 0
  BY <1>1, CreatedTypes DEF OneBatch, RanReady
<1>4. \A p : \A i : ~Passing(p, i)
  BY <1>2 DEF Passing
<1>5. \A p \in 1 .. created : \A d : Owes(p, d) <=> <<p, d>> \in prereq
  BY <1>3 DEF Owes
<1>6. QED
  BY <1>1, <1>2, <1>3, <1>4, <1>5

Building == created \in Nat /\ ~submitted /\ \A t \in 1 .. created : runs[t] = 0
BuildingShares == \A d : Unmet(d) = {0} \cup {p \in 1 .. created : <<p, d>> \in prereq}

\* while the graph is built, every task waits for submit and for its prerequisites
LEMMA BuildingUnmet == Building => BuildingShares
<1> SUFFICES ASSUME Building, NEW d
             PROVE  Unmet(d) = {0} \cup {p \in 1 .. created : <<p, d>> \in prereq}
  BY DEF BuildingShares
<1>1. \A p \in 1 .. created : Owes(p, d) <=> <<p, d>> \in prereq
  BY DEF Building, Owes
<1>2. SubmitOwes(d) /\ created \in Nat
  BY DEF Building, SubmitOwes
<1>3. \A p \in 0 .. created : p = 0 \/ p \in 1 .. created
  BY <1>2
<1>4. QED
  BY <1>1, <1>2, <1>3 DEF Unmet

\* a step of building: the threads have nothing and get nothing
LEMMA BuildingPointers ==
  ASSUME TypeInv, OnePlace, OneBatch, ~submitted, UNCHANGED <<dequeVars, inboxVars, stk, dsp>>
  PROVE  Pointers(ReadyNodes)'
<1>1. PICK ms : ms = ReadyNodes'
  OBVIOUS
<1>2. ReadyNodes \subseteq ms
  BY BeforeSubmit
<1>3. Pointers(ms)
  BY <1>2, PointersGrow DEF OneBatch
<1>4. QED
  BY <1>1, <1>3 DEF Pointers, Held, InboxNodes, DispatchNodes, StackNodes, dequeVars, inboxVars

LEMMA CreateTakeBatch ==
  ASSUME TypeInv, OnePlace, NodesWait, OneBatch, ~LiveCreates, CreateTake
  PROVE  OneBatch'
<1>1. /\ loc[Main] = "client" /\ Goto(Main, "create_fill") /\ created < MaxCreates /\ ~submitted
      /\ UNCHANGED <<dequeVars, inboxVars, lane, flagVars, idx, stk, dsp, resetting, resets, batch,
                     prereq, runs>>
  BY DEF CreateTake, Client, AtHome
<1>2. Len(freeNodes) = 0
  BY <1>1 DEF OneBatch, ClientPlace
<1>3. PICK n \in Node :
        /\ GiveNode(n) /\ pool # <<>> /\ n = pool[1] /\ tasks' = Append(tasks, n)
        /\ callable' = [callable EXCEPT ![n] = NoTask] /\ pending' = [pending EXCEPT ![n] = 0]
        /\ successors' = [successors EXCEPT ![n] = <<>>] /\ UNCHANGED freeNodes
  <2>1. freeNodes = <<>>
    BY <1>2, GraphTypes
  <2>2. QED
    BY <2>1, TakenNode
<1>4. /\ created' = created + 1 /\ created' \in Task /\ handle'[created'] = n
      /\ \A t \in Task : t # created' => handle'[t] = handle[t]
      /\ invoke' \in [Node -> MaybeTask] /\ invoke'[n] = created'
      /\ \A m \in Node : m # n => invoke'[m] = invoke[m]
  BY <1>1, <1>3, GivenNode
<1>5. /\ created \in Nat /\ 1 .. created \subseteq Task
      /\ \A t \in 1 .. created : handle[t] \in Node /\ t \in Nat /\ t # created'
      /\ \A t, u \in 1 .. created : handle[t] = handle[u] => t = u
      /\ \A t \in 1 .. created' : t \in 1 .. created \/ t = created'
      /\ \A t \in 1 .. created : t \in 1 .. created'
  BY <1>4, CreatedTypes DEF OneBatch, FreshNodes
<1>6. \A t \in 1 .. created : handle'[t] = handle[t]
  BY <1>4, <1>5
<1>7. /\ \A t \in 1 .. created : runs[t] = 0
      /\ \A th \in Thread : Len(stk[th]) = 0
  BY <1>1, BeforeSubmit
<1>8. Len(tasks) = created /\ \A t \in 1 .. created : tasks[t] = handle[t]
  BY <1>1 DEF OneBatch, FreshNodes
<1>9. \A t \in 1 .. created : handle[t] # n
  <2>1. pool \in Seq(Node) /\ 1 \in 1 .. Len(pool)
    BY <1>3, GraphTypes
  <2>2. \A j \in 1 .. Len(tasks) : tasks[j] # pool[1]
    BY <1>1, <2>1 DEF NodesWait
  <2>3. QED
    BY <1>3, <1>8, <2>2
<1>10. \A t \in 1 .. created : /\ successors'[handle[t]] = successors[handle[t]]
                               /\ callable'[handle[t]] = callable[handle[t]]
                               /\ pending'[handle[t]] = pending[handle[t]]
  BY <1>3, <1>5, <1>9, GraphTypes
<1>11. loc'[Main] = "create_fill"
  BY <1>1, GraphTypes DEF Goto
<1>12. \A p, d \in Task : <<p, d>> \in prereq => p < d /\ d <= created
  BY DEF OneBatch, EdgeLists
<1>13. ClientPlace'
  BY <1>1, <1>2, <1>3, <1>11 DEF OneBatch, ClientPlace, flagVars
<1>14. FreshNodes'
  <2>1. Len(tasks') = created' /\ \A t \in 1 .. created' : tasks'[t] = handle'[t]
    <3>1. tasks \in Seq(Node)
      BY GraphTypes
    <3>2. /\ Len(tasks') = Len(tasks) + 1 /\ tasks'[Len(tasks) + 1] = n
          /\ \A t \in 1 .. Len(tasks) : tasks'[t] = tasks[t]
      BY <1>3, <3>1
    <3>3. Len(tasks') = created' /\ tasks'[created'] = handle'[created']
      BY <1>4, <1>8, <3>2
    <3>4. \A t \in 1 .. created : tasks'[t] = handle'[t]
      BY <1>6, <1>8, <3>2
    <3>5. QED
      BY <1>5, <3>3, <3>4
  <2>2. \A t, u \in 1 .. created' : handle'[t] = handle'[u] => t = u
    BY <1>4, <1>5, <1>6, <1>9
  <2>3. ASSUME NEW m \in Node, invoke'[m] # NoTask
        PROVE  handle'[invoke'[m]] = m
    <3>1. CASE m = n
      BY <1>4, <3>1
    <3>2. CASE m # n
      <4>1. invoke'[m] = invoke[m] /\ invoke[m] \in 1 .. created
        BY <1>4, <1>5, <2>3, <3>2, GraphTypes DEF OnePlace, MaybeTask, Task
      <4>2. QED
        BY <1>6, <2>3, <4>1 DEF OneBatch, FreshNodes
    <3>3. QED
      BY <3>1, <3>2
  <2>4. \A th \in Thread : \A k \in 1 .. Len(stk'[th]) : FALSE
    BY <1>1, <1>7
  <2>5. QED
    BY <2>1, <2>2, <2>3, <2>4 DEF FreshNodes
<1>15. Callables'
  BY <1>1, <1>4, <1>5, <1>6, <1>10, <1>11 DEF OneBatch, Callables, Filled
<1>16. EdgeLists'
  <2>1. ASSUME NEW p \in 1 .. created
        PROVE  Lists(p)'
    <3>1. Lists(p)
      BY <1>7 DEF OneBatch, EdgeLists
    <3>2. handle'[p] = handle[p] /\ successors'[handle[p]] = successors[handle[p]]
      BY <1>6, <1>10
    <3>3. \A d \in 1 .. created' : <<p, d>> \in prereq => d \in 1 .. created
      BY <1>4, <1>5, <1>12
    <3>4. QED
      BY <1>1, <1>5, <1>6, <3>1, <3>2, <3>3 DEF Lists
  <2>2. ASSUME NEW p, p = created'
        PROVE  Lists(p)'
    <3>1. successors'[handle'[p]] = <<>> /\ Len(successors'[handle'[p]]) = 0
      BY <1>3, <1>4, <2>2, GraphTypes
    <3>2. \A d \in 1 .. created' : <<p, d>> \notin prereq'
      BY <1>1, <1>4, <1>5, <1>12, <2>2
    <3>3. QED
      BY <3>1, <3>2 DEF Lists
  <2>3. ASSUME NEW p \in Task, NEW d \in Task, <<p, d>> \in prereq'
        PROVE  p < d /\ d <= created' /\ Filled(d)'
    <3>1. <<p, d>> \in prereq /\ p < d /\ d <= created
      BY <1>1, <1>12, <2>3
    <3>2. d \in Nat /\ d # created'
      BY <1>4, <1>5, <3>1 DEF Task
    <3>3. QED
      BY <1>4, <1>5, <3>1, <3>2 DEF Filled
  <2>4. \A th \in Thread : \A k \in 1 .. Len(stk'[th]) : FALSE
    BY <1>1, <1>7
  <2>5. ASSUME NEW p \in 1 .. created'
        PROVE  Lists(p)'
    <3>1. p \in 1 .. created \/ p = created'
      BY <1>5
    <3>2. QED
      BY <2>1, <2>2, <3>1
  <2>6. QED
    BY <2>3, <2>4, <2>5 DEF EdgeLists
<1>17. Building /\ Building'
  BY <1>1, <1>4, <1>5, <1>7 DEF Building, flagVars, OnePlace
<1>18. ASSUME NEW d \in 1 .. created
       PROVE  Unmet(d)' = Unmet(d)
  <2>1. Unmet(d) = {0} \cup {p \in 1 .. created : <<p, d>> \in prereq}
    BY <1>17, BuildingUnmet DEF BuildingShares
  <2>2. Unmet(d)' = {0} \cup {p \in 1 .. created' : <<p, d>> \in prereq'}
    <3>1. Building' => BuildingShares'
      BY BuildingUnmet, PTL
    <3>2. QED
      BY <1>17, <3>1 DEF BuildingShares
  <2>3. \A p \in 1 .. created' : <<p, d>> \in prereq => p \in 1 .. created
    BY <1>4, <1>5, <1>12
  <2>4. QED
    BY <1>1, <1>5, <2>1, <2>2, <2>3
<1>19. SharesCounted'
  <2>1. ASSUME NEW t \in 1 .. created', Filled(t)'
        PROVE  pending'[handle'[t]] = Cardinality(Unmet(t)')
    <3>1. t \in 1 .. created
      BY <1>5, <1>11, <2>1 DEF Filled
    <3>2. pending[handle[t]] = Cardinality(Unmet(t))
      BY <1>1, <3>1 DEF OneBatch, SharesCounted, Filled
    <3>3. QED
      BY <1>6, <1>10, <1>18, <3>1, <3>2
  <2>2. QED
    BY <2>1 DEF SharesCounted
<1>20. RanReady'
  BY <1>17 DEF RanReady, Building
<1>21. Pointers(ReadyNodes)'
  BY <1>1, BuildingPointers
<1>22. QED
  BY <1>13, <1>14, <1>15, <1>16, <1>19, <1>20, <1>21 DEF OneBatch

LEMMA CreateFillBatch ==
  ASSUME TypeInv, OnePlace, OneBatch, CreateFill
  PROVE  OneBatch'
<1>1. /\ loc[Main] = "create_fill" /\ Goto(Main, "create_count")
      /\ UNCHANGED <<dequeVars, inboxVars, invoke, poolVars, flagVars, idx, stk, dsp, histVars>>
  BY DEF CreateFill, AtHome
<1>2. ~submitted /\ loc'[Main] = "create_count"
  BY <1>1, GraphTypes DEF OneBatch, ClientPlace, Goto
<1>3. UNCHANGED <<tasks, freeNodes, submitted, resetting, created, batch, handle, prereq, runs>>
  BY <1>1 DEF poolVars, flagVars, histVars
<1>4. /\ created \in Nat /\ 1 .. created \subseteq Task
      /\ \A t \in 1 .. created : handle[t] \in Node
      /\ \A t, u \in 1 .. created : handle[t] = handle[u] => t = u
  BY CreatedTypes DEF OneBatch, FreshNodes
<1>5. PICK c : c = created
  OBVIOUS
<1>6. c \in 1 .. created /\ \A t \in 1 .. created : t <= c
  <2>1. created > 0
    BY <1>1 DEF TypeInv, HandlesOK
  <2>2. QED
    BY <1>4, <1>5, <2>1
<1>7. /\ pending' = [pending EXCEPT ![handle[c]] = 1]
      /\ successors' = [successors EXCEPT ![handle[c]] = <<>>]
      /\ callable' = [callable EXCEPT ![handle[c]] = c]
  BY <1>2, <1>5 DEF CreateFill
<1>8. /\ callable \in [Node -> MaybeTask] /\ successors \in [Node -> Seq(Node)]
      /\ pending \in [Node -> 0 .. CounterMod - 1]
  BY GraphTypes
<1>9. ASSUME NEW p \in 1 .. created, p # c
      PROVE  /\ successors'[handle[p]] = successors[handle[p]]
             /\ callable'[handle[p]] = callable[handle[p]]
             /\ pending'[handle[p]] = pending[handle[p]]
  <2>1. handle[p] # handle[c] /\ handle[p] \in Node
    BY <1>4, <1>6, <1>9
  <2>2. QED
    BY <1>7, <1>8, <2>1
<1>10. successors'[handle[c]] = <<>> /\ pending'[handle[c]] = 1 /\ callable'[handle[c]] = c
  BY <1>4, <1>6, <1>7, <1>8
<1>11. /\ \A t \in 1 .. created : runs[t] = 0
       /\ \A th \in Thread : Len(stk[th]) = 0
  BY <1>2, BeforeSubmit
<1>12. \A p, d \in Task : <<p, d>> \in prereq => p < d /\ d <= created /\ d # c
  BY <1>1, <1>5 DEF OneBatch, EdgeLists, Filled
<1>13. \A p, d \in 1 .. created : <<p, d>> \in prereq => p # c /\ d # c
  BY <1>4, <1>6, <1>12
<1>14. \A t \in 1 .. created : Filled(t)' /\ (t # c => Filled(t))
  BY <1>2, <1>5 DEF Filled
<1>15. ClientPlace'
  <2>1. \A w \in Worker : loc'[w] = loc[w]
    BY <1>1, TaskGraphAssumption, GraphTypes DEF Goto, Worker
  <2>2. QED
    BY <1>1, <1>2, <1>3, <2>1 DEF OneBatch, ClientPlace
<1>16. FreshNodes'
  BY <1>1, <1>2, <1>3 DEF OneBatch, FreshNodes
<1>17. Callables'
  BY <1>1, <1>3, <1>9, <1>10, <1>14 DEF OneBatch, Callables
<1>18. EdgeLists'
  <2>1. ASSUME NEW p \in 1 .. created
        PROVE  Lists(p)'
    <3>1. CASE p = c
      <4>1. successors'[handle'[p]] = <<>> /\ Len(successors'[handle'[p]]) = 0
        BY <1>3, <1>10, <3>1
      <4>2. \A d \in 1 .. created' : <<p, d>> \notin prereq'
        BY <1>3, <1>13, <3>1
      <4>3. QED
        BY <4>1, <4>2 DEF Lists
    <3>2. CASE p # c
      <4>1. Lists(p)
        BY <1>11 DEF OneBatch, EdgeLists
      <4>2. successors'[handle[p]] = successors[handle[p]] /\ UNCHANGED <<created, handle, prereq>>
        BY <1>3, <1>9, <3>2
      <4>3. QED
        BY <4>1, <4>2, ListsKept
    <3>3. QED
      BY <3>1, <3>2
  <2>2. \A th \in Thread : \A k \in 1 .. Len(stk'[th]) : FALSE
    BY <1>1, <1>11
  <2>3. \A p, d \in Task : <<p, d>> \in prereq' => p < d /\ d <= created' /\ Filled(d)'
    BY <1>2, <1>3, <1>12 DEF Filled
  <2>4. QED
    BY <1>3, <2>1, <2>2, <2>3 DEF EdgeLists
<1>19. Building /\ Building'
  BY <1>2, <1>3, <1>4, <1>11 DEF Building
<1>20. ASSUME NEW d \in 1 .. created
       PROVE  /\ Unmet(d) = {0} \cup {p \in 1 .. created : <<p, d>> \in prereq}
              /\ Unmet(d)' = Unmet(d)
  <2>1. Building' => BuildingShares'
    BY BuildingUnmet, PTL
  <2>2. Unmet(d)' = {0} \cup {p \in 1 .. created' : <<p, d>> \in prereq'}
    BY <1>19, <2>1 DEF BuildingShares
  <2>3. Unmet(d) = {0} \cup {p \in 1 .. created : <<p, d>> \in prereq}
    BY <1>19, BuildingUnmet DEF BuildingShares
  <2>4. QED
    BY <1>3, <2>2, <2>3
<1>21. SharesCounted'
  <2>1. Unmet(c)' = {0}
    BY <1>6, <1>13, <1>20
  <2>2. pending'[handle'[c]] = Cardinality(Unmet(c)')
    BY <1>3, <1>10, <2>1, FS_Singleton
  <2>3. ASSUME NEW t \in 1 .. created, t # c
        PROVE  pending'[handle'[t]] = Cardinality(Unmet(t)')
    BY <1>3, <1>9, <1>14, <1>20, <2>3 DEF OneBatch, SharesCounted
  <2>4. QED
    BY <1>3, <2>2, <2>3 DEF SharesCounted
<1>22. RanReady'
  BY <1>19 DEF RanReady, Building
<1>23. Pointers(ReadyNodes)'
  BY <1>1, <1>2, BuildingPointers
<1>24. QED
  BY <1>15, <1>16, <1>17, <1>18, <1>21, <1>22, <1>23 DEF OneBatch

\* the tasks have a node each, and so are no more than a counter counts
LEMMA CreatedFits ==
  ASSUME TypeInv, FreshNodes
  PROVE  created <= Cardinality(Node) /\ created < CounterMod
<1>1. /\ created \in Nat /\ \A t \in 1 .. created : handle[t] \in Node
      /\ \A t, u \in 1 .. created : handle[t] = handle[u] => t = u
  BY CreatedTypes DEF FreshNodes
<1>2. IsFiniteSet(Node) /\ Cardinality(Node) + Cardinality(Thread) < CounterMod
      /\ CounterMod \in Nat
  BY CounterAssumption, TaskGraphAssumption
<1>3. PICK f : f = [t \in 1 .. created |-> handle[t]]
  OBVIOUS
<1>4. Cardinality(1 .. created) <= Cardinality(Node)
  <2>1. f \in [1 .. created -> Node] /\ DOMAIN f = 1 .. created
    BY <1>1, <1>3
  <2>2. \A t, u \in 1 .. created : f[t] = f[u] => t = u
    BY <1>1, <1>3
  <2>3. f \in Injection(1 .. created, Node)
    BY <2>1, <2>2 DEF Injection, IsInjective
  <2>4. QED
    BY <1>2, <2>3, FS_Injection
<1>5. Cardinality(1 .. created) = created
  BY <1>1, FS_Interval
<1>6. Cardinality(Thread) \in Nat /\ Cardinality(Node) \in Nat
  <2>1. IsFiniteSet(Deque)
    BY TaskGraphAssumption, FS_Interval
  <2>2. IsFiniteSet(Thread)
    BY <2>1, TaskGraphAssumption, FS_AddElement
  <2>3. QED
    BY <1>2, <2>2, FS_CardinalityType
<1>7. QED
  BY <1>1, <1>2, <1>4, <1>5, <1>6

LEMMA AddDependencyBatch ==
  ASSUME TypeInv, OnePlace, OneBatch, AddDependency
  PROVE  OneBatch'
<1>1. /\ loc[Main] = "client" /\ ~submitted /\ batch = 0
      /\ UNCHANGED <<dequeVars, inboxVars, invoke, callable, lane, poolVars, flagVars, threadVars,
                     resetting, resets, created, batch, handle, runs>>
  BY DEF AddDependency, Client, AtHome, OneBatch, ClientPlace
<1>2. UNCHANGED <<dequeVars, inboxVars, invoke, callable, tasks, freeNodes, submitted, loc, idx, stk,
                  dsp, resetting, created, batch, handle, runs>>
  BY <1>1 DEF poolVars, flagVars, threadVars
<1>3. PICK p \in 1 .. created, d \in 1 .. created :
        /\ p < d /\ <<p, d>> \notin prereq
        /\ successors' = [successors EXCEPT ![handle[p]] = Append(@, handle[d])]
        /\ pending' = [pending EXCEPT ![handle[d]] = Inc(@)]
        /\ prereq' = prereq \cup {<<p, d>>}
  <2>1. batch + 1 .. created = 1 .. created
    BY <1>1
  <2>2. QED
    BY <2>1 DEF AddDependency
<1>4. /\ created \in Nat /\ 1 .. created \subseteq Task
      /\ \A t \in 1 .. created : handle[t] \in Node
      /\ \A t, u \in 1 .. created : handle[t] = handle[u] => t = u
  BY CreatedTypes DEF OneBatch, FreshNodes
<1>5. successors \in [Node -> Seq(Node)] /\ pending \in [Node -> 0 .. CounterMod - 1]
  BY GraphTypes
<1>6. /\ \A t \in 1 .. created : runs[t] = 0
      /\ \A th \in Thread : Len(stk[th]) = 0
  BY <1>1, BeforeSubmit
<1>7. \A t \in 1 .. created : Filled(t) /\ Filled(t)'
  BY <1>1, <1>2 DEF Filled
<1>8. ClientPlace'
  BY <1>2 DEF OneBatch, ClientPlace
<1>9. FreshNodes'
  BY <1>2 DEF OneBatch, FreshNodes
<1>10. Callables'
  BY <1>2, <1>7 DEF OneBatch, Callables
<1>11. ASSUME NEW q \in 1 .. created, q # p
       PROVE  Lists(q)'
  <2>1. Lists(q) /\ handle[q] # handle[p] /\ handle[q] \in Node
    BY <1>4, <1>6, <1>11 DEF OneBatch, EdgeLists
  <2>2. successors'[handle[q]] = successors[handle[q]]
    BY <1>3, <1>5, <2>1
  <2>3. \A e : <<q, e>> \in prereq' <=> <<q, e>> \in prereq
    BY <1>3, <1>11
  <2>4. UNCHANGED <<created, handle>> /\ \A e : <<q, e>> \in prereq' <=> <<q, e>> \in prereq
    BY <1>2, <2>3
  <2>5. QED
    BY <2>1, <2>2, <2>4, ListsKept
<1>12. Lists(p)'
  <2>1. PICK s \in Seq(Node) : s = successors[handle[p]]
    BY <1>4, <1>5
  <2>2. successors'[handle[p]] = Append(s, handle[d]) /\ handle[d] \in Node
    <3>1. handle[p] \in Node /\ handle[d] \in Node
      BY <1>4
    <3>2. PICK x \in Node, y \in Node : x = handle[p] /\ y = handle[d]
      BY <3>1
    <3>3. successors' = [successors EXCEPT ![x] = Append(@, y)]
      BY <1>3, <3>2
    <3>4. successors'[x] = Append(successors[x], y)
      BY <1>5, <3>3
    <3>5. QED
      BY <2>1, <3>1, <3>2, <3>4
  <2>3. PICK r \in Seq(Node) : r = Append(s, handle[d])
    BY <2>2
  <2>4. /\ Len(s) \in Nat /\ Len(r) = Len(s) + 1 /\ r[Len(s) + 1] = handle[d]
        /\ \A i \in 1 .. Len(s) : r[i] = s[i]
        /\ \A i \in 1 .. Len(r) : i \in 1 .. Len(s) \/ i = Len(s) + 1
        /\ \A i \in 1 .. Len(s) : i \in 1 .. Len(r)
        /\ Len(s) + 1 \in 1 .. Len(r)
    BY <2>2, <2>3
  <2>5. Lists(p)
    BY <1>6 DEF OneBatch, EdgeLists
  <2>6. ASSUME NEW i \in 1 .. Len(s), s[i] = handle[d]
        PROVE  FALSE
    <3>1. PICK e \in 1 .. created : <<p, e>> \in prereq /\ s[i] = handle[e]
      BY <2>1, <2>5 DEF Lists
    <3>2. e = d
      BY <1>4, <2>6, <3>1
    <3>3. QED
      BY <1>3, <3>1, <3>2
  <2>7. \A i, j \in 1 .. Len(s) : s[i] = s[j] => i = j
    BY <2>1, <2>5 DEF Lists
  <2>8. \A i, j \in 1 .. Len(r) : r[i] = r[j] => i = j
    BY <2>4, <2>6, <2>7
  <2>9. \A i \in 1 .. Len(r) : \E e \in 1 .. created : <<p, e>> \in prereq' /\ r[i] = handle[e]
    BY <1>3, <2>1, <2>4, <2>5 DEF Lists
  <2>10. \A e \in 1 .. created : <<p, e>> \in prereq' => \E i \in 1 .. Len(r) : r[i] = handle[e]
    <3> SUFFICES ASSUME NEW e \in 1 .. created, <<p, e>> \in prereq'
                 PROVE  \E i \in 1 .. Len(r) : r[i] = handle[e]
      OBVIOUS
    <3>1. CASE e = d
      BY <2>4, <3>1
    <3>2. CASE e # d
      <4>1. <<p, e>> \in prereq
        BY <1>3, <3>2
      <4>2. QED
        BY <2>1, <2>4, <2>5, <4>1 DEF Lists
    <3>3. QED
      BY <3>1, <3>2
  <2>11. successors'[handle'[p]] = r
    BY <1>2, <2>2, <2>3
  <2>12. QED
    BY <1>2, <2>8, <2>9, <2>10, <2>11 DEF Lists
<1>13. EdgeLists'
  <2>1. \A q \in 1 .. created : Lists(q)'
    BY <1>11, <1>12
  <2>2. \A th \in Thread : \A k \in 1 .. Len(stk'[th]) : FALSE
    BY <1>2, <1>6
  <2>3. \A q, e \in Task : <<q, e>> \in prereq' => q < e /\ e <= created' /\ Filled(e)'
    <3> SUFFICES ASSUME NEW q \in Task, NEW e \in Task, <<q, e>> \in prereq'
                 PROVE  q < e /\ e <= created' /\ Filled(e)'
      OBVIOUS
    <3>1. CASE <<q, e>> \in prereq
      BY <1>1, <1>2, <3>1 DEF OneBatch, EdgeLists, Filled
    <3>2. CASE q = p /\ e = d
      BY <1>2, <1>3, <1>4, <1>7, <3>2
    <3>3. QED
      BY <1>3, <3>1, <3>2
  <2>4. QED
    BY <1>2, <2>1, <2>2, <2>3 DEF EdgeLists
<1>14. Building /\ Building'
  BY <1>1, <1>2, <1>4, <1>6 DEF Building
<1>15. ASSUME NEW e \in 1 .. created
       PROVE  /\ Unmet(e) = {0} \cup {q \in 1 .. created : <<q, e>> \in prereq}
              /\ Unmet(e)' = {0} \cup {q \in 1 .. created : <<q, e>> \in prereq'}
  <2>1. Building' => BuildingShares'
    BY BuildingUnmet, PTL
  <2>2. Unmet(e)' = {0} \cup {q \in 1 .. created' : <<q, e>> \in prereq'}
    BY <1>14, <2>1 DEF BuildingShares
  <2>3. Unmet(e) = {0} \cup {q \in 1 .. created : <<q, e>> \in prereq}
    BY <1>14, BuildingUnmet DEF BuildingShares
  <2>4. QED
    BY <1>2, <2>2, <2>3
<1>16. ASSUME NEW e \in 1 .. created, e # d
       PROVE  Unmet(e)' = Unmet(e)
  BY <1>3, <1>15, <1>16
<1>17. Unmet(d)' = Unmet(d) \cup {p} /\ p \notin Unmet(d)
  <2>1. p # 0
    OBVIOUS
  <2>2. QED
    BY <1>3, <1>15, <2>1
<1>18. SharesCounted'
  <2>1. /\ IsFiniteSet(Unmet(d)) /\ Unmet(d) \subseteq 0 .. d - 1
        /\ pending[handle[d]] = Cardinality(Unmet(d))
    BY <1>7, UnmetFinite DEF OneBatch, SharesCounted
  <2>2. Cardinality(Unmet(d)') = Cardinality(Unmet(d)) + 1 /\ IsFiniteSet(Unmet(d)')
    BY <1>17, <2>1, FS_AddElement
  <2>3. Cardinality(Unmet(d)') <= d
    <3>1. p \in 0 .. d - 1
      BY <1>3, <1>4
    <3>2. Unmet(d)' \subseteq 0 .. d - 1
      BY <1>17, <2>1, <3>1
    <3>3. IsFiniteSet(0 .. d - 1) /\ Cardinality(0 .. d - 1) = d
      BY <1>4, FS_Interval
    <3>4. QED
      BY <3>2, <3>3, FS_Subset
  <2>4. created < CounterMod /\ CounterMod \in Nat \ {0}
    BY CreatedFits, TaskGraphAssumption DEF OneBatch
  <2>5. Cardinality(Unmet(d)) \in Nat
    BY <2>1, FS_CardinalityType
  <2>6. Cardinality(Unmet(d)) + 1 \in 0 .. CounterMod - 1
    BY <1>4, <2>2, <2>3, <2>4, <2>5
  <2>7. Inc(pending[handle[d]]) = Cardinality(Unmet(d)) + 1
    BY <2>1, <2>4, <2>6, SmallRemainder DEF Inc
  <2>8. pending'[handle'[d]] = Cardinality(Unmet(d)')
    BY <1>2, <1>3, <1>4, <1>5, <2>2, <2>7
  <2>9. ASSUME NEW t \in 1 .. created, t # d
        PROVE  pending'[handle'[t]] = Cardinality(Unmet(t)')
    <3>1. handle[t] # handle[d] /\ handle[t] \in Node
      BY <1>4, <2>9
    <3>2. pending'[handle[t]] = pending[handle[t]]
      BY <1>3, <1>5, <3>1
    <3>3. QED
      BY <1>2, <1>7, <1>16, <2>9, <3>2 DEF OneBatch, SharesCounted
  <2>10. QED
    BY <1>2, <2>8, <2>9 DEF SharesCounted
<1>19. RanReady'
  BY <1>14 DEF RanReady, Building
<1>20. Pointers(ReadyNodes)'
  BY <1>1, <1>2, BuildingPointers
<1>21. QED
  BY <1>8, <1>9, <1>10, <1>13, <1>18, <1>19, <1>20 DEF OneBatch

LEMMA SubmitBatch ==
  ASSUME TypeInv, OnePlace, OneBatch, Submit
  PROVE  OneBatch'
<1>1. /\ loc[Main] = "client" /\ ~submitted /\ submitted' = TRUE /\ Goto(Main, "submit")
      /\ idx' = [idx EXCEPT ![Main] = 1]
      /\ UNCHANGED <<dequeVars, inboxVars, invoke, callable, pending, successors, tasks, freeNodes,
                     stk, dsp, resetting, created, batch, handle, prereq, runs>>
  BY DEF Submit, Client, AtHome, nodeVars, poolVars, histVars
<1>2. loc'[Main] = "submit" /\ idx'[Main] = 1 /\ \A w \in Worker : loc'[w] = loc[w]
  BY <1>1, TaskGraphAssumption, GraphTypes DEF Goto, Worker
<1>3. created \in Nat /\ \A t \in 1 .. created : runs[t] = 0
  BY <1>1, CreatedTypes, BeforeSubmit
<1>4. \A d \in 1 .. created : SubmitOwes(d)' = SubmitOwes(d)
  BY <1>1, <1>2 DEF SubmitOwes
<1>5. ClientQuiet /\ StacksQuiet /\ \A n \in Node : invoke'[n] \in {invoke[n], NoTask}
  BY <1>1, <1>2, <1>4, StackStays DEF ClientQuiet
<1>6. ClientPlace'
  BY <1>1, <1>2 DEF OneBatch, ClientPlace
<1>7. FreshNodes' /\ EdgeLists'
  BY <1>1, <1>2, <1>5, QuietFresh, QuietLists DEF OneBatch
<1>8. \A t \in 1 .. created : Filled(t) /\ Filled(t)'
  BY <1>1, <1>2 DEF Filled
<1>9. Callables'
  BY <1>1, <1>8 DEF OneBatch, Callables
<1>10. \A t \in 1 .. created : Unmet(t)' = Unmet(t)
  BY <1>1, <1>3, <1>4, <1>5, PassingStays, UnmetStays
<1>11. SharesCounted'
  BY <1>1, <1>8, <1>10 DEF OneBatch, SharesCounted
<1>12. RanReady'
  BY <1>1, <1>3 DEF RanReady
<1>13. Pointers(ReadyNodes)'
  BY <1>1, BuildingPointers
<1>14. QED
  BY <1>6, <1>7, <1>9, <1>11, <1>12, <1>13 DEF OneBatch

LEMMA SubmitTaskBatch ==
  ASSUME TypeInv, OnePlace, OneBatch, SubmitTask
  PROVE  OneBatch'
<1>1. /\ loc[Main] = "submit" /\ stk[Main] = <<>> /\ ~Dispatching(Main) /\ submitted
      /\ idx[Main] <= Len(tasks) /\ idx' = [idx EXCEPT ![Main] = @ + 1]
      /\ UNCHANGED <<inboxVars, invoke, callable, successors, tasks, freeNodes, submitted, loc, stk,
                     resetting, created, batch, handle, prereq, runs>>
  BY DEF SubmitTask, AtHome, poolVars, histVars, OneBatch, ClientPlace
<1>2. /\ created \in Nat /\ 1 .. created \subseteq Task
      /\ \A t \in 1 .. created : handle[t] \in Node /\ t \in Nat
      /\ \A t, u \in 1 .. created : handle[t] = handle[u] => t = u
      /\ Len(tasks) = created /\ \A t \in 1 .. created : tasks[t] = handle[t]
  BY <1>1, CreatedTypes DEF OneBatch, FreshNodes
<1>3. PICK d \in 1 .. created : d = idx[Main]
  <2>1. idx[Main] \in Nat /\ idx[Main] > 0
    BY <1>1, GraphTypes DEF TypeInv, HandlesOK
  <2>2. QED
    BY <1>1, <1>2, <2>1
<1>4. /\ pending' = [pending EXCEPT ![handle[d]] = Dec(@)]
      /\ (pending[handle[d]] = 1 /\ Dispatch(Main, handle[d])) \/ UNCHANGED <<dequeVars, laneRr, dsp>>
  BY <1>2, <1>3 DEF SubmitTask
<1>5. idx'[Main] = d + 1
  BY <1>1, <1>3, GraphTypes
<1>6. \A e \in 1 .. created : e # d => SubmitOwes(e)' = SubmitOwes(e)
  BY <1>1, <1>2, <1>3, <1>5 DEF SubmitOwes
<1>7. SubmitOwes(d) /\ ~SubmitOwes(d)'
  BY <1>1, <1>2, <1>3, <1>5 DEF SubmitOwes
<1>8. StacksQuiet /\ \A n \in Node : invoke'[n] \in {invoke[n], NoTask}
  BY <1>1, StackStays
<1>9. \A t \in 1 .. created : \A e : Owes(t, e)' <=> Owes(t, e)
  BY <1>1, <1>8, PassingStays, OwesStays
<1>10. \A e \in 1 .. created : e # d => Unmet(e)' = Unmet(e)
  BY <1>1, <1>2, <1>6, <1>9, UnmetByOwes
<1>11. 0 \in Unmet(d) /\ Unmet(d)' = Unmet(d) \ {0}
  <2>1. Unmet(d)' = {p \in 0 .. created : IF p = 0 THEN SubmitOwes(d)' ELSE Owes(p, d)'}
    BY <1>1 DEF Unmet
  <2>2. ASSUME NEW p \in 0 .. created
        PROVE  (IF p = 0 THEN SubmitOwes(d)' ELSE Owes(p, d)')
                 <=> (p # 0 /\ IF p = 0 THEN SubmitOwes(d) ELSE Owes(p, d))
    <3>1. p = 0 \/ p \in 1 .. created
      BY <1>2
    <3>2. QED
      BY <1>7, <1>9, <3>1
  <2>3. 0 \in Unmet(d)
    BY <1>2, <1>7 DEF Unmet
  <2>4. QED
    BY <2>1, <2>2, <2>3 DEF Unmet
<1>12. \A t \in 1 .. created : Filled(t) /\ Filled(t)'
  BY <1>1 DEF Filled
<1>13. SharesCounted' /\ (pending[handle[d]] = 1 => Unmet(d)' = {})
  BY <1>1, <1>4, <1>10, <1>11, <1>12, ShareHandedIn DEF OneBatch
<1>14. ReadyNodes \subseteq ReadyNodes' /\ \A u \in 1 .. created : Ready(u) => Ready(u)'
  <2>1. \A u \in 1 .. created : Unmet(u)' \subseteq Unmet(u)
    BY <1>10, <1>11
  <2>2. QED
    BY <1>1, <2>1, ReadyGrows
<1>15. ClientPlace' /\ Callables'
  BY <1>1 DEF OneBatch, ClientPlace, Callables, Filled
<1>16. FreshNodes'
  BY <1>1 DEF OneBatch, FreshNodes
<1>17. EdgeLists'
  BY <1>1, <1>8, QuietLists DEF OneBatch
<1>18. RanReady'
  BY <1>1, <1>14 DEF OneBatch, RanReady
<1>19. pending[handle[d]] = 1 => handle[d] \in ReadyNodes'
  BY <1>1, <1>13 DEF ReadyNodes, Ready
<1>20. Pointers(ReadyNodes)'
  <2>1. PICK ns : ns = ReadyNodes'
    OBVIOUS
  <2>2. Pointers(ns)
    BY <1>14, <2>1, PointersGrow DEF OneBatch
  <2>3. (Dispatch(Main, handle[d]) /\ handle[d] \in ns) \/ UNCHANGED <<dequeVars, laneRr, dsp>>
    BY <1>4, <1>19, <2>1
  <2>4. dq[Main].pc = "idle" /\ handle[d] \in Node /\ Main \in Thread
    BY <1>1, <1>2, GraphTypes DEF TypeInv, ControlOK, Control, Dispatching
  <2>5. Held(ns)' /\ DispatchNodes(ns)'
    BY <2>2, <2>3, <2>4, DispatchPointers DEF Pointers
  <2>6. Pointers(ns)'
    BY <1>1, <2>2, <2>5 DEF Pointers, InboxNodes, StackNodes, inboxVars
  <2>7. QED
    BY <2>1, <2>6 DEF Pointers, Held, InboxNodes, DispatchNodes, StackNodes
<1>21. QED
  BY <1>13, <1>15, <1>16, <1>17, <1>18, <1>20 DEF OneBatch

-----------------------------------------------------------------------------
(* Every step of one batch *)

LEMMA ExecuteBatch ==
  ASSUME TypeInv, OnePlace, OneBatch, NEW th \in Thread, ExecuteStep(th)
  PROVE  OneBatch'
<1>1. CASE Body(th) \/ Successor(th) \/ Recycle(th) \/ FreeNode(th) \/ Retire(th)
  BY <1>1, BodyBatch, SuccessorBatch, RecycleBatch, FreeNodeBatch, RetireBatch
<1>2. CASE DispatchPushed(th) \/ DispatchReserve(th) \/ DispatchPublish(th)
           \/ DispatchInline(th) \/ Deques(th)
  BY <1>2, DispatchBatch, InlineBatch, DequesBatch
<1>3. QED
  BY <1>1, <1>2 DEF ExecuteStep

LEMMA TakeStepBatch ==
  ASSUME TypeInv, OneBatch, NEW th \in Thread, TakeStep(th)
  PROVE  OneBatch'
BY TakeBatch, StealBatch, ReleaseBatch, TakenBatch DEF TakeStep

LEMMA ClientBatch ==
  ASSUME TypeInv, OnePlace, NodesWait, OneBatch, ~LiveCreates, MaxResets = 0,
         ClientChoice \/ ClientStep
  PROVE  OneBatch'
<1>1. CASE CreateTake \/ CreateFill \/ CreateCount
  BY <1>1, CreateTakeBatch, CreateFillBatch, CreateCountBatch
<1>2. CASE AddDependency \/ Submit \/ SubmitTask \/ SubmitReturn
  BY <1>2, AddDependencyBatch, SubmitBatch, SubmitTaskBatch, SubmitReturnBatch
<1>3. CASE CallWait \/ WaitHelp \/ WaitReturn \/ Destroy
  BY <1>3, WaitBatch
<1>4. CASE Join
  BY <1>4, JoinBatch
<1>5. ~Reset
  BY DEF OneBatch, ClientPlace, Reset
<1>6. QED
  BY <1>1, <1>2, <1>3, <1>4, <1>5 DEF ClientChoice, ClientStep

LEMMA StutterBatch ==
  ASSUME TypeInv, OneBatch, UNCHANGED vars
  PROVE  OneBatch'
<1>1. UNCHANGED <<dequeVars, inboxVars, nodeVars, poolVars, flagVars, threadVars, histVars>>
  BY DEF vars
<1>2. UNCHANGED <<dequeVars, inboxVars, invoke, callable, pending, successors, tasks, freeNodes,
                  submitted, loc, idx, stk, dsp, resetting, created, batch, handle, prereq, runs>>
  BY <1>1 DEF nodeVars, poolVars, flagVars, threadVars, histVars
<1>3. ClientPlace'
  BY <1>2 DEF OneBatch, ClientPlace
<1>4. ClientQuiet
  BY <1>2 DEF ClientQuiet, SubmitOwes
<1>5. \A ns : Pointers(ns) => Pointers(ns)'
  BY <1>2 DEF Pointers, Held, InboxNodes, DispatchNodes, StackNodes, dequeVars, inboxVars
<1>6. StacksQuiet /\ \A n \in Node : invoke'[n] \in {invoke[n], NoTask}
  BY <1>2, StackStays
<1>7. QED
  BY <1>2, <1>3, <1>4, <1>5, <1>6, PassedOn

LEMMA NextBatch ==
  ASSUME TypeInv, OnePlace, NodesWait, OneBatch, ~LiveCreates, MaxResets = 0, [Next]_vars
  PROVE  OneBatch'
BY ExecuteBatch, TakeStepBatch, WorkerBatch, ClientBatch, StutterBatch DEF Next, ThreadStep

LEMMA InitBatch == Init => OneBatch
<1> SUFFICES ASSUME Init
             PROVE  OneBatch
  OBVIOUS
<1>1. TypeInv
  BY InitTyped
<1>2. /\ created = 0 /\ batch = 0 /\ ~submitted /\ ~resetting /\ prereq = {}
      /\ tasks = <<>> /\ freeNodes = <<>> /\ cells = <<>>
      /\ \A n \in Node : invoke[n] = NoTask
      /\ \A th \in Thread : stk[th] = <<>> /\ taking[th] = NoNode /\ dsp[th] = NotDispatching
      /\ loc[Main] = "client"
  BY TaskGraphAssumption DEF Init, InboxInit
<1>3. 1 .. created = {} /\ \A th \in Thread : 1 .. Len(stk[th]) = {}
  BY <1>2
<1>4. Len(tasks) = created /\ Len(freeNodes) = 0 /\ 1 .. Len(cells) = {}
  BY <1>2
<1>5. ClientPlace
  BY <1>2, <1>4 DEF ClientPlace
<1>6. FreshNodes
  BY <1>2, <1>3, <1>4 DEF FreshNodes
<1>7. Callables /\ SharesCounted /\ RanReady
  BY <1>3 DEF Callables, SharesCounted, RanReady
<1>8. EdgeLists
  BY <1>2, <1>3 DEF EdgeLists
<1>9. Held(ReadyNodes)
  BY DEF Init, DequeInit, Held
<1>10. Pointers(ReadyNodes)
  BY <1>2, <1>3, <1>4, <1>9 DEF Pointers, InboxNodes, DispatchNodes, StackNodes, NotDispatching
<1>11. QED
  BY <1>5, <1>6, <1>7, <1>8, <1>10 DEF OneBatch

\* The inductive invariant of one batch on fresh nodes, for a client that neither
\* resets the graph nor creates tasks after submit: pending counts exactly the shares
\* still owed, successors lists each dependent once, and no thread ever gets at the
\* node of a task to which something is owed.
THEOREM GraphBatchInduction ==
  ASSUME ~LiveCreates, MaxResets = 0
  PROVE  Spec => []BatchInduction
<1>1. Init => BatchInduction
  BY InitTyped, InitOneEach, InitNested, InitBatch DEF BatchInduction, GraphInv, OneEach
<1>2. BatchInduction /\ [Next]_vars => BatchInduction'
  BY GraphInvStep, NextBatch DEF BatchInduction, GraphInv, NodesHeldOnce
<1>3. QED
  BY <1>1, <1>2, PTL DEF Spec

\* Within one batch every body runs after the bodies of its prerequisites, and
\* every thread about to call a body finds its callable in the node.
THEOREM GraphBatchInv ==
  ASSUME ~LiveCreates, MaxResets = 0
  PROVE  Spec => []BatchInv
<1>1. ASSUME BatchInduction
      PROVE  BatchInv
  <2>1. TypeInv /\ OnePlace /\ OneBatch
    BY <1>1 DEF BatchInduction, GraphInv
  <2>2. ASSUME NEW p \in Task, NEW d \in Task, <<p, d>> \in prereq, runs[d] > 0
        PROVE  runs[p] > 0
    <3>1. created \in Nat /\ p < d /\ d <= created /\ p \in 1 .. created /\ d \in 1 .. created
      BY <2>1, <2>2, CreatedTypes DEF OneBatch, EdgeLists, Task
    <3>2. Unmet(d) = {}
      BY <2>1, <2>2, <3>1 DEF OneBatch, RanReady, Ready
    <3>3. p \in 0 .. created /\ p # 0
      BY <3>1
    <3>4. ~Owes(p, d)
      BY <3>2, <3>3 DEF Unmet
    <3>5. runs[p] # 0 /\ runs[p] \in Nat
      BY <2>1, <2>2, <3>1, <3>4, CreatedTypes DEF Owes
    <3>6. QED
      BY <3>5
  <2>3. DependencyOrder
    <3>1. prereq \subseteq Task \X Task
      BY <2>1 DEF TypeInv, TypeOK, HistTypeOK
    <3>2. QED
      BY <2>2, <3>1 DEF DependencyOrder
  <2>4. ASSUME NEW th \in Thread, NEW k \in 1 .. Len(stk[th]), stk[th][k].at = "body"
        PROVE  callable[stk[th][k].node] = stk[th][k].task
    <3>1. /\ stk[th][k].task \in 1 .. created /\ handle[stk[th][k].task] = stk[th][k].node
          /\ loc[Main] # "create_fill"
      BY <2>1, ActiveReady DEF OneBatch, ClientPlace
    <3>2. runs[stk[th][k].task] = 0
      BY <2>1, <2>4 DEF OnePlace
    <3>3. loc[Main] # "gone"
      <4>1. stk[th] # <<>>
        OBVIOUS
      <4>2. loc[th] \notin {"exited", "gone"}
        BY <2>1, <4>1 DEF TypeInv, ControlOK, Control
      <4>3. QED
        BY <2>1, <4>2, TaskGraphAssumption DEF OneBatch, ClientPlace, Worker
    <3>4. QED
      BY <2>1, <3>1, <3>2, <3>3 DEF OneBatch, Callables, Filled
  <2>5. QED
    BY <2>1, <2>3, <2>4 DEF BatchInv, BodySeesItsCallable, TypeInv
<1>2. QED
  BY <1>1, GraphBatchInduction, PTL

-----------------------------------------------------------------------------
(* The promise of TaskGraphSpec *)

CreatedTasks == {t \in Task : t < created \/ (t = created /\ Counted)}
RanTasks == {t \in Task : runs[t] > 0}
Waiting == loc[Main] \in {"wait", "help", "stealing", "releasing"}

\* a step the client cannot tell from no step
LEMMA PromiseStays ==
  ASSUME UNCHANGED <<created, prereq, submitted, runs>>,
         Counted' = Counted, Waiting' = Waiting
  PROVE  UNCHANGED Promise!vars
<1>1. CreatedTasks' = CreatedTasks /\ RanTasks' = RanTasks
  BY DEF CreatedTasks, RanTasks
<1>2. QED
  BY <1>1 DEF Promise!vars, CreatedTasks, RanTasks, Waiting

LEMMA CreatedSoFar ==
  ASSUME TypeInv
  PROVE  /\ \A t \in CreatedTasks : t \in 1 .. created
         /\ Counted => \A t \in 1 .. created : t \in CreatedTasks
         /\ created \notin CreatedTasks \/ Counted
<1>1. created \in Nat /\ 1 .. created \subseteq Task /\ \A t \in Task : t \in Nat /\ t > 0
  BY CreatedTypes DEF Task
<1>2. \A t \in Task : t <= created => t \in 1 .. created
  BY <1>1
<1>3. QED
  BY <1>1, <1>2 DEF CreatedTasks

LEMMA BodyPromise ==
  ASSUME TypeInv, OnePlace, OneBatch, NEW th \in Thread, Body(th)
  PROVE  Promise!Next
<1>1. /\ Executing(th) /\ Frm(th).at = "body"
      /\ runs' = [runs EXCEPT ![Frm(th).task] = @ + 1]
      /\ UNCHANGED <<submitted, loc, created, prereq>>
  BY DEF Body, flagVars
<1>2. /\ stk[th] # <<>> /\ Frm(th).task \in 1 .. created /\ submitted /\ Ready(Frm(th).task)
      /\ loc[Main] # "create_fill" /\ runs[Frm(th).task] = 0
  BY <1>1, TopReady, TopFrame, ExecutingFacts, GraphTypes DEF OnePlace
<1>3. PICK t \in 1 .. created : t = Frm(th).task
  BY <1>2
<1>4. created \in Nat /\ t \in Task /\ runs \in [Task -> Nat] /\ \A p \in Task : runs[p] \in Nat
  BY CreatedTypes, GraphTypes
<1>5. Counted
  BY <1>2 DEF OneBatch, ClientPlace, Counted
<1>6. t \in CreatedTasks \ RanTasks
  BY <1>2, <1>3, <1>4, <1>5, CreatedSoFar DEF RanTasks
<1>7. ASSUME NEW p \in CreatedTasks, <<p, t>> \in prereq
      PROVE  p \in RanTasks
  <2>1. p \in 1 .. created /\ p \in Task
    BY CreatedSoFar DEF CreatedTasks
  <2>2. p \in 0 .. created /\ p # 0
    BY <2>1
  <2>3. ~Owes(p, t)
    BY <1>2, <1>3, <2>2 DEF Ready, Unmet
  <2>4. runs[p] # 0
    BY <1>7, <2>3 DEF Owes
  <2>5. QED
    BY <1>4, <2>1, <2>4 DEF RanTasks
<1>8. RanTasks' = RanTasks \cup {t}
  <2>1. \A p \in Task : runs'[p] = IF p = t THEN runs[p] + 1 ELSE runs[p]
    BY <1>1, <1>3, <1>4
  <2>2. \A p \in Task : runs'[p] > 0 <=> runs[p] > 0 \/ p = t
    BY <1>4, <2>1
  <2>3. QED
    BY <1>4, <2>2 DEF RanTasks
<1>9. CreatedTasks' = CreatedTasks /\ Waiting' = Waiting
  BY <1>1 DEF CreatedTasks, Counted, Waiting
<1>10. Promise!Run(t)
  BY <1>1, <1>2, <1>6, <1>7, <1>8, <1>9 DEF Promise!Run, CreatedTasks, RanTasks, Waiting
<1>11. QED
  BY <1>4, <1>10 DEF Promise!Next

LEMMA ThreadPromise ==
  ASSUME TypeInv, OnePlace, OneBatch, NEW th \in Thread, ThreadStep(th)
  PROVE  [Promise!Next]_(Promise!vars)
<1>1. CASE Body(th)
  BY <1>1, BodyPromise
<1>2. CASE ExecuteStep(th) /\ ~Body(th)
  <2>1. UNCHANGED <<created, prereq, submitted, runs, loc>>
    BY <1>2 DEF ExecuteStep, Successor, Recycle, FreeNode, Retire, DispatchPushed, DispatchReserve,
       DispatchPublish, DispatchInline, Deques, flagVars, threadVars, histVars
  <2>2. QED
    BY <2>1, PromiseStays DEF Counted, Waiting
<1>3. CASE TakeStep(th)
  <2>1. UNCHANGED <<created, prereq, submitted, runs>>
    BY <1>3 DEF TakeStep, TakeInbox, InboxEmpty, ReleaseAndEnter, EnterTaken, StealFailed, flagVars,
       histVars
  <2>2. PICK l \in {"releasing", "stealing", Home(th)} : Goto(th, l)
    BY <1>3 DEF TakeStep, TakeInbox, InboxEmpty, ReleaseAndEnter, EnterTaken, StealFailed, StealFrom
  <2>3. loc[th] \in {"popping", "help", "releasing", "stealing"}
    BY <1>3 DEF TakeStep, TakeInbox, InboxEmpty, ReleaseAndEnter, EnterTaken, StealFailed,
       InboxTurn, AtHome
  <2>4. loc'[Main] = loc[Main] \/ (Waiting /\ Waiting' /\ Counted /\ Counted')
    <3>1. CASE th = Main
      <4>1. loc'[Main] = l /\ l \in {"releasing", "stealing", "wait"}
        BY <2>2, <3>1, GraphTypes DEF Goto, Home
      <4>2. loc[Main] \in {"help", "releasing", "stealing"}
        BY <2>3, <3>1 DEF OneBatch, ClientPlace
      <4>3. QED
        BY <4>1, <4>2 DEF Waiting, Counted
    <3>2. CASE th # Main
      BY <2>2, <3>2, GraphTypes DEF Goto
    <3>3. QED
      BY <3>1, <3>2
  <2>5. QED
    BY <2>1, <2>4, PromiseStays DEF Waiting, Counted
<1>4. QED
  BY <1>1, <1>2, <1>3 DEF ThreadStep

LEMMA WorkerPromise ==
  ASSUME TypeInv, NEW w \in Worker, WorkerStep(w)
  PROVE  UNCHANGED Promise!vars
<1>1. UNCHANGED <<created, prereq, submitted, runs>> /\ \E l : Goto(w, l)
  BY DEF WorkerStep, WorkerPop, WorkerExit, flagVars, histVars
<1>2. loc'[Main] = loc[Main]
  BY <1>1, GraphTypes, TaskGraphAssumption DEF Goto, Worker
<1>3. QED
  BY <1>1, <1>2, PromiseStays DEF Waiting, Counted

LEMMA CreatePromise ==
  ASSUME TypeInv, OnePlace, OneBatch, ~LiveCreates, CreateTake \/ CreateFill \/ CreateCount
  PROVE  [Promise!Next]_(Promise!vars)
<1>1. created \in Nat /\ UNCHANGED <<prereq, submitted, runs>> /\ \A t \in Task : t \in Nat
  BY CreatedTypes DEF CreateTake, CreateFill, CreateCount, flagVars, histVars, Task
<1>2. CASE CreateTake
  <2>1. created' = created + 1 /\ loc[Main] = "client" /\ loc'[Main] = "create_fill"
    BY <1>2, GraphTypes DEF CreateTake, GiveNode, Client, AtHome, Goto
  <2>2. CreatedTasks' = CreatedTasks
    <3>1. Counted /\ ~Counted'
      BY <2>1 DEF Counted
    <3>2. \A t \in Task : t < created' <=> t < created \/ t = created
      BY <1>1, <2>1
    <3>3. QED
      BY <3>1, <3>2 DEF CreatedTasks
  <2>3. RanTasks' = RanTasks /\ Waiting' = Waiting
    BY <1>1, <2>1 DEF RanTasks, Waiting
  <2>4. QED
    BY <1>1, <2>2, <2>3 DEF Promise!vars, CreatedTasks, RanTasks, Waiting
<1>3. CASE CreateFill
  <2>1. UNCHANGED created /\ loc[Main] = "create_fill" /\ loc'[Main] = "create_count"
    BY <1>3, GraphTypes DEF CreateFill, AtHome, Goto, histVars
  <2>2. QED
    BY <1>1, <2>1, PromiseStays DEF Waiting, Counted
<1>4. CASE CreateCount
  <2>1. UNCHANGED created /\ loc[Main] = "create_count" /\ loc'[Main] = "client"
    BY <1>4, GraphTypes DEF CreateCount, AtHome, Goto, histVars
  <2>2. ~submitted /\ created \in Task
    BY <2>1, LastTask DEF OneBatch, ClientPlace
  <2>3. ~Counted /\ Counted'
    BY <2>1 DEF Counted
  <2>4. created \notin CreatedTasks
    BY <2>3, CreatedSoFar
  <2>5. CreatedTasks' = CreatedTasks \cup {created}
    BY <2>1, <2>2, <2>3 DEF CreatedTasks
  <2>6. RanTasks' = RanTasks /\ Waiting' = Waiting
    BY <1>1, <2>1 DEF RanTasks, Waiting
  <2>7. PICK t \in Task : t = created
    BY <2>2
  <2>8. Promise!Create(t)
    BY <1>1, <2>2, <2>4, <2>5, <2>6, <2>7 DEF Promise!Create, CreatedTasks, RanTasks, Waiting
  <2>9. QED
    BY <2>8 DEF Promise!Next
<1>5. QED
  BY <1>2, <1>3, <1>4

LEMMA SubmitPromise ==
  ASSUME TypeInv, OnePlace, OneBatch, AddDependency \/ Submit \/ SubmitTask \/ SubmitReturn
  PROVE  [Promise!Next]_(Promise!vars)
<1>1. UNCHANGED <<created, runs>>
  BY DEF AddDependency, Submit, SubmitTask, SubmitReturn, histVars
<1>2. CreatedTasks' = CreatedTasks /\ RanTasks' = RanTasks /\ Waiting' = Waiting /\ Counted
  <2>1. \/ UNCHANGED loc
        \/ loc[Main] = "client" /\ Goto(Main, "submit")
        \/ loc[Main] = "submit" /\ Goto(Main, "client")
    BY DEF AddDependency, Submit, SubmitTask, SubmitReturn, Client, AtHome, threadVars
  <2>2. \/ loc'[Main] = loc[Main]
        \/ loc[Main] \in {"client", "submit"} /\ loc'[Main] \in {"client", "submit"}
    BY <2>1, GraphTypes DEF Goto
  <2>3. loc[Main] \in {"client", "submit"}
    BY DEF AddDependency, Submit, SubmitTask, SubmitReturn, Client, AtHome
  <2>4. QED
    BY <1>1, <2>2, <2>3 DEF CreatedTasks, RanTasks, Waiting, Counted
<1>3. CASE AddDependency
  <2>1. ~submitted /\ UNCHANGED submitted /\ batch + 1 .. created = 1 .. created
    BY <1>3 DEF AddDependency, flagVars, OneBatch, ClientPlace
  <2>2. PICK p \in 1 .. created, d \in 1 .. created : p < d /\ prereq' = prereq \cup {<<p, d>>}
    BY <1>3, <2>1 DEF AddDependency
  <2>3. p \in CreatedTasks /\ d \in CreatedTasks \ {p} /\ p \in Task /\ d \in Task
    BY <1>2, <2>2, CreatedSoFar, CreatedTypes
  <2>4. Promise!AddDependency(p, d)
    BY <1>2, <2>1, <2>2, <2>3 DEF Promise!AddDependency, CreatedTasks, RanTasks, Waiting
  <2>5. QED
    BY <2>3, <2>4 DEF Promise!Next
<1>4. CASE Submit
  <2>1. ~submitted /\ submitted' = TRUE /\ UNCHANGED prereq
    BY <1>4 DEF Submit, histVars
  <2>2. Promise!Submit
    BY <1>2, <2>1 DEF Promise!Submit, CreatedTasks, RanTasks, Waiting
  <2>3. QED
    BY <2>2 DEF Promise!Next
<1>5. CASE SubmitTask \/ SubmitReturn
  <2>1. UNCHANGED <<prereq, submitted>>
    BY <1>5 DEF SubmitTask, SubmitReturn, flagVars, histVars
  <2>2. QED
    BY <1>2, <2>1 DEF Promise!vars, CreatedTasks, RanTasks, Waiting
<1>6. QED
  BY <1>3, <1>4, <1>5

LEMMA WaitPromise ==
  ASSUME BatchInduction, CallWait \/ WaitHelp \/ WaitReturn \/ Destroy \/ Join
  PROVE  [Promise!Next]_(Promise!vars)
<1>1. TypeInv /\ OnePlace /\ HeldOnce /\ Nested /\ Accounted /\ OneBatch
  BY DEF BatchInduction, GraphInv, NodesHeldOnce
<1>2. UNCHANGED <<created, prereq, submitted, runs>>
  BY DEF CallWait, WaitHelp, WaitReturn, Destroy, Join, flagVars, histVars
<1>3. loc[Main] \in {"client", "wait", "join"} /\ loc'[Main] \in {"client", "wait", "help", "join", "gone"}
  BY <1>1, GraphTypes DEF CallWait, WaitHelp, WaitReturn, Destroy, Join, Client, AtHome, Goto
<1>4. CreatedTasks' = CreatedTasks /\ RanTasks' = RanTasks /\ Counted
  BY <1>2, <1>3 DEF CreatedTasks, RanTasks, Counted
<1>5. CASE CallWait
  <2>1. ~Waiting /\ Waiting'
    BY <1>1, <1>5, GraphTypes DEF CallWait, Client, AtHome, Goto, Waiting
  <2>2. Promise!Wait
    BY <1>2, <1>4, <2>1 DEF Promise!Wait, CreatedTasks, RanTasks, Waiting
  <2>3. QED
    BY <2>2 DEF Promise!Next
<1>6. CASE WaitReturn
  <2>1. Waiting /\ ~Waiting'
    BY <1>1, <1>6, GraphTypes DEF WaitReturn, AtHome, Goto, Waiting
  <2>2. \A t \in 1 .. created : runs[t] = 1
    BY <1>1, <1>4, <1>6, ZeroMeansFinished DEF WaitReturn
  <2>3. RanTasks = CreatedTasks
    <3>1. \A t \in CreatedTasks : t \in RanTasks
      BY <1>1, <2>2, CreatedSoFar DEF RanTasks, CreatedTasks
    <3>2. ASSUME NEW t \in RanTasks
          PROVE  t \in CreatedTasks
      <4>1. t \in Task /\ runs[t] # 0 /\ t \in Nat \ {0} /\ created \in Nat
        BY <1>1, CreatedTypes DEF RanTasks, Task
      <4>2. ~(t > created)
        BY <1>1, <4>1 DEF OnePlace
      <4>3. t \in 1 .. created
        BY <4>1, <4>2
      <4>4. QED
        BY <1>1, <1>4, <4>3, CreatedSoFar
    <3>3. QED
      BY <3>1, <3>2
  <2>4. Promise!WaitReturn
    BY <1>2, <1>4, <2>1, <2>3 DEF Promise!WaitReturn, CreatedTasks, RanTasks, Waiting
  <2>5. QED
    BY <2>4 DEF Promise!Next
<1>7. CASE WaitHelp \/ Destroy \/ Join
  <2>1. Waiting' = Waiting
    BY <1>1, <1>7, GraphTypes DEF WaitHelp, Destroy, Join, Client, AtHome, Goto, Waiting
  <2>2. QED
    BY <1>2, <1>4, <2>1 DEF Promise!vars, CreatedTasks, RanTasks, Waiting
<1>8. QED
  BY <1>5, <1>6, <1>7

LEMMA PromiseStep ==
  ASSUME BatchInduction, ~LiveCreates, [Next]_vars
  PROVE  [Promise!Next]_(Promise!vars)
<1>1. TypeInv /\ OnePlace /\ OneBatch
  BY DEF BatchInduction, GraphInv
<1>2. CASE \E th \in Thread : ThreadStep(th)
  BY <1>1, <1>2, ThreadPromise
<1>3. CASE \E w \in Worker : WorkerStep(w)
  BY <1>1, <1>3, WorkerPromise
<1>4. CASE ClientChoice \/ ClientStep
  <2>1. ~Reset
    BY <1>1 DEF OneBatch, ClientPlace, Reset
  <2>2. QED
    BY <1>1, <1>4, <2>1, CreatePromise, SubmitPromise, WaitPromise DEF ClientChoice, ClientStep
<1>5. CASE UNCHANGED vars
  <2>1. UNCHANGED <<created, prereq, submitted, runs, loc>>
    BY <1>5 DEF vars, flagVars, threadVars, histVars
  <2>2. QED
    BY <2>1, PromiseStays DEF Counted, Waiting
<1>6. QED
  BY <1>2, <1>3, <1>4, <1>5 DEF Next

\* A graph that is built, submitted and awaited once keeps its promise, whatever the
\* threads, queues and nodes do: each task runs once, after submit and after its
\* prerequisites, and wait returns after all of them.
THEOREM GraphKeepsPromise ==
  ASSUME ~LiveCreates, MaxResets = 0
  PROVE  Spec => KeepsPromise
<1>1. Init => Promise!Init
  <2> SUFFICES ASSUME Init
               PROVE  Promise!Init
    OBVIOUS
  <2>1. created = 0 /\ prereq = {} /\ ~submitted /\ loc[Main] = "client"
        /\ \A t \in Task : runs[t] = 0
    BY TaskGraphAssumption DEF Init
  <2>2. CreatedTasks = {} /\ RanTasks = {}
    BY <2>1 DEF CreatedTasks, RanTasks, Task
  <2>3. submitted = FALSE /\ Waiting = FALSE
    BY <2>1 DEF Init, Waiting
  <2>4. QED
    BY <2>1, <2>2, <2>3 DEF Promise!Init, CreatedTasks, RanTasks, Waiting
<1>2. BatchInduction /\ [Next]_vars => [Promise!Next]_(Promise!vars)
  BY PromiseStep
<1>3. QED
  BY <1>1, <1>2, GraphBatchInduction, PTL DEF Spec, KeepsPromise, Promise!Spec

=============================================================================
