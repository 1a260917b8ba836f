--------------------------- MODULE TaskGraphSpec ---------------------------
(***************************************************************************)
(* What a task graph promises the client that builds one graph, submits it *)
(* and waits: each task runs once, after submit and after the tasks it     *)
(* depends on, and wait returns when all have run.  Threads, queues, nodes *)
(* and counters are not part of the promise.                               *)
(***************************************************************************)
EXTENDS Naturals

CONSTANT Task

VARIABLES
  tasks,      \* the tasks created
  edges,      \* the pairs <<prerequisite, dependent>>
  submitted,
  ran,        \* the tasks whose bodies have run
  waiting     \* the client is in wait

vars == <<tasks, edges, submitted, ran, waiting>>

Init ==
  /\ tasks = {} /\ edges = {} /\ ran = {}
  /\ submitted = FALSE /\ waiting = FALSE

Create(t) ==
  /\ ~submitted /\ t \notin tasks
  /\ tasks' = tasks \cup {t}
  /\ UNCHANGED <<edges, submitted, ran, waiting>>

AddDependency(p, d) ==
  /\ ~submitted /\ p \in tasks /\ d \in tasks \ {p}
  /\ edges' = edges \cup {<<p, d>>}
  /\ UNCHANGED <<tasks, submitted, ran, waiting>>

Submit ==
  /\ ~submitted
  /\ submitted' = TRUE
  /\ UNCHANGED <<tasks, edges, ran, waiting>>

Run(t) ==
  /\ submitted
  /\ t \in tasks \ ran
  /\ \A p \in tasks : <<p, t>> \in edges => p \in ran
  /\ ran' = ran \cup {t}
  /\ UNCHANGED <<tasks, edges, submitted, waiting>>

Wait ==
  /\ ~waiting
  /\ waiting' = TRUE
  /\ UNCHANGED <<tasks, edges, submitted, ran>>

WaitReturn ==
  /\ waiting /\ ran = tasks
  /\ waiting' = FALSE
  /\ UNCHANGED <<tasks, edges, submitted, ran>>

Next ==
  \/ \E t \in Task : Create(t) \/ Run(t)
  \/ \E p, d \in Task : AddDependency(p, d)
  \/ Submit \/ Wait \/ WaitReturn

Spec == Init /\ [][Next]_vars
=============================================================================
