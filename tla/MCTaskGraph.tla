---------------------------- MODULE MCTaskGraph ----------------------------
(* Instances of TaskGraph for TLC. *)
EXTENDS TaskGraph

Pool2 == <<1, 2>>
Pool3 == <<1, 2, 3>>
Pool4 == <<1, 2, 3, 4>>

\* every worker prefers the one lane in use, as when the graph is pinned to it
OneLane == [w \in Deque |-> CHOOSE l \in Lane : TRUE]
=============================================================================
