------------------------------ MODULE TaskBase ------------------------------
(***************************************************************************)
(* The sets the modules of the task graph share.                           *)
(***************************************************************************)
CONSTANTS
  Thread,     \* the workers' threads and the client's thread
  Node,       \* the TaskNode blocks of node_pool_
  NoNode      \* nullptr

ASSUME NodeAssumption == NoNode \notin Node

MaybeNode == Node \cup {NoNode}
=============================================================================
