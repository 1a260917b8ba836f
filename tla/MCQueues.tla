------------------------------ MODULE MCQueues ------------------------------
(* The two queues that tasks travel through, one at a time: a behaviour is one *)
(* of a worker's deque under the discipline of its algorithm or one of the     *)
(* inbox.                                                                      *)
EXTENDS DequeClient, MpmcQueue, TLC

VARIABLE queue   \* the one this behaviour exercises

MCInit ==
  /\ queue \in {"deque", "inbox"}
  /\ Init /\ QueueInit

MCNext ==
  /\ UNCHANGED queue
  /\ \/ queue = "deque" /\ Next /\ UNCHANGED queueVars
     \/ queue = "inbox" /\ QueueNext /\ UNCHANGED clientVars

\* the thieves are alike, and so are the items, in every property checked
Symmetry ==
  {p @@ q : p \in Permutations(Thread \ {Owner}), q \in Permutations(Items)}

MCSpec == MCInit /\ [][MCNext]_<<clientVars, queueVars, queue>>
=============================================================================
