----------------------------- MODULE ByteQueue -----------------------------
(* What zero_copy_ring.hpp promises its one producer and its one consumer: a   *)
(* bounded queue of bytes.  offered are the bytes the producer's call has to   *)
(* write, took those the consumer's call was handed; both belong to the        *)
(* callers.                                                                    *)
EXTENDS Integers, Sequences

CONSTANT Bound   \* the bytes the queue holds at most

VARIABLES queue, offered, took

Init == queue = <<>>

\* a prefix of what is offered goes in
Put ==
  \E n \in 1 .. Len(offered) :
    /\ Len(queue) + n <= Bound
    /\ queue' = queue \o SubSeq(offered, 1, n)

\* bytes leave in order, and only bytes the consumer was handed
Take ==
  \E n \in 1 .. Len(took) :
    /\ n <= Len(queue)
    /\ SubSeq(took, 1, n) = SubSeq(queue, 1, n)
    /\ queue' = SubSeq(queue, n + 1, Len(queue))

Spec == Init /\ [][Put \/ Take]_queue
=============================================================================
