---------------------------- MODULE ZeroCopyRing ----------------------------
(***************************************************************************)
(* ZeroCopyRing (zero_copy_ring.cpp): a ring of bytes between one producer *)
(* and one consumer.  The calls of each are cut at the loads of the other  *)
(* side's position; a call of the producer is in wr, one of the consumer   *)
(* in rd.  A cell stands for as many bytes as the callers need told apart. *)
(* Positions run on and wrap at PosMod, the width of size_t.               *)
(*                                                                         *)
(* A view is copied in one step: ImplementsByteQueue shows that the other  *)
(* side never touches a cell of it meanwhile.                              *)
(***************************************************************************)
EXTENDS Integers, Sequences

CONSTANTS
  Cap,      \* capacity_, a power of two
  PosMod,   \* 2^64 in the code
  NoByte    \* what an unwritten cell holds

ASSUME RingAssumption == Cap \in Nat \ {0} /\ PosMod \in Nat /\ PosMod % Cap = 0 /\ PosMod > Cap

VARIABLES
  buffer,             \* buffer_
  writePos, readPos,  \* write_pos_, read_pos_
  wr, rd              \* the calls of the producer and of the consumer

ringVars == <<buffer, writePos, readPos, wr, rd>>

Least(a, b) == IF a <= b THEN a ELSE b

\* size() and free_space(), as the producer or the consumer sees them
Used == (writePos - readPos) % PosMod
Free == Cap - Used

\* RingView: the cells of n bytes from position pos, the second part at the front
View(pos, n) ==
  LET idx == pos % Cap
      first == Least(n, Cap - idx)
  IN  [i \in 1 .. n |-> IF i <= first THEN idx + i - 1 ELSE i - first - 1]

Calling(pc, data, n) == [at |-> pc, data |-> data, n |-> n]
Quiet == Calling("idle", <<>>, 0)

RingInit ==
  /\ buffer = [i \in 0 .. Cap - 1 |-> NoByte]
  /\ writePos = 0 /\ readPos = 0
  /\ wr = Quiet /\ rd = Quiet

-----------------------------------------------------------------------------
\* Mutant: the bytes are not cut to the free space.
AcquireWrite_NoCut(cells) ==
  /\ wr.at = "idle"
  /\ wr' = Calling("copy", cells, Len(cells))
  /\ UNCHANGED <<buffer, writePos, readPos, rd>>

\* acquire_write; an empty view ends the call
AcquireWrite(cells) ==
  /\ wr.at = "idle"
  /\ LET n == Least(Len(cells), Free) IN
     wr' = Calling(IF n = 0 THEN "done" ELSE "copy", cells, n)
  /\ UNCHANGED <<buffer, writePos, readPos, rd>>

\* copy_into, of the k bytes that will be committed
CopyIn(k) ==
  /\ wr.at = "copy"
  /\ LET view == View(writePos, k) IN
     buffer' = [c \in 0 .. Cap - 1 |->
                  IF \E i \in 1 .. k : view[i] = c
                    THEN wr.data[CHOOSE i \in 1 .. k : view[i] = c]
                    ELSE buffer[c]]
  /\ wr' = Calling(IF k = 0 THEN "done" ELSE "clamp", wr.data, k)
  /\ UNCHANGED <<writePos, readPos, rd>>

\* commit_write: the free space once more,
ClampWrite ==
  /\ wr.at = "clamp"
  /\ wr' = Calling("add", wr.data, Least(wr.n, Free))
  /\ UNCHANGED <<buffer, writePos, readPos, rd>>

\* and the publication
AddWrite ==
  /\ wr.at = "add"
  /\ writePos' = (writePos + wr.n) % PosMod
  /\ wr' = Calling("done", wr.data, wr.n)
  /\ UNCHANGED <<buffer, readPos, rd>>

\* acquire_read, for a read, and peek, which commits nothing
AcquireRead(bytes, pc) ==
  /\ rd.at = "idle"
  /\ LET n == Least(bytes, Used) IN
     rd' = Calling(IF n = 0 THEN "done" ELSE pc, <<>>, n)
  /\ UNCHANGED <<buffer, writePos, readPos, wr>>

\* copy_from, of the k bytes that will be given back
CopyOut(k) ==
  /\ rd.at \in {"copy", "peek"}
  /\ LET view == View(readPos, k) IN
     rd' = Calling(IF rd.at = "peek" \/ k = 0 THEN "done" ELSE "clamp",
                   [i \in 1 .. k |-> buffer[view[i]]], k)
  /\ UNCHANGED <<buffer, writePos, readPos, wr>>

\* commit_read
ClampRead ==
  /\ rd.at = "clamp"
  /\ rd' = Calling("add", rd.data, Least(rd.n, Used))
  /\ UNCHANGED <<buffer, writePos, readPos, wr>>

AddRead ==
  /\ rd.at = "add"
  /\ readPos' = (readPos + rd.n) % PosMod
  /\ rd' = Calling("done", rd.data, rd.n)
  /\ UNCHANGED <<buffer, writePos, wr>>

\* the steps of a call that do not depend on the caller
RingStep == ClampWrite \/ AddWrite \/ ClampRead \/ AddRead

WriteReturns == wr.at = "done" /\ wr' = Quiet /\ UNCHANGED <<buffer, writePos, readPos>>
ReadReturns == rd.at = "done" /\ rd' = Quiet /\ UNCHANGED <<buffer, writePos, readPos>>

-----------------------------------------------------------------------------
\* what has been written and not read, oldest first
Contents == [i \in 1 .. Used |-> buffer[View(readPos, Used)[i]]]

\* The ring, with its wrapping positions, its two-part views and its two
\* unsynchronized callers, is a bounded queue: what the consumer gets is what the
\* producer wrote, in order, and nothing is overwritten before it was read.
Bytes ==
  INSTANCE ByteQueue WITH
    Bound <- Cap,
    queue <- Contents,
    offered <- wr.data,
    took <- rd.data

ImplementsByteQueue == Bytes!Spec

-----------------------------------------------------------------------------
IsSequence(s) == s \in Seq({s[i] : i \in DOMAIN s})

RingTypeOK ==
  /\ buffer = [c \in 0 .. Cap - 1 |-> buffer[c]]
  /\ writePos \in 0 .. PosMod - 1 /\ readPos \in 0 .. PosMod - 1
  /\ wr = Calling(wr.at, wr.data, wr.n) /\ IsSequence(wr.data) /\ wr.n \in 0 .. Len(wr.data)
  /\ rd = Calling(rd.at, rd.data, rd.n) /\ rd.n \in 0 .. Cap
=============================================================================
