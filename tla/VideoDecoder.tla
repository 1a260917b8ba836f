---------------------------- MODULE VideoDecoder ----------------------------
(***************************************************************************)
(* VideoDecoderStub (video_decoder_stub.cpp) over the ring: one thread     *)
(* pushes packets, one decodes them into three frame slots used round      *)
(* robin.  open and close touch plain members and so run between calls;    *)
(* the packets in the ring outlive both.                                   *)
(*                                                                         *)
(* A header is two cells, a frame and a payload a few.  pattern_ is true   *)
(* whenever open_ is.  next_pts_, the time stamp of generated frames, is   *)
(* left out.                                                               *)
(***************************************************************************)
EXTENDS ZeroCopyRing

CONSTANTS
  FrameSizes,  \* the sizes a frame may have, in cells
  Payloads,    \* the sizes of the packets pushed
  Chunk,       \* the 64 bytes of drain_bytes
  MaxPackets,  \* bound on the packets pushed
  DecodedMod   \* frames_decoded_ is told apart modulo this

ASSUME VideoAssumption ==
  FrameSizes \subseteq Nat /\ Payloads \subseteq Nat /\ Chunk \in Nat \ {0}

Slots == 0 .. 2   \* kFrameSlots
Header == 2

VARIABLES
  need,      \* frame_bytes(), 0 while closed
  slot,      \* slot_
  decoded,   \* frames_decoded_
  frames,    \* frames_, per slot
  push,      \* the push_packet under way, or Resting
  nextPts,   \* the time stamp of the producer's next packet
  dec,       \* the decode_next under way, or Resting
  queued,    \* history: the packets pushed and not consumed, oldest first
  held       \* history: the last two frames delivered since open

videoVars == <<need, slot, decoded, frames, push, nextPts, dec, queued, held>>
framesVars == <<need, slot, decoded, frames, held>>

\* a packet's time stamp and size, what is left to drain, and whether its frame is out
Call(pc, pts, len, left, whole) ==
  [at |-> pc, pts |-> pts, len |-> len, left |-> left, whole |-> whole]
Resting == Call("idle", 0, 0, 0, FALSE)
Packet(c) == [pts |-> c.pts, len |-> c.len]

HeaderCells(p) == << <<"pts", p.pts>>, <<"len", p.len>> >>
Data(p, n) == [i \in 1 .. n |-> <<"data", p.pts, i>>]
Blank == <<>>

VideoInit ==
  /\ need = 0 /\ slot = 0 /\ decoded = 0
  /\ frames = [s \in Slots |-> Blank]
  /\ push = Resting /\ dec = Resting
  /\ nextPts = 0
  /\ queued = <<>> /\ held = <<>>

-----------------------------------------------------------------------------
\* open, open_pattern with the buffers set up anew; close is a frame size of 0
Open(n) ==
  /\ push = Resting /\ dec = Resting /\ n # need
  /\ need' = n
  /\ slot' = 0 /\ decoded' = 0
  /\ frames' = [s \in Slots |-> Blank]
  /\ held' = <<>>
  /\ UNCHANGED <<ringVars, push, nextPts, dec, queued>>

\* push_packet up to the test of free_space; a packet that does not fit is refused
PushPacket(len) ==
  /\ need > 0 /\ push = Resting /\ nextPts < MaxPackets
  /\ Free >= Header + len
  /\ push' = Call("header", nextPts, len, 0, FALSE)
  /\ nextPts' = nextPts + 1
  /\ queued' = Append(queued, [pts |-> nextPts, len |-> len])
  /\ UNCHANGED <<ringVars, framesVars, dec>>

\* the two writes
PushWrite ==
  /\ \/ push.at = "header" /\ AcquireWrite(HeaderCells(push))
     \/ push.at = "payload" /\ AcquireWrite(Data(push, push.len))
  /\ UNCHANGED videoVars

PushCopies == CopyIn(wr.n) /\ UNCHANGED videoVars

\* a short write of the header ends the call, as the payload's write does
PushWritten ==
  /\ WriteReturns
  /\ push' = IF push.at = "header" /\ wr.n = Header
               THEN [push EXCEPT !.at = "payload"] ELSE Resting
  /\ UNCHANGED <<rd, framesVars, nextPts, dec, queued>>

-----------------------------------------------------------------------------
Decoding(pc) == dec' = [dec EXCEPT !.at = pc]
Fails == dec' = Resting
SameVideo == UNCHANGED <<framesVars, push, nextPts, queued>>

\* Mutant: the slot is not left.
Deliver_SlotKept(content) ==
  /\ held' = SubSeq(<<[slot |-> slot, content |-> content]>> \o held, 1, Least(2, Len(held) + 1))
  /\ slot' = slot
  /\ decoded' = (decoded + 1) % DecodedMod
  /\ UNCHANGED <<need, push, nextPts>>

\* decode_next answers with the frame in the slot, which holds content
Deliver(content) ==
  /\ held' = SubSeq(<<[slot |-> slot, content |-> content]>> \o held, 1, Least(2, Len(held) + 1))
  /\ slot' = (slot + 1) % 3
  /\ decoded' = (decoded + 1) % DecodedMod
  /\ UNCHANGED <<need, push, nextPts>>

\* decode_next finds no header in the ring and generates a frame
DecodePattern ==
  /\ need > 0 /\ dec = Resting
  /\ Used < Header
  /\ LET content == [i \in 1 .. need |-> <<"t", decoded>>] IN
     /\ frames' = [frames EXCEPT ![slot] = content]
     /\ Deliver(content)
  /\ UNCHANGED <<ringVars, dec, queued>>

DecodePacket ==
  /\ need > 0 /\ dec = Resting
  /\ Used >= Header
  /\ Decoding("peek")
  /\ UNCHANGED ringVars /\ SameVideo

\* peek, and the reads of the header, of the frame and of what is drained
DecodeReads ==
  /\ \/ dec.at = "peek" /\ AcquireRead(Header, "peek")
     \/ dec.at = "header" /\ AcquireRead(Header, "copy")
     \/ dec.at = "frame" /\ AcquireRead(need, "copy")
     \/ dec.at = "drain" /\ dec.left > 0 /\ AcquireRead(Least(dec.left, Chunk), "copy")
  /\ UNCHANGED videoVars

DecodeCopies == CopyOut(rd.n) /\ UNCHANGED videoVars

\* memcpy of pts and nbytes out of the header; what holds no header leaves them
\* as they were
Peeked ==
  /\ dec.at = "peek" /\ ReadReturns
  /\ IF rd.n = Header
       THEN dec' = Call("size", rd.data[1][2], rd.data[2][2], 0, FALSE)
       ELSE Fails
  /\ UNCHANGED wr /\ SameVideo

\* Mutant: a packet is taken before its payload is there.
PacketComplete_HeaderOnly == Used >= Header
PacketComplete == Used >= Header + dec.len

SizeTested ==
  /\ dec.at = "size"
  /\ IF PacketComplete THEN Decoding("header") ELSE Fails
  /\ UNCHANGED ringVars /\ SameVideo

HeaderRead ==
  /\ dec.at = "header" /\ ReadReturns
  /\ dec' = IF dec.len < need
              THEN Call("drain", dec.pts, dec.len, dec.len, FALSE)
              ELSE Call("frame", dec.pts, dec.len, 0, FALSE)
  /\ UNCHANGED wr /\ SameVideo

FrameRead ==
  /\ dec.at = "frame" /\ ReadReturns
  /\ frames' = [frames EXCEPT ![slot] = rd.data]
  /\ IF rd.n = need
       THEN dec' = Call("drain", dec.pts, dec.len, dec.len - need, TRUE)
       ELSE Fails
  /\ UNCHANGED <<wr, need, slot, decoded, held, push, nextPts, queued>>

\* drain_bytes gives up when a read finds nothing
Drained ==
  /\ dec.at = "drain" /\ ReadReturns
  /\ dec' = [dec EXCEPT !.left = IF rd.n = 0 THEN 0 ELSE dec.left - rd.n]
  /\ UNCHANGED wr /\ SameVideo

\* decode_next returns, with the frame or with false for a packet too small
DecodeReturn ==
  /\ dec.at = "drain" /\ dec.left = 0 /\ rd.at = "idle"
  /\ IF dec.whole
       THEN Deliver(frames[slot])
       ELSE UNCHANGED <<framesVars, push, nextPts>>
  /\ frames' = frames
  /\ queued' = Tail(queued)
  /\ Fails
  /\ UNCHANGED ringVars

VideoNext ==
  \/ \E n \in FrameSizes \cup {0} : Open(n)
  \/ \E len \in Payloads : PushPacket(len)
  \/ PushWrite \/ PushCopies \/ PushWritten
  \/ DecodePattern \/ DecodePacket \/ DecodeReads \/ DecodeCopies
  \/ Peeked \/ SizeTested \/ HeaderRead \/ FrameRead \/ Drained \/ DecodeReturn
  \/ RingStep /\ UNCHANGED videoVars

-----------------------------------------------------------------------------
\* The decoder reads packets where the pusher wrote them: each header it looks at
\* is that of the oldest packet, whatever was cut short, drained or left over from
\* before a close; its frame is that packet's payload; and neither thread's reads
\* and writes come up short once a packet was accepted or found complete.
PacketsInOrder ==
  /\ dec.at \in {"size", "header", "frame", "drain"} =>
       queued # <<>> /\ Head(queued) = Packet(dec)
  /\ dec.whole => frames[slot] = Data(dec, need)
  /\ push # Resting /\ wr.at = "done" => wr.n = Len(wr.data)
  /\ dec # Resting /\ rd.at = "done" =>
       rd.n > 0 /\ (dec.at = "frame" => rd.n = need)

\* A frame that was delivered keeps its picture while the next ones are decoded:
\* the last two are safe even while decode_next runs, packets and generated
\* frames mixed.
FramesStay ==
  \A i \in 1 .. Len(held) : frames[held[i].slot] = held[i].content

-----------------------------------------------------------------------------
VideoTypeOK ==
  /\ need \in Nat /\ nextPts \in Nat /\ queued \in Seq([pts : Nat, len : Nat])
  /\ push \in [at : {"idle", "header", "payload"}, pts : Nat, len : Nat, left : Nat,
               whole : BOOLEAN]
  /\ dec \in [at : {"idle", "peek", "size", "header", "frame", "drain"}, pts : Nat,
              len : Nat, left : Nat, whole : BOOLEAN]
  /\ slot \in Slots /\ frames = [s \in Slots |-> frames[s]]
  /\ push.at = "idle" => push = Resting
  /\ dec.at = "idle" => dec = Resting
=============================================================================
