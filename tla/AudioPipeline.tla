--------------------------- MODULE AudioPipeline ---------------------------
(* AudioPipeline (audio_pipeline.cpp) over the ring: a producer thread writes  *)
(* 16-bit samples, by value or through a view it commits part of, and goes on  *)
(* after the last one accepted; a consumer thread reads them.  A cell is a     *)
(* byte: half of a sample, which carries its number modulo SampleMod.          *)
EXTENDS ZeroCopyRing

CONSTANTS
  Counts,       \* how many samples a call writes or asks for
  FrameBytes,   \* channels * bytes_per_sample
  SampleMod     \* more than the ring and a call hold

\* of 16-bit samples, in a ring that holds one
ASSUME AudioAssumption ==
  /\ Counts \subseteq Nat
  /\ FrameBytes \in Nat \ {0} /\ FrameBytes % 2 = 0
  /\ SampleMod \in Nat \ {0}
  /\ Cap % 2 = 0

VARIABLES
  spoken,   \* the next sample of the producer
  heard,    \* the next sample the consumer expects
  promised  \* the frames() the consumer has seen and not read

audioVars == <<spoken, heard, promised>>

AudioInit == spoken = 0 /\ heard = 0 /\ promised = 0

\* the bytes of count samples from the first on
Samples(first, count) ==
  [i \in 1 .. 2 * count |-> <<(first + (i - 1) \div 2) % SampleMod, i % 2>>]

WriteS16 ==
  /\ \E count \in Counts : AcquireWrite(Samples(spoken, count))
  /\ UNCHANGED audioVars

\* all of the view, as write_s16 does, or the samples a zero-copy producer filled
FillView ==
  /\ \E k \in 0 .. wr.n : (k = wr.n \/ k % 2 = 0) /\ CopyIn(k)
  /\ UNCHANGED audioVars

Written ==
  /\ WriteReturns
  /\ spoken' = (spoken + wr.n \div 2) % SampleMod
  /\ UNCHANGED <<rd, heard, promised>>

\* frames(), asked by the consumer
AskFrames ==
  /\ rd.at = "idle" /\ promised = 0 /\ Used >= FrameBytes
  /\ promised' = Used \div FrameBytes
  /\ UNCHANGED <<ringVars, spoken, heard>>

\* Mutant: the count is taken for bytes.
ReadS16_Bytes ==
  /\ \E count \in Counts : AcquireRead(count, "copy")
  /\ UNCHANGED audioVars

ReadS16 ==
  /\ IF promised > 0
       THEN AcquireRead(promised * FrameBytes, "copy")
       ELSE \E count \in Counts : AcquireRead(count * 2, "copy")
  /\ UNCHANGED audioVars

\* a zero-copy consumer may give back less than its view
EmptyView ==
  /\ \E k \in 0 .. rd.n :
       (k = rd.n \/ (promised = 0 /\ k % 2 = 0)) /\ CopyOut(k)
  /\ UNCHANGED audioVars

Heard ==
  /\ ReadReturns
  /\ heard' = (heard + rd.n \div 2) % SampleMod
  /\ promised' = 0
  /\ UNCHANGED <<wr, spoken>>

AudioNext ==
  \/ WriteS16 \/ FillView \/ Written
  \/ AskFrames \/ ReadS16 \/ EmptyView \/ Heard
  \/ RingStep /\ UNCHANGED audioVars

-----------------------------------------------------------------------------
AudioTypeOK == spoken \in Nat /\ heard \in Nat /\ promised \in Nat

\* The consumer hears every sample once, in order and whole, whichever way the
\* buffer wraps and however little of a call the ring took; and the frames that
\* frames() promised it are there when it reads them.
AudioInOrder ==
  rd.at = "done" =>
    /\ rd.n % 2 = 0
    /\ SubSeq(rd.data, 1, rd.n) = Samples(heard, rd.n \div 2)
    /\ promised > 0 => rd.n = promised * FrameBytes

=============================================================================
