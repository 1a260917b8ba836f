----------------------------- MODULE Telemetry -----------------------------
(* NetworkTelemetry over MetricsCollector (network_telemetry.cpp,              *)
(* metrics_collector.cpp), used by one thread: samples are collected up to a   *)
(* capacity and flushed to a buffer or as one datagram, which the socket takes *)
(* whole or not at all.  A sample is its number in the order of the calls.     *)
EXTENDS Integers, Sequences

CONSTANTS
  SlotCount,   \* the capacity of the collector
  MaxSamples   \* bound on the calls of record

VARIABLES
  slots,      \* the samples in the collector
  fd,         \* whether a socket is open
  calls,      \* history: the calls of record
  delivered,  \* history: what reached a buffer or the network
  reported,   \* history: the sum of what the flushes returned
  forgone     \* history: the samples flushed without a socket

telVars == <<slots, fd, calls, delivered, reported, forgone>>

TelInit ==
  /\ slots = <<>> /\ fd = FALSE /\ calls = 0
  /\ delivered = <<>> /\ reported = 0 /\ forgone = 0

\* a full collector refuses the sample
RecordSample ==
  /\ calls < MaxSamples
  /\ calls' = calls + 1
  /\ slots' = IF Len(slots) < SlotCount THEN Append(slots, calls') ELSE slots
  /\ UNCHANGED <<fd, delivered, reported, forgone>>

\* bind_loopback, which may fail, and close_socket
SetSocket ==
  /\ \E open \in BOOLEAN : fd' = open
  /\ UNCHANGED <<slots, calls, delivered, reported, forgone>>

\* Mutant: the collector is cleared only when the buffer took all.
FlushTo_KeepsRest(room) ==
  /\ slots # <<>> /\ room > 0
  /\ LET count == IF Len(slots) < room THEN Len(slots) ELSE room IN
     /\ delivered' = delivered \o SubSeq(slots, 1, count)
     /\ reported' = reported + count
     /\ slots' = IF count = Len(slots) THEN <<>> ELSE slots
  /\ UNCHANGED <<fd, calls, forgone>>

\* flush_to: what does not fit the buffer is cleared with the rest
FlushTo(room) ==
  /\ slots # <<>> /\ room > 0
  /\ LET count == IF Len(slots) < room THEN Len(slots) ELSE room IN
     /\ delivered' = delivered \o SubSeq(slots, 1, count)
     /\ reported' = reported + count
     /\ slots' = <<>>
  /\ UNCHANGED <<fd, calls, forgone>>

\* flush_udp: the collector is cleared whatever becomes of the datagram
FlushUdp ==
  /\ slots # <<>>
  /\ slots' = <<>>
  /\ \/ /\ ~fd
        /\ reported' = reported + Len(slots) /\ forgone' = forgone + Len(slots)
        /\ UNCHANGED delivered
     \/ /\ fd
        /\ delivered' = delivered \o slots /\ reported' = reported + Len(slots)
        /\ UNCHANGED forgone
     \/ fd /\ UNCHANGED <<delivered, reported, forgone>>
  /\ UNCHANGED <<fd, calls>>

TelNext ==
  \/ RecordSample \/ SetSocket \/ FlushUdp
  \/ \E room \in 1 .. SlotCount : FlushTo(room)

\* Samples may be lost, to a full collector, a short buffer or a failed send, but
\* none leaves twice or out of order, and what the flushes report is what somebody
\* got, but for the flushes without a socket, which report what they threw away.
SamplesOnce ==
  LET out == delivered \o slots IN
  /\ \A i, j \in 1 .. Len(out) : i < j => out[i] < out[j]
  /\ reported = Len(delivered) + forgone
=============================================================================
