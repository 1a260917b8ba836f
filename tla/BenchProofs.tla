---------------------------- MODULE BenchProofs ----------------------------
(***************************************************************************)
(* The programs MCBench runs: of the bench, that no task outlives its      *)
(* frame's memory and what the exported trace has; of the collector,       *)
(* that it hands every sample out once; of the ring, that it is a bounded  *)
(* queue of bytes; of the audio pipeline and of the decoder over it, that  *)
(* samples and packets come out as they went in, and that the decoder's    *)
(* frames stay.                                                            *)
(***************************************************************************)
EXTENDS MCBench, FiniteSetTheorems, SequenceTheorems, TLAPS

-----------------------------------------------------------------------------
(* What makes FrameMemoryLive and TraceWhole inductive.                    *)

\* The graph has tasks only from their creation to the end of main's wait, and until
\* then they hold the current epoch.
TasksInStep ==
  /\ todo \cup busy \cup closing \cup lost # {} => pc \in {"tick_infer", "tick_submit", "wait"}
  /\ pc \in {"tick_infer", "tick_submit", "wait"} => captured = epoch
  /\ todo \cap (busy \cup closing) = {} /\ busy \cap closing = {}

\* A thread fills a slot while it records the job or the task it has run.
RecordersInStep ==
  /\ \A k \in JobNo : filling[Worker(k)] # NoSlot <=> job[k] \in {"span", "last"}
  /\ \A t \in Task : filling[Runner(t)] # NoSlot <=> t \in closing

\* The engine owes an answer only between the submission and the get of main.
Owed(k) == job[k] \in {"queued", "lost", "execute", "span", "answer"}

Prelude ==
  \/ pc \in {"start", "arena", "independent", "reset", "dag", "infer"}
  \/ pc = "wait" /\ batch # "tick"

InFrame ==
  \/ pc \in {"tick_submit", "video", "tick_end"}
  \/ pc \in {"wait", "future"} /\ batch = "tick"

JobsInStep ==
  /\ Prelude => batch # "tick" /\ \A k \in JobNo : job[k] = "none"
  /\ InFrame \/ pc \in {"tick_reset", "tick_create", "tick_infer"} => f < frameCount
  /\ pc \in {"tick_infer", "tick_submit"} => batch = "tick"
  /\ \A k \in JobNo : Owed(k) =>
       \/ batch # "tick" /\ k = 0 /\ pc = "future"
       \/ batch = "tick" /\ k = f + 1 /\ pc \in {"tick_submit", "wait", "future"}
  /\ \A k \in JobNo : job[k] # "none" => k <= f \/ (InFrame /\ k = f + 1)

\* A slot that was reserved is filled, or is being filled by one thread, or was
\* dropped and counted or is about to be.
Dropping == {th \in Recorder : filling[th] = NoRoom}

SlotsInStep ==
  /\ \A s \in whole : s < write /\ s < EventCap
  /\ \A th \in Recorder : filling[th] \notin {NoSlot, NoRoom} =>
       /\ filling[th] < write /\ filling[th] < EventCap /\ filling[th] \notin whole
       /\ \A o \in Recorder : filling[o] = filling[th] => o = th
  /\ \A s \in 0 .. write - 1 :
       s < EventCap => s \in whole \/ \E th \in Recorder : filling[th] = s
  /\ dropped + Cardinality(Dropping) = IF write > EventCap THEN write - EventCap ELSE 0

BenchInv == BenchTypeOK /\ TasksInStep /\ RecordersInStep /\ JobsInStep /\ SlotsInStep

-----------------------------------------------------------------------------
(* What makes ImplementsByteQueue inductive: each side's old look at the      *)
(* other's position is worth at least what it showed, since the other only    *)
(* gives way.                                                                 *)

\* what the producer has found free still is, and holds what it has copied
WriterInStep ==
  /\ wr.at \in {"copy", "clamp", "add"} => wr.n \in 1 .. Free
  /\ wr.at \in {"clamp", "add"} =>
       \A i \in 1 .. wr.n : buffer[View(writePos, wr.n)[i]] = wr.data[i]

\* what the consumer has found used still is, as it copied it
ReaderInStep ==
  /\ rd.at \in {"copy", "peek", "clamp", "add"} => rd.n \in 1 .. Used
  /\ rd.at \in {"clamp", "add"} =>
       rd.data = [i \in 1 .. rd.n |-> buffer[View(readPos, rd.n)[i]]]

RingInv == RingTypeOK /\ Used <= Cap /\ WriterInStep /\ ReaderInStep

-----------------------------------------------------------------------------
(* What makes AudioInOrder inductive: the ring holds the samples from the     *)
(* next one to be heard to the last one spoken, the calls under way accounted *)
(* for.                                                                       *)

Newest == spoken + (IF wr.at = "done" THEN wr.n \div 2 ELSE 0)
Oldest == heard + (IF rd.at = "done" THEN rd.n \div 2 ELSE 0)

SamplesInRing ==
  /\ Used % 2 = 0
  /\ Contents = Samples(Oldest, Used \div 2)
  /\ Newest % SampleMod = (Oldest + Used \div 2) % SampleMod

WriteHasSamples ==
  /\ wr.n % 2 = 0 /\ Len(wr.data) % 2 = 0
  /\ wr.at # "done" => wr.data = Samples(spoken, Len(wr.data) \div 2)

ReadHasSamples ==
  /\ rd.n % 2 = 0 /\ rd.at # "peek"
  /\ rd.at = "done" => rd.data = Samples(heard, rd.n \div 2)

PromiseKept ==
  promised > 0 =>
    IF rd.at = "idle" THEN promised * FrameBytes <= Used
                      ELSE rd.n = promised * FrameBytes

AudioInv ==
  RingInv /\ AudioTypeOK /\ SamplesInRing /\ WriteHasSamples /\ ReadHasSamples /\ PromiseKept

-----------------------------------------------------------------------------
(* What makes PacketsInOrder inductive.                                    *)

\* what of the last packet is not in the ring yet, and what of the first no longer
Missing ==
  CASE push.at = "header" /\ wr.at # "done" -> Header + push.len
    [] push.at = "header" /\ wr.at = "done" -> push.len
    [] push.at = "payload" /\ wr.at # "done" -> push.len
    [] OTHER -> 0
Consumed ==
  (CASE dec.at = "frame" -> Header
     [] dec.at = "drain" -> Header + dec.len - dec.left
     [] OTHER -> 0)
  + (IF rd.at = "done" /\ dec.at # "peek" THEN rd.n ELSE 0)

PacketCell(p, j) ==
  IF j = 1 THEN <<"pts", p.pts>> ELSE IF j = 2 THEN <<"len", p.len>>
                                 ELSE <<"data", p.pts, j - Header>>

\* packet i lies behind cell start[i] of the contents, as far as it is in them
LaidOut(start) ==
  /\ start[1] = 0 - Consumed
  /\ start[Len(queued) + 1] = Used + Missing
  /\ \A i \in 1 .. Len(queued) :
       /\ start[i] <= Used
       /\ start[i + 1] = start[i] + Header + queued[i].len
       /\ \A j \in 1 .. Header + queued[i].len :
            start[i] + j \in 1 .. Used => Contents[start[i] + j] = PacketCell(queued[i], j)

Layout == \E start \in [1 .. Len(queued) + 1 -> Int] : LaidOut(start)

\* there is room for what is missing, and it is of the last packet
PushInStep ==
  /\ Missing <= Free
  /\ Missing > 0 => queued # <<>> /\ queued[Len(queued)] = Packet(push)
  /\ wr.at # "idle" =>
       \/ push.at = "header" /\ wr.data = HeaderCells(push) /\ wr.n = Header
       \/ push.at = "payload" /\ wr.data = Data(push, push.len) /\ wr.n = push.len

\* a read under way finds what it asks for
DecodeInStep ==
  /\ dec.at \in {"idle", "size"} => rd.at = "idle"
  /\ dec.at # "idle" => need > 0
  /\ dec.at = "peek" =>
       /\ Used >= Header
       /\ rd.at \in {"idle", "peek", "done"} /\ (rd.at # "idle" => rd.n = Header)
       /\ rd.at = "done" => rd.data = HeaderCells(Head(queued))
  /\ dec.at \in {"size", "header", "frame", "drain"} =>
       /\ queued # <<>> /\ Head(queued) = Packet(dec)
       /\ rd.at # "peek"
  /\ dec.at \in {"header", "frame", "drain"} => Used + Consumed >= Header + dec.len
  /\ dec.at = "header" /\ rd.at # "idle" => rd.n = Header
  /\ dec.at = "frame" =>
       /\ need <= dec.len /\ (rd.at # "idle" => rd.n = need)
       /\ rd.at = "done" => rd.data = Data(dec, need)
  /\ dec.at = "drain" =>
       /\ dec.left <= dec.len
       /\ rd.at # "idle" => rd.n \in 1 .. dec.left
  /\ dec.whole =>
       dec.at = "drain" /\ frames[slot] = Data(dec, need)

VideoInv == RingInv /\ VideoTypeOK /\ Layout /\ PushInStep /\ DecodeInStep

-----------------------------------------------------------------------------
BenchSpec == BenchInit /\ [][BenchNext]_benchVars

-----------------------------------------------------------------------------
(* The profiler: reserving a slot and filling it.                          *)

LEMMA DroppingFinite ==
  IsFiniteSet(Dropping) /\ Cardinality(Dropping) \in Nat
<1>1. IsFiniteSet(Dropping)
  BY BenchAssumption, FS_Subset DEF Dropping
<1>2. QED
  BY <1>1, FS_CardinalityType

LEMMA ProfilerFacts ==
  ASSUME ProfTypeOK, SlotsInStep
  PROVE  /\ write \in Nat /\ dropped \in Nat /\ whole \subseteq Nat
         /\ filling \in [Recorder -> Nat \cup {NoSlot}]
         /\ EventCap \in Nat /\ NoSlot \notin Nat
         /\ \A s \in whole : s < write /\ s < EventCap
         /\ \A o \in Recorder : filling[o] # NoSlot /\ filling[o] # EventCap =>
              filling[o] \in Nat /\ filling[o] < write /\ filling[o] < EventCap
              /\ filling[o] \notin whole
         /\ \A o, p \in Recorder :
              filling[o] # NoSlot /\ filling[o] # EventCap /\ filling[p] = filling[o] => p = o
         /\ \A s \in 0 .. write - 1 :
              s < EventCap => s \in whole \/ \E o \in Recorder : filling[o] = s
BY ProfilerAssumption DEF ProfTypeOK, SlotsInStep, NoRoom

LEMMA ReserveSlots ==
  ASSUME ProfTypeOK, SlotsInStep, NEW th \in Recorder, filling[th] = NoSlot, Reserve(th)
  PROVE  /\ SlotsInStep' /\ ProfTypeOK'
         /\ filling'[th] # NoSlot
         /\ \A o \in Recorder \ {th} : filling'[o] = filling[o]
         /\ trace' = trace
<1>1. /\ write \in Nat /\ dropped \in Nat /\ whole \subseteq Nat
      /\ filling \in [Recorder -> Nat \cup {NoSlot}]
      /\ EventCap \in Nat /\ NoSlot \notin Nat
  BY ProfilerFacts
<1>2. /\ filling' = [filling EXCEPT ![th] = IF write < EventCap THEN write ELSE EventCap]
      /\ write' = write + 1 /\ dropped' = dropped /\ whole' = whole /\ trace' = trace
  BY DEF Reserve, NoRoom
<1>3. /\ filling'[th] = IF write < EventCap THEN write ELSE EventCap
      /\ \A o \in Recorder \ {th} : filling'[o] = filling[o]
  BY <1>1, <1>2
<1>4. /\ \A s \in whole : s < write /\ s < EventCap
      /\ \A o \in Recorder : filling[o] # NoSlot /\ filling[o] # EventCap =>
           filling[o] \in Nat /\ filling[o] < write /\ filling[o] < EventCap
           /\ filling[o] \notin whole
      /\ \A o, p \in Recorder :
           filling[o] # NoSlot /\ filling[o] # EventCap /\ filling[p] = filling[o] => p = o
      /\ \A s \in 0 .. write - 1 :
           s < EventCap => s \in whole \/ \E o \in Recorder : filling[o] = s
  BY ProfilerFacts
<1>5. \A s \in whole' : s < write' /\ s < EventCap
  BY <1>1, <1>2, <1>4
<1>6. ASSUME NEW o \in Recorder, filling'[o] \notin {NoSlot, EventCap}
      PROVE  /\ filling'[o] < write' /\ filling'[o] < EventCap /\ filling'[o] \notin whole'
             /\ \A p \in Recorder : filling'[p] = filling'[o] => p = o
  <2>1. CASE o = th
    <3>1. /\ filling'[th] = write /\ write < EventCap /\ write < write' /\ write \notin whole
      BY <1>1, <1>2, <1>3, <1>4, <1>6, <2>1
    <3>2. \A p \in Recorder \ {th} : filling'[p] # write
      BY <1>1, <1>3, <1>4, <3>1
    <3>3. QED
      BY <1>2, <2>1, <3>1, <3>2
  <2>2. CASE o # th
    <3>1. /\ filling'[o] = filling[o] /\ filling[o] # NoSlot /\ filling[o] # EventCap
          /\ filling[o] \in Nat /\ filling[o] < write
      BY <1>3, <1>4, <1>6, <2>2
    <3>2. filling'[o] < write' /\ filling'[o] # write
      BY <1>1, <1>2, <3>1
    <3>3. filling'[th] # filling'[o]
      BY <1>3, <1>6, <3>2
    <3>4. QED
      BY <1>2, <1>3, <1>4, <3>1, <3>2, <3>3
  <2>3. QED
    BY <2>1, <2>2
<1>7. ASSUME NEW s \in 0 .. write' - 1, s < EventCap
      PROVE  s \in whole' \/ \E o \in Recorder : filling'[o] = s
  <2>1. CASE s = write
    BY <1>3, <1>7, <2>1
  <2>2. CASE s # write
    <3>1. s \in 0 .. write - 1
      BY <1>1, <1>2, <2>2
    <3>2. CASE s \in whole
      BY <1>2, <3>2
    <3>3. CASE s \notin whole
      <4>1. PICK o \in Recorder : filling[o] = s
        BY <1>4, <1>7, <3>1, <3>3
      <4>2. o # th
        BY <1>1, <4>1
      <4>3. QED
        BY <1>3, <4>1, <4>2
    <3>4. QED
      BY <3>2, <3>3
  <2>3. QED
    BY <2>1, <2>2
<1>8. dropped' + Cardinality(Dropping') = IF write' > EventCap THEN write' - EventCap ELSE 0
  <2>1. /\ IsFiniteSet(Dropping) /\ Cardinality(Dropping) \in Nat
        /\ dropped + Cardinality(Dropping) = IF write > EventCap THEN write - EventCap ELSE 0
    BY DroppingFinite DEF SlotsInStep
  <2>2. th \notin Dropping
    BY <1>1 DEF Dropping, NoRoom
  <2>3. CASE write >= EventCap
    <3>1. filling'[th] = EventCap
      BY <1>1, <1>3, <2>3
    <3>2. Dropping' = Dropping \cup {th}
      BY <1>1, <1>3, <3>1 DEF Dropping, NoRoom
    <3>3. Cardinality(Dropping') = Cardinality(Dropping) + 1
      BY <2>1, <2>2, <3>2, FS_AddElement
    <3>4. QED
      BY <1>1, <1>2, <2>1, <2>3, <3>3
  <2>4. CASE write < EventCap
    <3>1. filling'[th] # EventCap
      BY <1>1, <1>3, <2>4
    <3>2. Dropping' = Dropping
      BY <1>1, <1>3, <2>2, <3>1 DEF Dropping, NoRoom
    <3>3. QED
      BY <1>1, <1>2, <2>1, <2>4, <3>2
  <2>5. QED
    BY <1>1, <2>3, <2>4
<1>9. SlotsInStep'
  BY <1>5, <1>6, <1>7, <1>8 DEF SlotsInStep, NoRoom
<1>10. filling' \in [Recorder -> Nat \cup {NoSlot}] /\ write' \in Nat
  BY <1>1, <1>2
<1>11. ProfTypeOK'
  BY <1>1, <1>2, <1>10 DEF ProfTypeOK
<1>12. QED
  BY <1>1, <1>2, <1>3, <1>9, <1>11

LEMMA FillSlots ==
  ASSUME ProfTypeOK, SlotsInStep, NEW th \in Recorder, Fill(th)
  PROVE  /\ SlotsInStep' /\ ProfTypeOK'
         /\ filling'[th] = NoSlot
         /\ \A o \in Recorder \ {th} : filling'[o] = filling[o]
         /\ trace' = trace
<1>1. /\ write \in Nat /\ dropped \in Nat /\ whole \subseteq Nat
      /\ filling \in [Recorder -> Nat \cup {NoSlot}]
      /\ EventCap \in Nat /\ NoSlot \notin Nat
  BY ProfilerFacts
<1>2. /\ filling' = [filling EXCEPT ![th] = NoSlot] /\ write' = write /\ trace' = trace
      /\ filling[th] # NoSlot /\ filling[th] \in Nat
      /\ \/ filling[th] = EventCap /\ dropped' = dropped + 1 /\ whole' = whole
         \/ filling[th] # EventCap /\ dropped' = dropped /\ whole' = whole \cup {filling[th]}
  BY <1>1 DEF Fill, NoRoom
<1>3. filling'[th] = NoSlot /\ \A o \in Recorder \ {th} : filling'[o] = filling[o]
  BY <1>1, <1>2
<1>4. /\ \A s \in whole : s < write /\ s < EventCap
      /\ \A o \in Recorder : filling[o] # NoSlot /\ filling[o] # EventCap =>
           filling[o] \in Nat /\ filling[o] < write /\ filling[o] < EventCap
           /\ filling[o] \notin whole
      /\ \A o, p \in Recorder :
           filling[o] # NoSlot /\ filling[o] # EventCap /\ filling[p] = filling[o] => p = o
      /\ \A s \in 0 .. write - 1 :
           s < EventCap => s \in whole \/ \E o \in Recorder : filling[o] = s
  BY ProfilerFacts
<1>5. \A s \in whole' : s < write' /\ s < EventCap
  BY <1>2, <1>4
<1>6. ASSUME NEW o \in Recorder, filling'[o] \notin {NoSlot, EventCap}
      PROVE  /\ filling'[o] < write' /\ filling'[o] < EventCap /\ filling'[o] \notin whole'
             /\ \A p \in Recorder : filling'[p] = filling'[o] => p = o
  <2>1. /\ o # th /\ filling'[o] = filling[o] /\ filling[o] # NoSlot /\ filling[o] # EventCap
        /\ filling[o] # filling[th]
    BY <1>2, <1>3, <1>4, <1>6
  <2>2. filling'[o] \notin whole'
    BY <1>2, <1>4, <2>1
  <2>3. \A p \in Recorder : filling'[p] = filling'[o] => p = o
    BY <1>3, <1>4, <1>6, <2>1
  <2>4. QED
    BY <1>2, <1>4, <2>1, <2>2, <2>3
<1>7. ASSUME NEW s \in 0 .. write' - 1, s < EventCap
      PROVE  s \in whole' \/ \E o \in Recorder : filling'[o] = s
  <2>1. CASE s \in whole \/ s = filling[th]
    BY <1>1, <1>2, <1>7, <2>1
  <2>2. CASE s \notin whole /\ s # filling[th]
    <3>1. PICK o \in Recorder : filling[o] = s
      BY <1>2, <1>4, <1>7, <2>2
    <3>2. QED
      BY <1>3, <2>2, <3>1
  <2>3. QED
    BY <2>1, <2>2
<1>8. dropped' + Cardinality(Dropping') = IF write' > EventCap THEN write' - EventCap ELSE 0
  <2>1. /\ IsFiniteSet(Dropping) /\ Cardinality(Dropping) \in Nat
        /\ dropped + Cardinality(Dropping) = IF write > EventCap THEN write - EventCap ELSE 0
    BY DroppingFinite DEF SlotsInStep
  <2>2. CASE filling[th] = EventCap
    <3>1. Dropping' = Dropping \ {th} /\ th \in Dropping
      BY <1>1, <1>2, <1>3, <2>2 DEF Dropping, NoRoom
    <3>2. Cardinality(Dropping') = Cardinality(Dropping) - 1
      BY <2>1, <3>1, FS_RemoveElement
    <3>3. dropped' = dropped + 1
      BY <1>1, <1>2, <2>2
    <3>4. QED
      BY <1>1, <1>2, <2>1, <3>2, <3>3
  <2>3. CASE filling[th] # EventCap
    <3>1. Dropping' = Dropping
      BY <1>1, <1>2, <1>3, <2>3 DEF Dropping, NoRoom
    <3>2. dropped' = dropped
      BY <1>1, <1>2, <2>3
    <3>3. QED
      BY <1>2, <2>1, <3>1, <3>2
  <2>4. QED
    BY <1>1, <1>2, <2>2, <2>3
<1>9. SlotsInStep'
  BY <1>5, <1>6, <1>7, <1>8 DEF SlotsInStep, NoRoom
<1>10. filling' \in [Recorder -> Nat \cup {NoSlot}]
  BY <1>1, <1>2
<1>11. dropped' \in Nat /\ whole' \subseteq Nat /\ write' \in Nat
  <2>1. dropped' \in {dropped, dropped + 1} /\ whole' \subseteq whole \cup {filling[th]}
    BY <1>2
  <2>2. QED
    BY <1>1, <1>2, <2>1
<1>12. ProfTypeOK'
  BY <1>10, <1>11 DEF ProfTypeOK
<1>13. QED
  BY <1>1, <1>2, <1>3, <1>9, <1>12

LEMMA QuietSlots ==
  ASSUME ProfTypeOK, SlotsInStep, Quietly
  PROVE  SlotsInStep' /\ ProfTypeOK' /\ filling' = filling /\ trace' = trace
BY DEF Quietly, profVars, SlotsInStep, Dropping, ProfTypeOK, NoRoom

-----------------------------------------------------------------------------
(* The steps of the bench.                                                 *)

LEMMA RecorderFacts ==
  /\ Main \in Recorder /\ MaxFrames \in Nat /\ 0 \in JobNo
  /\ \A k \in JobNo : Worker(k) \in Recorder \ {Main}
  /\ \A t \in Task : Runner(t) \in Recorder \ {Main}
  /\ \A k, j \in JobNo : Worker(k) = Worker(j) => k = j
  /\ \A t, u \in Task : Runner(t) = Runner(u) => t = u
  /\ \A k \in JobNo, t \in Task : Worker(k) # Runner(t)
  /\ \A th \in Recorder \ {Main} :
       (\E k \in JobNo : th = Worker(k)) \/ (\E t \in Task : th = Runner(t))
<1>1. MaxFrames \in Nat /\ 0 \in JobNo
  BY BenchAssumption DEF JobNo
<1>2. /\ Main \in Recorder
      /\ \A k \in JobNo : Worker(k) \in Recorder \ {Main}
      /\ \A t \in Task : Runner(t) \in Recorder \ {Main}
      /\ \A th \in Recorder \ {Main} :
           (\E k \in JobNo : th = Worker(k)) \/ (\E t \in Task : th = Runner(t))
  BY BenchAssumption DEF BenchRecorder
<1>3. \A k, j : Worker(k) = Worker(j) => k = j
  BY DEF Worker
<1>4. \A t, u : Runner(t) = Runner(u) => t = u
  BY DEF Runner
<1>5. \A k, t : Worker(k) # Runner(t)
  BY DEF Worker, Runner
<1>6. QED
  BY <1>1, <1>2, <1>3, <1>4, <1>5

\* What main's steps have in common while they record at most the start of an event.
LEMMA MainRecords ==
  ASSUME BenchInv, filling[Main] = NoSlot, Quietly \/ Reserve(Main)
  PROVE  /\ SlotsInStep' /\ ProfTypeOK'
         /\ \A o \in Recorder \ {Main} : filling'[o] = filling[o]
BY RecorderFacts, ReserveSlots, QuietSlots DEF BenchInv, BenchTypeOK

\* Main's events concern nobody else.
LEMMA OthersRecord ==
  ASSUME RecordersInStep, UNCHANGED <<job, closing>>,
         \A o \in Recorder \ {Main} : filling'[o] = filling[o]
  PROVE  RecordersInStep'
BY RecorderFacts DEF RecordersInStep

\* Where main has tasks and jobs to wait for.
LEMMA Awaited ==
  ASSUME BenchInv
  PROVE  /\ pc \notin {"tick_infer", "tick_submit", "wait"} =>
              todo = {} /\ busy = {} /\ closing = {} /\ lost = {}
         /\ pc \notin {"tick_submit", "wait", "future"} => \A k \in JobNo : ~Owed(k)
         /\ Prelude => \A k \in JobNo : ~Owed(k)
BY DEF BenchInv, TasksInStep, JobsInStep, Owed

\* Main's way through the start, the batches, the first job and the media.
LEMMA PreludeInv ==
  ASSUME BenchInv, Allocators \/ TimedBatch \/ Wait \/ ResetGraph \/ FirstJob \/ Future \/ Media
  PROVE  BenchInv'
<1>1. BenchTypeOK /\ TasksInStep /\ RecordersInStep /\ JobsInStep
  BY DEF BenchInv
<1>2. /\ filling[Main] = NoSlot /\ (Quietly \/ Reserve(Main))
      /\ UNCHANGED <<frameCount, f, epoch, closing>>
  BY DEF Allocators, TimedBatch, Wait, AfterWait, ResetGraph, FirstJob, Future, Media, At,
         optVars, graphVars, taskVars, CreateBatch
<1>3. /\ SlotsInStep' /\ ProfTypeOK'
      /\ \A o \in Recorder \ {Main} : filling'[o] = filling[o]
  BY <1>2, MainRecords
<1>4. /\ frameCount \in 0 .. MaxFrames /\ f \in 0 .. frameCount
      /\ epoch \in Nat /\ captured \in Nat
      /\ todo \subseteq Task /\ busy \subseteq Task
      /\ closing \subseteq Task /\ lost \subseteq Task
      /\ job \in [JobNo -> {"none", "lost", "gone"} \cup DOMAIN JobOrder]
      /\ f \in Nat
  BY <1>1, RecorderFacts DEF BenchTypeOK
<1>5. CASE Allocators \/ Future \/ Media \/ ResetGraph
  <2>1. /\ UNCHANGED <<todo, busy, lost, captured, job, batch>>
        /\ pc \notin {"wait", "tick_infer", "tick_submit"}
        /\ pc' \notin {"wait", "tick_infer", "tick_submit"}
    BY <1>5 DEF Allocators, Future, Media, ResetGraph, graphVars, taskVars, At, To
  <2>2. BenchTypeOK' /\ TasksInStep'
    BY <1>1, <1>2, <1>3, <1>4, <2>1 DEF BenchTypeOK, TasksInStep
  <2>3. RecordersInStep'
    BY <1>1, <1>2, <1>3, <2>1, OthersRecord
  <2>4. JobsInStep'
    <3>1. CASE Allocators
      <4>1. pc = "arena" /\ pc' = "independent"
        BY <3>1 DEF Allocators, At, To
      <4>2. QED
        BY <1>1, <1>2, <2>1, <4>1 DEF JobsInStep, Prelude, InFrame, Owed
    <3>2. CASE Future
      <4>1. /\ pc = "future"
            /\ \/ batch = "tick" /\ pc' = "video" /\ ~Owed(f + 1)
               \/ batch # "tick" /\ pc' = "media" /\ ~Owed(0)
        BY <3>2 DEF Future, CurrentJob, At, To, Owed
      <4>2. QED
        BY <1>1, <1>2, <2>1, <4>1 DEF JobsInStep, Prelude, InFrame, Owed
    <3>3. CASE Media
      <4>1. pc = "media" /\ pc' = "tick"
        BY <3>3 DEF Media, At, To
      <4>2. QED
        BY <1>1, <1>2, <2>1, <4>1 DEF JobsInStep, Prelude, InFrame, Owed
    <3>4. CASE ResetGraph
      <4>1. \/ pc = "reset" /\ pc' = "dag"
            \/ pc = "tick_reset" /\ pc' = "tick_create"
        BY <3>4 DEF ResetGraph, At, To
      <4>2. QED
        BY <1>1, <1>2, <2>1, <4>1 DEF JobsInStep, Prelude, InFrame, Owed
    <3>5. QED
      BY <1>5, <3>1, <3>2, <3>3, <3>4
  <2>5. QED
    BY <1>3, <2>2, <2>3, <2>4 DEF BenchInv
<1>6. CASE TimedBatch
  <2>1. PICK b \in {"independent", "dag"} : pc = b /\ CreateBatch(b)
    BY <1>6 DEF TimedBatch, At
  <2>2. /\ captured' = epoch /\ busy' = busy /\ lost' = lost /\ pc' = "wait"
        /\ busy = {} /\ closing = {}
        /\ job' = job /\ batch' # "tick" /\ pc \in {"independent", "dag"}
        /\ todo' \subseteq Task
    BY <1>4, <1>6, <2>1, Awaited DEF TimedBatch, CreateBatch, To, Task
  <2>3. BenchTypeOK' /\ TasksInStep'
    BY <1>1, <1>2, <1>3, <1>4, <2>2 DEF BenchTypeOK, TasksInStep
  <2>4. RecordersInStep'
    BY <1>1, <1>2, <1>3, <2>2, OthersRecord
  <2>5. JobsInStep'
    BY <1>1, <1>2, <2>2 DEF JobsInStep, Prelude, InFrame, Owed
  <2>6. QED
    BY <1>3, <2>3, <2>4, <2>5 DEF BenchInv
<1>7. CASE Wait
  <2>1. /\ UNCHANGED <<todo, busy, lost, captured, job, batch>> /\ Done /\ pc = "wait"
        /\ \/ batch = "tick" /\ pc' = "future"
           \/ batch # "tick" /\ pc' \in {"reset", "infer"}
    BY <1>7 DEF Wait, AfterWait, graphVars, taskVars, At, To
  <2>2. BenchTypeOK' /\ TasksInStep'
    BY <1>1, <1>2, <1>3, <1>4, <2>1 DEF BenchTypeOK, TasksInStep, Done
  <2>3. RecordersInStep'
    BY <1>1, <1>2, <1>3, <2>1, OthersRecord
  <2>4. JobsInStep'
    BY <1>1, <1>2, <2>1 DEF JobsInStep, Prelude, InFrame, Owed
  <2>5. QED
    BY <1>3, <2>2, <2>3, <2>4 DEF BenchInv
<1>8. CASE FirstJob
  <2>1. /\ UNCHANGED <<todo, busy, lost, captured, batch>> /\ pc = "infer" /\ pc' = "future"
        /\ job' = [job EXCEPT ![0] = "queued"]
    BY <1>8 DEF FirstJob, SubmitJob, graphVars, taskVars, At, To
  <2>2. /\ job' \in [JobNo -> {"none", "lost", "gone"} \cup DOMAIN JobOrder]
        /\ job'[0] = "queued" /\ \A k \in JobNo : k # 0 => job'[k] = job[k]
        /\ batch # "tick" /\ \A k \in JobNo : job[k] = "none"
    BY <1>1, <1>4, <2>1, RecorderFacts DEF JobOrder, JobsInStep, Prelude
  <2>3. BenchTypeOK' /\ TasksInStep'
    BY <1>1, <1>2, <1>3, <1>4, <2>1, <2>2 DEF BenchTypeOK, TasksInStep
  <2>4. RecordersInStep'
    BY <1>1, <1>2, <1>3, <2>2, RecorderFacts DEF RecordersInStep
  <2>5. JobsInStep'
    <3>1. \A k \in JobNo : job'[k] # "none" => k = 0
      BY <2>2
    <3>2. \A k \in JobNo : Owed(k)' => k = 0
      BY <3>1 DEF Owed
    <3>3. 0 <= f' /\ batch' # "tick" /\ pc' = "future" /\ ~Prelude' /\ ~InFrame'
      BY <1>2, <1>4, <2>1, <2>2 DEF Prelude, InFrame
    <3>4. /\ \A k \in JobNo : Owed(k)' => batch' # "tick" /\ k = 0 /\ pc' = "future"
          /\ \A k \in JobNo : job'[k] # "none" => k <= f'
      BY <3>1, <3>2, <3>3
    <3>5. QED
      BY <3>3, <3>4 DEF JobsInStep
  <2>6. QED
    BY <1>3, <2>3, <2>4, <2>5 DEF BenchInv
<1>9. QED
  BY <1>5, <1>6, <1>7, <1>8

\* The frames: the arena is reset while nothing of the last frame is under way.
LEMMA FrameInv ==
  ASSUME BenchInv, TickStart \/ TickCreate \/ TickSubmit \/ TickVideo \/ TickEnd \/ EndFrame
  PROVE  BenchInv'
<1>1. /\ BenchTypeOK /\ TasksInStep /\ RecordersInStep /\ JobsInStep
  BY DEF BenchInv
<1>2. /\ filling[Main] = NoSlot /\ (Quietly \/ Reserve(Main))
      /\ UNCHANGED <<frameCount, busy, closing, lost>>
  BY DEF TickStart, TickCreate, TickSubmit, TickVideo, TickEnd, EndFrame, At, optVars,
         graphVars, taskVars, CreateBatch
<1>3. /\ SlotsInStep' /\ ProfTypeOK'
      /\ \A o \in Recorder \ {Main} : filling'[o] = filling[o]
  BY <1>2, MainRecords
<1>4. /\ frameCount \in 0 .. MaxFrames /\ f \in 0 .. frameCount
      /\ epoch \in Nat /\ captured \in Nat /\ f \in Nat /\ frameCount \in Nat
      /\ MaxFrames \in Nat
      /\ todo \subseteq Task /\ busy \subseteq Task
      /\ closing \subseteq Task /\ lost \subseteq Task
      /\ job \in [JobNo -> {"none", "lost", "gone"} \cup DOMAIN JobOrder]
  BY <1>1, RecorderFacts DEF BenchTypeOK
<1>5. CASE TickStart
  <2>1. /\ pc = "tick" /\ f < frameCount /\ epoch' = epoch + 1
        /\ UNCHANGED <<todo, captured, job, batch, f>>
        /\ pc' \in {"tick_reset", "tick_end"}
    BY <1>5 DEF TickStart, graphVars, taskVars, At, To
  <2>2. BenchTypeOK' /\ TasksInStep'
    BY <1>1, <1>2, <1>3, <1>4, <2>1 DEF BenchTypeOK, TasksInStep
  <2>3. RecordersInStep'
    BY <1>1, <1>2, <1>3, <2>1, OthersRecord
  <2>4. JobsInStep'
    BY <1>1, <1>2, <2>1 DEF JobsInStep, Prelude, InFrame, Owed
  <2>5. QED
    BY <1>3, <2>2, <2>3, <2>4 DEF BenchInv
<1>6. CASE TickCreate
  <2>1. /\ pc = "tick_create" /\ pc' = "tick_infer" /\ captured' = epoch /\ batch' = "tick"
        /\ UNCHANGED <<f, job, epoch>> /\ todo' \subseteq Task
        /\ busy = {} /\ closing = {}
    BY <1>4, <1>6, Awaited DEF TickCreate, CreateBatch, At, To, Task
  <2>2. BenchTypeOK' /\ TasksInStep'
    BY <1>1, <1>2, <1>3, <1>4, <2>1 DEF BenchTypeOK, TasksInStep
  <2>3. RecordersInStep'
    BY <1>1, <1>2, <1>3, <2>1, OthersRecord
  <2>4. JobsInStep'
    BY <1>1, <1>2, <2>1 DEF JobsInStep, Prelude, InFrame, Owed
  <2>5. QED
    BY <1>3, <2>2, <2>3, <2>4 DEF BenchInv
<1>7. CASE TickSubmit
  <2>1. /\ UNCHANGED <<f, epoch, captured, batch, todo>> /\ batch = "tick"
        /\ \/ /\ pc = "tick_infer" /\ pc' = "tick_submit" /\ f < frameCount
              /\ job' = [job EXCEPT ![f + 1] = "queued"]
           \/ pc = "tick_submit" /\ pc' = "wait" /\ job' = job
    BY <1>1, <1>7 DEF TickSubmit, SubmitJob, At, To, taskVars, JobsInStep
  <2>2. CASE pc = "tick_infer"
    <3>1. f + 1 \in JobNo
      BY <1>4, <2>1, <2>2 DEF JobNo
    <3>2. /\ job' \in [JobNo -> {"none", "lost", "gone"} \cup DOMAIN JobOrder]
          /\ job'[f + 1] = "queued" /\ \A k \in JobNo : k # f + 1 => job'[k] = job[k]
      BY <1>4, <2>1, <2>2, <3>1 DEF JobOrder
    <3>3. job[f + 1] = "none"
      BY <1>1, <1>4, <2>2, <3>1 DEF JobsInStep, InFrame
    <3>4. BenchTypeOK' /\ TasksInStep'
      BY <1>1, <1>2, <1>3, <1>4, <2>1, <2>2, <3>2 DEF BenchTypeOK, TasksInStep
    <3>5. RecordersInStep'
      BY <1>1, <1>2, <1>3, <3>2, <3>3, RecorderFacts DEF RecordersInStep
    <3>6. JobsInStep'
      BY <1>1, <1>2, <2>1, <2>2, <3>2 DEF JobsInStep, Prelude, InFrame, Owed
    <3>7. QED
      BY <1>3, <3>4, <3>5, <3>6 DEF BenchInv
  <2>3. CASE pc = "tick_submit"
    <3>1. BenchTypeOK' /\ TasksInStep'
      BY <1>1, <1>2, <1>3, <1>4, <2>1, <2>3 DEF BenchTypeOK, TasksInStep
    <3>2. RecordersInStep'
      BY <1>1, <1>2, <1>3, <2>1, <2>3, OthersRecord
    <3>3. JobsInStep'
      BY <1>1, <1>2, <2>1, <2>3 DEF JobsInStep, Prelude, InFrame, Owed
    <3>4. QED
      BY <1>3, <3>1, <3>2, <3>3 DEF BenchInv
  <2>4. QED
    BY <2>1, <2>2, <2>3
<1>8. CASE TickVideo \/ TickEnd \/ EndFrame
  <2>1. /\ UNCHANGED <<todo, captured, job, batch, epoch>>
        /\ \/ pc = "video" /\ pc' = "tick_end" /\ f' = f
           \/ pc = "tick_end" /\ pc' = "tick" /\ f' = f + 1
           \/ pc = "tick" /\ pc' = "export" /\ f' = f
    BY <1>8 DEF TickVideo, TickEnd, EndFrame, graphVars, taskVars, At, To
  <2>2. f' \in 0 .. frameCount'
    BY <1>1, <1>2, <1>4, <2>1 DEF JobsInStep, InFrame
  <2>3. BenchTypeOK' /\ TasksInStep'
    BY <1>1, <1>2, <1>3, <1>4, <2>1, <2>2 DEF BenchTypeOK, TasksInStep
  <2>4. RecordersInStep'
    BY <1>1, <1>2, <1>3, <2>1, OthersRecord
  <2>5. JobsInStep'
    <3>1. \A k \in JobNo : ~Owed(k)'
      BY <2>1, Awaited DEF Owed
    <3>2. \A k \in JobNo : job'[k] # "none" => k <= f' \/ (InFrame' /\ k = f' + 1)
      <4>1. \A k \in JobNo : job[k] # "none" => k \in Nat /\ (k <= f \/ k = f + 1)
        BY <1>1, <1>4 DEF JobsInStep, JobNo
      <4>2. CASE pc = "video" \/ pc = "tick_end"
        <5>1. (pc = "video" => InFrame') /\ (pc = "video" => f' = f) /\ (pc = "tick_end" => f' = f + 1)
          BY <2>1, <4>2 DEF InFrame
        <5>2. QED
          BY <1>4, <2>1, <4>1, <4>2, <5>1
      <4>3. CASE pc = "tick"
        BY <1>1, <2>1, <4>3 DEF JobsInStep, InFrame
      <4>4. QED
        BY <2>1, <4>2, <4>3
    <3>3. ~Prelude' /\ (InFrame' => f' < frameCount')
      BY <1>1, <1>2, <2>1 DEF JobsInStep, Prelude, InFrame
    <3>4. QED
      BY <2>1, <3>1, <3>2, <3>3 DEF JobsInStep
  <2>6. QED
    BY <1>3, <2>3, <2>4, <2>5 DEF BenchInv
<1>9. QED
  BY <1>5, <1>6, <1>7, <1>8

\* The first reset of the profiler, the export, and main's events.
LEMMA ProfilerInv ==
  ASSUME BenchInv,
         \/ Start \/ Finish
         \/ Fill(Main) /\ UNCHANGED <<optVars, pc, f, graphVars, epoch, written, counted, job,
                                      tickOk, rc>>
  PROVE  BenchInv'
<1>1. BenchTypeOK /\ TasksInStep /\ RecordersInStep /\ JobsInStep /\ SlotsInStep
  BY DEF BenchInv
<1>2. UNCHANGED <<frameCount, f, batch, todo, busy, closing, lost, captured, epoch, job>>
  BY DEF Start, Finish, optVars, graphVars, taskVars
<1>3. CASE Start
  <2>1. /\ pc = "start" /\ pc' = "arena" /\ filling[Main] = NoSlot /\ filling' = filling
        /\ write' = 0 /\ dropped' = 0 /\ whole' = {}
    BY <1>3 DEF Start, ProfReset, At, To
  <2>2. \A th \in Recorder : filling[th] = NoSlot
    BY <1>1, <2>1, Awaited, RecorderFacts DEF RecordersInStep, JobsInStep, Prelude
  <2>3. EventCap \in Nat /\ NoSlot \notin Nat
    BY ProfilerAssumption
  <2>4. Dropping' = {}
    BY <2>1, <2>2, <2>3 DEF Dropping, NoRoom
  <2>5. SlotsInStep'
    BY <2>1, <2>2, <2>3, <2>4, FS_EmptySet DEF SlotsInStep
  <2>6. BenchTypeOK' /\ TasksInStep'
    BY <1>1, <1>2, <2>1 DEF BenchTypeOK, ProfTypeOK, TasksInStep
  <2>7. RecordersInStep' /\ JobsInStep'
    BY <1>1, <1>2, <2>1 DEF RecordersInStep, JobsInStep, Prelude, InFrame, Owed
  <2>8. QED
    BY <2>5, <2>6, <2>7 DEF BenchInv
<1>4. CASE Finish
  <2>1. /\ pc = "export" /\ pc' = "done"
        /\ write' = write /\ dropped' = dropped /\ whole' = whole /\ filling' = filling
    BY <1>4 DEF Finish, Export, At, To
  <2>2. SlotsInStep'
    BY <1>1, <2>1 DEF SlotsInStep, Dropping, NoRoom
  <2>3. BenchTypeOK' /\ TasksInStep'
    BY <1>1, <1>2, <2>1 DEF BenchTypeOK, ProfTypeOK, TasksInStep
  <2>4. RecordersInStep' /\ JobsInStep'
    BY <1>1, <1>2, <2>1 DEF RecordersInStep, JobsInStep, Prelude, InFrame, Owed
  <2>5. QED
    BY <2>2, <2>3, <2>4 DEF BenchInv
<1>5. CASE /\ Fill(Main)
           /\ UNCHANGED <<optVars, pc, f, graphVars, epoch, written, counted, job, tickOk, rc>>
  <2>1. /\ SlotsInStep' /\ ProfTypeOK' /\ pc' = pc
        /\ \A o \in Recorder \ {Main} : filling'[o] = filling[o]
    BY <1>1, <1>5, RecorderFacts, FillSlots DEF BenchTypeOK
  <2>2. BenchTypeOK' /\ TasksInStep'
    BY <1>1, <1>2, <2>1 DEF BenchTypeOK, TasksInStep
  <2>3. RecordersInStep'
    BY <1>1, <1>2, <2>1, OthersRecord
  <2>4. JobsInStep'
    BY <1>1, <1>2, <2>1 DEF JobsInStep, Prelude, InFrame, Owed
  <2>5. QED
    BY <2>1, <2>2, <2>3, <2>4 DEF BenchInv
<1>6. QED
  BY <1>3, <1>4, <1>5

\* The tasks: they go from todo to busy and closing, or are lost, while main waits.
LEMMA TaskInv ==
  ASSUME BenchInv, TaskStep \/ TaskStray
  PROVE  BenchInv'
<1>1. BenchTypeOK /\ TasksInStep /\ RecordersInStep /\ JobsInStep /\ SlotsInStep /\ ProfTypeOK
  BY DEF BenchInv, BenchTypeOK
<1>2. UNCHANGED <<frameCount, pc, f, batch, captured, epoch, job>>
  BY DEF TaskStep, TaskStray, OfGraph, optVars
<1>3. PICK t \in Task : Begins(t) \/ LoseTask(t) \/ EndTask(t) \/ CloseTask(t)
  BY DEF TaskStep, TaskStray, BeginTask, BeginEarly
<1>4. /\ todo \subseteq Task /\ busy \subseteq Task
      /\ closing \subseteq Task /\ lost \subseteq Task
  BY <1>1 DEF BenchTypeOK
<1>5. JobsInStep'
  BY <1>1, <1>2 DEF JobsInStep, Prelude, InFrame, Owed
<1>6. CASE Begins(t) \/ LoseTask(t)
  <2>1. /\ Quietly /\ closing' = closing /\ t \in todo
        /\ todo' \subseteq Task /\ busy' \subseteq Task /\ lost' \subseteq Task
    BY <1>4, <1>6 DEF Begins, LoseTask
  <2>2. SlotsInStep' /\ ProfTypeOK' /\ filling' = filling
    BY <1>1, <2>1, QuietSlots
  <2>3. BenchTypeOK'
    BY <1>1, <1>2, <2>1, <2>2 DEF BenchTypeOK
  <2>4. RecordersInStep'
    BY <1>1, <1>2, <2>1, <2>2 DEF RecordersInStep
  <2>5. pc \in {"tick_infer", "tick_submit", "wait"}
    BY <1>1, <2>1 DEF TasksInStep
  <2>6. todo' \cap (busy' \cup closing') = {} /\ busy' \cap closing' = {}
    <3>1. todo \cap (busy \cup closing) = {} /\ busy \cap closing = {}
      BY <1>1 DEF TasksInStep
    <3>2. CASE Begins(t)
      BY <2>1, <3>1, <3>2 DEF Begins
    <3>3. CASE LoseTask(t)
      BY <2>1, <3>1, <3>3 DEF LoseTask
    <3>4. QED
      BY <1>6, <3>2, <3>3
  <2>7. TasksInStep'
    BY <1>1, <1>2, <2>5, <2>6 DEF TasksInStep
  <2>8. QED
    BY <1>5, <2>2, <2>3, <2>4, <2>7 DEF BenchInv
<1>7. CASE EndTask(t)
  <2>1. /\ todo' = todo /\ lost' = lost /\ t \in busy /\ Reserve(Runner(t))
        /\ busy' = busy \ {t} /\ closing' = closing \cup {t}
    BY <1>7 DEF EndTask
  <2>2. filling[Runner(t)] = NoSlot
    BY <1>1, <2>1 DEF TasksInStep, RecordersInStep
  <2>3. /\ SlotsInStep' /\ ProfTypeOK' /\ filling'[Runner(t)] # NoSlot
        /\ \A o \in Recorder \ {Runner(t)} : filling'[o] = filling[o]
    BY <1>1, <2>1, <2>2, RecorderFacts, ReserveSlots
  <2>4. BenchTypeOK' /\ TasksInStep'
    BY <1>1, <1>2, <2>1, <2>3 DEF BenchTypeOK, TasksInStep
  <2>5. RecordersInStep'
    BY <1>1, <1>2, <2>1, <2>3, RecorderFacts DEF RecordersInStep
  <2>6. QED
    BY <1>5, <2>3, <2>4, <2>5 DEF BenchInv
<1>8. CASE CloseTask(t)
  <2>1. /\ UNCHANGED <<todo, busy, lost>> /\ t \in closing /\ Fill(Runner(t))
        /\ closing' = closing \ {t}
    BY <1>8 DEF CloseTask
  <2>2. /\ SlotsInStep' /\ ProfTypeOK' /\ filling'[Runner(t)] = NoSlot
        /\ \A o \in Recorder \ {Runner(t)} : filling'[o] = filling[o]
    BY <1>1, <2>1, RecorderFacts, FillSlots
  <2>3. BenchTypeOK' /\ TasksInStep'
    BY <1>1, <1>2, <2>1, <2>2 DEF BenchTypeOK, TasksInStep
  <2>4. RecordersInStep'
    BY <1>1, <1>2, <2>1, <2>2, RecorderFacts DEF RecordersInStep
  <2>5. QED
    BY <1>5, <2>2, <2>3, <2>4 DEF BenchInv
<1>9. QED
  BY <1>3, <1>6, <1>7, <1>8

\* A worker of the engine records the job before the answer, and its task after it.
LEMMA JobInv ==
  ASSUME BenchInv, NEW k \in JobNo, JobStep(k) \/ LoseJob(k)
  PROVE  BenchInv'
<1>1. BenchTypeOK /\ TasksInStep /\ RecordersInStep /\ JobsInStep /\ SlotsInStep /\ ProfTypeOK
  BY DEF BenchInv, BenchTypeOK
<1>2. UNCHANGED <<pc, f, frameCount, batch, todo, busy, closing, lost, captured, epoch>>
  BY DEF JobStep, LoseJob, OfEngine, optVars, graphVars, taskVars
<1>3. job \in [JobNo -> {"none", "lost", "gone"} \cup DOMAIN JobOrder]
  BY <1>1 DEF BenchTypeOK
<1>4. PICK p : job' = [job EXCEPT ![k] = p] /\
        \/ job[k] = "queued" /\ p \in {"execute", "lost"} /\ Quietly
        \/ job[k] = "execute" /\ p = "span" /\ Reserve(Worker(k))
        \/ job[k] = "span" /\ p = "answer" /\ Fill(Worker(k))
        \/ job[k] = "answer" /\ p = "free" /\ Quietly
        \/ job[k] = "free" /\ p = "last" /\ Reserve(Worker(k))
        \/ job[k] = "last" /\ p = "gone" /\ Fill(Worker(k))
  BY DEF JobStep, LoseJob, JobOrder
<1>5. /\ job' \in [JobNo -> {"none", "lost", "gone"} \cup DOMAIN JobOrder]
      /\ job'[k] = p /\ \A i \in JobNo : i # k => job'[i] = job[i]
  <2>1. p \in {"none", "lost", "gone"} \cup DOMAIN JobOrder
    BY <1>4 DEF JobOrder
  <2>2. QED
    BY <1>3, <1>4, <2>1
<1>6. JobsInStep'
  <2>1. \A i \in JobNo : (Owed(i)' => Owed(i)) /\ job[k] # "none"
    BY <1>4, <1>5 DEF Owed
  <2>2. QED
    BY <1>1, <1>2, <1>5, <2>1 DEF JobsInStep, Prelude, InFrame
<1>7. TasksInStep'
  BY <1>1, <1>2 DEF TasksInStep
<1>8. ASSUME ProfTypeOK'
      PROVE  BenchTypeOK'
  BY <1>1, <1>2, <1>5, <1>8 DEF BenchTypeOK
<1>9. CASE job[k] \in {"queued", "answer"}
  <2>1. SlotsInStep' /\ ProfTypeOK' /\ filling' = filling
    BY <1>1, <1>4, <1>9, QuietSlots
  <2>2. RecordersInStep'
    BY <1>1, <1>2, <1>4, <1>5, <1>9, <2>1 DEF RecordersInStep
  <2>3. QED
    BY <1>6, <1>7, <1>8, <2>1, <2>2 DEF BenchInv
<1>10. CASE job[k] \in {"execute", "free"}
  <2>1. filling[Worker(k)] = NoSlot /\ Reserve(Worker(k)) /\ p \in {"span", "last"}
    BY <1>1, <1>4, <1>10 DEF RecordersInStep
  <2>2. /\ SlotsInStep' /\ ProfTypeOK' /\ filling'[Worker(k)] # NoSlot
        /\ \A o \in Recorder \ {Worker(k)} : filling'[o] = filling[o]
    BY <1>1, <2>1, RecorderFacts, ReserveSlots
  <2>3. RecordersInStep'
    BY <1>1, <1>2, <1>5, <2>1, <2>2, RecorderFacts DEF RecordersInStep
  <2>4. QED
    BY <1>6, <1>7, <1>8, <2>2, <2>3 DEF BenchInv
<1>11. CASE job[k] \in {"span", "last"}
  <2>1. Fill(Worker(k)) /\ p \in {"answer", "gone"}
    BY <1>4, <1>11
  <2>2. /\ SlotsInStep' /\ ProfTypeOK' /\ filling'[Worker(k)] = NoSlot
        /\ \A o \in Recorder \ {Worker(k)} : filling'[o] = filling[o]
    BY <1>1, <2>1, RecorderFacts, FillSlots
  <2>3. RecordersInStep'
    BY <1>1, <1>2, <1>5, <2>1, <2>2, RecorderFacts DEF RecordersInStep
  <2>4. QED
    BY <1>6, <1>7, <1>8, <2>2, <2>3 DEF BenchInv
<1>12. QED
  BY <1>4, <1>9, <1>10, <1>11

LEMMA BenchInitInv ==
  ASSUME BenchInit
  PROVE  BenchInv
<1>1. /\ write = 0 /\ dropped = 0 /\ whole = {}
      /\ filling = [th \in Recorder |-> NoSlot]
      /\ job = [k \in JobNo |-> "none"]
      /\ frameCount \in 0 .. MaxFrames /\ f = 0 /\ epoch = 0 /\ captured = 0
      /\ todo = {} /\ busy = {} /\ closing = {} /\ lost = {}
      /\ pc = "start" /\ batch = "none"
  BY DEF BenchInit, ProfInit
<1>2. /\ MaxFrames \in Nat /\ EventCap \in Nat /\ NoSlot \notin Nat
      /\ \A k \in JobNo : filling[Worker(k)] = NoSlot
      /\ \A t \in Task : filling[Runner(t)] = NoSlot
  BY <1>1, RecorderFacts, ProfilerAssumption
<1>3. 0 \in 0 .. frameCount
  BY <1>1, <1>2
<1>4. BenchTypeOK
  BY <1>1, <1>3 DEF BenchTypeOK, ProfTypeOK
<1>5. TasksInStep /\ RecordersInStep /\ JobsInStep
  BY <1>1, <1>2 DEF TasksInStep, RecordersInStep, JobsInStep, Prelude, InFrame, Owed
<1>6. Dropping = {}
  BY <1>1, <1>2 DEF Dropping, NoRoom
<1>7. SlotsInStep
  BY <1>1, <1>2, <1>6, FS_EmptySet DEF SlotsInStep
<1>8. QED
  BY <1>4, <1>5, <1>7 DEF BenchInv

\* The inductive invariant of the bench: who may record when, which slots are filled
\* or being filled, and whose memory the graph's tasks hold.
THEOREM BenchInvariant == BenchSpec => []BenchInv
<1>1. BenchInit => BenchInv
  BY BenchInitInv
<1>2. BenchInv /\ [BenchNext]_benchVars => BenchInv'
  <2> SUFFICES ASSUME BenchInv, [BenchNext]_benchVars PROVE BenchInv'
    OBVIOUS
  <2>1. CASE MainStep
    BY <2>1, PreludeInv, FrameInv, ProfilerInv DEF MainStep
  <2>2. CASE TaskStep \/ TaskStray
    BY <2>2, TaskInv
  <2>3. ASSUME NEW k \in JobNo, JobStep(k) \/ LoseJob(k)
        PROVE  BenchInv'
    BY <2>3, JobInv
  <2>4. CASE UNCHANGED benchVars
    <3>1. /\ Quietly
          /\ UNCHANGED <<pc, f, frameCount, batch, todo, busy, closing, lost, captured, epoch,
                         job>>
      BY <2>4 DEF benchVars, Quietly, optVars, graphVars, taskVars
    <3>2. SlotsInStep' /\ ProfTypeOK' /\ filling' = filling
      BY <3>1, QuietSlots DEF BenchInv, BenchTypeOK
    <3>3. BenchTypeOK' /\ TasksInStep' /\ RecordersInStep' /\ JobsInStep'
      BY <3>1, <3>2
      DEF BenchInv, BenchTypeOK, TasksInStep, RecordersInStep, JobsInStep, Prelude, InFrame, Owed
    <3>4. QED
      BY <3>2, <3>3 DEF BenchInv
  <2>5. QED
    BY <2>1, <2>2, <2>3, <2>4 DEF BenchNext
<1>3. QED
  BY <1>1, <1>2, PTL DEF BenchSpec

\* No task outlives its frame: whoever runs one, late or out of turn, finds the arena
\* as it was when the task captured pointers into it.
THEOREM BenchFrameMemoryLive == BenchSpec => []FrameMemoryLive
<1>1. BenchInv => FrameMemoryLive
  BY DEF BenchInv, TasksInStep, FrameMemoryLive
<1>2. QED
  BY <1>1, BenchInvariant, PTL

\* What an export finds is told by who is filling a slot: the events below the capacity
\* that are not whole are theirs, and so is what is dropped and not counted yet.
LEMMA ExportTells ==
  ASSUME BenchInv, Export
  PROVE  /\ 0 .. trace'.count - 1 \ trace'.events =
              {filling[th] : th \in {o \in Recorder : filling[o] \notin {NoSlot, NoRoom}}}
         /\ trace'.count + trace'.dropped + Cardinality(Dropping) = write
<1>1. ProfTypeOK /\ SlotsInStep
  BY DEF BenchInv, BenchTypeOK
<1>2. /\ write \in Nat /\ dropped \in Nat /\ whole \subseteq Nat
      /\ EventCap \in Nat /\ NoSlot \notin Nat
      /\ \A o \in Recorder : filling[o] # NoSlot /\ filling[o] # EventCap =>
           filling[o] \in Nat /\ filling[o] < write /\ filling[o] < EventCap
           /\ filling[o] \notin whole
      /\ \A s \in 0 .. write - 1 :
           s < EventCap => s \in whole \/ \E o \in Recorder : filling[o] = s
  BY <1>1, ProfilerFacts
<1> DEFINE count == IF write > EventCap THEN EventCap ELSE write
<1>3. trace'.events = whole \cap 0 .. count - 1 /\ trace'.dropped = dropped /\ trace'.count = count
  BY DEF Export
<1>4. /\ count \in Nat /\ count <= write /\ count <= EventCap
      /\ \A s \in Nat : s < write /\ s < EventCap => s < count
  BY <1>2
<1>5. count + dropped + Cardinality(Dropping) = write
  <2>1. dropped + Cardinality(Dropping) = IF write > EventCap THEN write - EventCap ELSE 0
    BY <1>1 DEF SlotsInStep
  <2>2. Cardinality(Dropping) \in Nat
    BY DroppingFinite
  <2>3. write \in Nat /\ dropped \in Nat /\ EventCap \in Nat
    BY <1>2
  <2>4. QED
    BY <2>1, <2>2, <2>3
<1> HIDE DEF count
<1>6. ASSUME NEW s \in 0 .. count - 1, s \notin whole
      PROVE  \E o \in Recorder : filling[o] \notin {NoSlot, NoRoom} /\ s = filling[o]
  <2>1. s \in 0 .. write - 1 /\ s < EventCap /\ s \in Nat
    BY <1>2, <1>4
  <2>2. PICK o \in Recorder : filling[o] = s
    BY <1>2, <1>6, <2>1
  <2>3. QED
    BY <1>2, <2>1, <2>2 DEF NoRoom
<1>7. ASSUME NEW o \in Recorder, filling[o] \notin {NoSlot, NoRoom}
      PROVE  filling[o] \in 0 .. count - 1 /\ filling[o] \notin whole
  BY <1>2, <1>4, <1>7 DEF NoRoom
<1>8. QED
  BY <1>3, <1>5, <1>6, <1>7

\* The exported trace has every event of main, of the graph's tasks and of the jobs'
\* execution, and tells what it has no room for; only spans recorded after an answer may
\* be missing from either.
THEOREM BenchTraceWhole == BenchSpec => TraceWhole
<1>1. ASSUME BenchInv, [BenchNext]_benchVars, trace' # trace
      PROVE  /\ 0 .. trace'.count - 1 \ trace'.events = {filling[w] : w \in Late \ LateDrops}
             /\ trace'.count + trace'.dropped + Cardinality(LateDrops) = write
  <2>1. Finish
    <3>1. CASE MainStep
      BY <1>1, <3>1
      DEF MainStep, Start, Allocators, TimedBatch, Wait, AfterWait, ResetGraph, FirstJob, Future,
          Media, TickStart, TickCreate, TickSubmit, TickVideo, TickEnd, EndFrame, Quietly,
          profVars, Reserve, Fill, ProfReset
    <3>2. CASE TaskStep \/ TaskStray
      BY <1>1, <3>2
      DEF TaskStep, TaskStray, BeginTask, BeginEarly, Begins, LoseTask, EndTask, CloseTask,
          Quietly, profVars, Reserve, Fill
    <3>3. ASSUME NEW k \in JobNo, JobStep(k) \/ LoseJob(k)
          PROVE  FALSE
      BY <1>1, <3>3 DEF JobStep, LoseJob, Quietly, profVars, Reserve, Fill
    <3>4. QED
      BY <1>1, <3>1, <3>2, <3>3 DEF BenchNext, benchVars, profVars
  <2>2. Export /\ pc = "export" /\ filling[Main] = NoSlot
    BY <2>1 DEF Finish, At
  <2>3. closing = {} /\ \A k \in JobNo : ~Owed(k)
    BY <1>1, <2>2, Awaited
  <2>4. /\ \A t \in Task : filling[Runner(t)] = NoSlot
        /\ \A k \in JobNo : filling[Worker(k)] # NoSlot <=> job[k] = "last"
    BY <1>1, <2>3 DEF BenchInv, RecordersInStep, Owed
  <2>5. \A th \in Recorder : filling[th] # NoSlot <=> th \in Late
    <3>1. \A k \in JobNo : Worker(k) \in Late <=> job[k] = "last"
      BY RecorderFacts DEF Late
    <3>2. Main \notin Late /\ \A t \in Task : Runner(t) \notin Late
      BY RecorderFacts DEF Late
    <3>3. ASSUME NEW th \in Recorder
          PROVE  filling[th] # NoSlot <=> th \in Late
      <4>1. CASE th = Main
        BY <2>2, <3>2, <4>1
      <4>2. ASSUME NEW k \in JobNo, th = Worker(k)
            PROVE  filling[th] # NoSlot <=> th \in Late
        BY <2>4, <3>1, <4>2
      <4>3. ASSUME NEW t \in Task, th = Runner(t)
            PROVE  filling[th] # NoSlot <=> th \in Late
        BY <2>4, <3>2, <4>3
      <4>4. QED
        BY <4>1, <4>2, <4>3, RecorderFacts
    <3>4. QED
      BY <3>3
  <2>6. Late \subseteq Recorder /\ NoRoom # NoSlot
    BY RecorderFacts, ProfilerAssumption DEF Late, NoRoom
  <2>7. /\ Dropping = LateDrops
        /\ {o \in Recorder : filling[o] \notin {NoSlot, NoRoom}} = Late \ LateDrops
    BY <2>5, <2>6 DEF Dropping, LateDrops
  <2>8. QED
    BY <1>1, <2>2, <2>7, ExportTells
<1>2. BenchInv /\ [BenchNext]_benchVars =>
        [trace' # trace =>
          /\ 0 .. trace'.count - 1 \ trace'.events = {filling[w] : w \in Late \ LateDrops}
          /\ trace'.count + trace'.dropped + Cardinality(LateDrops) = write]_benchVars
  BY <1>1
<1>3. QED
  BY <1>2, BenchInvariant, PTL DEF BenchSpec, TraceWhole

-----------------------------------------------------------------------------
(* The telemetry.                                                          *)

TelSpec == TelInit /\ [][TelNext]_telVars

\* The samples handed out and those in the collector, strictly increasing.
Out == delivered \o slots

OutInOrder ==
  /\ slots \in Seq(Nat) /\ delivered \in Seq(Nat) /\ calls \in Nat
  /\ forgone \in Nat /\ reported = Len(delivered) + forgone
  /\ \A i \in 1 .. Len(Out) : Out[i] <= calls
  /\ \A i, j \in 1 .. Len(Out) : i < j => Out[i] < Out[j]

LEMMA AppendIs ==
  ASSUME NEW s \in Seq(Nat), NEW e \in Nat
  PROVE  /\ Append(s, e) \in Seq(Nat) /\ Len(s) \in Nat
         /\ Len(Append(s, e)) = Len(s) + 1 /\ Append(s, e)[Len(s) + 1] = e
         /\ \A i \in 1 .. Len(s) : Append(s, e)[i] = s[i]
OBVIOUS

LEMMA FrontIs ==
  ASSUME NEW s \in Seq(Nat), NEW n \in 0 .. Len(s)
  PROVE  /\ SubSeq(s, 1, n) \in Seq(Nat) /\ Len(SubSeq(s, 1, n)) = n
         /\ \A i \in 1 .. n : SubSeq(s, 1, n)[i] = s[i]
OBVIOUS

LEMMA ConcatIs ==
  ASSUME NEW s \in Seq(Nat), NEW t \in Seq(Nat)
  PROVE  /\ s \o t \in Seq(Nat) /\ Len(s) \in Nat /\ Len(t) \in Nat
         /\ Len(s \o t) = Len(s) + Len(t)
         /\ \A i \in 1 .. Len(s) : (s \o t)[i] = s[i]
         /\ \A i \in 1 .. Len(t) : (s \o t)[Len(s) + i] = t[i]
OBVIOUS

LEMMA AppendLast ==
  ASSUME NEW s \in Seq(Nat), NEW t \in Seq(Nat), NEW e \in Nat
  PROVE  s \o Append(t, e) = Append(s \o t, e)
OBVIOUS

LEMMA OutTypes ==
  ASSUME OutInOrder
  PROVE  /\ Out \in Seq(Nat) /\ Len(delivered) \in Nat /\ Len(slots) \in Nat
         /\ Len(Out) = Len(delivered) + Len(slots)
         /\ \A i \in 1 .. Len(delivered) : Out[i] = delivered[i]
         /\ \A i \in 1 .. Len(slots) : Out[Len(delivered) + i] = slots[i]
BY DEF OutInOrder, Out

\* what is taken off the end of Out leaves it in order
LEMMA PrefixInOrder ==
  ASSUME OutInOrder, NEW s \in Seq(Nat), Len(s) <= Len(Out),
         \A i \in 1 .. Len(s) : s[i] = Out[i],
         slots' \in Seq(Nat), delivered' \in Seq(Nat), Out' = s, calls' = calls,
         forgone' \in Nat, reported' = Len(delivered') + forgone'
  PROVE  OutInOrder'
<1>1. Len(s) \in Nat /\ Len(Out) \in Nat
  BY OutTypes
<1>2. \A i \in 1 .. Len(s) : i \in 1 .. Len(Out)
  BY <1>1
<1>3. QED
  BY <1>2 DEF OutInOrder

LEMMA TelStep ==
  ASSUME OutInOrder, [TelNext]_telVars
  PROVE  OutInOrder'
<1>1. /\ Out \in Seq(Nat) /\ Len(delivered) \in Nat /\ Len(slots) \in Nat
      /\ Len(Out) = Len(delivered) + Len(slots)
      /\ \A i \in 1 .. Len(delivered) : Out[i] = delivered[i]
      /\ \A i \in 1 .. Len(slots) : Out[Len(delivered) + i] = slots[i]
      /\ slots \in Seq(Nat) /\ delivered \in Seq(Nat) /\ calls \in Nat
      /\ forgone \in Nat /\ reported = Len(delivered) + forgone
  BY OutTypes DEF OutInOrder
<1>2. CASE RecordSample
  <2>1. calls' = calls + 1 /\ UNCHANGED <<delivered, reported, forgone>>
        /\ slots' = IF Len(slots) < SlotCount THEN Append(slots, calls') ELSE slots
    BY <1>2 DEF RecordSample
  <2>2. CASE slots' = slots
    <3>1. Out' = Out
      BY <2>1, <2>2 DEF Out
    <3>2. \A i \in 1 .. Len(Out) : Out[i] <= calls'
      <4>1. \A i \in 1 .. Len(Out) : Out[i] \in Nat /\ Out[i] <= calls
        BY <1>1 DEF OutInOrder
      <4>2. calls \in Nat /\ calls' = calls + 1
        BY <1>1, <2>1
      <4>3. QED
        BY <4>1, <4>2
    <3>3. QED
      BY <1>1, <2>1, <2>2, <3>1, <3>2 DEF OutInOrder
  <2>3. CASE slots' = Append(slots, calls')
    <3>1. slots' \in Seq(Nat) /\ calls' \in Nat
      BY <1>1, <2>1, <2>3
    <3>2. Out' = Append(Out, calls')
      <4>1. delivered' = delivered
        BY <2>1
      <4>2. delivered \o Append(slots, calls') = Append(delivered \o slots, calls')
        BY <1>1, <3>1, AppendLast
      <4>3. QED
        BY <2>3, <4>1, <4>2 DEF Out
    <3> DEFINE o == Append(Out, calls')
               N == Len(Out)
    <3>3. /\ Len(o) = Len(Out) + 1 /\ o[Len(Out) + 1] = calls'
          /\ \A i \in 1 .. Len(Out) : o[i] = Out[i]
          /\ Len(Out) \in Nat
      BY <1>1, <3>1, AppendIs
    <3>4. \A i \in 1 .. Len(Out) : Out[i] \in Nat /\ Out[i] <= calls
      BY <1>1 DEF OutInOrder
    <3> HIDE DEF o
    <3>5. \A i \in 1 .. Len(Out) + 1 : i \in 1 .. Len(Out) \/ i = Len(Out) + 1
      BY <3>3
    <3>6. ASSUME NEW i \in 1 .. Len(o)
          PROVE  o[i] <= calls'
      <4>1. calls \in Nat /\ calls' = calls + 1
        BY <1>1, <2>1
      <4>2. CASE i \in 1 .. Len(Out)
        <5>1. Out[i] \in Nat /\ Out[i] <= calls /\ o[i] = Out[i]
          BY <3>3, <3>4, <4>2
        <5>2. QED
          BY <4>1, <5>1
      <4>3. CASE i = Len(Out) + 1
        BY <3>1, <3>3, <4>3
      <4>4. QED
        BY <3>3, <3>5, <4>2, <4>3
    <3>7. ASSUME NEW i \in 1 .. Len(o), NEW j \in 1 .. Len(o), i < j
          PROVE  o[i] < o[j]
      <4>1. i \in 1 .. Len(Out)
        BY <3>3, <3>7
      <4>2. CASE j \in 1 .. Len(Out)
        BY <3>3, <3>7, <4>1, <4>2 DEF OutInOrder
      <4>3. CASE j = Len(Out) + 1
        <5>1. Out[i] <= calls /\ Out[i] \in Nat
          BY <3>4, <4>1
        <5>2. calls \in Nat /\ calls' = calls + 1
          BY <1>1, <2>1
        <5>3. Out[i] < calls'
          BY <5>1, <5>2
        <5>4. QED
          BY <3>3, <4>1, <4>3, <5>3
      <4>4. QED
        BY <3>3, <3>5, <3>7, <4>2, <4>3
    <3>8. Out' = o
      BY <3>2 DEF o
    <3>9. QED
      BY <1>1, <2>1, <3>1, <3>6, <3>7, <3>8 DEF OutInOrder
  <2>4. QED
    BY <2>1, <2>2, <2>3
<1>3. CASE SetSocket
  BY <1>3 DEF SetSocket, OutInOrder, Out
<1>4. ASSUME NEW count \in 0 .. Len(slots),
             slots' = <<>>, calls' = calls,
             delivered' = delivered \o SubSeq(slots, 1, count),
             forgone' \in Nat, reported' = Len(delivered') + forgone'
      PROVE  OutInOrder'
  <2> DEFINE t == SubSeq(slots, 1, count)
  <2>1. t \in Seq(Nat) /\ Len(t) = count /\ \A i \in 1 .. count : t[i] = slots[i]
    BY <1>1, <1>4, FrontIs
  <2> HIDE DEF t
  <2> DEFINE d == delivered \o t
  <2>2. /\ d \in Seq(Nat) /\ Len(d) = Len(delivered) + count
        /\ \A i \in 1 .. Len(delivered) : d[i] = delivered[i]
        /\ \A i \in 1 .. count : d[Len(delivered) + i] = t[i]
        /\ Len(delivered) \in Nat
    BY <1>1, <2>1, ConcatIs
  <2> HIDE DEF d
  <2>3. delivered' = d
    BY <1>4 DEF d, t
  <2>4. Out' = d
    <3>1. d \o <<>> = d
      BY <2>2
    <3>2. QED
      BY <1>4, <2>3, <3>1 DEF Out
  <2>5. ASSUME NEW i \in 1 .. Len(d)
        PROVE  d[i] = Out[i]
    <3>1. CASE i <= Len(delivered)
      <4>1. i \in 1 .. Len(delivered)
        BY <2>2, <3>1
      <4>2. QED
        BY <1>1, <2>2, <4>1
    <3>2. CASE ~(i <= Len(delivered))
      <4> DEFINE j == i - Len(delivered)
      <4>1. j \in 1 .. count /\ j \in 1 .. Len(slots) /\ i = Len(delivered) + j
        <5>1. Len(slots) \in Nat /\ count \in 0 .. Len(slots) /\ Len(delivered) \in Nat
          BY <1>1, <1>4
        <5>2. i \in 1 .. (Len(delivered) + count)
          BY <2>2
        <5>3. QED
          BY <3>2, <5>1, <5>2
      <4> HIDE DEF j
      <4>2. QED
        BY <1>1, <2>1, <2>2, <4>1
    <3>3. QED
      BY <3>1, <3>2
  <2>6. Len(d) <= Len(Out)
    BY <1>1, <2>2
  <2>7. slots' \in Seq(Nat) /\ delivered' \in Seq(Nat)
    <3>1. <<>> \in Seq(Nat)
      OBVIOUS
    <3>2. slots' = <<>>
      BY <1>4
    <3>3. QED
      BY <2>2, <2>3, <3>1, <3>2
  <2>8. QED
    BY <1>4, <2>2, <2>4, <2>5, <2>6, <2>7, PrefixInOrder
<1>5. CASE FlushUdp
  <2>1. slots' = <<>> /\ calls' = calls
    BY <1>5 DEF FlushUdp
  <2>2. SubSeq(slots, 1, 0) = <<>> /\ SubSeq(slots, 1, Len(slots)) = slots /\ delivered \o <<>> = delivered
    BY <1>1
  <2>3. 0 \in 0 .. Len(slots) /\ Len(slots) \in 0 .. Len(slots)
    BY <1>1
  <2>4. CASE /\ reported' = reported + Len(slots) /\ forgone' = forgone + Len(slots)
             /\ UNCHANGED delivered
    <3>1. forgone' \in Nat /\ reported' = Len(delivered') + forgone'
      BY <1>1, <2>4
    <3>2. QED
      BY <1>4, <2>1, <2>2, <2>3, <2>4, <3>1
  <2>5. CASE /\ delivered' = delivered \o slots /\ reported' = reported + Len(slots)
             /\ UNCHANGED forgone
    <3>1. Len(delivered') = Len(delivered) + Len(slots)
      BY <1>1, <2>5
    <3>2. forgone' \in Nat /\ reported' = Len(delivered') + forgone'
      BY <1>1, <2>5, <3>1
    <3>3. QED
      BY <1>4, <2>1, <2>2, <2>3, <2>5, <3>2
  <2>6. CASE UNCHANGED <<delivered, reported, forgone>>
    <3>1. forgone' \in Nat /\ reported' = Len(delivered') + forgone'
      BY <1>1, <2>6
    <3>2. QED
      BY <1>4, <2>1, <2>2, <2>3, <2>6, <3>1
  <2>7. QED
    BY <1>5, <2>4, <2>5, <2>6 DEF FlushUdp
<1>6. CASE \E room \in 1 .. SlotCount : FlushTo(room)
  <2>1. PICK room \in 1 .. SlotCount : FlushTo(room)
    BY <1>6
  <2> DEFINE count == IF Len(slots) < room THEN Len(slots) ELSE room
  <2>2. /\ delivered' = delivered \o SubSeq(slots, 1, count)
        /\ reported' = reported + count /\ slots' = <<>>
        /\ calls' = calls /\ forgone' = forgone
    BY <2>1 DEF FlushTo
  <2>3. count \in 0 .. Len(slots)
    BY <1>1
  <2> HIDE DEF count
  <2>4. Len(delivered') = Len(delivered) + count
    <3>1. SubSeq(slots, 1, count) \in Seq(Nat) /\ Len(SubSeq(slots, 1, count)) = count
      <4>1. slots \in Seq(Nat)
        BY <1>1
      <4>2. QED
        BY <2>3, <4>1, FrontIs
    <3>2. QED
      BY <1>1, <2>2, <3>1
  <2>5. reported' = Len(delivered') + forgone'
    BY <1>1, <2>2, <2>3, <2>4
  <2>6. QED
    BY <1>1, <1>4, <2>2, <2>3, <2>5
<1>7. CASE UNCHANGED telVars
  BY <1>7 DEF telVars, OutInOrder, Out
<1>8. QED
  BY <1>2, <1>3, <1>5, <1>6, <1>7 DEF TelNext

\* Whatever the capacity and the buffers, no sample leaves twice or out of order, and
\* what the flushes report is accounted for.
THEOREM TelemetrySamplesOnce == TelSpec => []SamplesOnce
<1>1. TelInit => OutInOrder
  <2>1. <<>> \o <<>> = <<>> /\ Len(<<>>) = 0 /\ <<>> \in Seq(Nat)
    OBVIOUS
  <2>2. QED
    BY <2>1 DEF TelInit, OutInOrder, Out
<1>2. OutInOrder /\ [TelNext]_telVars => OutInOrder'
  BY TelStep
<1>3. OutInOrder => SamplesOnce
  BY DEF OutInOrder, SamplesOnce, Out
<1>4. QED
  BY <1>1, <1>2, <1>3, PTL DEF TelSpec

-----------------------------------------------------------------------------
(* Remainders.  Multiples of n are whatever can be written n * q.          *)

LEMMA DivMod ==
  ASSUME NEW n \in Nat \ {0}, NEW p \in Int
  PROVE  /\ p \div n \in Int
         /\ p % n \in 0 .. n - 1
         /\ p = n * (p \div n) + (p % n)
OBVIOUS

LEMMA NextMultiple ==
  ASSUME NEW n \in Nat, NEW i \in Int, NEW j \in Int, i < j
  PROVE  n * i + n <= n * j
<1>1. j - i - 1 \in Nat
  OBVIOUS
<1>2. n * (j - i - 1) >= 0
  BY <1>1
<1>3. n * (j - i - 1) = n * j - n * i - n
  OBVIOUS
<1>4. n * i \in Int /\ n * j \in Int
  OBVIOUS
<1>5. QED
  BY <1>2, <1>3, <1>4

LEMMA RemainderIs ==
  ASSUME NEW n \in Nat \ {0}, NEW p \in Int, NEW q \in Int, NEW r \in 0 .. n - 1,
         p = n * q + r
  PROVE  p % n = r
<1> DEFINE j == p \div n
           s == p % n
<1>1. j \in Int /\ s \in 0 .. n - 1 /\ p = n * j + s
  BY DivMod
<1>2. n * j \in Int /\ n * q \in Int
  BY <1>1
<1> HIDE DEF j, s
<1>3. j = q
  <2>1. CASE j < q
    <3>1. n * j + n <= n * q
      BY <1>1, <2>1, NextMultiple
    <3>2. QED
      BY <1>1, <1>2, <3>1
  <2>2. CASE q < j
    <3>1. n * q + n <= n * j
      BY <1>1, <2>2, NextMultiple
    <3>2. QED
      BY <1>1, <1>2, <3>1
  <2>3. QED
    BY <1>1, <2>1, <2>2
<1>4. s = r
  BY <1>1, <1>2, <1>3
<1>5. QED
  BY <1>4 DEF s

\* a multiple of n more or less leaves the remainder
LEMMA RemainderPlus ==
  ASSUME NEW n \in Nat \ {0}, NEW p \in Int, NEW k \in Int
  PROVE  (p + n * k) % n = p % n
<1> DEFINE q == p \div n
           r == p % n
<1>1. q \in Int /\ r \in 0 .. n - 1 /\ p = n * q + r
  BY DivMod
<1>2. n * (q + k) = n * q + n * k /\ n * k \in Int /\ n * q \in Int
  BY <1>1
<1> HIDE DEF q, r
<1>3. p + n * k = n * (q + k) + r
  BY <1>1, <1>2
<1>4. p + n * k \in Int /\ q + k \in Int
  BY <1>1, <1>2
<1>5. (p + n * k) % n = r
  BY <1>1, <1>3, <1>4, RemainderIs
<1>6. QED
  BY <1>5 DEF r

LEMMA RemainderTwice ==
  ASSUME NEW n \in Nat \ {0}, NEW p \in Int
  PROVE  (p % n) % n = p % n /\ p % n \in Nat
<1>1. p % n \in 0 .. n - 1
  BY DivMod
<1>2. \A r \in 0 .. n - 1 : r % n = r
  <2> SUFFICES ASSUME NEW r \in 0 .. n - 1 PROVE r % n = r
    OBVIOUS
  <2>1. r = n * 0 + r
    OBVIOUS
  <2>2. QED
    BY <2>1, RemainderIs
<1>3. QED
  BY <1>1, <1>2

\* numbers less than n apart have different remainders
LEMMA RemaindersApart ==
  ASSUME NEW n \in Nat \ {0}, NEW p \in Int, NEW q \in Int, p < q, q < p + n
  PROVE  p % n # q % n
<1> DEFINE i == p \div n
           j == q \div n
           r == p % n
           s == q % n
<1>1. /\ i \in Int /\ j \in Int /\ r \in 0 .. n - 1 /\ s \in 0 .. n - 1
      /\ p = n * i + r /\ q = n * j + s
  BY DivMod
<1>2. n * i \in Int /\ n * j \in Int
  BY <1>1
<1> HIDE DEF i, j, r, s
<1>3. SUFFICES ASSUME r = s PROVE FALSE
  BY DEF r, s
<1>4. CASE i < j
  <2>1. n * i + n <= n * j
    BY <1>1, <1>4, NextMultiple
  <2>2. QED
    BY <1>1, <1>2, <1>3, <2>1
<1>5. CASE j < i
  <2>1. n * j + n <= n * i
    BY <1>1, <1>5, NextMultiple
  <2>2. QED
    BY <1>1, <1>2, <1>3, <2>1
<1>6. CASE i = j
  BY <1>1, <1>2, <1>3, <1>6
<1>7. QED
  BY <1>1, <1>4, <1>5, <1>6

-----------------------------------------------------------------------------
(* Cells of the buffer *)

Cell(pos) == pos % Cap

LEMMA Widths ==
  /\ Cap \in Nat \ {0} /\ PosMod \in Nat \ {0} /\ Cap < PosMod
  /\ PosMod \div Cap \in Int
  /\ PosMod = Cap * (PosMod \div Cap)
<1>1. Cap \in Nat \ {0} /\ PosMod % Cap = 0 /\ PosMod > Cap /\ PosMod \in Int
  BY RingAssumption
<1>2. PosMod \in Nat \ {0} /\ Cap < PosMod
  BY <1>1
<1>3. PosMod \div Cap \in Int /\ PosMod = Cap * (PosMod \div Cap) + (PosMod % Cap)
  BY <1>1, DivMod
<1>4. Cap * (PosMod \div Cap) \in Int
  BY <1>1, <1>3
<1>5. QED
  BY <1>1, <1>2, <1>3, <1>4

LEMMA CellInBuffer ==
  ASSUME NEW p \in Int
  PROVE  Cell(p) \in 0 .. Cap - 1
BY Widths, DivMod DEF Cell

LEMMA CellsApart ==
  ASSUME NEW p \in Int, NEW q \in Int, p < q, q < p + Cap
  PROVE  Cell(p) # Cell(q)
BY Widths, RemaindersApart DEF Cell

\* a position that wraps goes on in the same cell
LEMMA CellWraps ==
  ASSUME NEW p \in Int, NEW i \in Int
  PROVE  Cell((p % PosMod) + i) = Cell(p + i)
<1> DEFINE m == PosMod \div Cap
           q == p \div PosMod
           r == p % PosMod
<1>1. Cap \in Nat \ {0} /\ m \in Int /\ PosMod = Cap * m /\ PosMod \in Nat \ {0}
  BY Widths
<1>2. q \in Int /\ r \in Int /\ p = PosMod * q + r
  BY <1>1, DivMod
<1> HIDE DEF m, q, r
<1>3. PosMod * q = Cap * (m * q) /\ m * q \in Int /\ PosMod * q \in Int
  BY <1>1, <1>2
<1>4. p + i = (r + i) + Cap * (m * q)
  BY <1>2, <1>3
<1>5. ((r + i) + Cap * (m * q)) % Cap = (r + i) % Cap
  <2>1. r + i \in Int /\ m * q \in Int
    BY <1>2, <1>3
  <2>2. QED
    BY <1>1, <2>1, RemainderPlus
<1>6. QED
  BY <1>4, <1>5 DEF Cell, r

LEMMA ViewIs ==
  ASSUME NEW p \in Nat, NEW n \in 0 .. Cap
  PROVE  View(p, n) = [i \in 1 .. n |-> Cell(p + i - 1)]
<1> DEFINE idx == p % Cap
           first == Least(n, Cap - idx)
           q == p \div Cap
<1>1. Cap \in Nat \ {0}
  BY Widths
<1>2. idx \in 0 .. Cap - 1 /\ q \in Int /\ p = Cap * q + idx
  BY <1>1, DivMod
<1>3. Cap * q \in Int /\ Cap * (q + 1) = Cap * q + Cap
  BY <1>1, <1>2
<1> SUFFICES ASSUME NEW i \in 1 .. n
             PROVE  (IF i <= first THEN idx + i - 1 ELSE i - first - 1) = Cell(p + i - 1)
  BY DEF View
<1>4. first = IF n <= Cap - idx THEN n ELSE Cap - idx
  BY DEF Least
<1> HIDE DEF idx, first, q
<1>5. CASE i <= first
  <2>1. idx + i - 1 \in 0 .. Cap - 1
    BY <1>1, <1>2, <1>4, <1>5
  <2>2. p + i - 1 = Cap * q + (idx + i - 1) /\ p + i - 1 \in Int
    BY <1>2, <1>3
  <2>3. (p + i - 1) % Cap = idx + i - 1
    BY <1>1, <1>2, <2>1, <2>2, RemainderIs
  <2>4. QED
    BY <1>5, <2>3 DEF Cell
<1>6. CASE ~(i <= first)
  <2>1. first = Cap - idx
    BY <1>1, <1>2, <1>4, <1>6
  <2>2. i - first - 1 \in 0 .. Cap - 1
    BY <1>1, <1>2, <1>6, <2>1
  <2>3. p + i - 1 = Cap * (q + 1) + (i - first - 1) /\ p + i - 1 \in Int
    BY <1>1, <1>2, <1>3, <2>1
  <2>4. (p + i - 1) % Cap = i - first - 1
    <3>1. q + 1 \in Int
      BY <1>2
    <3>2. QED
      BY <1>1, <2>2, <2>3, <3>1, RemainderIs
  <2>5. QED
    BY <1>6, <2>4 DEF Cell
<1>7. QED
  BY <1>5, <1>6
-----------------------------------------------------------------------------
(* The distance of the two positions *)

LEMMA PlusWraps ==
  ASSUME NEW n \in Nat \ {0}, NEW p \in Int, NEW i \in Int
  PROVE  ((p % n) + i) % n = (p + i) % n
<1> DEFINE q == p \div n
           r == p % n
<1>1. q \in Int /\ r \in Int /\ p = n * q + r
  BY DivMod
<1>2. n * q \in Int
  BY <1>1
<1> HIDE DEF q, r
<1>3. p + i = (r + i) + n * q /\ r + i \in Int
  BY <1>1, <1>2
<1>4. ((r + i) + n * q) % n = (r + i) % n
  BY <1>1, <1>3, RemainderPlus
<1>5. QED
  BY <1>3, <1>4 DEF r

LEMMA DistanceIs ==
  ASSUME NEW n \in Nat \ {0}, NEW a \in 0 .. n - 1, NEW b \in 0 .. n - 1,
         NEW u \in 0 .. n - 1, a = (b + u) % n
  PROVE  (a - b) % n = u
<1>1. b + u \in Int /\ 0 - b \in Int
  OBVIOUS
<1>2. (((b + u) % n) + (0 - b)) % n = ((b + u) + (0 - b)) % n
  BY <1>1, PlusWraps
<1>3. (b + u) + (0 - b) = u /\ a + (0 - b) = a - b
  OBVIOUS
<1>4. u % n = u
  <2>1. u = n * 0 + u
    OBVIOUS
  <2>2. QED
    BY <2>1, RemainderIs
<1>5. QED
  BY <1>2, <1>3, <1>4

LEMMA Distance ==
  ASSUME NEW n \in Nat \ {0}, NEW a \in 0 .. n - 1, NEW b \in 0 .. n - 1
  PROVE  /\ (a - b) % n \in 0 .. n - 1
         /\ a = (b + ((a - b) % n)) % n
<1> DEFINE d == a - b
           u == d % n
<1>1. d \in Int /\ u \in 0 .. n - 1 /\ b \in Int
  BY DivMod
<1>2. a % n = a
  <2>1. a = n * 0 + a
    OBVIOUS
  <2>2. QED
    BY <2>1, RemainderIs
<1>3. ((d % n) + b) % n = (d + b) % n
  BY <1>1, PlusWraps
<1>4. d + b = a /\ u + b = b + u
  BY <1>1
<1>5. a = (b + u) % n
  BY <1>2, <1>3, <1>4
<1>6. QED
  BY <1>1, <1>5

\* What the invariant says, cell by cell.
LEMMA InCells ==
  ASSUME RingTypeOK, Used <= Cap
  PROVE  /\ Used \in 0 .. Cap /\ Free = Cap - Used /\ Free \in 0 .. Cap
         /\ writePos \in Nat /\ readPos \in Nat
         /\ writePos = (readPos + Used) % PosMod
         /\ \A i \in Int : Cell(writePos + i) = Cell(readPos + Used + i)
         /\ Contents = [i \in 1 .. Used |-> buffer[Cell(readPos + i - 1)]]
         /\ \A n \in 0 .. Cap : \A i \in 1 .. n :
              /\ View(writePos, n)[i] = Cell(writePos + i - 1)
              /\ View(readPos, n)[i] = Cell(readPos + i - 1)
<1>1. /\ Cap \in Nat \ {0} /\ PosMod \in Nat \ {0}
      /\ writePos \in 0 .. PosMod - 1 /\ readPos \in 0 .. PosMod - 1
  BY Widths DEF RingTypeOK
<1>2. /\ Used \in 0 .. PosMod - 1
      /\ writePos = (readPos + Used) % PosMod
  BY <1>1, Distance DEF Used
<1>3. Used \in 0 .. Cap /\ Free = Cap - Used /\ Free \in 0 .. Cap
  <2>1. Used \in 0 .. Cap
    BY <1>1, <1>2
  <2>2. QED
    BY <1>1, <2>1 DEF Free
<1>4. ASSUME NEW i \in Int
      PROVE  Cell(writePos + i) = Cell(readPos + Used + i)
  <2>1. readPos + Used \in Int
    BY <1>1, <1>2
  <2>2. QED
    BY <1>2, <2>1, CellWraps
<1>5. ASSUME NEW n \in 0 .. Cap, NEW i \in 1 .. n
      PROVE  /\ View(writePos, n)[i] = Cell(writePos + i - 1)
             /\ View(readPos, n)[i] = Cell(readPos + i - 1)
  <2>1. /\ View(writePos, n) = [j \in 1 .. n |-> Cell(writePos + j - 1)]
        /\ View(readPos, n) = [j \in 1 .. n |-> Cell(readPos + j - 1)]
    <3>1. writePos \in Nat /\ readPos \in Nat
      BY <1>1
    <3>2. QED
      BY <3>1, ViewIs
  <2>2. QED
    BY <2>1
<1>6. Contents = [i \in 1 .. Used |-> buffer[Cell(readPos + i - 1)]]
  BY <1>3, <1>5 DEF Contents
<1>7. writePos \in Nat /\ readPos \in Nat
  BY <1>1
<1>8. QED
  BY <1>2, <1>3, <1>4, <1>5, <1>6, <1>7
-----------------------------------------------------------------------------
(* The ring under any caller: one call at a time on either side, with whatever *)
(* bytes and counts, and views filled and emptied as far as one likes.         *)

RingNext ==
  \/ \E cells : IsSequence(cells) /\ AcquireWrite(cells)
  \/ \E k \in 0 .. wr.n : CopyIn(k)
  \/ \E bytes \in Nat, stage \in {"copy", "peek"} : AcquireRead(bytes, stage)
  \/ \E k \in 0 .. rd.n : CopyOut(k)
  \/ RingStep
  \/ WriteReturns /\ UNCHANGED rd
  \/ ReadReturns /\ UNCHANGED wr

RingSpec == RingInit /\ [][RingNext]_ringVars

QueueStep == Bytes!Put \/ Bytes!Take \/ UNCHANGED Contents

LEMMA CallingIs ==
  ASSUME NEW stage, NEW data, NEW n
  PROVE  /\ Calling(stage, data, n).at = stage
         /\ Calling(stage, data, n).data = data
         /\ Calling(stage, data, n).n = n
BY DEF Calling

LEMMA LeastIs ==
  ASSUME NEW a \in Nat, NEW b \in Nat
  PROVE  Least(a, b) \in Nat /\ Least(a, b) <= a /\ Least(a, b) <= b
BY DEF Least

LEMMA Unmoved ==
  ASSUME UNCHANGED <<buffer, writePos, readPos>>
  PROVE  /\ Used' = Used /\ Free' = Free /\ Contents' = Contents
         /\ \A n : View(writePos, n)' = View(writePos, n) /\ View(readPos, n)' = View(readPos, n)
BY DEF Used, Free, Contents, View

\* the steps that move no position and write no cell
LEMMA LookInv ==
  ASSUME RingInv,
         \/ \E cells : IsSequence(cells) /\ AcquireWrite(cells)
         \/ ClampWrite
         \/ WriteReturns /\ UNCHANGED rd
  PROVE  RingInv' /\ UNCHANGED Contents
<1>1. /\ UNCHANGED <<buffer, writePos, readPos>> /\ rd' = rd
  BY DEF AcquireWrite, ClampWrite, WriteReturns
<1>2. /\ Used' = Used /\ Free' = Free /\ Contents' = Contents
      /\ \A n : View(writePos, n)' = View(writePos, n) /\ View(readPos, n)' = View(readPos, n)
  BY <1>1, Unmoved
<1>3. Used \in 0 .. Cap /\ Free \in 0 .. Cap /\ Free \in Nat
  BY Widths, InCells DEF RingInv
<1>4. ReaderInStep'
  BY <1>1, <1>2 DEF RingInv, ReaderInStep
<1>5. CASE \E cells : IsSequence(cells) /\ AcquireWrite(cells)
  <2>1. PICK cells : IsSequence(cells) /\ AcquireWrite(cells)
    BY <1>5
  <2> DEFINE n == Least(Len(cells), Free)
             stage == IF n = 0 THEN "done" ELSE "copy"
  <2>2. Len(cells) \in Nat
    BY <2>1 DEF IsSequence
  <2>3. n \in Nat /\ n <= Len(cells) /\ n <= Free
    BY <1>3, <2>2, LeastIs
  <2>4. wr' = Calling(stage, cells, n)
    BY <2>1 DEF AcquireWrite
  <2>5. stage \in {"done", "copy"} /\ (stage = "copy" => n # 0)
    OBVIOUS
  <2> HIDE DEF n, stage
  <2>6. wr'.at = stage /\ wr'.data = cells /\ wr'.n = n
    BY <2>4, CallingIs
  <2>7. RingTypeOK'
    <3>1. n \in 0 .. Len(cells)
      BY <2>2, <2>3
    <3>2. wr' = Calling(wr'.at, wr'.data, wr'.n) /\ IsSequence(wr'.data)
          /\ wr'.n \in 0 .. Len(wr'.data)
      BY <2>1, <2>4, <2>6, <3>1
    <3>3. QED
      BY <1>1, <3>2 DEF RingInv, RingTypeOK, IsSequence
  <2>8. WriterInStep'
    <3>1. n # 0 => n \in 1 .. Free
      BY <1>3, <2>3
    <3>2. QED
      BY <1>2, <2>5, <2>6, <3>1 DEF WriterInStep
  <2>9. QED
    BY <1>2, <1>4, <2>7, <2>8 DEF RingInv
<1>6. CASE ClampWrite
  <2>1. wr.at = "clamp" /\ wr' = Calling("add", wr.data, Least(wr.n, Free))
    BY <1>6 DEF ClampWrite
  <2>2. wr.n \in 1 .. Free
    BY <2>1 DEF RingInv, WriterInStep
  <2>3. Least(wr.n, Free) = wr.n
    BY <1>3, <2>2 DEF Least
  <2>4. wr'.at = "add" /\ wr'.data = wr.data /\ wr'.n = wr.n
        /\ wr' = Calling(wr'.at, wr'.data, wr'.n)
    BY <2>1, <2>3, CallingIs
  <2>5. RingTypeOK'
    BY <1>1, <2>4 DEF RingInv, RingTypeOK, IsSequence
  <2>6. WriterInStep'
    BY <1>1, <1>2, <2>1, <2>4 DEF RingInv, WriterInStep
  <2>7. QED
    BY <1>2, <1>4, <2>5, <2>6 DEF RingInv
<1>7. CASE WriteReturns /\ UNCHANGED rd
  <2>1. wr' = Calling("idle", <<>>, 0)
    BY <1>7 DEF WriteReturns, Quiet
  <2>2. wr'.at = "idle" /\ wr'.data = <<>> /\ wr'.n = 0
        /\ wr' = Calling(wr'.at, wr'.data, wr'.n)
    BY <2>1, CallingIs
  <2>3. RingTypeOK'
    <3>1. IsSequence(<<>>) /\ 0 \in 0 .. Len(<<>>)
      BY DEF IsSequence
    <3>2. QED
      BY <1>1, <2>2, <3>1 DEF RingInv, RingTypeOK, IsSequence
  <2>4. WriterInStep'
    BY <2>2 DEF WriterInStep
  <2>5. QED
    BY <1>2, <1>4, <2>3, <2>4 DEF RingInv
<1>8. QED
  BY <1>2, <1>5, <1>6, <1>7
LEMMA ReaderLookInv ==
  ASSUME RingInv,
         \/ \E bytes \in Nat, stage \in {"copy", "peek"} : AcquireRead(bytes, stage)
         \/ ClampRead
         \/ ReadReturns /\ UNCHANGED wr
  PROVE  RingInv' /\ UNCHANGED Contents
<1>1. /\ UNCHANGED <<buffer, writePos, readPos>> /\ wr' = wr
  BY DEF AcquireRead, ClampRead, ReadReturns
<1>2. /\ Used' = Used /\ Free' = Free /\ Contents' = Contents
      /\ \A n : View(writePos, n)' = View(writePos, n) /\ View(readPos, n)' = View(readPos, n)
  BY <1>1, Unmoved
<1>3. Used \in 0 .. Cap /\ Used \in Nat /\ Cap \in Nat
  BY Widths, InCells DEF RingInv
<1>4. WriterInStep'
  BY <1>1, <1>2 DEF RingInv, WriterInStep
<1>5. CASE \E bytes \in Nat, stage \in {"copy", "peek"} : AcquireRead(bytes, stage)
  <2>1. PICK bytes \in Nat, via \in {"copy", "peek"} : AcquireRead(bytes, via)
    BY <1>5
  <2> DEFINE n == Least(bytes, Used)
             stage == IF n = 0 THEN "done" ELSE via
  <2>2. n \in Nat /\ n <= Used
    BY <1>3, LeastIs
  <2>3. rd' = Calling(stage, <<>>, n)
    BY <2>1 DEF AcquireRead
  <2>4. stage \in {"done", "copy", "peek"} /\ (stage # "done" => n # 0)
    OBVIOUS
  <2> HIDE DEF n, stage
  <2>5. rd'.at = stage /\ rd'.n = n /\ rd' = Calling(rd'.at, rd'.data, rd'.n)
    BY <2>3, CallingIs
  <2>6. RingTypeOK'
    <3>1. n \in 0 .. Cap
      BY <1>3, <2>2
    <3>2. QED
      BY <1>1, <2>5, <3>1 DEF RingInv, RingTypeOK, IsSequence
  <2>7. ReaderInStep'
    <3>1. n # 0 => n \in 1 .. Used
      BY <1>3, <2>2
    <3>2. QED
      BY <1>2, <2>4, <2>5, <3>1 DEF ReaderInStep
  <2>8. QED
    BY <1>2, <1>4, <2>6, <2>7 DEF RingInv
<1>6. CASE ClampRead
  <2>1. rd.at = "clamp" /\ rd' = Calling("add", rd.data, Least(rd.n, Used))
    BY <1>6 DEF ClampRead
  <2>2. rd.n \in 1 .. Used
    BY <2>1 DEF RingInv, ReaderInStep
  <2>3. Least(rd.n, Used) = rd.n
    BY <1>3, <2>2 DEF Least
  <2>4. rd'.at = "add" /\ rd'.data = rd.data /\ rd'.n = rd.n
        /\ rd' = Calling(rd'.at, rd'.data, rd'.n)
    BY <2>1, <2>3, CallingIs
  <2>5. RingTypeOK'
    BY <1>1, <2>4 DEF RingInv, RingTypeOK, IsSequence
  <2>6. ReaderInStep'
    BY <1>1, <1>2, <2>1, <2>4 DEF RingInv, ReaderInStep
  <2>7. QED
    BY <1>2, <1>4, <2>5, <2>6 DEF RingInv
<1>7. CASE ReadReturns /\ UNCHANGED wr
  <2>1. rd' = Calling("idle", <<>>, 0)
    BY <1>7 DEF ReadReturns, Quiet
  <2>2. rd'.at = "idle" /\ rd'.n = 0 /\ rd' = Calling(rd'.at, rd'.data, rd'.n)
    BY <2>1, CallingIs
  <2>3. RingTypeOK'
    <3>1. 0 \in 0 .. Cap
      BY <1>3
    <3>2. QED
      BY <1>1, <2>2, <3>1 DEF RingInv, RingTypeOK, IsSequence
  <2>4. ReaderInStep'
    BY <2>2 DEF ReaderInStep
  <2>5. QED
    BY <1>2, <1>4, <2>3, <2>4 DEF RingInv
<1>8. QED
  BY <1>2, <1>5, <1>6, <1>7

\* The cells of the producer's view are none of those the consumer may read.
LEMMA CopiedIn ==
  ASSUME RingInv, NEW k \in 0 .. wr.n, CopyIn(k)
  PROVE  /\ \A i \in 1 .. k : buffer'[View(writePos, k)[i]] = wr.data[i]
         /\ \A i \in 1 .. Used : buffer'[Cell(readPos + i - 1)] = buffer[Cell(readPos + i - 1)]
         /\ buffer' = [c \in 0 .. Cap - 1 |-> buffer'[c]]
         /\ k \in 0 .. Free
<1> DEFINE U == Used
           view == View(writePos, k)
<1>1. /\ U \in 0 .. Cap /\ Free = Cap - U /\ readPos \in Nat /\ writePos \in Nat
      /\ Cap \in Nat \ {0} /\ wr.n \in 1 .. Free
      /\ \A i \in Int : Cell(writePos + i) = Cell(readPos + U + i)
  BY InCells, Widths DEF RingInv, CopyIn, WriterInStep
<1>2. k \in 0 .. Cap /\ k \in 0 .. Free /\ k <= Cap - U /\ k \in Nat
  BY <1>1
<1>3. \A i \in 1 .. k : view[i] = Cell(writePos + i - 1)
  BY <1>2, InCells DEF RingInv
<1>4. buffer' = [c \in 0 .. Cap - 1 |->
                  IF \E i \in 1 .. k : view[i] = c
                    THEN wr.data[CHOOSE i \in 1 .. k : view[i] = c]
                    ELSE buffer[c]]
  BY DEF CopyIn
<1> HIDE DEF U, view
<1>5. ASSUME NEW i \in 1 .. k
      PROVE  view[i] = Cell(readPos + U + (i - 1)) /\ view[i] \in 0 .. Cap - 1
  <2>1. writePos + i - 1 = writePos + (i - 1) /\ i - 1 \in Int /\ writePos + (i - 1) \in Int
    BY <1>1, <1>2
  <2>2. view[i] = Cell(writePos + (i - 1))
    BY <1>3, <2>1
  <2>3. Cell(writePos + (i - 1)) \in 0 .. Cap - 1
    BY <2>1, CellInBuffer
  <2>4. Cell(writePos + (i - 1)) = Cell(readPos + U + (i - 1))
    BY <1>1, <2>1
  <2>5. QED
    BY <2>2, <2>3, <2>4
<1>6. ASSUME NEW i \in 1 .. k, NEW j \in 1 .. k, i < j
      PROVE  view[i] # view[j]
  <2> DEFINE a == readPos + U + (i - 1)
             b == readPos + U + (j - 1)
  <2>1. a \in Int /\ b \in Int /\ a < b /\ b < a + Cap
    BY <1>1, <1>2, <1>6
  <2>2. view[i] = Cell(a) /\ view[j] = Cell(b)
    BY <1>5
  <2> HIDE DEF a, b
  <2>3. QED
    BY <2>1, <2>2, CellsApart
<1>7. ASSUME NEW i \in 1 .. k
      PROVE  buffer'[view[i]] = wr.data[i]
  <2> DEFINE c == CHOOSE j \in 1 .. k : view[j] = view[i]
  <2>1. c \in 1 .. k /\ view[c] = view[i]
    OBVIOUS
  <2> HIDE DEF c
  <2>2. c = i
    <3>1. ~(c < i) /\ ~(i < c)
      BY <1>6, <2>1
    <3>2. c \in Int /\ i \in Int
      BY <1>2, <2>1
    <3>3. QED
      BY <3>1, <3>2
  <2>3. buffer'[view[i]] = wr.data[c]
    BY <1>4, <1>5 DEF c
  <2>4. QED
    BY <2>2, <2>3
<1>8. ASSUME NEW i \in 1 .. U
      PROVE  buffer'[Cell(readPos + i - 1)] = buffer[Cell(readPos + i - 1)]
  <2> DEFINE a == readPos + i - 1
  <2>1. a \in Int
    BY <1>1
  <2>2. ASSUME NEW j \in 1 .. k
        PROVE  view[j] # Cell(a)
    <3> DEFINE b == readPos + U + (j - 1)
    <3>1. b \in Int /\ a < b /\ b < a + Cap
      BY <1>1, <1>2
    <3>2. view[j] = Cell(b)
      BY <1>5
    <3> HIDE DEF a, b
    <3>3. QED
      BY <2>1, <3>1, <3>2, CellsApart
  <2> HIDE DEF a
  <2>3. Cell(a) \in 0 .. Cap - 1
    BY <2>1, CellInBuffer
  <2>4. buffer'[Cell(a)] = buffer[Cell(a)]
    BY <1>4, <2>2, <2>3
  <2>5. QED
    BY <2>4 DEF a
<1>9. buffer' = [c \in 0 .. Cap - 1 |-> buffer'[c]]
  BY <1>4
<1>10. QED
  BY <1>2, <1>7, <1>8, <1>9 DEF U, view

LEMMA CopyInInv ==
  ASSUME RingInv, NEW k \in 0 .. wr.n, CopyIn(k)
  PROVE  RingInv' /\ UNCHANGED Contents
<1>1. /\ wr.at = "copy" /\ UNCHANGED <<writePos, readPos, rd>>
      /\ wr' = Calling(IF k = 0 THEN "done" ELSE "clamp", wr.data, k)
  BY DEF CopyIn
<1>2. Used' = Used /\ Free' = Free
      /\ \A n : View(writePos, n)' = View(writePos, n) /\ View(readPos, n)' = View(readPos, n)
  BY <1>1 DEF Used, Free, View
<1>3. /\ Used \in 0 .. Cap /\ Cap \in Nat /\ Free \in 0 .. Cap
      /\ \A n \in 0 .. Cap : \A i \in 1 .. n : View(readPos, n)[i] = Cell(readPos + i - 1)
      /\ Contents = [i \in 1 .. Used |-> buffer[Cell(readPos + i - 1)]]
      /\ Len(wr.data) \in Nat /\ wr.n \in 0 .. Len(wr.data)
  <2>1. Len(wr.data) \in Nat /\ wr.n \in 0 .. Len(wr.data)
    BY DEF RingInv, RingTypeOK, IsSequence
  <2>2. QED
    BY <2>1, InCells, Widths DEF RingInv
<1>4. /\ wr'.at \in {"done", "clamp"} /\ wr'.data = wr.data /\ wr'.n = k
      /\ wr'.at = "clamp" => k # 0
      /\ wr' = Calling(wr'.at, wr'.data, wr'.n)
  BY <1>1, CallingIs
<1>5. RingTypeOK'
  <2>1. k \in 0 .. Len(wr.data)
    BY <1>3
  <2>2. buffer' = [c \in 0 .. Cap - 1 |-> buffer'[c]]
    BY CopiedIn
  <2>3. QED
    BY <1>1, <1>4, <2>1, <2>2 DEF RingInv, RingTypeOK, IsSequence
<1>6. Contents' = Contents
  <2>1. \A i \in 1 .. Used : buffer'[Cell(readPos + i - 1)] = buffer[Cell(readPos + i - 1)]
    BY CopiedIn
  <2>2. Used' <= Cap
    BY <1>2, <1>3
  <2>3. Contents' = [i \in 1 .. Used |-> buffer'[Cell(readPos + i - 1)]]
    <3>1. (RingTypeOK /\ Used <= Cap)' => (Contents = [i \in 1 .. Used |-> buffer[Cell(readPos + i - 1)]])'
      BY InCells, PTL
    <3>2. QED
      BY <1>1, <1>2, <1>5, <2>2, <3>1 DEF Cell
  <2>4. QED
    BY <1>3, <2>1, <2>3
<1>7. WriterInStep'
  <2>1. k # 0 => k \in 1 .. Free
    BY <1>3, CopiedIn
  <2>2. \A i \in 1 .. k : buffer'[View(writePos, k)[i]] = wr.data[i]
    BY CopiedIn
  <2>3. wr'.at \in {"copy", "clamp", "add"} => wr'.n \in 1 .. Free'
    BY <1>2, <1>4, <2>1
  <2>4. \A i \in 1 .. wr'.n : buffer'[View(writePos, wr.n)'[i]] = wr'.data[i]
    BY <1>2, <1>4, <2>2
  <2>5. QED
    BY <2>3, <2>4 DEF WriterInStep
<1>8. ReaderInStep'
  <2>1. rd' = rd
    BY <1>1
  <2>2. CASE rd.at \in {"clamp", "add"}
    <3>1. rd.n \in 1 .. Used /\ rd.data = [i \in 1 .. rd.n |-> buffer[View(readPos, rd.n)[i]]]
      BY <2>2 DEF RingInv, ReaderInStep
    <3>2. rd.n \in 0 .. Cap
      BY <1>3, <3>1
    <3>3. \A i \in 1 .. rd.n : /\ View(readPos, rd.n)[i] = Cell(readPos + i - 1)
                               /\ i \in 1 .. Used
      BY <1>3, <3>1, <3>2
    <3>4. \A i \in 1 .. Used : buffer'[Cell(readPos + i - 1)] = buffer[Cell(readPos + i - 1)]
      BY CopiedIn
    <3>5. \A i \in 1 .. rd.n : buffer'[View(readPos, rd.n)[i]] = buffer[View(readPos, rd.n)[i]]
      BY <3>3, <3>4
    <3>6. rd.data = [i \in 1 .. rd.n |-> buffer'[View(readPos, rd.n)[i]]]
      BY <3>1, <3>5
    <3>7. QED
      BY <1>1, <1>2, <2>1, <3>1, <3>6 DEF ReaderInStep
  <2>3. CASE rd.at \notin {"clamp", "add"}
    BY <1>2, <2>1, <2>3 DEF RingInv, ReaderInStep
  <2>4. QED
    BY <2>2, <2>3
<1>9. QED
  BY <1>2, <1>3, <1>5, <1>6, <1>7, <1>8 DEF RingInv
\* Publishing appends to the contents ...
LEMMA AddWriteInv ==
  ASSUME RingInv, AddWrite
  PROVE  /\ RingInv'
         /\ wr.n \in 1 .. Len(wr.data) /\ Used' = Used + wr.n
         /\ Contents' = [i \in 1 .. Used + wr.n |->
                          IF i <= Used THEN Contents[i] ELSE wr.data[i - Used]]
<1> DEFINE n == wr.n
           U == Used
<1>1. /\ wr.at = "add" /\ UNCHANGED <<buffer, readPos, rd>>
      /\ writePos' = (writePos + n) % PosMod
      /\ wr' = Calling("done", wr.data, n)
  BY DEF AddWrite
<1>2. /\ Cap \in Nat \ {0} /\ PosMod \in Nat \ {0} /\ Cap < PosMod
  BY Widths
<1>3. /\ U \in 0 .. Cap /\ Free = Cap - U
      /\ writePos \in Nat /\ readPos \in Nat
      /\ writePos = (readPos + U) % PosMod
      /\ \A i \in Int : Cell(writePos + i) = Cell(readPos + U + i)
      /\ Contents = [i \in 1 .. U |-> buffer[Cell(readPos + i - 1)]]
      /\ \A k \in 0 .. Cap : \A i \in 1 .. k : View(writePos, k)[i] = Cell(writePos + i - 1)
  BY InCells DEF RingInv
<1>4. n \in 1 .. Free /\ \A i \in 1 .. n : buffer[View(writePos, n)[i]] = wr.data[i]
  BY <1>1 DEF RingInv, WriterInStep
<1>5. Len(wr.data) \in Nat /\ n \in 0 .. Len(wr.data) /\ readPos \in 0 .. PosMod - 1
  BY DEF RingInv, RingTypeOK, IsSequence
<1> HIDE DEF n, U
<1>6. n \in 1 .. Cap /\ n \in 0 .. Cap /\ U + n \in 0 .. Cap /\ U + n \in 0 .. PosMod - 1
  <2>1. n \in 1 .. Cap - U /\ U \in 0 .. Cap /\ Cap \in Nat
    BY <1>2, <1>3, <1>4
  <2>2. n \in 1 .. Cap /\ n \in 0 .. Cap /\ U + n \in 0 .. Cap
    BY <2>1
  <2>3. U + n \in 0 .. PosMod - 1
    BY <1>2, <2>2
  <2>4. QED
    BY <2>2, <2>3
<1>7. writePos' \in 0 .. PosMod - 1
  <2>1. writePos + n \in Int
    <3>1. writePos \in Nat /\ n \in Nat
      BY <1>3, <1>6
    <3>2. QED
      BY <3>1
  <2>2. QED
    BY <1>1, <1>2, <2>1, DivMod
<1>8. Used' = U + n
  <2>1. writePos' = (readPos + (U + n)) % PosMod
    <3>1. readPos + U \in Int /\ n \in Int
      BY <1>3, <1>6
    <3>2. (((readPos + U) % PosMod) + n) % PosMod = ((readPos + U) + n) % PosMod
      BY <1>2, <3>1, PlusWraps
    <3>3. (readPos + U) + n = readPos + (U + n)
      BY <1>3, <1>6
    <3>4. QED
      BY <1>1, <1>3, <3>2, <3>3
  <2>2. (writePos' - readPos) % PosMod = U + n
    BY <1>2, <1>5, <1>6, <1>7, <2>1, DistanceIs
  <2>3. QED
    BY <1>1, <2>2 DEF Used
<1>9. wr'.at = "done" /\ wr'.data = wr.data /\ wr'.n = n
      /\ wr' = Calling(wr'.at, wr'.data, wr'.n)
  BY <1>1, CallingIs
<1>10. RingTypeOK'
  BY <1>1, <1>5, <1>7, <1>9 DEF RingInv, RingTypeOK, IsSequence
<1>11. WriterInStep'
  BY <1>9 DEF WriterInStep
<1>12. Used' <= Cap
  BY <1>6, <1>8
<1>13. ReaderInStep'
  <2>1. rd.at \in {"copy", "peek", "clamp", "add"} => rd.n \in 1 .. U
    BY DEF RingInv, ReaderInStep, U
  <2>2. rd.n \in 1 .. U => rd.n \in 1 .. (U + n)
    <3>1. \A x \in 1 .. U : x \in 1 .. (U + n)
      BY <1>2, <1>3, <1>6
    <3>2. QED
      BY <3>1
  <2>3. rd.at \in {"copy", "peek", "clamp", "add"} => rd'.n \in 1 .. Used'
    BY <1>1, <1>8, <2>1, <2>2
  <2>4. View(readPos, rd.n)' = View(readPos, rd.n)
    BY <1>1 DEF View
  <2>5. QED
    BY <1>1, <2>3, <2>4 DEF RingInv, ReaderInStep
<1>14. Contents' = [i \in 1 .. U + n |-> buffer[Cell(readPos + i - 1)]]
  <2>1. (RingTypeOK /\ Used <= Cap)' => (Contents = [i \in 1 .. Used |-> buffer[Cell(readPos + i - 1)]])'
    BY InCells, PTL
  <2>2. QED
    BY <1>1, <1>8, <1>10, <1>12, <2>1 DEF Cell
<1>15. ASSUME NEW i \in 1 .. U + n
       PROVE  buffer[Cell(readPos + i - 1)] = IF i <= U THEN Contents[i] ELSE wr.data[i - U]
  <2>1. CASE i <= U
    <3>1. i \in 1 .. U
      BY <1>3, <1>6, <2>1
    <3>2. QED
      BY <1>3, <2>1, <3>1
  <2>2. CASE ~(i <= U)
    <3>1. i - U \in 1 .. n /\ (i - U) - 1 \in Int
      BY <1>3, <1>6, <2>2
    <3>2. wr.data[i - U] = buffer[Cell(writePos + (i - U) - 1)]
      BY <1>3, <1>4, <1>6, <3>1
    <3>3. writePos + (i - U) - 1 = writePos + ((i - U) - 1)
      BY <1>3, <3>1
    <3>4. Cell(writePos + ((i - U) - 1)) = Cell(readPos + U + ((i - U) - 1))
      BY <1>3, <3>1
    <3>5. readPos + U + ((i - U) - 1) = readPos + i - 1
      BY <1>3, <1>6
    <3>6. QED
      BY <2>2, <3>2, <3>3, <3>4, <3>5
  <2>3. QED
    BY <2>1, <2>2
<1>16. Contents' = [i \in 1 .. U + n |-> IF i <= U THEN Contents[i] ELSE wr.data[i - U]]
  BY <1>14, <1>15
<1>17. n \in 1 .. Len(wr.data)
  BY <1>5, <1>6
<1>18. QED
  BY <1>8, <1>10, <1>11, <1>12, <1>13, <1>16, <1>17 DEF RingInv, n, U

\* ... and giving back takes from its front what was copied.
LEMMA CopyOutInv ==
  ASSUME RingInv, NEW k \in 0 .. rd.n, CopyOut(k)
  PROVE  /\ RingInv' /\ UNCHANGED Contents
         /\ rd'.data = [i \in 1 .. k |-> Contents[i]] /\ k \in 0 .. Used
<1>1. /\ rd.at \in {"copy", "peek"} /\ UNCHANGED <<buffer, writePos, readPos>> /\ wr' = wr
      /\ rd' = Calling(IF rd.at = "peek" \/ k = 0 THEN "done" ELSE "clamp",
                       [i \in 1 .. k |-> buffer[View(readPos, k)[i]]], k)
  BY DEF CopyOut
<1>2. /\ Used' = Used /\ Free' = Free /\ Contents' = Contents
      /\ \A n : View(writePos, n)' = View(writePos, n) /\ View(readPos, n)' = View(readPos, n)
  BY <1>1, Unmoved
<1>3. /\ Used \in 0 .. Cap /\ Cap \in Nat
      /\ \A n \in 0 .. Cap : \A i \in 1 .. n : View(readPos, n)[i] = Cell(readPos + i - 1)
      /\ Contents = [i \in 1 .. Used |-> buffer[Cell(readPos + i - 1)]]
      /\ rd.n \in 1 .. Used
  BY <1>1, InCells, Widths DEF RingInv, ReaderInStep
<1>4. k \in 0 .. Cap /\ k \in 0 .. Used /\ (k # 0 => k \in 1 .. Used)
  BY <1>3
<1>5. /\ rd'.at \in {"done", "clamp"} /\ (rd'.at = "clamp" => k # 0) /\ rd'.n = k
      /\ rd'.data = [i \in 1 .. k |-> buffer[View(readPos, k)[i]]]
      /\ rd' = Calling(rd'.at, rd'.data, rd'.n)
  BY <1>1, CallingIs
<1>6. RingTypeOK'
  <2>1. rd' = Calling(rd'.at, rd'.data, rd'.n) /\ rd'.n \in 0 .. Cap
    BY <1>4, <1>5
  <2>2. RingTypeOK
    BY DEF RingInv
  <2>3. QED
    BY <1>1, <2>1, <2>2 DEF RingTypeOK, IsSequence
<1>7. ReaderInStep'
  <2>1. rd'.at \in {"copy", "peek", "clamp", "add"} => rd'.n \in 1 .. Used'
    BY <1>2, <1>4, <1>5
  <2>2. View(readPos, rd.n)' = View(readPos, k)
    BY <1>1, <1>5
  <2>3. rd'.data = [i \in 1 .. rd'.n |-> buffer'[View(readPos, rd.n)'[i]]]
    BY <1>1, <1>5, <2>2
  <2>4. QED
    BY <2>1, <2>3 DEF ReaderInStep
<1>8. WriterInStep'
  BY <1>1, <1>2 DEF RingInv, WriterInStep
<1>9. rd'.data = [i \in 1 .. k |-> Contents[i]]
  <2>1. \A i \in 1 .. k : i \in 1 .. Used
    BY <1>3, <1>4
  <2>2. \A i \in 1 .. k : buffer[View(readPos, k)[i]] = Contents[i]
    BY <1>3, <1>4, <2>1
  <2>3. QED
    BY <1>5, <2>2
<1>10. QED
  BY <1>2, <1>3, <1>4, <1>6, <1>7, <1>8, <1>9 DEF RingInv

LEMMA AddReadInv ==
  ASSUME RingInv, AddRead
  PROVE  /\ RingInv'
         /\ rd.n \in 1 .. Used /\ Used' = Used - rd.n
         /\ Contents' = [i \in 1 .. Used - rd.n |-> Contents[rd.n + i]]
         /\ rd.data = [i \in 1 .. rd.n |-> Contents[i]]
<1> DEFINE n == rd.n
           U == Used
<1>1. /\ rd.at = "add" /\ UNCHANGED <<buffer, writePos>> /\ wr' = wr
      /\ readPos' = (readPos + n) % PosMod
      /\ rd' = Calling("done", rd.data, n)
  BY DEF AddRead
<1>2. /\ Cap \in Nat \ {0} /\ PosMod \in Nat \ {0} /\ Cap < PosMod
  BY Widths
<1>3. /\ U \in 0 .. Cap /\ Free = Cap - U
      /\ writePos \in Nat /\ readPos \in Nat
      /\ writePos = (readPos + U) % PosMod
      /\ Contents = [i \in 1 .. U |-> buffer[Cell(readPos + i - 1)]]
      /\ \A k \in 0 .. Cap : \A i \in 1 .. k : View(readPos, k)[i] = Cell(readPos + i - 1)
  BY InCells DEF RingInv
<1>4. n \in 1 .. U /\ rd.data = [i \in 1 .. n |-> buffer[View(readPos, n)[i]]]
  BY <1>1 DEF RingInv, ReaderInStep
<1>5. n \in 0 .. Cap /\ writePos \in 0 .. PosMod - 1
  BY DEF RingInv, RingTypeOK
<1> HIDE DEF n, U
<1>6. U - n \in 0 .. Cap /\ U - n \in 0 .. PosMod - 1 /\ U - n \in Nat /\ n \in Nat
  BY <1>2, <1>3, <1>4
<1>7. readPos + n \in Int /\ readPos' \in 0 .. PosMod - 1
  <2>1. readPos + n \in Int
    BY <1>3, <1>6
  <2>2. QED
    BY <1>1, <1>2, <2>1, DivMod
<1>8. Used' = U - n
  <2>1. (((readPos + n) % PosMod) + (U - n)) % PosMod = ((readPos + n) + (U - n)) % PosMod
    <3>1. U - n \in Int
      BY <1>6
    <3>2. QED
      BY <1>2, <1>7, <3>1, PlusWraps
  <2>2. (readPos + n) + (U - n) = readPos + U
    BY <1>3, <1>6
  <2>3. writePos = (readPos' + (U - n)) % PosMod
    BY <1>1, <1>3, <2>1, <2>2
  <2>4. (writePos - readPos') % PosMod = U - n
    BY <1>2, <1>5, <1>6, <1>7, <2>3, DistanceIs
  <2>5. QED
    BY <1>1, <2>4 DEF Used
<1>9. rd'.at = "done" /\ rd'.data = rd.data /\ rd'.n = n
      /\ rd' = Calling(rd'.at, rd'.data, rd'.n)
  BY <1>1, CallingIs
<1>10. RingTypeOK'
  BY <1>1, <1>5, <1>7, <1>9 DEF RingInv, RingTypeOK, IsSequence
<1>11. ReaderInStep'
  BY <1>9 DEF ReaderInStep
<1>12. Used' <= Cap
  BY <1>2, <1>6, <1>8
<1>13. WriterInStep'
  <2>1. wr.at \in {"copy", "clamp", "add"} => wr.n \in 1 .. Free
    BY DEF RingInv, WriterInStep
  <2>2. Free' = Cap - (U - n)
    BY <1>8 DEF Free
  <2>3. wr.n \in 1 .. Free => wr.n \in 1 .. Free'
    BY <1>2, <1>3, <1>6, <2>2
  <2>4. View(writePos, wr.n)' = View(writePos, wr.n)
    BY <1>1 DEF View
  <2>5. QED
    BY <1>1, <2>1, <2>3, <2>4 DEF RingInv, WriterInStep
<1>14. Contents' = [i \in 1 .. U - n |-> buffer[Cell(readPos' + i - 1)]]
  <2>1. (RingTypeOK /\ Used <= Cap)' => (Contents = [i \in 1 .. Used |-> buffer[Cell(readPos + i - 1)]])'
    BY InCells, PTL
  <2>2. QED
    BY <1>1, <1>8, <1>10, <1>12, <2>1 DEF Cell
<1>15. ASSUME NEW i \in 1 .. U - n
       PROVE  buffer[Cell(readPos' + i - 1)] = Contents[n + i]
  <2>1. i - 1 \in Int /\ n + i \in 1 .. U /\ readPos' \in Int
    BY <1>3, <1>6, <1>7
  <2>2. readPos' + i - 1 = readPos' + (i - 1)
    BY <1>7, <2>1
  <2>3. Cell(readPos' + (i - 1)) = Cell((readPos + n) + (i - 1))
    BY <1>1, <1>7, <2>1, CellWraps
  <2>4. (readPos + n) + (i - 1) = readPos + (n + i) - 1
    BY <1>3, <1>6
  <2>5. QED
    BY <1>3, <2>1, <2>2, <2>3, <2>4
<1>16. Contents' = [i \in 1 .. U - n |-> Contents[n + i]]
  BY <1>14, <1>15
<1>17. rd.data = [i \in 1 .. n |-> Contents[i]]
  <2>1. \A i \in 1 .. n : i \in 1 .. U
    BY <1>3, <1>4
  <2>2. \A i \in 1 .. n : buffer[View(readPos, n)[i]] = Contents[i]
    BY <1>3, <1>5, <2>1
  <2>3. QED
    BY <1>4, <2>2
<1>18. QED
  BY <1>4, <1>8, <1>10, <1>11, <1>12, <1>13, <1>16, <1>17 DEF RingInv, n, U
-----------------------------------------------------------------------------
(* The refinement *)

LEMMA RingStepInv ==
  ASSUME RingInv, RingNext
  PROVE  RingInv' /\ (AddWrite \/ AddRead \/ UNCHANGED Contents)
BY LookInv, ReaderLookInv, CopyInInv, CopyOutInv, AddWriteInv, AddReadInv
   DEF RingNext, RingStep

LEMMA RingInitInv ==
  ASSUME RingInit
  PROVE  RingInv /\ Contents = <<>>
<1>1. /\ Cap \in Nat \ {0} /\ PosMod \in Nat \ {0} /\ Cap < PosMod
  BY Widths
<1>2. Used = 0
  <2>1. 0 = PosMod * 0 + 0 /\ 0 \in 0 .. PosMod - 1
    BY <1>1
  <2>2. 0 % PosMod = 0
    BY <1>1, <2>1, RemainderIs
  <2>3. QED
    BY <2>2 DEF RingInit, Used
<1>3. wr = Calling("idle", <<>>, 0) /\ rd = Calling("idle", <<>>, 0)
  BY DEF RingInit, Quiet
<1>4. /\ wr.at = "idle" /\ wr.data = <<>> /\ wr.n = 0
      /\ rd.at = "idle" /\ rd.data = <<>> /\ rd.n = 0
  BY <1>3, CallingIs
<1>5. RingTypeOK
  <2>1. IsSequence(<<>>) /\ 0 \in 0 .. Len(<<>>) /\ 0 \in 0 .. Cap /\ 0 \in 0 .. PosMod - 1
    BY <1>1 DEF IsSequence
  <2>2. QED
    BY <1>3, <1>4, <2>1 DEF RingInit, RingTypeOK, IsSequence
<1>6. WriterInStep /\ ReaderInStep
  BY <1>4 DEF WriterInStep, ReaderInStep
<1>7. Contents = <<>>
  <2>1. Contents = [i \in 1 .. 0 |-> buffer[View(readPos, 0)[i]]]
    BY <1>2 DEF Contents
  <2>2. QED
    BY <2>1
<1>8. QED
  BY <1>1, <1>2, <1>5, <1>6, <1>7 DEF RingInv

LEMMA RingStutterInv ==
  ASSUME RingInv, UNCHANGED ringVars
  PROVE  RingInv' /\ UNCHANGED Contents
<1>1. UNCHANGED <<buffer, writePos, readPos>> /\ wr' = wr /\ rd' = rd
  BY DEF ringVars
<1>2. /\ Used' = Used /\ Free' = Free /\ Contents' = Contents
      /\ \A n : View(writePos, n)' = View(writePos, n) /\ View(readPos, n)' = View(readPos, n)
  BY <1>1, Unmoved
<1>3. RingTypeOK'
  BY <1>1 DEF RingInv, RingTypeOK, IsSequence
<1>4. WriterInStep' /\ ReaderInStep'
  BY <1>1, <1>2 DEF RingInv, WriterInStep, ReaderInStep
<1>5. QED
  BY <1>2, <1>3, <1>4 DEF RingInv

LEMMA PutIs ==
  ASSUME RingInv, AddWrite
  PROVE  Bytes!Put
<1> DEFINE n == wr.n
           S == {Contents[i] : i \in DOMAIN Contents} \cup {wr.data[i] : i \in DOMAIN wr.data}
<1>1. /\ RingInv' /\ n \in 1 .. Len(wr.data) /\ Used' = Used + n
      /\ Contents' = [i \in 1 .. Used + n |->
                       IF i <= Used THEN Contents[i] ELSE wr.data[i - Used]]
  BY AddWriteInv
<1>2. Used \in Nat /\ Used' <= Cap
  BY <1>1, InCells, Widths DEF RingInv
<1>3. wr.data \in Seq({wr.data[i] : i \in DOMAIN wr.data}) /\ Len(wr.data) \in Nat
  BY DEF RingInv, RingTypeOK, IsSequence
<1>4. Contents = [i \in 1 .. Used |-> Contents[i]] /\ DOMAIN Contents = 1 .. Used
  BY DEF Contents
<1> HIDE DEF n
<1>5. Contents \in Seq(S) /\ Len(Contents) = Used
  BY <1>2, <1>4
<1>6. wr.data \in Seq(S)
  <2>1. {wr.data[i] : i \in DOMAIN wr.data} \subseteq S
    OBVIOUS
  <2> HIDE DEF S
  <2>2. QED
    BY <1>3, <2>1
<1> DEFINE t == SubSeq(wr.data, 1, n)
<1>7. t \in Seq(S) /\ Len(t) = n /\ \A i \in 1 .. n : t[i] = wr.data[i]
  <2> HIDE DEF S
  <2>1. n \in 0 .. Len(wr.data) /\ n \in Nat
    BY <1>1, <1>3
  <2>2. QED
    BY <1>3, <1>6, <2>1
<1> HIDE DEF S, t
<1>8. Contents \o t = [i \in 1 .. Used + n |->
                       IF i <= Used THEN Contents[i] ELSE t[i - Used]]
  <2> DEFINE u == Contents \o t
  <2>1. u \in Seq(S) /\ Len(u) = Used + n
    BY <1>5, <1>7
  <2>2. \A i \in 1 .. Used + n : u[i] = IF i <= Used THEN Contents[i] ELSE t[i - Used]
    BY <1>2, <1>5, <1>7, <1>1, <1>3
  <2> HIDE DEF u
  <2>3. u = [i \in 1 .. Used + n |-> u[i]]
    BY <2>1
  <2>4. QED
    BY <2>2, <2>3 DEF u
<1>9. \A i \in 1 .. Used + n : i <= Used \/ t[i - Used] = wr.data[i - Used]
  <2>1. \A i \in 1 .. Used + n : i <= Used \/ i - Used \in 1 .. n
    BY <1>1, <1>2, <1>3
  <2>2. QED
    BY <1>7, <2>1
<1>10. Contents' = Contents \o t
  BY <1>1, <1>8, <1>9
<1>11. Len(Contents) + n <= Cap
  BY <1>1, <1>2, <1>5
<1>12. QED
  BY <1>1, <1>10, <1>11 DEF Bytes!Put, n, t

LEMMA TakeIs ==
  ASSUME RingInv, AddRead
  PROVE  Bytes!Take
<1> DEFINE n == rd.n
           S == {Contents[i] : i \in DOMAIN Contents}
<1>1. /\ n \in 1 .. Used
      /\ Contents' = [i \in 1 .. Used - n |-> Contents[n + i]]
      /\ rd.data = [i \in 1 .. n |-> Contents[i]]
  BY AddReadInv
<1>2. Used \in Nat
  BY InCells, Widths DEF RingInv
<1>3. Contents = [i \in 1 .. Used |-> Contents[i]] /\ DOMAIN Contents = 1 .. Used
  BY DEF Contents
<1> HIDE DEF n
<1>4. Contents \in Seq(S) /\ Len(Contents) = Used
  BY <1>2, <1>3
<1>5. rd.data \in Seq(S) /\ Len(rd.data) = n /\ n \in Nat
  <2>1. n \in Nat /\ \A i \in 1 .. n : i \in 1 .. Used
    BY <1>1, <1>2
  <2>2. \A i \in 1 .. n : Contents[i] \in S
    BY <1>3, <2>1
  <2> HIDE DEF S
  <2>3. QED
    BY <1>1, <2>1, <2>2
<1> HIDE DEF S
<1>6. SubSeq(rd.data, 1, n) = [i \in 1 .. n |-> Contents[i]]
  BY <1>1, <1>5
<1>7. SubSeq(Contents, 1, n) = [i \in 1 .. n |-> Contents[i]]
  BY <1>1, <1>2, <1>4
<1>8. SubSeq(Contents, n + 1, Len(Contents)) = [i \in 1 .. Used - n |-> Contents[n + i]]
  BY <1>1, <1>2, <1>4
<1>9. n \in 1 .. Len(rd.data) /\ n <= Len(Contents)
  BY <1>1, <1>2, <1>4, <1>5
<1>10. SubSeq(rd.data, 1, n) = SubSeq(Contents, 1, n)
       /\ Contents' = SubSeq(Contents, n + 1, Len(Contents))
  BY <1>1, <1>6, <1>7, <1>8
<1>11. QED
  BY <1>9, <1>10 DEF Bytes!Take

\* The inductive invariant of the ring, for every capacity and width of positions and
\* whatever the two callers ask for: neither side ever touches a cell of the other's view.
THEOREM RingInvariant == RingSpec => []RingInv
<1>1. RingInit => RingInv
  BY RingInitInv
<1>2. RingInv /\ [RingNext]_ringVars => RingInv'
  BY RingStepInv, RingStutterInv
<1>3. QED
  BY <1>1, <1>2, PTL DEF RingSpec

\* The ring implements the bounded queue of bytes: each step of a call puts a prefix of
\* what is offered, takes what the consumer was handed, or is invisible.
THEOREM RingImplementsByteQueue == RingSpec => ImplementsByteQueue
<1>1. RingInit => Bytes!Init
  BY RingInitInv DEF Bytes!Init
<1>2. RingInv /\ [RingNext]_ringVars => [Bytes!Put \/ Bytes!Take]_Contents
  BY RingStepInv, RingStutterInv, PutIs, TakeIs
<1>3. QED
  BY <1>1, <1>2, RingInvariant, PTL DEF RingSpec, ImplementsByteQueue, Bytes!Spec

-----------------------------------------------------------------------------
(* The audio pipeline.                                                     *)

AudioSpec == RingInit /\ AudioInit /\ [][AudioNext]_<<ringVars, audioVars>>

-----------------------------------------------------------------------------
(* Samples *)

LEMMA Halves ==
  ASSUME NEW u \in Int, NEW x \in Int
  PROVE  /\ (2 * u + x) \div 2 = u + (x \div 2)
         /\ (2 * u + x) % 2 = x % 2
         /\ x \div 2 \in Int
OBVIOUS

LEMMA Evens ==
  ASSUME NEW n \in Nat, n % 2 = 0
  PROVE  n \div 2 \in Nat /\ n = 2 * (n \div 2)
OBVIOUS

LEMMA SampleModOK == SampleMod \in Nat \ {0}
BY AudioAssumption

LEMMA SampleAgrees ==
  ASSUME NEW a \in Int, NEW b \in Int, a % SampleMod = b % SampleMod, NEW x \in Int
  PROVE  (a + x) % SampleMod = (b + x) % SampleMod
<1>1. ((a % SampleMod) + x) % SampleMod = (a + x) % SampleMod
  BY SampleModOK, PlusWraps
<1>2. ((b % SampleMod) + x) % SampleMod = (b + x) % SampleMod
  BY SampleModOK, PlusWraps
<1>3. QED
  BY <1>1, <1>2

\* the number of a sample counts modulo SampleMod
LEMMA SamplesAgree ==
  ASSUME NEW a \in Int, NEW b \in Int, a % SampleMod = b % SampleMod, NEW c \in Nat
  PROVE  Samples(a, c) = Samples(b, c)
<1>1. \A i \in 1 .. 2 * c : (i - 1) \div 2 \in Int
  OBVIOUS
<1>2. \A i \in 1 .. 2 * c :
        (a + (i - 1) \div 2) % SampleMod = (b + (i - 1) \div 2) % SampleMod
  BY <1>1, SampleAgrees
<1>3. QED
  BY <1>2 DEF Samples

\* samples and those that follow them
Follows(b, a, c) == b % SampleMod = (a + c) % SampleMod

Joined(a, b, c, d) ==
  /\ Samples(a, c + d) = [i \in 1 .. 2 * c + 2 * d |-> Samples(a, c + d)[i]]
  /\ \A i \in 1 .. 2 * c + 2 * d :
       Samples(a, c + d)[i] =
         IF i <= 2 * c THEN Samples(a, c)[i] ELSE Samples(b, d)[i - 2 * c]

LEMMA SamplesJoin ==
  ASSUME NEW a \in Int, NEW b \in Int, NEW c \in Nat, NEW d \in Nat, Follows(b, a, c)
  PROVE  Joined(a, b, c, d)
<1>0. b % SampleMod = (a + c) % SampleMod
  BY DEF Follows
<1>1. 2 * (c + d) = 2 * c + 2 * d
  OBVIOUS
<1>2. ASSUME NEW i \in 1 .. 2 * c + 2 * d, i <= 2 * c
      PROVE  <<(a + (i - 1) \div 2) % SampleMod, i % 2>> = Samples(a, c)[i]
  <2>1. i \in 1 .. 2 * c
    BY <1>2
  <2>2. QED
    BY <2>1 DEF Samples
<1>3. ASSUME NEW i \in 1 .. 2 * c + 2 * d, ~(i <= 2 * c)
      PROVE  <<(a + (i - 1) \div 2) % SampleMod, i % 2>> = Samples(b, d)[i - 2 * c]
  <2> DEFINE j == i - 2 * c
             h == (j - 1) \div 2
  <2>1. j \in 1 .. 2 * d /\ j - 1 \in Int /\ i = 2 * c + j /\ i - 1 = 2 * c + (j - 1) /\ h \in Int
    BY <1>3
  <2>2. Samples(b, d)[j] = <<(b + h) % SampleMod, j % 2>>
    BY <2>1 DEF Samples
  <2> HIDE DEF j
  <2>3. (i - 1) \div 2 = c + h /\ i % 2 = j % 2
    BY <2>1, Halves
  <2> HIDE DEF h
  <2>4. (b + h) % SampleMod = ((a + c) + h) % SampleMod
    <3>1. a + c \in Int
      OBVIOUS
    <3>2. QED
      BY <1>0, <2>1, <3>1, SampleAgrees
  <2>5. a + (i - 1) \div 2 = (a + c) + h
    BY <2>1, <2>3
  <2>6. QED
    BY <2>2, <2>3, <2>4, <2>5 DEF j
<1>4. QED
  BY <1>1, <1>2, <1>3 DEF Samples, Joined

LEMMA SamplesFront ==
  ASSUME NEW a \in Int, NEW c \in Nat, NEW r \in Nat, r <= c
  PROVE  Samples(a, r) = [i \in 1 .. 2 * r |-> Samples(a, c)[i]]
<1>1. \A i \in 1 .. 2 * r : i \in 1 .. 2 * c
  OBVIOUS
<1>2. QED
  BY <1>1 DEF Samples

LEMMA SamplesRest ==
  ASSUME NEW a \in Int, NEW c \in Nat, NEW r \in Nat, r <= c
  PROVE  Samples(a + r, c - r) = [i \in 1 .. 2 * c - 2 * r |-> Samples(a, c)[2 * r + i]]
<1>1. 2 * (c - r) = 2 * c - 2 * r
  OBVIOUS
<1>2. ASSUME NEW i \in 1 .. 2 * c - 2 * r
      PROVE  <<((a + r) + (i - 1) \div 2) % SampleMod, i % 2>> = Samples(a, c)[2 * r + i]
  <2> DEFINE h == (i - 1) \div 2
             k == 2 * r + i
  <2>1. k \in 1 .. 2 * c /\ k - 1 = 2 * r + (i - 1) /\ i - 1 \in Int /\ i \in Int
    OBVIOUS
  <2>2. (k - 1) \div 2 = r + h /\ k % 2 = i % 2 /\ h \in Int
    BY <2>1, Halves
  <2> HIDE DEF h
  <2>3. Samples(a, c)[k] = <<(a + (k - 1) \div 2) % SampleMod, k % 2>>
    BY <2>1 DEF Samples
  <2>4. a + (k - 1) \div 2 = (a + r) + h
    BY <2>2
  <2>5. QED
    BY <2>2, <2>3, <2>4 DEF h
<1>3. QED
  BY <1>1, <1>2 DEF Samples

LEMMA SamplesLength ==
  ASSUME NEW a, NEW c \in Nat
  PROVE  /\ DOMAIN Samples(a, c) = 1 .. 2 * c
         /\ Len(Samples(a, c)) = 2 * c
         /\ IsSequence(Samples(a, c))
<1>1. Samples(a, c) = [i \in 1 .. 2 * c |-> Samples(a, c)[i]] /\ DOMAIN Samples(a, c) = 1 .. 2 * c
  BY DEF Samples
<1>2. 2 * c \in Nat
  OBVIOUS
<1>3. QED
  BY <1>1, <1>2 DEF IsSequence
-----------------------------------------------------------------------------
(* The steps *)

LEMMA AudioTypes ==
  ASSUME AudioInv
  PROVE  /\ RingInv
         /\ spoken \in Nat /\ heard \in Nat /\ promised \in Nat
         /\ Used \in Nat /\ Used \div 2 \in Nat /\ Used = 2 * (Used \div 2)
         /\ Free \in Nat /\ Free % 2 = 0 /\ Used <= Cap /\ Cap \in Nat
         /\ wr.n \in Nat /\ wr.n \div 2 \in Nat /\ wr.n = 2 * (wr.n \div 2)
         /\ Len(wr.data) \in Nat /\ wr.n <= Len(wr.data)
         /\ rd.n \in Nat /\ rd.n \div 2 \in Nat /\ rd.n = 2 * (rd.n \div 2)
         /\ Oldest \in Nat /\ Newest \in Nat
<1>1. RingInv /\ spoken \in Nat /\ heard \in Nat /\ promised \in Nat
  BY DEF AudioInv, AudioTypeOK
<1>2. Used \in 0 .. Cap /\ Free = Cap - Used /\ Free \in 0 .. Cap /\ Cap \in Nat
  BY <1>1, InCells, Widths DEF RingInv
<1>3. Len(wr.data) \in Nat /\ wr.n \in 0 .. Len(wr.data) /\ rd.n \in 0 .. Cap
  BY <1>1 DEF RingInv, RingTypeOK, IsSequence
<1>4. Used % 2 = 0 /\ wr.n % 2 = 0 /\ rd.n % 2 = 0 /\ Cap % 2 = 0
  BY AudioAssumption DEF AudioInv, SamplesInRing, WriteHasSamples, ReadHasSamples
<1>5. Used \in Nat /\ wr.n \in Nat /\ rd.n \in Nat /\ Free \in Nat
      /\ wr.n <= Len(wr.data) /\ Used <= Cap
  BY <1>2, <1>3
<1>6. /\ Used \div 2 \in Nat /\ Used = 2 * (Used \div 2)
      /\ wr.n \div 2 \in Nat /\ wr.n = 2 * (wr.n \div 2)
      /\ rd.n \div 2 \in Nat /\ rd.n = 2 * (rd.n \div 2)
  BY <1>4, <1>5, Evens
<1>7. Free % 2 = 0
  BY <1>2, <1>4
<1>8. Oldest \in Nat /\ Newest \in Nat
  BY <1>1, <1>6 DEF Oldest, Newest
<1>9. QED
  BY <1>1, <1>2, <1>3, <1>5, <1>6, <1>7, <1>8

\* The writer's calls ...
LEMMA WriteInv ==
  ASSUME AudioInv, WriteS16 \/ FillView \/ (ClampWrite /\ UNCHANGED audioVars)
  PROVE  AudioInv'
<1>1. /\ UNCHANGED <<spoken, heard, promised, rd, writePos, readPos>>
      /\ Used' = Used /\ Oldest' = Oldest
  BY DEF WriteS16, FillView, AcquireWrite, CopyIn, ClampWrite, audioVars, Used, Oldest
<1>2. RingInv /\ spoken \in Nat /\ Free \in Nat /\ Free % 2 = 0
  BY AudioTypes
<1>3. /\ RingInv' /\ Contents' = Contents
      /\ wr.at # "done" /\ (wr'.at = "done" => wr'.n = 0)
      /\ wr'.n % 2 = 0 /\ Len(wr'.data) % 2 = 0
      /\ wr'.data = Samples(spoken, Len(wr'.data) \div 2)
  <2>1. CASE WriteS16
    <3>1. PICK count \in Counts : AcquireWrite(Samples(spoken, count))
      BY <2>1 DEF WriteS16
    <3> DEFINE cells == Samples(spoken, count)
               n == Least(Len(cells), Free)
    <3>2. count \in Nat
      BY AudioAssumption
    <3>3. Len(cells) = 2 * count /\ IsSequence(cells)
      BY <3>2, SamplesLength
    <3>4. RingInv' /\ Contents' = Contents
      BY <1>2, <3>1, <3>3, LookInv
    <3>5. wr' = Calling(IF n = 0 THEN "done" ELSE "copy", cells, n) /\ wr.at = "idle"
      BY <3>1 DEF AcquireWrite
    <3>6. wr'.data = cells /\ wr'.n = n /\ (wr'.at = "done" => n = 0)
      BY <3>5, CallingIs
    <3>7. n % 2 = 0 /\ Len(cells) % 2 = 0 /\ Len(cells) \div 2 = count
      BY <1>2, <3>2, <3>3 DEF Least
    <3> HIDE DEF n
    <3>8. QED
      BY <3>4, <3>5, <3>6, <3>7
  <2>2. CASE FillView
    <3>1. PICK k \in 0 .. wr.n : (k = wr.n \/ k % 2 = 0) /\ CopyIn(k)
      BY <2>2 DEF FillView
    <3>2. RingInv' /\ Contents' = Contents
      BY <1>2, <3>1, CopyInInv
    <3>3. wr.at = "copy" /\ wr' = Calling(IF k = 0 THEN "done" ELSE "clamp", wr.data, k)
      BY <3>1 DEF CopyIn
    <3>4. wr'.data = wr.data /\ wr'.n = k /\ (wr'.at = "done" => k = 0)
      BY <3>3, CallingIs
    <3>5. k % 2 = 0
      BY <3>1 DEF AudioInv, WriteHasSamples
    <3>6. QED
      BY <3>2, <3>3, <3>4, <3>5 DEF AudioInv, WriteHasSamples
  <2>3. CASE ClampWrite
    <3>1. RingInv' /\ Contents' = Contents
      BY <1>2, <2>3, LookInv
    <3>2. wr.at = "clamp" /\ wr' = Calling("add", wr.data, Least(wr.n, Free))
      BY <2>3 DEF ClampWrite
    <3>3. wr'.at = "add" /\ wr'.data = wr.data /\ wr'.n = Least(wr.n, Free)
      BY <3>2, CallingIs
    <3>4. wr'.n % 2 = 0
      BY <1>2, <3>3 DEF Least, AudioInv, WriteHasSamples
    <3>5. QED
      BY <3>1, <3>2, <3>3, <3>4 DEF AudioInv, WriteHasSamples
  <2>4. QED
    BY <2>1, <2>2, <2>3
<1>4. Newest' = Newest
  <2>1. Newest = spoken /\ Newest' = spoken
    BY <1>1, <1>2, <1>3 DEF Newest
  <2>2. QED
    BY <2>1
<1>5. SamplesInRing'
  BY <1>1, <1>3, <1>4 DEF AudioInv, SamplesInRing, Samples
<1>6. WriteHasSamples'
  BY <1>1, <1>3 DEF WriteHasSamples, Samples
<1>7. ReadHasSamples' /\ PromiseKept' /\ AudioTypeOK'
  BY <1>1 DEF AudioInv, ReadHasSamples, PromiseKept, AudioTypeOK, Samples
<1>8. QED
  BY <1>3, <1>5, <1>6, <1>7 DEF AudioInv

LEMMA PublishInv ==
  ASSUME AudioInv, AddWrite, UNCHANGED audioVars
  PROVE  AudioInv'
<1> DEFINE u == Used \div 2
           k == wr.n \div 2
           l == Len(wr.data) \div 2
<1>1. /\ RingInv /\ spoken \in Nat /\ Oldest \in Nat /\ Newest \in Nat
      /\ u \in Nat /\ Used = 2 * u /\ k \in Nat /\ wr.n = 2 * k
      /\ Len(wr.data) \in Nat /\ wr.n <= Len(wr.data)
  BY AudioTypes
<1>2. /\ wr.at = "add" /\ rd' = rd
      /\ wr' = Calling("done", wr.data, wr.n)
      /\ spoken' = spoken /\ heard' = heard /\ promised' = promised
  BY DEF AddWrite, audioVars
<1>3. wr'.at = "done" /\ wr'.data = wr.data /\ wr'.n = wr.n
  BY <1>2, CallingIs
<1>4. /\ RingInv' /\ Used' = Used + wr.n
      /\ Contents' = [i \in 1 .. Used + wr.n |->
                       IF i <= Used THEN Contents[i] ELSE wr.data[i - Used]]
  BY <1>1, AddWriteInv
<1>5. /\ Len(wr.data) % 2 = 0 /\ wr.data = Samples(spoken, l) /\ wr.n % 2 = 0
      /\ Contents = Samples(Oldest, u)
      /\ Newest % SampleMod = (Oldest + u) % SampleMod
  BY <1>2 DEF AudioInv, WriteHasSamples, SamplesInRing
<1>6. Newest = spoken /\ Newest' = spoken + k /\ Oldest' = Oldest
  BY <1>1, <1>2, <1>3 DEF Newest, Oldest
<1>7. l \in Nat /\ k <= l
  <2>1. l \in Nat /\ Len(wr.data) = 2 * l
    BY <1>1, <1>5, Evens
  <2>2. 2 * k <= 2 * l
    BY <1>1, <2>1
  <2> HIDE DEF k, l
  <2>3. QED
    BY <1>1, <2>1, <2>2
<1> HIDE DEF u, k, l
<1>8. Used' = 2 * (u + k) /\ Used' \div 2 = u + k /\ Used' % 2 = 0
  <2>1. Used' = 2 * u + 2 * k /\ u \in Nat /\ k \in Nat
    BY <1>1, <1>4
  <2>2. \A x, y \in Nat : /\ 2 * x + 2 * y = 2 * (x + y)
                          /\ (2 * (x + y)) \div 2 = x + y /\ (2 * (x + y)) % 2 = 0
    OBVIOUS
  <2>3. QED
    BY <2>1, <2>2
<1>9. Contents' = Samples(Oldest, u + k)
  <2>1. /\ Samples(Oldest, u + k) = [i \in 1 .. 2 * u + 2 * k |-> Samples(Oldest, u + k)[i]]
        /\ \A i \in 1 .. 2 * u + 2 * k :
             Samples(Oldest, u + k)[i] =
               IF i <= 2 * u THEN Samples(Oldest, u)[i] ELSE Samples(spoken, k)[i - 2 * u]
    <3>1. Oldest \in Int /\ spoken \in Int /\ spoken % SampleMod = (Oldest + u) % SampleMod
      BY <1>1, <1>5, <1>6
    <3>2. QED
      <4>1. u \in Nat /\ k \in Nat /\ Oldest \in Int /\ spoken \in Int
        BY <1>1, <3>1
      <4>2. spoken % SampleMod = (Oldest + u) % SampleMod
        BY <3>1
      <4> HIDE DEF u, k
      <4>3. Follows(spoken, Oldest, u)
        BY <4>2 DEF Follows
      <4>4. Joined(Oldest, spoken, u, k)
        BY <4>1, <4>3, SamplesJoin
      <4>5. QED
        BY <4>4 DEF Joined
  <2>2. ASSUME NEW i \in 1 .. 2 * u + 2 * k, ~(i <= 2 * u)
        PROVE  Samples(spoken, k)[i - 2 * u] = wr.data[i - 2 * u]
    <3>1. i - 2 * u \in 1 .. 2 * k
      BY <1>1, <2>2
    <3>2. Samples(spoken, k) = [j \in 1 .. 2 * k |-> Samples(spoken, l)[j]]
      BY <1>1, <1>7, SamplesFront
    <3>3. QED
      BY <1>5, <3>1, <3>2
  <2>3. Contents' = [i \in 1 .. 2 * u + 2 * k |->
                       IF i <= 2 * u THEN Contents[i] ELSE wr.data[i - 2 * u]]
    BY <1>1, <1>4
  <2>4. QED
    BY <1>5, <2>1, <2>2, <2>3
<1>10. Newest' % SampleMod = (Oldest + (u + k)) % SampleMod
  <2>1. Oldest + u \in Int /\ spoken \in Int /\ k \in Int
    BY <1>1
  <2>2. (spoken + k) % SampleMod = ((Oldest + u) + k) % SampleMod
    BY <1>5, <1>6, <2>1, SampleAgrees
  <2>3. (Oldest + u) + k = Oldest + (u + k)
    BY <1>1
  <2>4. QED
    BY <1>6, <2>2, <2>3
<1>11. SamplesInRing'
  BY <1>6, <1>8, <1>9, <1>10 DEF SamplesInRing, Samples
<1>12. WriteHasSamples'
  BY <1>3, <1>5 DEF WriteHasSamples
<1>13. ReadHasSamples' /\ AudioTypeOK'
  BY <1>2 DEF AudioInv, ReadHasSamples, AudioTypeOK, Samples
<1>14. PromiseKept'
  <2>1. CASE promised > 0 /\ rd.at = "idle"
    <3>1. promised * FrameBytes <= Used /\ promised * FrameBytes \in Nat
      <4>1. promised \in Nat /\ FrameBytes \in Nat
        BY AudioAssumption, AudioTypes
      <4>2. promised * FrameBytes <= Used
        BY <2>1 DEF AudioInv, PromiseKept
      <4>3. QED
        BY <4>1, <4>2
    <3>2. promised * FrameBytes <= Used'
      BY <1>1, <1>4, <3>1
    <3>3. QED
      BY <1>2, <2>1, <3>2 DEF PromiseKept
  <2>2. CASE ~(promised > 0 /\ rd.at = "idle")
    BY <1>2, <2>2 DEF AudioInv, PromiseKept
  <2>3. QED
    BY <2>1, <2>2
<1>15. QED
  BY <1>4, <1>11, <1>12, <1>13, <1>14 DEF AudioInv

LEMMA WrittenInv ==
  ASSUME AudioInv, Written
  PROVE  AudioInv'
<1> DEFINE k == wr.n \div 2
<1>1. RingInv /\ spoken \in Nat /\ k \in Nat /\ Oldest \in Nat /\ Used \div 2 \in Nat
  BY AudioTypes
<1>2. /\ wr.at = "done" /\ wr' = Quiet /\ rd' = rd /\ UNCHANGED <<buffer, writePos, readPos>>
      /\ spoken' = (spoken + k) % SampleMod /\ heard' = heard /\ promised' = promised
      /\ WriteReturns
  BY DEF Written, WriteReturns
<1>3. RingInv' /\ Contents' = Contents
  BY <1>1, <1>2, LookInv
<1>4. wr'.at = "idle" /\ wr'.data = <<>> /\ wr'.n = 0
  BY <1>2, CallingIs DEF Quiet
<1>5. Used' = Used /\ Oldest' = Oldest
  BY <1>2 DEF Used, Oldest
<1>6. spoken' \in Nat /\ spoken' \in Int /\ Newest' = spoken' /\ Newest = spoken + k
  <2>1. spoken + k \in Int
    BY <1>1
  <2>2. spoken' \in Nat
    BY <1>2, <2>1, SampleModOK, RemainderTwice
  <2>3. QED
    BY <1>1, <1>2, <1>4, <2>2 DEF Newest
<1> HIDE DEF k
<1>7. Newest' % SampleMod = Newest % SampleMod
  <2>1. spoken + k \in Int
    BY <1>1
  <2>2. ((spoken + k) % SampleMod) % SampleMod = (spoken + k) % SampleMod
    BY <2>1, SampleModOK, RemainderTwice
  <2>3. QED
    BY <1>2, <1>6, <2>2
<1>8. SamplesInRing'
  BY <1>3, <1>5, <1>7 DEF AudioInv, SamplesInRing, Samples
<1>9. WriteHasSamples'
  <2>1. Len(<<>>) = 0 /\ 0 % 2 = 0 /\ 0 \div 2 = 0
    OBVIOUS
  <2>2. Samples(spoken', 0) = <<>>
    BY DEF Samples
  <2>3. QED
    BY <1>4, <2>1, <2>2 DEF WriteHasSamples, Samples
<1>10. ReadHasSamples' /\ PromiseKept' /\ AudioTypeOK'
  BY <1>2, <1>5, <1>6 DEF AudioInv, ReadHasSamples, PromiseKept, AudioTypeOK, Samples
<1>11. QED
  BY <1>3, <1>8, <1>9, <1>10 DEF AudioInv
\* ... and the reader's.
LEMMA PromiseIsWhole ==
  ASSUME AudioInv, promised > 0
  PROVE  promised * FrameBytes \in Nat \ {0} /\ (promised * FrameBytes) % 2 = 0
<1> DEFINE h == FrameBytes \div 2
<1>1. FrameBytes \in Nat \ {0} /\ FrameBytes % 2 = 0 /\ promised \in Nat \ {0}
  BY AudioAssumption, AudioTypes
<1>2. h \in Nat /\ FrameBytes = 2 * h
  BY <1>1, Evens
<1> HIDE DEF h
<1>3. h # 0
  BY <1>1, <1>2
<1>4. promised * h \in Nat /\ promised * FrameBytes = 2 * (promised * h)
  BY <1>1, <1>2
<1>5. promised * h # 0
  BY <1>1, <1>2, <1>3
<1>6. QED
  BY <1>4, <1>5

LEMMA AskInv ==
  ASSUME AudioInv, AskFrames
  PROVE  AudioInv'
<1>1. /\ RingInv /\ UNCHANGED ringVars /\ rd.at = "idle"
      /\ spoken' = spoken /\ heard' = heard /\ promised' = Used \div FrameBytes
  BY AudioTypes DEF AskFrames
<1>2. wr' = wr /\ rd' = rd /\ Used' = Used /\ Oldest' = Oldest /\ Newest' = Newest
  BY <1>1 DEF ringVars, Used, Oldest, Newest
<1>3. RingInv' /\ Contents' = Contents
  BY <1>1, RingStutterInv
<1>4. /\ promised' \in Nat /\ promised' * FrameBytes <= Used
  <2>1. Used \in Nat /\ FrameBytes \in Nat \ {0}
    BY AudioTypes, AudioAssumption
  <2> DEFINE q == Used \div FrameBytes
             r == Used % FrameBytes
  <2>2. q \in Int /\ r \in 0 .. FrameBytes - 1 /\ Used = FrameBytes * q + r
    BY <2>1, DivMod
  <2>3. q \in Nat
    BY <2>1
  <2> HIDE DEF q, r
  <2>4. FrameBytes * q \in Int /\ q * FrameBytes = FrameBytes * q
    BY <2>1, <2>2
  <2>5. q * FrameBytes <= Used
    BY <2>1, <2>2, <2>4
  <2>6. QED
    BY <1>1, <2>3, <2>5 DEF q
<1>5. SamplesInRing' /\ WriteHasSamples' /\ ReadHasSamples'
  BY <1>1, <1>2, <1>3
     DEF AudioInv, SamplesInRing, WriteHasSamples, ReadHasSamples, Samples
<1>6. AudioTypeOK' /\ PromiseKept'
  BY <1>1, <1>2, <1>4 DEF AudioInv, AudioTypeOK, PromiseKept
<1>7. QED
  BY <1>3, <1>5, <1>6 DEF AudioInv

LEMMA ReadInv ==
  ASSUME AudioInv, ReadS16 \/ EmptyView \/ (ClampRead /\ UNCHANGED audioVars)
  PROVE  AudioInv'
<1>1. /\ UNCHANGED <<spoken, heard, promised, wr, writePos, readPos>>
      /\ Used' = Used /\ Newest' = Newest
  BY DEF ReadS16, EmptyView, AcquireRead, CopyOut, ClampRead, audioVars, Used, Newest
<1>2. RingInv /\ heard \in Nat /\ promised \in Nat /\ Used \in Nat /\ Used % 2 = 0
  BY AudioTypes DEF AudioInv, SamplesInRing
<1>3. /\ RingInv' /\ Contents' = Contents
      /\ rd.at # "done" /\ rd'.at # "idle"
      /\ rd'.at = "done" => rd'.n = 0 /\ rd'.data = <<>>
      /\ rd'.n % 2 = 0
      /\ promised > 0 => rd'.n = promised * FrameBytes
  <2>1. CASE ReadS16
    <3>1. PICK bytes \in Nat : /\ AcquireRead(bytes, "copy") /\ bytes % 2 = 0
                               /\ promised > 0 => bytes = promised * FrameBytes /\ bytes <= Used
      <4>1. CASE promised > 0
        <5>1. AcquireRead(promised * FrameBytes, "copy") /\ rd.at = "idle"
          BY <2>1, <4>1 DEF ReadS16, AcquireRead
        <5>2. promised * FrameBytes \in Nat /\ (promised * FrameBytes) % 2 = 0
          BY <4>1, PromiseIsWhole
        <5>3. promised * FrameBytes <= Used
          BY <4>1, <5>1 DEF AudioInv, PromiseKept
        <5> HIDE DEF AcquireRead
        <5>4. QED
          BY <5>1, <5>2, <5>3
      <4>2. CASE ~(promised > 0)
        <5>1. PICK count \in Counts : AcquireRead(count * 2, "copy")
          BY <2>1, <4>2 DEF ReadS16
        <5>2. count * 2 \in Nat /\ (count * 2) % 2 = 0
          BY AudioAssumption
        <5>3. QED
          BY <4>2, <5>1, <5>2
      <4>3. QED
        BY <4>1, <4>2
    <3> DEFINE n == Least(bytes, Used)
    <3>2. RingInv' /\ Contents' = Contents
      BY <1>2, <3>1, ReaderLookInv
    <3>3. rd.at = "idle" /\ rd' = Calling(IF n = 0 THEN "done" ELSE "copy", <<>>, n)
      BY <3>1 DEF AcquireRead
    <3>4. /\ rd'.n = n /\ rd'.data = <<>> /\ rd'.at \in {"done", "copy"}
          /\ rd'.at = "done" => n = 0
      BY <3>3, CallingIs
    <3>5. n % 2 = 0
      BY <1>2, <3>1 DEF Least
    <3>6. promised > 0 => n = bytes
      BY <1>2, <3>1 DEF Least
    <3> HIDE DEF n
    <3>7. QED
      BY <3>1, <3>2, <3>3, <3>4, <3>5, <3>6
  <2>2. CASE EmptyView
    <3>1. PICK k \in 0 .. rd.n : (k = rd.n \/ (promised = 0 /\ k % 2 = 0)) /\ CopyOut(k)
      BY <2>2 DEF EmptyView
    <3>2. RingInv' /\ Contents' = Contents /\ rd'.data = [i \in 1 .. k |-> Contents[i]]
      BY <1>2, <3>1, CopyOutInv
    <3>3. /\ rd.at = "copy"
          /\ rd' = Calling(IF k = 0 THEN "done" ELSE "clamp",
                           [i \in 1 .. k |-> buffer[View(readPos, k)[i]]], k)
      BY <3>1 DEF CopyOut, AudioInv, ReadHasSamples
    <3>4. /\ rd'.n = k /\ rd'.at \in {"done", "clamp"}
          /\ rd'.at = "done" => k = 0
      BY <3>3, CallingIs
    <3>5. k = 0 => rd'.data = <<>>
      BY <3>2
    <3>6. k % 2 = 0 /\ (promised > 0 => k = rd.n)
      BY <1>2, <3>1 DEF AudioInv, ReadHasSamples
    <3>7. promised > 0 => rd.n = promised * FrameBytes
      BY <3>3 DEF AudioInv, PromiseKept
    <3>8. QED
      BY <3>2, <3>3, <3>4, <3>5, <3>6, <3>7
  <2>3. CASE ClampRead
    <3>1. RingInv' /\ Contents' = Contents
      BY <1>2, <2>3, ReaderLookInv
    <3>2. rd.at = "clamp" /\ rd' = Calling("add", rd.data, Least(rd.n, Used))
      BY <2>3 DEF ClampRead
    <3>3. rd'.at = "add" /\ rd'.n = Least(rd.n, Used)
      BY <3>2, CallingIs
    <3>4. rd.n \in 1 .. Used
      BY <1>2, <3>2 DEF RingInv, ReaderInStep
    <3>5. Least(rd.n, Used) = rd.n
      BY <1>2, <3>4 DEF Least
    <3>6. rd'.n = rd.n
      BY <3>3, <3>5
    <3>7. rd.n % 2 = 0 /\ (promised > 0 => rd.n = promised * FrameBytes)
      BY <3>2 DEF AudioInv, ReadHasSamples, PromiseKept
    <3>8. QED
      BY <3>1, <3>2, <3>3, <3>6, <3>7
  <2>4. QED
    BY <2>1, <2>2, <2>3
<1>4. rd'.at # "peek"
  BY DEF AudioInv, ReadHasSamples, ReadS16, EmptyView, AcquireRead, CopyOut, ClampRead, Calling
<1>5. Oldest' = Oldest
  <2>1. Oldest = heard /\ Oldest' = heard
    BY <1>1, <1>2, <1>3 DEF Oldest
  <2>2. QED
    BY <2>1
<1>6. SamplesInRing' /\ WriteHasSamples' /\ AudioTypeOK'
  BY <1>1, <1>3, <1>5
     DEF AudioInv, SamplesInRing, WriteHasSamples, AudioTypeOK, Samples
<1>7. ReadHasSamples'
  <2>1. Samples(heard', 0) = <<>> /\ 0 \div 2 = 0
    BY DEF Samples
  <2>2. QED
    BY <1>3, <1>4, <2>1 DEF ReadHasSamples, Samples
<1>8. PromiseKept'
  BY <1>1, <1>3 DEF PromiseKept
<1>9. QED
  BY <1>3, <1>6, <1>7, <1>8 DEF AudioInv

LEMMA GiveBackInv ==
  ASSUME AudioInv, AddRead, UNCHANGED audioVars
  PROVE  AudioInv'
<1> DEFINE u == Used \div 2
           r == rd.n \div 2
<1>1. /\ RingInv /\ heard \in Nat /\ Newest \in Nat
      /\ u \in Nat /\ Used = 2 * u /\ r \in Nat /\ rd.n = 2 * r
  BY AudioTypes
<1>2. /\ rd.at = "add" /\ wr' = wr /\ rd' = Calling("done", rd.data, rd.n)
      /\ spoken' = spoken /\ heard' = heard /\ promised' = promised
  BY DEF AddRead, audioVars
<1>3. rd'.at = "done" /\ rd'.data = rd.data /\ rd'.n = rd.n
  BY <1>2, CallingIs
<1>4. /\ RingInv' /\ rd.n \in 1 .. Used /\ Used' = Used - rd.n
      /\ Contents' = [i \in 1 .. Used - rd.n |-> Contents[rd.n + i]]
      /\ rd.data = [i \in 1 .. rd.n |-> Contents[i]]
  BY <1>1, AddReadInv
<1>5. /\ Contents = Samples(Oldest, u) /\ rd.n % 2 = 0
      /\ Newest % SampleMod = (Oldest + u) % SampleMod
  BY DEF AudioInv, SamplesInRing, ReadHasSamples
<1>6. Oldest = heard /\ Oldest' = heard + r /\ Newest' = Newest
  BY <1>1, <1>2, <1>3 DEF Oldest, Newest
<1> HIDE DEF u, r
<1>7. r <= u /\ u - r \in Nat /\ heard \in Int
  BY <1>1, <1>4
<1>8. Used' = 2 * (u - r) /\ Used' \div 2 = u - r /\ Used' % 2 = 0
  <2>1. Used' = 2 * (u - r)
    BY <1>1, <1>4
  <2>2. QED
    BY <1>7, <2>1
<1>9. Contents' = Samples(heard + r, u - r)
  <2>1. Samples(heard + r, u - r) = [i \in 1 .. 2 * u - 2 * r |-> Samples(heard, u)[2 * r + i]]
    BY <1>1, <1>7, SamplesRest
  <2>2. QED
    BY <1>1, <1>4, <1>5, <1>6, <2>1
<1>10. Newest % SampleMod = ((heard + r) + (u - r)) % SampleMod
  <2>1. (heard + r) + (u - r) = heard + u
    BY <1>1, <1>7
  <2>2. QED
    BY <1>5, <1>6, <2>1
<1>11. SamplesInRing'
  BY <1>6, <1>8, <1>9, <1>10 DEF SamplesInRing, Samples
<1>12. rd.data = Samples(heard, r)
  <2>1. Samples(heard, r) = [i \in 1 .. 2 * r |-> Samples(heard, u)[i]]
    BY <1>1, <1>7, SamplesFront
  <2>2. QED
    BY <1>1, <1>4, <1>5, <1>6, <2>1
<1>13. ReadHasSamples'
  BY <1>2, <1>3, <1>5, <1>12 DEF ReadHasSamples, Samples, r
<1>14. WriteHasSamples' /\ AudioTypeOK'
  BY <1>2 DEF AudioInv, WriteHasSamples, AudioTypeOK, Samples
<1>15. PromiseKept'
  BY <1>2, <1>3 DEF AudioInv, PromiseKept
<1>16. QED
  BY <1>4, <1>11, <1>13, <1>14, <1>15 DEF AudioInv

LEMMA HeardInv ==
  ASSUME AudioInv, Heard
  PROVE  AudioInv'
<1> DEFINE r == rd.n \div 2
           u == Used \div 2
<1>1. RingInv /\ spoken \in Nat /\ heard \in Nat /\ r \in Nat /\ u \in Nat
  BY AudioTypes
<1>2. /\ rd.at = "done" /\ rd' = Quiet /\ wr' = wr /\ UNCHANGED <<buffer, writePos, readPos>>
      /\ heard' = (heard + r) % SampleMod /\ spoken' = spoken /\ promised' = 0
      /\ ReadReturns
  BY DEF Heard, ReadReturns
<1>3. RingInv' /\ Contents' = Contents
  BY <1>1, <1>2, ReaderLookInv
<1>4. rd'.at = "idle" /\ rd'.data = <<>> /\ rd'.n = 0
  BY <1>2, CallingIs DEF Quiet
<1>5. Used' = Used /\ Newest' = Newest
  BY <1>2 DEF Used, Newest
<1>6. Oldest = heard + r /\ Oldest' = heard'
  BY <1>1, <1>2, <1>4, SampleModOK DEF Oldest
<1> HIDE DEF r
<1>7. heard' \in Nat /\ heard' \in Int /\ heard + r \in Int
      /\ heard' % SampleMod = (heard + r) % SampleMod
  <2>1. heard + r \in Int
    BY <1>1
  <2>2. ((heard + r) % SampleMod) % SampleMod = (heard + r) % SampleMod
        /\ (heard + r) % SampleMod \in Nat
    BY <2>1, SampleModOK, RemainderTwice
  <2>3. heard' \in Nat
    BY <1>2, <2>2
  <2>4. heard' % SampleMod = (heard + r) % SampleMod
    BY <1>2, <2>2
  <2>5. QED
    BY <2>1, <2>3, <2>4
<1>8. Samples(heard + r, u) = Samples(heard', u)
  BY <1>1, <1>7, SamplesAgree
<1>9. (heard + r + u) % SampleMod = (heard' + u) % SampleMod
  BY <1>1, <1>7, SampleAgrees
<1>10. SamplesInRing'
  <2>1. /\ Used % 2 = 0 /\ Contents = Samples(heard + r, u)
        /\ Newest % SampleMod = (heard + r + u) % SampleMod
    BY <1>6 DEF AudioInv, SamplesInRing
  <2>2. Oldest' = heard'
    BY <1>6
  <2>3. QED
    BY <1>3, <1>5, <1>8, <1>9, <2>1, <2>2 DEF SamplesInRing, Samples
<1>11. ReadHasSamples' /\ PromiseKept'
  <2>1. ~(0 > 0) /\ 0 % 2 = 0
    OBVIOUS
  <2>2. QED
    BY <1>2, <1>4, <2>1 DEF ReadHasSamples, PromiseKept
<1>12. WriteHasSamples' /\ AudioTypeOK'
  BY <1>1, <1>2, <1>7 DEF AudioInv, WriteHasSamples, AudioTypeOK, Samples
<1>13. QED
  BY <1>3, <1>10, <1>11, <1>12 DEF AudioInv

LEMMA AudioInitInv ==
  ASSUME RingInit, AudioInit
  PROVE  AudioInv
<1>1. /\ wr.at = "idle" /\ wr.data = <<>> /\ wr.n = 0
      /\ rd.at = "idle" /\ rd.data = <<>> /\ rd.n = 0
      /\ spoken = 0 /\ heard = 0 /\ promised = 0
  BY CallingIs DEF RingInit, AudioInit, Quiet
<1>2. RingInv /\ Contents = <<>> /\ Used = 0
  <2>1. RingInv /\ Contents = <<>>
    BY RingInitInv
  <2>2. Used \in 0 .. Cap /\ Contents = [i \in 1 .. Used |-> buffer[Cell(readPos + i - 1)]]
        /\ Cap \in Nat
    BY <2>1, InCells, Widths DEF RingInv
  <2>3. DOMAIN Contents = 1 .. Used /\ DOMAIN <<>> = {}
    BY <2>2
  <2>4. 1 .. Used = {}
    BY <2>1, <2>3
  <2>5. Used = 0
    BY <2>2, <2>4
  <2>6. QED
    BY <2>1, <2>5
<1>3. Samples(0, 0) = <<>> /\ 0 \div 2 = 0 /\ 0 % 2 = 0 /\ Len(<<>>) = 0
  BY DEF Samples
<1>4. Oldest = 0 /\ Newest = 0
  BY <1>1, <1>3 DEF Oldest, Newest
<1>5. SamplesInRing
  <2>1. 0 + 0 = 0
    OBVIOUS
  <2>2. QED
    BY <1>2, <1>3, <1>4, <2>1 DEF SamplesInRing
<1>6. QED
  BY <1>1, <1>2, <1>3, <1>5
     DEF AudioInv, AudioTypeOK, WriteHasSamples, ReadHasSamples, PromiseKept

LEMMA AudioStepInv ==
  ASSUME AudioInv, [AudioNext]_<<ringVars, audioVars>>
  PROVE  AudioInv'
<1>1. CASE WriteS16 \/ FillView
  BY <1>1, WriteInv
<1>2. CASE Written
  BY <1>2, WrittenInv
<1>3. CASE AskFrames
  BY <1>3, AskInv
<1>4. CASE ReadS16 \/ EmptyView
  BY <1>4, ReadInv
<1>5. CASE Heard
  BY <1>5, HeardInv
<1>6. CASE RingStep /\ UNCHANGED audioVars
  BY <1>6, WriteInv, PublishInv, ReadInv, GiveBackInv DEF RingStep
<1>7. CASE UNCHANGED <<ringVars, audioVars>>
  <2>1. RingInv' /\ Contents' = Contents
    BY <1>7, RingStutterInv DEF AudioInv
  <2>2. /\ wr' = wr /\ rd' = rd /\ writePos' = writePos /\ readPos' = readPos
        /\ spoken' = spoken /\ heard' = heard /\ promised' = promised
    BY <1>7 DEF ringVars, audioVars
  <2>3. Used' = Used /\ Oldest' = Oldest /\ Newest' = Newest
    BY <2>2 DEF Used, Oldest, Newest
  <2>4. SamplesInRing' /\ WriteHasSamples' /\ ReadHasSamples'
    BY <2>1, <2>2, <2>3
       DEF AudioInv, SamplesInRing, WriteHasSamples, ReadHasSamples, Samples
  <2>5. AudioTypeOK' /\ PromiseKept'
    BY <2>2, <2>3 DEF AudioInv, AudioTypeOK, PromiseKept
  <2>6. QED
    BY <2>1, <2>4, <2>5 DEF AudioInv
<1>8. QED
  BY <1>1, <1>2, <1>3, <1>4, <1>5, <1>6, <1>7 DEF AudioNext

LEMMA AudioInvInOrder ==
  ASSUME AudioInv
  PROVE  AudioInOrder
<1> SUFFICES ASSUME rd.at = "done"
             PROVE  /\ rd.n % 2 = 0
                    /\ SubSeq(rd.data, 1, rd.n) = Samples(heard, rd.n \div 2)
                    /\ promised > 0 => rd.n = promised * FrameBytes
  BY DEF AudioInOrder
<1> DEFINE r == rd.n \div 2
<1>1. rd.n % 2 = 0 /\ rd.data = Samples(heard, r) /\ r \in Nat /\ rd.n = 2 * r
  BY AudioTypes DEF AudioInv, ReadHasSamples
<1>2. promised > 0 => rd.n = promised * FrameBytes
  BY DEF AudioInv, PromiseKept
<1> HIDE DEF r
<1>3. SubSeq(rd.data, 1, rd.n) = rd.data
  <2> DEFINE s == Samples(heard, r)
  <2>1. s \in Seq({s[i] : i \in DOMAIN s}) /\ Len(s) = 2 * r
    BY <1>1, SamplesLength DEF IsSequence
  <2> HIDE DEF s
  <2>2. SubSeq(s, 1, Len(s)) = s
    BY <2>1
  <2>3. QED
    BY <1>1, <2>1, <2>2 DEF s
<1>4. QED
  BY <1>1, <1>2, <1>3 DEF r

-----------------------------------------------------------------------------
(* The video decoder.                                                      *)

VideoSpec == RingInit /\ VideoInit /\ [][VideoNext]_<<ringVars, videoVars>>

-----------------------------------------------------------------------------
(* The frames that are held are the last two slots before the current one. *)

HeldBehind ==
  /\ slot \in Slots
  /\ frames = [s \in Slots |-> frames[s]]
  /\ IsSequence(held) /\ Len(held) <= 2
  /\ Len(held) >= 1 => held[1].slot = (slot + 2) % 3
  /\ Len(held) = 2 => held[2].slot = (slot + 1) % 3
  /\ FramesStay

LEMMA HeldSlots ==
  ASSUME HeldBehind, NEW i \in 1 .. Len(held)
  PROVE  /\ held[i].slot \in Slots /\ held[i].slot # slot
         /\ i = 1 \/ (i = 2 /\ Len(held) = 2)
<1>1. /\ slot \in 0 .. 2 /\ Len(held) \in Nat /\ Len(held) <= 2
      /\ Len(held) >= 1 => held[1].slot = (slot + 2) % 3
      /\ Len(held) = 2 => held[2].slot = (slot + 1) % 3
  BY DEF HeldBehind, Slots, IsSequence
<1>2. i = 1 \/ (i = 2 /\ Len(held) = 2)
  <2>1. Len(held) \in Nat /\ Len(held) <= 2
    BY <1>1
  <2>2. \A n \in Nat : n <= 2 => \A k \in 1 .. n : k = 1 \/ (k = 2 /\ n = 2)
    OBVIOUS
  <2>3. QED
    BY <2>1, <2>2
<1>3. /\ (slot + 2) % 3 \in 0 .. 2 /\ (slot + 2) % 3 # slot
      /\ (slot + 1) % 3 \in 0 .. 2 /\ (slot + 1) % 3 # slot
  BY <1>1
<1>4. Len(held) >= 1
  BY <1>1
<1>5. QED
  BY <1>1, <1>2, <1>3, <1>4 DEF Slots

\* the frame under way is written to a slot nobody holds
LEMMA WriteSlot ==
  ASSUME HeldBehind, NEW content, frames' = [frames EXCEPT ![slot] = content],
         UNCHANGED <<slot, held>>
  PROVE  HeldBehind'
<1>1. \A i \in 1 .. Len(held) : frames'[held[i].slot] = frames[held[i].slot]
  <2>1. frames = [s \in Slots |-> frames[s]]
    BY DEF HeldBehind
  <2>2. QED
    BY <2>1, HeldSlots
<1>2. FramesStay'
  BY <1>1 DEF HeldBehind, FramesStay
<1>3. QED
  BY <1>2 DEF HeldBehind, IsSequence

TwoNewest(e, h) == SubSeq(<<e>> \o h, 1, Least(2, Len(h) + 1))

LEMMA TwoNewestAre ==
  ASSUME NEW S, NEW h \in Seq(S), NEW e \in S
  PROVE  /\ TwoNewest(e, h) \in Seq(S)
         /\ Len(TwoNewest(e, h)) \in Nat
         /\ Len(TwoNewest(e, h)) = Least(2, Len(h) + 1)
         /\ TwoNewest(e, h)[1] = e
         /\ Len(TwoNewest(e, h)) = 2 => Len(h) >= 1 /\ TwoNewest(e, h)[2] = h[1]
<1> DEFINE c == <<e>> \o h
           n == Least(2, Len(h) + 1)
<1>1. /\ c \in Seq(S) /\ Len(c) = Len(h) + 1 /\ Len(h) \in Nat
      /\ c[1] = e /\ (Len(h) >= 1 => c[2] = h[1])
  OBVIOUS
<1>2. n \in 1 .. Len(c) /\ n <= 2 /\ (n = 2 => Len(h) >= 1)
  BY <1>1 DEF Least
<1> HIDE DEF c, n
<1> DEFINE g == SubSeq(c, 1, n)
<1>3. g \in Seq(S) /\ Len(g) = n /\ \A i \in 1 .. n : g[i] = c[i]
  BY <1>1, <1>2
<1> HIDE DEF g
<1>4. n \in Nat /\ 1 \in 1 .. n /\ (n = 2 => 2 \in 1 .. n)
  BY <1>1, <1>2
<1>5. /\ g \in Seq(S) /\ Len(g) \in Nat /\ Len(g) = n
      /\ g[1] = e
      /\ Len(g) = 2 => Len(h) >= 1 /\ g[2] = h[1]
  BY <1>1, <1>2, <1>3, <1>4
<1>6. QED
  BY <1>5 DEF TwoNewest, c, n, g

\* a frame is delivered with what the slot then holds
LEMMA DeliverSlot ==
  ASSUME HeldBehind, NEW content, Deliver(content),
         \/ frames' = [frames EXCEPT ![slot] = content]
         \/ frames' = frames /\ content = frames[slot]
  PROVE  HeldBehind'
<1> DEFINE e == [slot |-> slot, content |-> content]
           S == {held[i] : i \in DOMAIN held} \cup {e}
<1>1. /\ slot \in 0 .. 2 /\ held \in Seq(S) /\ Len(held) \in Nat /\ Len(held) <= 2
      /\ Len(held) >= 1 => held[1].slot = (slot + 2) % 3
  <2>1. held \in Seq({held[i] : i \in DOMAIN held}) /\ {held[i] : i \in DOMAIN held} \subseteq S
    BY DEF HeldBehind, IsSequence
  <2> HIDE DEF S
  <2>2. held \in Seq(S)
    BY <2>1
  <2>3. QED
    BY <2>2 DEF HeldBehind, Slots
<1>2. e \in S /\ e.slot = slot /\ e.content = content
  OBVIOUS
<1>3. /\ held' = TwoNewest(e, held)
      /\ slot' = (slot + 1) % 3
  BY DEF Deliver, TwoNewest
<1> HIDE DEF e, S
<1>4. /\ held' \in Seq(S) /\ Len(held') \in Nat /\ Len(held') = Least(2, Len(held) + 1)
      /\ held'[1] = e
      /\ Len(held') = 2 => Len(held) >= 1 /\ held'[2] = held[1]
  <2>1. held \in Seq(S) /\ e \in S
    BY <1>1, <1>2
  <2> DEFINE h == TwoNewest(e, held)
  <2>2. /\ h \in Seq(S) /\ Len(h) \in Nat /\ Len(h) = Least(2, Len(held) + 1)
        /\ h[1] = e
        /\ Len(h) = 2 => Len(held) >= 1 /\ h[2] = held[1]
    BY <2>1, TwoNewestAre
  <2>3. held' = h
    BY <1>3
  <2> HIDE DEF h
  <2>4. QED
    BY <2>2, <2>3
<1>5. Len(held') \in {1, 2}
  BY <1>1, <1>4 DEF Least
<1>6. slot' \in 0 .. 2 /\ (slot' + 2) % 3 = slot /\ (slot' + 1) % 3 = (slot + 2) % 3
  BY <1>1, <1>3
<1>7. frames' = [s \in Slots |-> frames'[s]]
  BY DEF HeldBehind
<1>8. IsSequence(held')
  BY <1>4 DEF IsSequence
<1>9. /\ frames'[slot] = content
      /\ \A s \in Slots : s # slot => frames'[s] = frames[s]
  BY <1>1 DEF HeldBehind, Slots
<1>10. FramesStay'
  <2> SUFFICES ASSUME NEW i \in 1 .. Len(held')
               PROVE  frames'[held'[i].slot] = held'[i].content
    BY DEF FramesStay
  <2>1. CASE i = 1
    BY <1>2, <1>4, <1>9, <2>1
  <2>2. CASE i = 2 /\ Len(held') = 2
    <3>0. Len(held) \in Nat /\ Len(held) >= 1 /\ held'[2] = held[1]
      BY <1>1, <1>4, <2>2
    <3>1. 1 \in 1 .. Len(held) /\ held'[2] = held[1]
      BY <3>0
    <3>2. /\ held[1].slot \in Slots /\ held[1].slot # slot
          /\ frames[held[1].slot] = held[1].content
      BY <3>1, HeldSlots DEF HeldBehind, FramesStay
    <3>3. QED
      BY <1>9, <2>2, <3>1, <3>2
  <2>3. QED
    BY <1>5, <2>1, <2>2
<1>11. /\ Len(held') <= 2
       /\ Len(held') >= 1 => held'[1].slot = (slot' + 2) % 3
       /\ Len(held') = 2 => held'[2].slot = (slot' + 1) % 3
  BY <1>1, <1>2, <1>4, <1>5, <1>6
<1>12. QED
  BY <1>6, <1>7, <1>8, <1>10, <1>11 DEF HeldBehind, Slots

LEMMA HeldStep ==
  ASSUME HeldBehind, [VideoNext]_<<ringVars, videoVars>>
  PROVE  HeldBehind'
<1>1. CASE UNCHANGED <<slot, frames, held>>
  BY <1>1 DEF HeldBehind, FramesStay, IsSequence
<1>2. CASE \E n \in FrameSizes \cup {0} : Open(n)
  <2>1. slot' = 0 /\ frames' = [s \in Slots |-> Blank] /\ held' = <<>>
    BY <1>2 DEF Open
  <2>2. IsSequence(<<>>) /\ Len(<<>>) = 0 /\ 0 \in Slots
    BY DEF IsSequence, Slots
  <2>3. QED
    BY <2>1, <2>2 DEF HeldBehind, FramesStay, IsSequence
<1>3. CASE DecodePattern
  <2>1. PICK content : frames' = [frames EXCEPT ![slot] = content] /\ Deliver(content)
    BY <1>3 DEF DecodePattern
  <2>2. QED
    BY <2>1, DeliverSlot
<1>4. CASE FrameRead
  BY <1>4, WriteSlot DEF FrameRead
<1>5. CASE DecodeReturn
  BY <1>1, <1>5, DeliverSlot DEF DecodeReturn, framesVars
<1>6. QED
  BY <1>1, <1>2, <1>3, <1>4, <1>5
     DEF VideoNext, videoVars, framesVars, PushPacket, PushWrite, PushCopies, PushWritten,
         DecodePacket, DecodeReads, DecodeCopies, Peeked, SizeTested, HeaderRead, Drained,
         SameVideo

\* For all sizes of frames and packets, and whatever the ring gives back, a frame that
\* was delivered keeps its picture until two more have been.
THEOREM VideoFramesStay == VideoSpec => []FramesStay
<1>1. VideoInit => HeldBehind
  <2>1. IsSequence(<<>>) /\ Len(<<>>) = 0 /\ 0 \in Slots
    BY DEF IsSequence, Slots
  <2>2. QED
    BY <2>1 DEF VideoInit, HeldBehind, FramesStay, IsSequence
<1>2. HeldBehind /\ [VideoNext]_<<ringVars, videoVars>> => HeldBehind'
  BY HeldStep
<1>3. HeldBehind => FramesStay
  BY DEF HeldBehind
<1>4. QED
  BY <1>1, <1>2, <1>3, PTL DEF VideoSpec

-----------------------------------------------------------------------------
(* The layout of the packets in the ring. *)

LEMMA VideoTypes ==
  ASSUME VideoInv
  PROVE  /\ RingInv
         /\ need \in Nat /\ nextPts \in Nat /\ slot \in Slots
         /\ queued \in Seq([pts : Nat, len : Nat]) /\ Len(queued) \in Nat
         /\ push.at \in {"idle", "header", "payload"} /\ push.pts \in Nat /\ push.len \in Nat
         /\ dec.at \in {"idle", "peek", "size", "header", "frame", "drain"}
         /\ dec.pts \in Nat /\ dec.len \in Nat /\ dec.left \in Nat /\ dec.whole \in BOOLEAN
         /\ Used \in Nat /\ Free \in Nat /\ Free = Cap - Used /\ Cap \in Nat
         /\ wr.n \in Nat /\ rd.n \in Nat /\ Len(wr.data) \in Nat
         /\ Consumed \in Int /\ Missing \in Nat
<1>1. RingInv /\ VideoTypeOK
  BY DEF VideoInv
<1>2. /\ need \in Nat /\ nextPts \in Nat /\ slot \in Slots
      /\ queued \in Seq([pts : Nat, len : Nat]) /\ Len(queued) \in Nat
  BY <1>1 DEF VideoTypeOK
<1>3. /\ push.at \in {"idle", "header", "payload"} /\ push.pts \in Nat /\ push.len \in Nat
      /\ dec.at \in {"idle", "peek", "size", "header", "frame", "drain"}
      /\ dec.pts \in Nat /\ dec.len \in Nat /\ dec.left \in Nat /\ dec.whole \in BOOLEAN
  BY <1>1 DEF VideoTypeOK
<1>4. Used \in 0 .. Cap /\ Free = Cap - Used /\ Free \in 0 .. Cap /\ Cap \in Nat
  BY <1>1, InCells, Widths DEF RingInv
<1>5. Len(wr.data) \in Nat /\ wr.n \in 0 .. Len(wr.data) /\ rd.n \in 0 .. Cap
  BY <1>1 DEF RingInv, RingTypeOK, IsSequence
<1>6. wr.n \in Nat /\ rd.n \in Nat /\ Used \in Nat /\ Free \in Nat
  BY <1>4, <1>5
<1>7. Consumed \in Int /\ Missing \in Nat
  BY <1>3, <1>6 DEF Consumed, Missing, Header
<1>8. QED
  BY <1>1, <1>2, <1>3, <1>4, <1>5, <1>6, <1>7

\* the packets, one by one
LEMMA PacketTypes ==
  ASSUME VideoInv, NEW i \in 1 .. Len(queued)
  PROVE  queued[i].len \in Nat /\ queued[i].pts \in Nat /\ i \in Nat /\ i + 1 \in 1 .. Len(queued) + 1
<1>1. queued \in Seq([pts : Nat, len : Nat]) /\ Len(queued) \in Nat
  BY VideoTypes
<1>2. queued[i] \in [pts : Nat, len : Nat]
  <2>1. \A S : \A s \in Seq(S) : \A k \in 1 .. Len(s) : s[k] \in S
    OBVIOUS
  <2>2. QED
    BY <1>1, <2>1
<1>3. i \in Nat /\ i + 1 \in 1 .. Len(queued) + 1
  BY <1>1
<1>4. QED
  BY <1>2, <1>3

\* the cells of the first packet, as far as it was not taken out
LEMMA FirstPacket ==
  ASSUME VideoInv, queued # <<>>, NEW j \in 1 .. Header + Head(queued).len,
         NEW c \in 1 .. Used, c = j - Consumed
  PROVE  Contents[c] = PacketCell(Head(queued), j)
<1>1. PICK start \in [1 .. Len(queued) + 1 -> Int] : LaidOut(start)
  BY DEF VideoInv, Layout
<1>2. 1 \in 1 .. Len(queued) /\ Head(queued) = queued[1]
  BY VideoTypes
<1>3. start[1] = 0 - Consumed /\ Consumed \in Int
  BY <1>1, VideoTypes DEF LaidOut
<1>4. start[1] + j = c
  <2>1. j \in Int
    BY <1>2, PacketTypes DEF Header
  <2>2. QED
    BY <1>3, <2>1
<1>5. QED
  BY <1>1, <1>2, <1>4 DEF LaidOut

\* what is in the ring belongs to a packet
LEMMA SomePacket ==
  ASSUME VideoInv, Used > 0, Consumed = 0
  PROVE  queued # <<>>
<1>1. PICK start \in [1 .. Len(queued) + 1 -> Int] : LaidOut(start)
  BY DEF VideoInv, Layout
<1>2. Used \in Nat /\ Missing \in Nat
  BY VideoTypes
<1>3. SUFFICES ASSUME queued = <<>> PROVE FALSE
  OBVIOUS
<1>4. Len(queued) + 1 = 1
  BY <1>3
<1>5. start[1] = 0 /\ start[1] = Used + Missing
  BY <1>1, <1>4 DEF LaidOut
<1>6. QED
  BY <1>2, <1>5

LEMMA LayoutSame ==
  ASSUME Layout, UNCHANGED <<Contents, Used, queued>>, Consumed' = Consumed, Missing' = Missing
  PROVE  Layout'
<1>1. PICK start \in [1 .. Len(queued) + 1 -> Int] : LaidOut(start)
  BY DEF Layout
<1>2. LaidOut(start)'
  BY <1>1 DEF LaidOut, PacketCell, Header
<1>3. QED
  BY <1>1, <1>2 DEF Layout

\* a packet that is accepted comes after all the others
LEMMA LayoutPushed ==
  ASSUME VideoInv, NEW p \in [pts : Nat, len : Nat], queued' = Append(queued, p),
         Missing = 0, Missing' = Header + p.len, Consumed' = Consumed,
         Contents' = Contents, Used' = Used
  PROVE  Layout'
<1> DEFINE m == Len(queued)
<1>1. PICK start \in [1 .. m + 1 -> Int] : LaidOut(start)
  BY DEF VideoInv, Layout
<1>2. /\ queued' \in Seq([pts : Nat, len : Nat]) /\ m \in Nat /\ Used \in Nat
      /\ Len(queued') = m + 1 /\ queued'[m + 1] = p
      /\ \A i \in 1 .. m : queued'[i] = queued[i]
  BY VideoTypes
<1>3. p.len \in Nat
  OBVIOUS
<1> HIDE DEF m
<1>4. PICK after \in [1 .. m + 2 -> Int] :
        /\ after[m + 2] = Used + Header + p.len
        /\ \A i \in 1 .. m + 1 : after[i] = start[i]
  <2> DEFINE made == [i \in 1 .. m + 2 |-> IF i = m + 2 THEN Used + Header + p.len ELSE start[i]]
  <2>1. made \in [1 .. m + 2 -> Int]
    BY <1>2, <1>3 DEF Header
  <2>2. /\ made[m + 2] = Used + Header + p.len
        /\ \A i \in 1 .. m + 1 : made[i] = start[i]
    BY <1>2
  <2>3. QED
    BY <2>1, <2>2
<1>5. /\ after[m + 2] = Used + Header + p.len
      /\ \A i \in 1 .. m + 1 : after[i] = start[i]
  BY <1>4
<1>6. start[m + 1] = Used
  BY <1>1, <1>2 DEF LaidOut, m
<1>7. after[1] = 0 - Consumed'
  BY <1>1, <1>2, <1>5 DEF LaidOut
<1>8. after[Len(queued') + 1] = Used' + Missing'
  <2>1. Len(queued') + 1 = m + 2
    BY <1>2
  <2>2. Used + (2 + p.len) = Used + 2 + p.len
    BY <1>2, <1>3
  <2>3. QED
    BY <1>5, <2>1, <2>2 DEF Header
<1>9. ASSUME NEW i \in 1 .. m + 1
      PROVE  /\ after[i] <= Used'
             /\ after[i + 1] = after[i] + Header + queued'[i].len
             /\ \A j \in 1 .. Header + queued'[i].len :
                  after[i] + j \in 1 .. Used' => Contents'[after[i] + j] = PacketCell(queued'[i], j)
  <2>1. CASE i = m + 1
    <3>1. after[i] = Used /\ after[i + 1] = Used + Header + p.len /\ queued'[i] = p
      BY <1>2, <1>5, <1>6, <2>1
    <3>2. \A j \in 1 .. Header + p.len : ~(Used + j \in 1 .. Used)
      <4>1. \A u \in Nat : \A l \in Nat : \A j \in 1 .. 2 + l : ~(u + j \in 1 .. u)
        OBVIOUS
      <4>2. Used \in Nat
        BY <1>2
      <4>3. QED
        BY <1>3, <4>1, <4>2 DEF Header
    <3>3. after[i] <= Used' /\ after[i + 1] = after[i] + Header + queued'[i].len
      BY <1>2, <1>3, <3>1
    <3>4. QED
      BY <3>1, <3>2, <3>3
  <2>2. CASE i \in 1 .. m
    <3>1. i + 1 \in 1 .. m + 1 /\ i \in 1 .. m + 1 /\ queued'[i] = queued[i]
      <4>1. m \in Nat
        BY <1>2
      <4>2. i + 1 \in 1 .. m + 1 /\ i \in 1 .. m + 1
        BY <2>2, <4>1
      <4>3. queued'[i] = queued[i]
        BY <1>2, <2>2
      <4>4. QED
        BY <4>2, <4>3
    <3>2. after[i] = start[i] /\ after[i + 1] = start[i + 1]
      BY <1>5, <3>1
    <3>3. /\ start[i] <= Used
          /\ start[i + 1] = start[i] + Header + queued[i].len
          /\ \A j \in 1 .. Header + queued[i].len :
               start[i] + j \in 1 .. Used => Contents[start[i] + j] = PacketCell(queued[i], j)
      BY <1>1, <2>2 DEF LaidOut, m
    <3>4. QED
      BY <3>1, <3>2, <3>3
  <2>3. i = m + 1 \/ i \in 1 .. m
    <3>1. m \in Nat
      BY <1>2
    <3>2. QED
      BY <3>1
  <2>4. QED
    BY <2>1, <2>2, <2>3
<1>10. LaidOut(after)'
  BY <1>2, <1>7, <1>8, <1>9 DEF LaidOut, Header, PacketCell
<1>11. (m + 1) + 1 = m + 2
  BY <1>2
<1>12. QED
  BY <1>2, <1>4, <1>10, <1>11 DEF Layout

\* the bytes published are those of the last packet that were missing
LEMMA LastCells ==
  ASSUME VideoInv, AddWrite, UNCHANGED videoVars
  PROVE  /\ queued # <<>> /\ queued[Len(queued)] = Packet(push)
         /\ wr.n <= Missing /\ Missing' = Missing - wr.n
         /\ \A k \in 1 .. wr.n :
              wr.data[k] = PacketCell(Packet(push), Header + push.len - Missing + k)
<1>1. /\ push.at \in {"idle", "header", "payload"} /\ push.len \in Nat
      /\ wr.n \in Nat /\ Missing \in Nat
  BY VideoTypes
<1>2. /\ wr.at = "add" /\ wr'.at = "done" /\ push' = push
      /\ wr.n \in 1 .. Len(wr.data)
  BY AddWriteInv, CallingIs DEF VideoInv, AddWrite, videoVars
<1>3. Packet(push).pts = push.pts /\ Packet(push).len = push.len
  BY DEF Packet
<1>4. CASE push.at = "header" /\ wr.data = HeaderCells(push) /\ wr.n = Header
  <2>1. Missing = push.len + 2 /\ Missing' = push.len /\ wr.n = 2
    <3>1. Missing = push.len + 2 /\ wr.n = 2
      BY <1>1, <1>2, <1>4 DEF Missing, Header
    <3>2. Missing' = push.len
      BY <1>2, <1>4 DEF Missing
    <3>3. QED
      BY <3>1, <3>2
  <2>2. wr.data[1] = <<"pts", push.pts>> /\ wr.data[2] = <<"len", push.len>>
    BY <1>4 DEF HeaderCells
  <2>3. \A k \in 1 .. 2 : wr.data[k] = PacketCell(Packet(push), k)
    BY <1>3, <2>2 DEF PacketCell
  <2>4. \A k \in 1 .. 2 : Header + push.len - Missing + k = k
    BY <1>1, <2>1 DEF Header
  <2>5. \A k \in 1 .. 2 : wr.data[k] = PacketCell(Packet(push), Header + push.len - Missing + k)
    BY <2>3, <2>4
  <2>6. wr.n <= Missing /\ Missing' = Missing - wr.n /\ Missing > 0
    BY <1>1, <2>1
  <2>7. QED
    BY <2>1, <2>5, <2>6 DEF VideoInv, PushInStep
<1>5. CASE push.at = "payload" /\ wr.data = Data(push, push.len) /\ wr.n = push.len
  <2>1. Missing = push.len /\ Missing' = 0
    BY <1>2, <1>5 DEF Missing
  <2>2. \A k \in 1 .. push.len :
          /\ Header + push.len - Missing + k = k + 2
          /\ k + 2 # 1 /\ k + 2 # 2 /\ (k + 2) - Header = k
    BY <1>1, <2>1 DEF Header
  <2>3. \A k \in 1 .. push.len : wr.data[k] = <<"data", push.pts, k>>
    BY <1>5 DEF Data
  <2>4. \A k \in 1 .. push.len :
          wr.data[k] = PacketCell(Packet(push), Header + push.len - Missing + k)
    BY <1>3, <2>2, <2>3 DEF PacketCell
  <2>5. wr.n <= Missing /\ Missing' = Missing - wr.n /\ Missing > 0
    BY <1>1, <1>2, <1>5, <2>1
  <2>6. QED
    BY <1>5, <2>4, <2>5 DEF VideoInv, PushInStep
<1>6. QED
  BY <1>2, <1>4, <1>5 DEF VideoInv, PushInStep

LEMMA LayoutWritten ==
  ASSUME VideoInv, AddWrite, UNCHANGED videoVars
  PROVE  Layout'
<1> DEFINE m == Len(queued)
           n == wr.n
           U == Used
           M == Missing
           l == push.len
<1>1. PICK start \in [1 .. m + 1 -> Int] : LaidOut(start)
  BY DEF VideoInv, Layout
<1>2. m \in Nat /\ U \in Nat /\ n \in Nat /\ M \in Nat /\ l \in Nat /\ RingInv
  BY VideoTypes
<1>3. /\ Used' = U + n
      /\ Contents' = [i \in 1 .. U + n |-> IF i <= U THEN Contents[i] ELSE wr.data[i - U]]
  BY <1>2, AddWriteInv
<1>4. /\ queued # <<>> /\ queued[m] = Packet(push)
      /\ n <= M /\ Missing' = M - n
      /\ \A k \in 1 .. n : wr.data[k] = PacketCell(queued[m], Header + l - M + k)
  BY LastCells
<1>5. m >= 1 /\ queued[m].len = l
  <2>1. m # 0
    BY <1>4, VideoTypes
  <2>2. QED
    BY <1>2, <1>4, <2>1 DEF Packet
<1>6. queued' = queued /\ Consumed' = Consumed
  BY DEF videoVars, AddWrite, Consumed
<1>7. /\ start[1] = 0 - Consumed /\ start[m + 1] = U + M
      /\ start[m + 1] = start[m] + Header + l
  BY <1>1, <1>2, <1>5 DEF LaidOut
<1>8. ASSUME NEW i \in 1 .. m
      PROVE  /\ start[i] \in Int /\ start[i] <= U
             /\ start[i + 1] = start[i] + Header + queued[i].len
             /\ i # m => start[i + 1] <= U
             /\ queued[i].len \in Nat
             /\ \A j \in 1 .. Header + queued[i].len :
                  start[i] + j \in 1 .. U => Contents[start[i] + j] = PacketCell(queued[i], j)
  <2>1. i \in 1 .. m + 1 /\ i + 1 \in 1 .. m + 1 /\ (i # m => i + 1 \in 1 .. m)
    BY <1>2
  <2>2. queued[i].len \in Nat
    BY PacketTypes
  <2>3. QED
    BY <1>1, <2>1, <2>2 DEF LaidOut
<1> HIDE DEF m, n, U, M, l
<1>9. ASSUME NEW i \in 1 .. m, NEW j \in 1 .. Header + queued[i].len,
             start[i] + j \in 1 .. U + n
      PROVE  Contents'[start[i] + j] = PacketCell(queued[i], j)
  <2>1. /\ start[i] \in Int /\ queued[i].len \in Nat /\ j \in Int /\ j >= 1
        /\ j <= Header + queued[i].len /\ start[i] + j \in Int
    BY <1>8 DEF Header
  <2>2. CASE start[i] + j <= U
    <3>1. start[i] + j \in 1 .. U
      BY <1>2, <1>9, <2>1, <2>2
    <3>2. Contents[start[i] + j] = PacketCell(queued[i], j)
      BY <1>8, <1>9, <3>1
    <3>3. Contents'[start[i] + j] = Contents[start[i] + j]
      <4>1. /\ Contents' = [x \in 1 .. U + n |-> IF x <= U THEN Contents[x] ELSE wr.data[x - U]]
            /\ start[i] + j \in 1 .. U + n
        BY <1>3, <1>9
      <4>2. QED
        BY <2>2, <4>1
    <3>4. QED
      BY <3>2, <3>3
  <2>3. CASE ~(start[i] + j <= U)
    <3>1. i = m
      <4>1. start[i + 1] = start[i] + Header + queued[i].len /\ (i # m => start[i + 1] <= U)
        BY <1>8
      <4>2. \A a, b, c \in Int : b <= Header + c => a + b <= a + Header + c
        BY DEF Header
      <4>3. start[i] + j <= start[i + 1]
        BY <2>1, <4>1, <4>2
      <4>4. ASSUME start[i + 1] <= U
            PROVE  start[i] + j <= U
        <5>1. start[i] + j \in Int /\ start[i + 1] \in Int /\ U \in Int
          BY <1>2, <2>1, <4>1 DEF Header
        <5>2. QED
          BY <4>3, <4>4, <5>1
      <4>5. QED
        BY <2>3, <4>1, <4>4
    <3> DEFINE k == (start[i] + j) - U
    <3>2. start[m] \in Int /\ start[m] + Header + l = U + M
      BY <1>7, <2>1, <3>1
    <3>3. k \in 1 .. n /\ Header + l - M + k = j
      <4>1. k \in 1 .. n
        BY <1>2, <1>9, <2>1, <2>3
      <4>2. Header + l - M + k = j
        <5>1. start[i] = start[m]
          BY <3>1
        <5>2. start[i] \in Int /\ start[i] + 2 + l = U + M /\ k = (start[i] + j) - U /\ j \in Int
          BY <2>1, <3>2, <5>1 DEF Header
        <5>3. U \in Int /\ M \in Int /\ l \in Int
          BY <1>2
        <5>4. \A x, u, y, z, w \in Int : x + 2 + z = u + y => 2 + z - y + ((x + w) - u) = w
          OBVIOUS
        <5>5. 2 + l - M + ((start[i] + j) - U) = j
          <6>1. start[i] \in Int /\ j \in Int /\ start[i] + 2 + l = U + M
            BY <5>2
          <6>2. QED
            BY <5>3, <5>4, <6>1
        <5>6. QED
          BY <5>5 DEF Header
      <4>3. QED
        BY <4>1, <4>2
    <3>4. Contents'[start[i] + j] = wr.data[k]
      <4>1. \A c \in 1 .. U + n : ~(c <= U) => Contents'[c] = wr.data[c - U]
        BY <1>3
      <4>2. start[i] + j \in 1 .. U + n
        BY <1>9
      <4>3. Contents'[start[i] + j] = wr.data[(start[i] + j) - U]
        <5> HIDE DEF k
        <5>1. QED
          BY <2>3, <4>1, <4>2
      <4>4. QED
        BY <4>3 DEF k
    <3> HIDE DEF k
    <3>5. QED
      BY <1>4, <3>1, <3>3, <3>4
  <2>4. QED
    BY <2>2, <2>3
<1>10. /\ start[1] = 0 - Consumed' /\ start[m + 1] = Used' + Missing'
       /\ \A i \in 1 .. m : start[i] <= Used'
  <2>1. U + M = (U + n) + (M - n)
    BY <1>2
  <2>2. start[m + 1] = Used' + Missing'
    BY <1>3, <1>4, <1>7, <2>1
  <2>3. ASSUME NEW i \in 1 .. m PROVE start[i] <= U + n
    <3>1. start[i] \in Int /\ start[i] <= U
      BY <1>8
    <3>2. QED
      BY <1>2, <3>1
  <2>4. QED
    BY <1>3, <1>6, <1>7, <2>2, <2>3
<1>11. LaidOut(start)'
  <2>1. \A i \in 1 .. m : start[i + 1] = start[i] + Header + queued[i].len
    BY <1>8
  <2>2. QED
    BY <1>3, <1>6, <1>9, <1>10, <2>1 DEF LaidOut, Header, PacketCell, m
<1>12. QED
  BY <1>1, <1>6, <1>11 DEF Layout, m

LEMMA LayoutRead ==
  ASSUME VideoInv, AddRead, UNCHANGED videoVars
  PROVE  Layout'
<1> DEFINE m == Len(queued)
           n == rd.n
           U == Used
           C == Consumed
<1>1. PICK start \in [1 .. m + 1 -> Int] : LaidOut(start)
  BY DEF VideoInv, Layout
<1>2. m \in Nat /\ U \in Nat /\ n \in Nat /\ Missing \in Nat /\ C \in Int /\ RingInv
  BY VideoTypes
<1>3. /\ n \in 1 .. U /\ Used' = U - n
      /\ Contents' = [i \in 1 .. U - n |-> Contents[n + i]]
  BY <1>2, AddReadInv
<1>4. queued' = queued /\ Missing' = Missing
  BY DEF videoVars, AddRead, Missing
<1>5. Consumed' = C + n
  <2>1. /\ rd.at = "add" /\ rd'.at = "done" /\ rd'.n = rd.n /\ dec' = dec
    BY CallingIs DEF AddRead, videoVars
  <2>2. dec.at # "peek" /\ dec.at # "idle" /\ dec.at # "size"
    BY <2>1 DEF VideoInv, DecodeInStep
  <2>3. /\ dec.at \in {"header", "frame", "drain"} /\ dec.len \in Nat /\ dec.left \in Nat
    BY <2>2, VideoTypes
  <2>4. n \in Nat
    BY <1>2
  <2>5. QED
    BY <2>1, <2>2, <2>3, <2>4 DEF Consumed, Header
<1> HIDE DEF m, n, U, C
<1>6. PICK rest \in [1 .. m + 1 -> Int] : \A i \in 1 .. m + 1 : rest[i] = start[i] - n
  <2> DEFINE made == [i \in 1 .. m + 1 |-> start[i] - n]
  <2>1. made \in [1 .. m + 1 -> Int]
    BY <1>2
  <2>2. QED
    BY <2>1
<1>7. 1 \in 1 .. m + 1 /\ m + 1 \in 1 .. m + 1
  BY <1>2
<1>8. rest[1] = 0 - Consumed' /\ rest[m + 1] = Used' + Missing'
  <2>1. start[1] = 0 - C /\ start[m + 1] = U + Missing
    BY <1>1 DEF LaidOut, m, U, C
  <2>2. rest[1] = 0 - C - n /\ rest[m + 1] = (U + Missing) - n
    <3>1. rest[1] = start[1] - n /\ rest[m + 1] = start[m + 1] - n
      BY <1>6, <1>7
    <3>2. rest[1] = 0 - C - n
      BY <2>1, <3>1
    <3>3. rest[m + 1] = (U + Missing) - n
      BY <2>1, <3>1
    <3>4. QED
      BY <3>2, <3>3
  <2>3. 0 - C - n = 0 - (C + n) /\ (U + Missing) - n = (U - n) + Missing
    BY <1>2
  <2>4. QED
    BY <1>3, <1>4, <1>5, <2>2, <2>3
<1>9. ASSUME NEW i \in 1 .. m
      PROVE  /\ rest[i] <= Used'
             /\ rest[i + 1] = rest[i] + Header + queued[i].len
             /\ \A j \in 1 .. Header + queued[i].len :
                  rest[i] + j \in 1 .. Used' => Contents'[rest[i] + j] = PacketCell(queued[i], j)
  <2>1. i \in 1 .. m + 1 /\ i + 1 \in 1 .. m + 1
    BY <1>2
  <2>2. rest[i] = start[i] - n /\ rest[i + 1] = start[i + 1] - n /\ start[i] \in Int
    BY <1>6, <2>1
  <2>3. /\ start[i] <= U
        /\ start[i + 1] = start[i] + Header + queued[i].len
        /\ \A j \in 1 .. Header + queued[i].len :
             start[i] + j \in 1 .. U => Contents[start[i] + j] = PacketCell(queued[i], j)
    BY <1>1 DEF LaidOut, m, U
  <2>4. queued[i].len \in Nat
    BY PacketTypes DEF m
  <2>5. rest[i] <= Used' /\ rest[i + 1] = rest[i] + Header + queued[i].len
    <3>1. /\ U \in Int /\ n \in Int /\ start[i] \in Int /\ queued[i].len \in Int
          /\ start[i] <= U /\ start[i + 1] = start[i] + 2 + queued[i].len /\ Used' = U - n
      <4>1. U \in Int /\ n \in Int /\ start[i] \in Int /\ Used' = U - n
        BY <1>2, <1>3, <2>2
      <4>2. QED
        BY <2>3, <2>4, <4>1 DEF Header
    <3>2. start[i] - n <= U - n /\ start[i + 1] - n = ((start[i] - n) + 2) + queued[i].len
      <4>1. start[i] - n <= U - n
        BY <3>1
      <4>2. ((start[i] - n) + 2) + queued[i].len = (start[i] + 2 + queued[i].len) - n
        <5>1. \A x, y, z \in Int : ((x - y) + 2) + z = (x + 2 + z) - y
          OBVIOUS
        <5>2. QED
          BY <3>1, <5>1
      <4>3. start[i + 1] - n = ((start[i] - n) + 2) + queued[i].len
        BY <3>1, <4>2
      <4>4. QED
        BY <4>1, <4>3
    <3>3. QED
      BY <2>2, <3>1, <3>2 DEF Header
  <2>6. ASSUME NEW j \in 1 .. Header + queued[i].len, rest[i] + j \in 1 .. U - n
        PROVE  Contents'[rest[i] + j] = PacketCell(queued[i], j)
    <3>1. j \in Int
      BY <2>4 DEF Header
    <3>2. n + (rest[i] + j) = start[i] + j /\ start[i] + j \in 1 .. U
      <4>1. U \in Nat /\ n \in Nat /\ start[i] \in Int /\ rest[i] = start[i] - n
            /\ (start[i] - n) + j \in 1 .. U - n
        BY <1>2, <2>2, <2>6
      <4>2. n + ((start[i] - n) + j) = start[i] + j /\ start[i] + j \in 1 .. U
        BY <3>1, <4>1
      <4>3. QED
        BY <4>1, <4>2
    <3>3. Contents'[rest[i] + j] = Contents[n + (rest[i] + j)]
      BY <1>3, <2>6
    <3>4. QED
      BY <2>3, <3>2, <3>3
  <2>7. QED
    BY <1>3, <2>5, <2>6
<1>10. LaidOut(rest)'
  BY <1>4, <1>8, <1>9 DEF LaidOut, Header, PacketCell, m
<1>11. QED
  BY <1>4, <1>6, <1>10 DEF Layout, m

\* the first packet, taken out, leaves the others where they are
LEMMA LayoutReturned ==
  ASSUME VideoInv, queued # <<>>, queued' = Tail(queued),
         Consumed = Header + Head(queued).len, Consumed' = 0,
         Missing' = Missing, Contents' = Contents, Used' = Used
  PROVE  Layout'
<1> DEFINE m == Len(queued)
<1>1. PICK start \in [1 .. m + 1 -> Int] : LaidOut(start)
  BY DEF VideoInv, Layout
<1>2. /\ m \in Nat /\ m >= 1 /\ Len(queued') = m - 1 /\ m - 1 \in Nat
      /\ \A i \in 1 .. m - 1 : queued'[i] = queued[i + 1]
      /\ Head(queued) = queued[1]
  BY VideoTypes
<1> HIDE DEF m
<1>3. PICK rest \in [1 .. m -> Int] : \A i \in 1 .. m : rest[i] = start[i + 1]
  <2> DEFINE made == [i \in 1 .. m |-> start[i + 1]]
  <2>1. made \in [1 .. m -> Int]
    BY <1>2
  <2>2. QED
    BY <2>1
<1>4. 1 \in 1 .. m /\ m \in 1 .. m
  BY <1>2
<1>5. rest[1] = 0 - Consumed' /\ rest[m] = Used' + Missing'
  <2>1. start[1] = 0 - Consumed /\ start[m + 1] = Used + Missing
    BY <1>1 DEF LaidOut, m
  <2>2. start[1 + 1] = start[1] + Header + queued[1].len
    BY <1>1, <1>4 DEF LaidOut, m
  <2>3. queued[1].len \in Nat
    BY <1>4, PacketTypes DEF m
  <2>4. start[1 + 1] = 0
    <3>1. start[1] = 0 - (Header + queued[1].len)
      BY <1>2, <2>1
    <3>2. (0 - (2 + queued[1].len)) + 2 + queued[1].len = 0
      BY <2>3
    <3>3. QED
      BY <2>2, <3>1, <3>2 DEF Header
  <2>5. QED
    BY <1>3, <1>4, <2>1, <2>4
<1>6. ASSUME NEW i \in 1 .. m - 1
      PROVE  /\ rest[i] <= Used'
             /\ rest[i + 1] = rest[i] + Header + queued'[i].len
             /\ \A j \in 1 .. Header + queued'[i].len :
                  rest[i] + j \in 1 .. Used' => Contents'[rest[i] + j] = PacketCell(queued'[i], j)
  <2>1. i \in 1 .. m /\ i + 1 \in 1 .. m
    BY <1>2
  <2>2. rest[i] = start[i + 1] /\ rest[i + 1] = start[(i + 1) + 1] /\ queued'[i] = queued[i + 1]
    BY <1>2, <1>3, <2>1
  <2>3. /\ start[i + 1] <= Used
        /\ start[(i + 1) + 1] = start[i + 1] + Header + queued[i + 1].len
        /\ \A j \in 1 .. Header + queued[i + 1].len :
             start[i + 1] + j \in 1 .. Used => Contents[start[i + 1] + j] = PacketCell(queued[i + 1], j)
    BY <1>1, <2>1 DEF LaidOut, m
  <2>4. QED
    BY <2>2, <2>3
<1>7. LaidOut(rest)'
  <2>1. Len(queued') + 1 = m /\ 1 .. Len(queued') = 1 .. m - 1
    BY <1>2
  <2>2. \A i \in 1 .. Len(queued') :
          /\ rest[i] <= Used'
          /\ rest[i + 1] = rest[i] + Header + queued'[i].len
          /\ \A j \in 1 .. Header + queued'[i].len :
               rest[i] + j \in 1 .. Used' => Contents'[rest[i] + j] = PacketCell(queued'[i], j)
    BY <1>6, <2>1
  <2>3. rest[1] = 0 - Consumed' /\ rest[Len(queued') + 1] = Used' + Missing'
    BY <1>5, <2>1
  <2>4. QED
    BY <2>2, <2>3 DEF LaidOut, Header, PacketCell
<1>8. Len(queued') + 1 = m
  BY <1>2
<1>9. QED
  BY <1>3, <1>7, <1>8 DEF Layout

-----------------------------------------------------------------------------
(* The pusher's steps. *)

LEMMA CallIs ==
  ASSUME NEW stage, NEW pts, NEW len, NEW left, NEW given
  PROVE  /\ Call(stage, pts, len, left, given).at = stage
         /\ Call(stage, pts, len, left, given).pts = pts
         /\ Call(stage, pts, len, left, given).len = len
         /\ Call(stage, pts, len, left, given).left = left
         /\ Call(stage, pts, len, left, given).whole = given
BY DEF Call

\* what the decoder relies on while the ring fills and packets arrive
LEMMA DecodeKept ==
  ASSUME VideoInv, UNCHANGED <<rd, dec, need, slot, frames>>,
         Used' \in Nat, Used <= Used',
         queued # <<>> => queued' # <<>> /\ Head(queued') = Head(queued)
  PROVE  DecodeInStep' /\ Consumed' = Consumed
<1>1. Consumed' = Consumed
  BY DEF Consumed
<1>2. DecodeInStep /\ Consumed \in Int /\ Used \in Nat /\ dec.len \in Nat
  BY VideoTypes DEF VideoInv
<1>3. dec.at = "peek" => queued # <<>>
  <2>1. dec.at = "peek" => Consumed = 0 /\ Used > 0
    BY <1>2 DEF Consumed, DecodeInStep, Header
  <2>2. QED
    BY <2>1, SomePacket
<1>4. Used >= Header => Used' >= Header
  BY <1>2 DEF Header
<1>5. Used + Consumed >= Header + dec.len => Used' + Consumed >= Header + dec.len
  BY <1>2 DEF Header
<1>6. /\ dec.at \in {"idle", "size"} => rd.at = "idle"
      /\ dec.at # "idle" => need > 0
      /\ dec.at = "header" /\ rd.at # "idle" => rd.n = Header
      /\ dec.at = "drain" =>
           /\ dec.left <= dec.len
           /\ rd.at # "idle" => rd.n \in 1 .. dec.left
      /\ dec.whole => dec.at = "drain" /\ frames[slot] = Data(dec, need)
  BY <1>2 DEF DecodeInStep
<1>7. /\ dec.at = "peek" =>
           /\ Used >= Header
           /\ rd.at \in {"idle", "peek", "done"} /\ (rd.at # "idle" => rd.n = Header)
           /\ rd.at = "done" => rd.data = HeaderCells(Head(queued))
      /\ dec.at = "frame" =>
           /\ need <= dec.len /\ (rd.at # "idle" => rd.n = need)
           /\ rd.at = "done" => rd.data = Data(dec, need)
      /\ dec.at \in {"size", "header", "frame", "drain"} =>
           /\ queued # <<>> /\ Head(queued) = Packet(dec)
           /\ rd.at # "peek"
      /\ dec.at \in {"header", "frame", "drain"} => Used + Consumed >= Header + dec.len
  BY <1>2 DEF DecodeInStep
<1>8. /\ rd' = rd /\ dec' = dec /\ need' = need /\ slot' = slot /\ frames' = frames
  OBVIOUS
<1>9. DecodeInStep'
  BY <1>1, <1>3, <1>4, <1>5, <1>6, <1>7, <1>8 DEF DecodeInStep, Data, Packet, HeaderCells, Header
<1>10. QED
  BY <1>1, <1>9

\* and what the pusher relies on while the ring is emptied
LEMMA PushKept ==
  ASSUME VideoInv, UNCHANGED <<wr, push, queued>>, Free' \in Nat, Free <= Free'
  PROVE  PushInStep' /\ Missing' = Missing
<1>1. Missing' = Missing
  BY DEF Missing
<1>2. PushInStep /\ Missing \in Nat /\ Free \in Nat
  BY VideoTypes DEF VideoInv
<1>3. Missing <= Free => Missing <= Free'
  BY <1>2
<1>4. QED
  BY <1>1, <1>2, <1>3 DEF PushInStep, HeaderCells, Data, Packet, Header

LEMMA RestingIs ==
  /\ Resting.at = "idle" /\ Resting.pts = 0 /\ Resting.len = 0
  /\ Resting.left = 0 /\ Resting.whole = FALSE
BY DEF Resting, Call

LEMMA PacketPushed ==
  ASSUME VideoInv, NEW len \in Payloads, PushPacket(len)
  PROVE  VideoInv'
<1> DEFINE p == [pts |-> nextPts, len |-> len]
<1>1. /\ RingInv /\ len \in Nat /\ nextPts \in Nat /\ Free \in Nat /\ Used \in Nat
      /\ queued \in Seq([pts : Nat, len : Nat])
  BY VideoTypes, VideoAssumption
<1>2. /\ push = Resting /\ Free >= Header + len
      /\ push' = Call("header", nextPts, len, 0, FALSE)
      /\ nextPts' = nextPts + 1
      /\ queued' = Append(queued, p)
      /\ UNCHANGED ringVars /\ UNCHANGED <<need, slot, frames, dec, wr, rd>>
  BY DEF PushPacket, framesVars, ringVars
<1>3. p \in [pts : Nat, len : Nat] /\ p.pts = nextPts /\ p.len = len
  BY <1>1
<1> HIDE DEF p
<1>4. /\ queued' \in Seq([pts : Nat, len : Nat]) /\ queued' # <<>>
      /\ queued'[Len(queued')] = p
      /\ queued # <<>> => Head(queued') = Head(queued)
  BY <1>1, <1>2, <1>3
<1>5. RingInv' /\ Contents' = Contents /\ Used' = Used /\ Free' = Free
  BY <1>1, <1>2, RingStutterInv DEF Used, Free, ringVars
<1>6. /\ push.at = "idle" /\ wr.at = "idle" /\ wr'.at = "idle"
      /\ push'.at = "header" /\ push'.pts = nextPts /\ push'.len = len
  <2>1. push.at = "idle"
    BY <1>2, RestingIs
  <2>2. wr.at = "idle"
    BY <2>1 DEF VideoInv, PushInStep
  <2>3. push'.at = "header" /\ push'.pts = nextPts /\ push'.len = len
    <3>1. push' = Call("header", nextPts, len, 0, FALSE)
      BY <1>2
    <3>2. QED
      BY <3>1 DEF Call
  <2>4. wr' = wr
    BY <1>2
  <2>5. QED
    BY <2>1, <2>2, <2>3, <2>4
<1>7. Missing = 0 /\ Missing' = Header + p.len
  BY <1>3, <1>6 DEF Missing
<1>8. DecodeInStep' /\ Consumed' = Consumed
  BY <1>1, <1>2, <1>4, <1>5, DecodeKept
<1>9. Layout'
  BY <1>2, <1>3, <1>5, <1>7, <1>8, LayoutPushed
<1>10. VideoTypeOK'
  <2>1. push' \in [at : {"idle", "header", "payload"}, pts : Nat, len : Nat, left : Nat,
                   whole : BOOLEAN]
    BY <1>1, <1>2 DEF Call
  <2>2. nextPts' \in Nat
    BY <1>1, <1>2
  <2>3. QED
    BY <1>2, <1>4, <1>6, <2>1, <2>2 DEF VideoInv, VideoTypeOK
<1>11. PushInStep'
  <2>1. Packet(push') = p
    BY <1>6 DEF Packet, p
  <2>2. Missing' <= Free'
    BY <1>2, <1>3, <1>5, <1>7
  <2>3. QED
    BY <1>4, <1>6, <2>1, <2>2 DEF PushInStep, Packet
<1>12. QED
  BY <1>5, <1>8, <1>9, <1>10, <1>11 DEF VideoInv

\* the writes ask for the header, then for the payload, and there is room
LEMMA WriteAsked ==
  ASSUME VideoInv, PushWrite
  PROVE  VideoInv'
<1>1. /\ RingInv /\ Missing \in Nat /\ Free \in Nat /\ Used \in Nat /\ push.len \in Nat
      /\ Missing <= Free
  BY VideoTypes DEF VideoInv, PushInStep
<1>2. UNCHANGED videoVars
  BY DEF PushWrite
<1>3. PICK cells :
        /\ AcquireWrite(cells)
        /\ \/ push.at = "header" /\ cells = HeaderCells(push)
           \/ push.at = "payload" /\ cells = Data(push, push.len)
  BY DEF PushWrite
<1>4. wr.at = "idle" /\ UNCHANGED <<buffer, writePos, readPos, rd>>
  BY <1>3 DEF AcquireWrite
<1>5. Len(cells) \in Nat /\ IsSequence(cells) /\ Len(cells) <= Missing
      /\ (push.at = "header" => Len(cells) = Header)
      /\ (push.at = "payload" => Len(cells) = push.len /\ Missing = push.len)
  <2>1. CASE push.at = "header" /\ cells = HeaderCells(push)
    <3>1. Missing = Header + push.len
      BY <1>4, <2>1 DEF Missing
    <3>2. Len(cells) = 2 /\ IsSequence(cells)
      BY <2>1 DEF HeaderCells, IsSequence
    <3>3. QED
      BY <1>1, <2>1, <3>1, <3>2 DEF Header
  <2>2. CASE push.at = "payload" /\ cells = Data(push, push.len)
    <3>1. Missing = push.len
      BY <1>4, <2>2 DEF Missing
    <3>2. cells = [i \in 1 .. push.len |-> cells[i]] /\ DOMAIN cells = 1 .. push.len
      BY <2>2 DEF Data
    <3>3. Len(cells) = push.len /\ IsSequence(cells)
      <4>1. \A l \in Nat : \A s : s = [i \in 1 .. l |-> s[i]] =>
              s \in Seq({s[i] : i \in 1 .. l}) /\ Len(s) = l
        OBVIOUS
      <4>2. push.len \in Nat
        BY <1>1
      <4>3. cells \in Seq({cells[i] : i \in 1 .. push.len}) /\ Len(cells) = push.len
        BY <3>2, <4>1, <4>2
      <4>4. QED
        BY <3>2, <4>3 DEF IsSequence
    <3>4. QED
      BY <1>1, <2>2, <3>1, <3>3
  <2>3. QED
    BY <1>3, <2>1, <2>2
<1> DEFINE n == Least(Len(cells), Free)
<1>6. n = Len(cells)
  BY <1>1, <1>5 DEF Least
<1>7. wr' = Calling(IF n = 0 THEN "done" ELSE "copy", cells, n)
  BY <1>3 DEF AcquireWrite
<1> HIDE DEF n
<1>8. wr'.data = cells /\ wr'.n = Len(cells) /\ wr'.at \in {"done", "copy"}
      /\ (wr'.at = "done" => Len(cells) = 0)
  BY <1>6, <1>7, CallingIs
<1>9. RingInv' /\ Contents' = Contents
  BY <1>1, <1>3, <1>5, LookInv
<1>10. Used' = Used /\ Free' = Free
  BY <1>4 DEF Used, Free
<1>11. push' = push /\ queued' = queued /\ dec' = dec /\ need' = need /\ slot' = slot
       /\ frames' = frames /\ rd' = rd
  BY <1>2, <1>4 DEF videoVars
<1>12. Missing' = Missing
  <2>1. CASE push.at = "header"
    <3>1. wr'.at # "done"
      BY <1>5, <1>8, <2>1 DEF Header
    <3>2. Missing = Header + push.len
      BY <1>4, <2>1 DEF Missing
    <3>3. Missing' = Header + push.len
      BY <1>11, <2>1, <3>1 DEF Missing, Header
    <3>4. QED
      BY <3>2, <3>3
  <2>2. CASE push.at = "payload"
    BY <1>4, <1>5, <1>8, <1>11, <2>2 DEF Missing
  <2>3. QED
    BY <1>3, <2>1, <2>2
<1>13. DecodeInStep' /\ Consumed' = Consumed
  BY <1>1, <1>10, <1>11, DecodeKept
<1>14. Layout'
  BY <1>9, <1>10, <1>11, <1>12, <1>13, LayoutSame DEF VideoInv
<1>15. VideoTypeOK'
  BY <1>2 DEF videoVars, VideoInv, VideoTypeOK
<1>16. PushInStep'
  <2>1. Missing' <= Free' /\ (Missing' > 0 => queued' # <<>> /\ queued'[Len(queued')] = Packet(push'))
    BY <1>10, <1>11, <1>12 DEF VideoInv, PushInStep, Packet
  <2>2. \/ push'.at = "header" /\ wr'.data = HeaderCells(push') /\ wr'.n = Header
        \/ push'.at = "payload" /\ wr'.data = Data(push', push'.len) /\ wr'.n = push'.len
    BY <1>3, <1>5, <1>8, <1>11
  <2>3. QED
    BY <2>1, <2>2 DEF PushInStep, HeaderCells, Data, Packet, Header
<1>17. QED
  BY <1>9, <1>13, <1>14, <1>15, <1>16 DEF VideoInv

LEMMA WriteGoesOn ==
  ASSUME VideoInv, UNCHANGED videoVars, CopyIn(wr.n) \/ ClampWrite
  PROVE  VideoInv'
<1>1. /\ RingInv /\ Missing \in Nat /\ Free \in Nat /\ Used \in Nat /\ wr.n \in Nat
  BY VideoTypes
<1>2. UNCHANGED <<writePos, readPos, rd>> /\ wr.at # "done" /\ wr.at # "idle"
  BY DEF CopyIn, ClampWrite
<1>3. wr.n \in 1 .. Free
  BY <1>1 DEF RingInv, WriterInStep, CopyIn, ClampWrite
<1>4. RingInv' /\ Contents' = Contents
  <2>1. wr.n \in 0 .. wr.n
    BY <1>1
  <2>2. QED
    BY <1>1, <2>1, CopyInInv, LookInv
<1>5. wr'.data = wr.data /\ wr'.n = wr.n /\ wr'.at # "done" /\ wr'.at # "idle"
  <2>1. CASE CopyIn(wr.n)
    <3>1. wr' = Calling(IF wr.n = 0 THEN "done" ELSE "clamp", wr.data, wr.n)
      BY <2>1 DEF CopyIn
    <3>2. wr.n # 0
      BY <1>3
    <3>3. wr' = Calling("clamp", wr.data, wr.n)
      BY <3>1, <3>2
    <3>4. QED
      BY <3>3, CallingIs
  <2>2. CASE ClampWrite
    <3>1. wr' = Calling("add", wr.data, Least(wr.n, Free))
      BY <2>2 DEF ClampWrite
    <3>2. Least(wr.n, Free) = wr.n
      BY <1>1, <1>3 DEF Least
    <3>3. QED
      BY <3>1, <3>2, CallingIs
  <2>3. QED
    BY <2>1, <2>2
<1>6. Used' = Used /\ Free' = Free
  BY <1>2 DEF Used, Free
<1>7. push' = push /\ queued' = queued /\ dec' = dec /\ need' = need /\ slot' = slot
      /\ frames' = frames /\ rd' = rd
  BY <1>2 DEF videoVars
<1>8. Missing' = Missing
  BY <1>2, <1>5, <1>7 DEF Missing
<1>9. DecodeInStep' /\ Consumed' = Consumed
  BY <1>1, <1>6, <1>7, DecodeKept
<1>10. Layout'
  BY <1>4, <1>6, <1>7, <1>8, <1>9, LayoutSame DEF VideoInv
<1>11. VideoTypeOK'
  BY DEF videoVars, VideoInv, VideoTypeOK
<1>12. PushInStep'
  BY <1>2, <1>5, <1>6, <1>7, <1>8 DEF VideoInv, PushInStep, HeaderCells, Data, Packet, Header
<1>13. QED
  BY <1>4, <1>9, <1>10, <1>11, <1>12 DEF VideoInv

LEMMA WritePublished ==
  ASSUME VideoInv, UNCHANGED videoVars, AddWrite
  PROVE  VideoInv'
<1>1. RingInv /\ Missing \in Nat /\ Free \in Nat /\ Used \in Nat /\ wr.n \in Nat
      /\ Free = Cap - Used /\ Cap \in Nat
  BY VideoTypes
<1>2. wr.at = "add" /\ wr' = Calling("done", wr.data, wr.n) /\ rd' = rd
  BY DEF AddWrite
<1>3. wr'.at = "done" /\ wr'.data = wr.data /\ wr'.n = wr.n
  BY <1>2, CallingIs
<1>4. RingInv' /\ Used' = Used + wr.n
  BY <1>1, AddWriteInv
<1>5. Used' \in Nat /\ Used <= Used' /\ Free' = Free - wr.n
  BY <1>1, <1>4 DEF Free
<1>6. push' = push /\ queued' = queued /\ dec' = dec /\ need' = need /\ slot' = slot
      /\ frames' = frames
  BY DEF videoVars
<1>7. /\ queued # <<>> /\ queued[Len(queued)] = Packet(push)
      /\ wr.n <= Missing /\ Missing' = Missing - wr.n
  BY LastCells
<1>8. DecodeInStep'
  BY <1>2, <1>5, <1>6, DecodeKept
<1>9. Layout'
  BY LayoutWritten
<1>10. VideoTypeOK'
  BY DEF videoVars, VideoInv, VideoTypeOK
<1>11. PushInStep'
  <2>1. Missing <= Free
    BY DEF VideoInv, PushInStep
  <2>2. Missing' <= Free'
    BY <1>1, <1>5, <1>7, <2>1
  <2>3. \/ push.at = "header" /\ wr.data = HeaderCells(push) /\ wr.n = Header
        \/ push.at = "payload" /\ wr.data = Data(push, push.len) /\ wr.n = push.len
    BY <1>2 DEF VideoInv, PushInStep
  <2>4. QED
    BY <1>3, <1>6, <1>7, <2>2, <2>3 DEF PushInStep, HeaderCells, Data, Packet, Header
<1>12. QED
  BY <1>4, <1>8, <1>9, <1>10, <1>11 DEF VideoInv

LEMMA WriteReturned ==
  ASSUME VideoInv, PushWritten
  PROVE  VideoInv'
<1>1. RingInv /\ Missing \in Nat /\ Used \in Nat /\ push.len \in Nat
      /\ push.at \in {"idle", "header", "payload"}
  BY VideoTypes
<1>2. /\ wr.at = "done" /\ wr' = Quiet /\ UNCHANGED <<buffer, writePos, readPos, rd>>
      /\ WriteReturns /\ rd' = rd
      /\ push' = IF push.at = "header" /\ wr.n = Header
                   THEN [push EXCEPT !.at = "payload"] ELSE Resting
      /\ need' = need /\ slot' = slot /\ frames' = frames /\ dec' = dec
      /\ nextPts' = nextPts /\ queued' = queued
  BY DEF PushWritten, WriteReturns, framesVars
<1>3. wr'.at = "idle"
  BY <1>2, CallingIs DEF Quiet
<1>4. RingInv' /\ Contents' = Contents
  BY <1>1, <1>2, LookInv
<1>5. Used' = Used /\ Free' = Free
  BY <1>2 DEF Used, Free
<1>6. \/ push.at = "header" /\ push' = [push EXCEPT !.at = "payload"]
      \/ push.at = "payload" /\ push' = Resting
  BY <1>2 DEF VideoInv, PushInStep
<1>7. push \in [at : {"idle", "header", "payload"}, pts : Nat, len : Nat, left : Nat,
                whole : BOOLEAN]
  BY DEF VideoInv, VideoTypeOK
<1>8. /\ push' \in [at : {"idle", "header", "payload"}, pts : Nat, len : Nat, left : Nat,
                     whole : BOOLEAN]
      /\ push'.at = "idle" => push' = Resting
      /\ Missing' = Missing /\ (Missing' > 0 => Packet(push') = Packet(push))
  <2>1. CASE push.at = "header" /\ push' = [push EXCEPT !.at = "payload"]
    <3>1. push'.at = "payload" /\ push'.len = push.len /\ push'.pts = push.pts
      BY <1>7, <2>1
    <3>2. Missing = push.len /\ Missing' = push.len
      BY <1>2, <1>3, <2>1, <3>1 DEF Missing
    <3>3. QED
      BY <1>7, <2>1, <3>1, <3>2 DEF Packet
  <2>2. CASE push.at = "payload" /\ push' = Resting
    <3>1. push'.at = "idle"
      BY <2>2, RestingIs
    <3>2. Missing = 0 /\ Missing' = 0
      BY <1>2, <2>2, <3>1 DEF Missing
    <3>3. Resting \in [at : {"idle", "header", "payload"}, pts : Nat, len : Nat, left : Nat,
                        whole : BOOLEAN]
      BY DEF Resting, Call
    <3>4. QED
      BY <2>2, <3>2, <3>3
  <2>3. QED
    BY <1>6, <2>1, <2>2
<1>9. DecodeInStep' /\ Consumed' = Consumed
  BY <1>1, <1>2, <1>5, DecodeKept
<1>10. Layout'
  BY <1>2, <1>4, <1>5, <1>8, <1>9, LayoutSame DEF VideoInv
<1>11. VideoTypeOK'
  BY <1>2, <1>8 DEF VideoInv, VideoTypeOK
<1>12. PushInStep'
  BY <1>2, <1>3, <1>5, <1>8 DEF VideoInv, PushInStep, Packet
<1>13. QED
  BY <1>4, <1>9, <1>10, <1>11, <1>12 DEF VideoInv

-----------------------------------------------------------------------------
(* The decoder's steps. *)

Decode == [at : {"idle", "peek", "size", "header", "frame", "drain"}, pts : Nat,
           len : Nat, left : Nat, whole : BOOLEAN]

\* whatever the decoder does that takes nothing out of the ring
LEMMA DecoderStep ==
  ASSUME VideoInv, RingInv', UNCHANGED <<Contents, Used, wr, push, queued, need, nextPts>>,
         slot' \in Slots, frames' = [s \in Slots |-> frames'[s]],
         dec' \in Decode, dec'.at = "idle" => dec' = Resting,
         Consumed' = Consumed, DecodeInStep'
  PROVE  VideoInv'
<1>1. Free' = Free /\ Free \in Nat
  BY VideoTypes DEF Free
<1>2. PushInStep' /\ Missing' = Missing
  BY <1>1, PushKept
<1>3. Layout'
  BY <1>2, LayoutSame DEF VideoInv
<1>4. VideoTypeOK'
  BY DEF VideoInv, VideoTypeOK, Decode
<1>5. QED
  BY <1>2, <1>3, <1>4 DEF VideoInv

LEMMA NothingTaken ==
  ASSUME VideoInv, dec.at \in {"idle", "peek", "size"}
  PROVE  Consumed = 0
<1>1. dec.at = "peek" \/ rd.at = "idle"
  BY DEF VideoInv, DecodeInStep
<1>2. QED
  BY <1>1 DEF Consumed

LEMMA RestingStep ==
  ASSUME dec' = Resting, rd'.at = "idle"
  PROVE  DecodeInStep' /\ Consumed' = 0 /\ dec' \in Decode
<1>1. dec'.at = "idle" /\ dec'.whole = FALSE
  BY RestingIs
<1>2. DecodeInStep'
  BY <1>1 DEF DecodeInStep
<1>3. Consumed' = 0
  BY <1>1 DEF Consumed
<1>4. Resting \in Decode
  BY DEF Resting, Call, Decode
<1>5. QED
  BY <1>2, <1>3, <1>4

LEMMA RestingNow ==
  ASSUME VideoInv, dec = Resting
  PROVE  rd.at = "idle" /\ Consumed = 0 /\ dec.at = "idle"
<1>1. dec.at = "idle"
  BY RestingIs
<1>2. QED
  BY <1>1, NothingTaken DEF VideoInv, DecodeInStep

LEMMA VideoOpened ==
  ASSUME VideoInv, NEW n \in FrameSizes \cup {0}, Open(n)
  PROVE  VideoInv'
<1>1. /\ n \in Nat /\ UNCHANGED ringVars /\ need' = n /\ slot' = 0 /\ push' = push /\ dec' = dec
      /\ frames' = [s \in Slots |-> Blank] /\ nextPts' = nextPts /\ queued' = queued
      /\ dec = Resting /\ RingInv
  BY VideoAssumption, VideoTypes DEF Open
<1>2. RingInv' /\ Contents' = Contents /\ Used' = Used /\ Free' = Free
  BY <1>1, RingStutterInv DEF Used, Free, ringVars
<1>3. wr' = wr /\ rd' = rd
  BY <1>1 DEF ringVars
<1>4. DecodeInStep' /\ Consumed' = Consumed
  BY <1>1, <1>3, RestingNow, RestingStep
<1>5. Free \in Nat /\ Free <= Free'
  BY <1>2, VideoTypes
<1>6. PushInStep' /\ Missing' = Missing
  BY <1>1, <1>2, <1>3, <1>5, PushKept
<1>7. Layout'
  BY <1>1, <1>2, <1>4, <1>6, LayoutSame DEF VideoInv
<1>8. VideoTypeOK'
  <2>1. 0 \in Slots /\ frames' = [s \in Slots |-> frames'[s]]
    BY <1>1 DEF Slots
  <2>2. QED
    BY <1>1, <2>1 DEF VideoInv, VideoTypeOK
<1>9. QED
  BY <1>2, <1>4, <1>6, <1>7, <1>8 DEF VideoInv

\* a slot is written and left
LEMMA SlotsKept ==
  ASSUME VideoInv
  PROVE  /\ (slot + 1) % 3 \in Slots
         /\ frames = [s \in Slots |-> frames[s]]
         /\ \A content : [frames EXCEPT ![slot] = content] =
                           [s \in Slots |-> [frames EXCEPT ![slot] = content][s]]
<1>1. slot \in 0 .. 2 /\ frames = [s \in Slots |-> frames[s]]
  BY DEF VideoInv, VideoTypeOK, Slots
<1>2. (slot + 1) % 3 \in 0 .. 2
  BY <1>1
<1>3. QED
  BY <1>1, <1>2 DEF Slots

LEMMA PatternDecoded ==
  ASSUME VideoInv, DecodePattern
  PROVE  VideoInv'
<1>1. /\ UNCHANGED ringVars /\ UNCHANGED <<dec, queued, need, push, nextPts>> /\ dec = Resting
      /\ slot' = (slot + 1) % 3
      /\ \E content : frames' = [frames EXCEPT ![slot] = content]
      /\ RingInv
  BY VideoTypes DEF DecodePattern, Deliver
<1>2. RingInv' /\ UNCHANGED <<Contents, Used, wr, rd>>
  BY <1>1, RingStutterInv DEF Used, ringVars
<1>3. DecodeInStep' /\ Consumed' = Consumed /\ dec' \in Decode
  BY <1>1, <1>2, RestingNow, RestingStep
<1>4. slot' \in Slots /\ frames' = [s \in Slots |-> frames'[s]]
  BY <1>1, SlotsKept
<1>5. QED
  BY <1>1, <1>2, <1>3, <1>4, DecoderStep

LEMMA DecodeTypes ==
  ASSUME VideoInv
  PROVE  /\ dec \in Decode /\ slot \in Slots /\ frames = [s \in Slots |-> frames[s]]
         /\ \A stage \in {"idle", "peek", "size", "header", "frame", "drain"} :
              /\ [dec EXCEPT !.at = stage] \in Decode
              /\ [dec EXCEPT !.at = stage].at = stage
              /\ [dec EXCEPT !.at = stage].pts = dec.pts
              /\ [dec EXCEPT !.at = stage].len = dec.len
              /\ [dec EXCEPT !.at = stage].left = dec.left
              /\ [dec EXCEPT !.at = stage].whole = dec.whole
BY DEF VideoInv, VideoTypeOK, Decode

\* a header is in the ring
LEMMA HeaderFound ==
  ASSUME VideoInv, DecodePacket
  PROVE  VideoInv'
<1>1. /\ UNCHANGED ringVars
      /\ UNCHANGED <<queued, need, push, nextPts, slot, frames>>
      /\ need > 0 /\ Used >= Header
      /\ dec = Resting /\ dec' = [dec EXCEPT !.at = "peek"]
      /\ RingInv
  BY VideoTypes DEF DecodePacket, Decoding, SameVideo, framesVars
<1>2. RingInv' /\ UNCHANGED <<Contents, Used, wr, rd>>
  BY <1>1, RingStutterInv DEF Used, ringVars
<1>3. rd'.at = "idle" /\ dec'.at = "peek" /\ dec'.whole = FALSE /\ dec' \in Decode
  BY <1>1, <1>2, RestingNow, RestingIs, DecodeTypes
<1>4. DecodeInStep'
  BY <1>1, <1>2, <1>3 DEF DecodeInStep, Header
<1>5. Consumed' = Consumed
  <2>1. Consumed' = 0
    BY <1>3 DEF Consumed
  <2>2. QED
    BY <1>1, <2>1, RestingNow
<1>6. slot' \in Slots /\ frames' = [s \in Slots |-> frames'[s]]
  BY <1>1, DecodeTypes
<1>7. QED
  BY <1>1, <1>2, <1>3, <1>4, <1>5, <1>6, DecoderStep

\* what the decoder asks for is there
LEMMA ReadAsked ==
  ASSUME VideoInv, DecodeReads
  PROVE  VideoInv'
<1>1. /\ RingInv /\ Used \in Nat /\ dec.len \in Nat /\ dec.left \in Nat /\ need \in Nat
      /\ UNCHANGED videoVars
  BY VideoTypes DEF DecodeReads
<1>2. PICK bytes, stage :
        /\ AcquireRead(bytes, stage)
        /\ \/ dec.at = "peek" /\ bytes = Header /\ stage = "peek"
           \/ dec.at = "header" /\ bytes = Header /\ stage = "copy"
           \/ dec.at = "frame" /\ bytes = need /\ stage = "copy"
           \/ dec.at = "drain" /\ dec.left > 0 /\ bytes = Least(dec.left, Chunk) /\ stage = "copy"
  BY DEF DecodeReads
<1>3. rd.at = "idle" /\ UNCHANGED <<buffer, writePos, readPos, wr>>
      /\ rd' = Calling(IF Least(bytes, Used) = 0 THEN "done" ELSE stage, <<>>, Least(bytes, Used))
  BY <1>2 DEF AcquireRead
<1>4. bytes \in Nat /\ bytes > 0 /\ bytes <= Used /\ stage \in {"copy", "peek"}
      /\ (dec.at = "drain" => bytes <= dec.left)
  <2>1. CASE dec.at = "peek" /\ bytes = Header /\ stage = "peek"
    BY <1>1, <2>1 DEF VideoInv, DecodeInStep, Header
  <2>2. CASE dec.at = "header" /\ bytes = Header /\ stage = "copy"
    <3>1. Consumed = 0
      BY <1>3, <2>2 DEF Consumed
    <3>2. Used + Consumed >= Header + dec.len
      BY <2>2 DEF VideoInv, DecodeInStep
    <3>3. QED
      BY <1>1, <2>2, <3>1, <3>2 DEF Header
  <2>3. CASE dec.at = "frame" /\ bytes = need /\ stage = "copy"
    <3>1. Consumed = 2
      BY <1>3, <2>3 DEF Consumed, Header
    <3>2. Used + Consumed >= Header + dec.len /\ need <= dec.len /\ need > 0
      BY <2>3 DEF VideoInv, DecodeInStep
    <3>3. QED
      BY <1>1, <2>3, <3>1, <3>2 DEF Header
  <2>4. CASE dec.at = "drain" /\ dec.left > 0 /\ bytes = Least(dec.left, Chunk) /\ stage = "copy"
    <3>1. Consumed = 2 + dec.len - dec.left
      BY <1>1, <1>3, <2>4 DEF Consumed, Header
    <3>2. Used + Consumed >= Header + dec.len
      BY <2>4 DEF VideoInv, DecodeInStep
    <3>3. Used >= dec.left
      BY <1>1, <3>1, <3>2 DEF Header
    <3>4. bytes \in Nat /\ bytes > 0 /\ bytes <= dec.left
      BY <1>1, <2>4, VideoAssumption DEF Least
    <3>5. QED
      BY <1>1, <2>4, <3>3, <3>4
  <2>5. QED
    BY <1>2, <2>1, <2>2, <2>3, <2>4
<1>5. Least(bytes, Used) = bytes /\ bytes # 0
  BY <1>1, <1>4 DEF Least
<1>6. rd' = Calling(stage, <<>>, bytes)
  BY <1>3, <1>5
<1>7. rd'.at = stage /\ rd'.n = bytes
  BY <1>6, CallingIs
<1>8. RingInv' /\ Contents' = Contents
  BY <1>1, <1>2, <1>4, ReaderLookInv
<1>9. Used' = Used /\ wr' = wr
  BY <1>3 DEF Used
<1>10. dec' = dec /\ need' = need /\ slot' = slot /\ frames' = frames /\ queued' = queued
       /\ push' = push /\ nextPts' = nextPts
  BY <1>1 DEF videoVars
<1>11. Consumed' = Consumed
  BY <1>3, <1>4, <1>7, <1>10 DEF Consumed
<1>12. DecodeInStep'
  <2>1. dec'.at # "idle" /\ dec'.at # "size" /\ rd'.at # "done" /\ need' > 0
    BY <1>2, <1>4, <1>7, <1>10 DEF VideoInv, DecodeInStep
  <2>2. dec'.at = "peek" => Used' >= Header /\ rd'.at = "peek" /\ rd'.n = Header
    BY <1>2, <1>7, <1>9, <1>10 DEF VideoInv, DecodeInStep, Header
  <2>3. dec'.at \in {"size", "header", "frame", "drain"} =>
          queued' # <<>> /\ Head(queued') = Packet(dec') /\ rd'.at # "peek"
    BY <1>2, <1>7, <1>10 DEF VideoInv, DecodeInStep, Packet
  <2>4. dec'.at \in {"header", "frame", "drain"} => Used' + Consumed' >= Header + dec'.len
    BY <1>9, <1>10, <1>11 DEF VideoInv, DecodeInStep, Header
  <2>5. /\ dec'.at = "header" /\ rd'.at # "idle" => rd'.n = Header
        /\ dec'.at = "frame" => need' <= dec'.len /\ rd'.n = need'
    BY <1>2, <1>7, <1>10 DEF VideoInv, DecodeInStep, Header
  <2>6. dec'.at = "drain" => dec'.left <= dec'.len /\ rd'.n \in 1 .. dec'.left
    <3>1. dec.at = "drain" => dec.left <= dec.len
      BY DEF VideoInv, DecodeInStep
    <3>2. dec.at = "drain" => bytes \in 1 .. dec.left
      BY <1>1, <1>4
    <3>3. QED
      BY <1>7, <1>10, <3>1, <3>2
  <2>7. dec'.whole => dec'.at = "drain" /\ frames'[slot'] = Data(dec', need')
    BY <1>10 DEF VideoInv, DecodeInStep, Data
  <2>8. QED
    BY <2>1, <2>2, <2>3, <2>4, <2>5, <2>6, <2>7 DEF DecodeInStep, Header, Packet, Data
<1>13. QED
  BY <1>8, <1>9, <1>10, <1>11, <1>12, DecodeTypes, DecoderStep DEF VideoInv, VideoTypeOK

\* the bytes looked at are the first of the first packet that are left
LEMMA ReadGoesOn ==
  ASSUME VideoInv, UNCHANGED videoVars, CopyOut(rd.n) \/ ClampRead
  PROVE  VideoInv'
<1>1. /\ RingInv /\ Used \in Nat /\ dec.len \in Nat /\ dec.left \in Nat /\ need \in Nat
      /\ rd.n \in Nat
  BY VideoTypes
<1>2. UNCHANGED <<buffer, writePos, readPos, wr>> /\ rd.at \in {"copy", "peek", "clamp"}
  BY DEF CopyOut, ClampRead
<1>3. rd.n \in 1 .. Used
  BY <1>1, <1>2 DEF RingInv, ReaderInStep
<1>4. RingInv' /\ Contents' = Contents
  <2>1. rd.n \in 0 .. rd.n
    BY <1>1
  <2>2. QED
    BY <1>1, <2>1, CopyOutInv, ReaderLookInv
<1>5. /\ rd'.n = rd.n
      /\ \/ /\ rd.at = "peek" /\ rd'.at = "done"
            /\ rd'.data = [i \in 1 .. rd.n |-> Contents[i]]
         \/ rd.at \in {"copy", "clamp"} /\ rd'.at \in {"clamp", "add"}
  <2>1. CASE CopyOut(rd.n)
    <3> DEFINE stage == IF rd.at = "peek" \/ rd.n = 0 THEN "done" ELSE "clamp"
    <3>1. \E data : rd' = Calling(stage, data, rd.n)
      BY <2>1 DEF CopyOut
    <3>2. rd'.data = [i \in 1 .. rd.n |-> Contents[i]]
      <4>1. rd.n \in 0 .. rd.n
        BY <1>1
      <4>2. QED
        BY <1>1, <2>1, <4>1, CopyOutInv
    <3>3. \/ rd.at = "peek" /\ stage = "done"
          \/ rd.at = "copy" /\ stage = "clamp"
      <4>1. rd.at \in {"copy", "peek"} /\ rd.n # 0
        BY <1>3, <2>1 DEF CopyOut
      <4>2. QED
        BY <4>1
    <3> HIDE DEF stage
    <3>4. rd'.at = stage /\ rd'.n = rd.n
      BY <3>1, CallingIs
    <3>5. QED
      BY <3>2, <3>3, <3>4
  <2>2. CASE ClampRead
    <3>1. rd.at = "clamp" /\ rd' = Calling("add", rd.data, Least(rd.n, Used))
      BY <2>2 DEF ClampRead
    <3>2. Least(rd.n, Used) = rd.n
      BY <1>1, <1>3 DEF Least
    <3>3. rd' = Calling("add", rd.data, rd.n)
      BY <3>1, <3>2
    <3>4. rd'.at = "add" /\ rd'.n = rd.n
      BY <3>3, CallingIs
    <3>5. QED
      BY <3>1, <3>4
  <2>3. QED
    BY <2>1, <2>2
<1>6. Used' = Used /\ wr' = wr
  BY <1>2 DEF Used
<1>7. dec' = dec /\ need' = need /\ slot' = slot /\ frames' = frames /\ queued' = queued
      /\ push' = push /\ nextPts' = nextPts
  BY DEF videoVars
<1>8. /\ dec.at \in {"peek", "header", "frame", "drain"} /\ (rd.at = "peek" <=> dec.at = "peek")
  BY <1>2, VideoTypes DEF VideoInv, DecodeInStep
<1>9. Consumed' = Consumed
  <2>1. ~(rd.at = "done" /\ dec.at # "peek") /\ ~(rd'.at = "done" /\ dec'.at # "peek")
    BY <1>2, <1>5, <1>7, <1>8
  <2>2. QED
    BY <1>7, <2>1 DEF Consumed
<1>10. dec.at = "peek" => rd'.data = HeaderCells(Head(queued))
  <2> SUFFICES ASSUME dec.at = "peek" PROVE rd'.data = HeaderCells(Head(queued))
    OBVIOUS
  <2>1. rd.n = 2 /\ Used >= 2 /\ Consumed = 0
    BY <1>2, <1>8, NothingTaken DEF VideoInv, DecodeInStep, Header
  <2>2. queued # <<>>
    BY <1>1, <2>1, SomePacket
  <2>3. Head(queued).len \in Nat
    <3>1. 1 \in 1 .. Len(queued) /\ Head(queued) = queued[1]
      BY <2>2, VideoTypes
    <3>2. QED
      BY <3>1, PacketTypes
  <2>4. /\ 1 \in 1 .. Header + Head(queued).len /\ 2 \in 1 .. Header + Head(queued).len
        /\ 1 \in 1 .. Used /\ 2 \in 1 .. Used
        /\ 1 = 1 - Consumed /\ 2 = 2 - Consumed
    BY <1>1, <2>1, <2>3 DEF Header
  <2>5. Contents[1] = PacketCell(Head(queued), 1) /\ Contents[2] = PacketCell(Head(queued), 2)
    BY <2>2, <2>4, FirstPacket
  <2>6. rd'.data = [i \in 1 .. 2 |-> Contents[i]]
    BY <1>5, <1>8, <2>1
  <2>7. [i \in 1 .. 2 |-> Contents[i]] = <<Contents[1], Contents[2]>>
    OBVIOUS
  <2>8. QED
    BY <2>5, <2>6, <2>7 DEF HeaderCells, PacketCell
<1>11. DecodeInStep'
  <2>1. dec'.at # "idle" /\ dec'.at # "size" /\ need' > 0
    BY <1>7, <1>8 DEF VideoInv, DecodeInStep
  <2>2. dec'.at = "peek" =>
           /\ Used' >= Header
           /\ rd'.at \in {"idle", "peek", "done"} /\ (rd'.at # "idle" => rd'.n = Header)
           /\ rd'.at = "done" => rd'.data = HeaderCells(Head(queued'))
    BY <1>2, <1>5, <1>6, <1>7, <1>8, <1>10 DEF VideoInv, DecodeInStep, Header, HeaderCells
  <2>3. dec'.at \in {"size", "header", "frame", "drain"} =>
          queued' # <<>> /\ Head(queued') = Packet(dec') /\ rd'.at # "peek"
    BY <1>5, <1>7, <1>8 DEF VideoInv, DecodeInStep, Packet
  <2>4. dec'.at \in {"header", "frame", "drain"} => Used' + Consumed' >= Header + dec'.len
    BY <1>6, <1>7, <1>9 DEF VideoInv, DecodeInStep, Header
  <2>5. dec.at # "peek" => rd.at # "idle" /\ rd'.at # "done"
    BY <1>2, <1>5, <1>8
  <2>6. /\ dec'.at = "header" /\ rd'.at # "idle" => rd'.n = Header
        /\ dec'.at = "frame" => need' <= dec'.len /\ rd'.n = need' /\ rd'.at # "done"
    BY <1>5, <1>7, <2>5 DEF VideoInv, DecodeInStep, Header
  <2>7. dec'.at = "drain" => dec'.left <= dec'.len /\ rd'.n \in 1 .. dec'.left
    BY <1>5, <1>7, <2>5 DEF VideoInv, DecodeInStep
  <2>8. dec'.whole => dec'.at = "drain" /\ frames'[slot'] = Data(dec', need')
    BY <1>7 DEF VideoInv, DecodeInStep, Data
  <2>9. QED
    BY <2>1, <2>2, <2>3, <2>4, <2>6, <2>7, <2>8
       DEF DecodeInStep, Header, HeaderCells, Packet, Data
<1>12. QED
  BY <1>4, <1>6, <1>7, <1>9, <1>11, DecodeTypes, DecoderStep DEF VideoInv, VideoTypeOK

LEMMA ReadPublished ==
  ASSUME VideoInv, UNCHANGED videoVars, AddRead
  PROVE  VideoInv'
<1>1. /\ RingInv /\ Used \in Nat /\ dec.len \in Nat /\ dec.left \in Nat /\ need \in Nat
      /\ rd.n \in Nat /\ Free \in Nat /\ Free = Cap - Used /\ Cap \in Nat /\ Consumed \in Int
  BY VideoTypes
<1>2. /\ rd.at = "add" /\ wr' = wr /\ rd' = Calling("done", rd.data, rd.n)
  BY DEF AddRead
<1>3. rd'.at = "done" /\ rd'.data = rd.data /\ rd'.n = rd.n
  BY <1>2, CallingIs
<1>4. /\ RingInv' /\ rd.n \in 1 .. Used /\ Used' = Used - rd.n
      /\ rd.data = [i \in 1 .. rd.n |-> Contents[i]]
  BY <1>1, AddReadInv
<1>5. dec' = dec /\ need' = need /\ slot' = slot /\ frames' = frames /\ queued' = queued
      /\ push' = push /\ nextPts' = nextPts
  BY DEF videoVars
<1>6. dec.at \in {"header", "frame", "drain"}
  BY <1>2, VideoTypes DEF VideoInv, DecodeInStep
<1>7. Consumed' = Consumed + rd.n
  BY <1>1, <1>2, <1>3, <1>5, <1>6 DEF Consumed, Header
<1>8. Free' = Free + rd.n /\ Free' \in Nat /\ Free <= Free'
  <2>1. Free' = Cap - (Used - rd.n)
    BY <1>4 DEF Free
  <2>2. QED
    BY <1>1, <2>1
<1>9. PushInStep'
  BY <1>2, <1>5, <1>8, PushKept
<1>10. Layout'
  BY LayoutRead
<1>11. VideoTypeOK'
  BY DEF videoVars, VideoInv, VideoTypeOK
<1>12. dec.at = "frame" => rd.data = Data(dec, need)
  <2> SUFFICES ASSUME dec.at = "frame" PROVE rd.data = Data(dec, need)
    OBVIOUS
  <2>1. rd.n = need /\ need <= dec.len /\ queued # <<>> /\ Head(queued) = Packet(dec)
    BY <1>2 DEF VideoInv, DecodeInStep
  <2>2. Consumed = 0 - (0 - 2)
    BY <1>2 DEF Consumed, Header
  <2>3. Head(queued).len = dec.len /\ Head(queued).pts = dec.pts
    BY <2>1 DEF Packet
  <2>4. ASSUME NEW i \in 1 .. need PROVE Contents[i] = <<"data", dec.pts, i>>
    <3>1. i + 2 \in 1 .. Header + Head(queued).len /\ i = (i + 2) - Consumed /\ i \in 1 .. Used
          /\ i + 2 # 1 /\ i + 2 # 2 /\ (i + 2) - Header = i
      BY <1>1, <1>4, <2>1, <2>2, <2>3 DEF Header
    <3>2. Contents[i] = PacketCell(Head(queued), i + 2)
      BY <2>1, <3>1, FirstPacket
    <3>3. QED
      BY <2>3, <3>1, <3>2 DEF PacketCell
  <2>5. QED
    BY <1>4, <2>1, <2>4 DEF Data
<1>13. DecodeInStep'
  <2>1. need' > 0
    BY <1>5, <1>6 DEF VideoInv, DecodeInStep
  <2>2. queued' # <<>> /\ Head(queued') = Packet(dec')
    BY <1>5, <1>6 DEF VideoInv, DecodeInStep, Packet
  <2>3. Used' + Consumed' >= Header + dec'.len
    <3>1. Used + Consumed >= Header + dec.len
      BY <1>6 DEF VideoInv, DecodeInStep
    <3>2. (Used - rd.n) + (Consumed + rd.n) = Used + Consumed
      BY <1>1
    <3>3. QED
      BY <1>4, <1>5, <1>7, <3>1, <3>2
  <2>4. /\ dec'.at = "header" /\ rd'.at # "idle" => rd'.n = Header
        /\ dec'.at = "frame" => need' <= dec'.len /\ rd'.n = need'
        /\ dec'.at = "drain" => dec'.left <= dec'.len /\ rd'.n \in 1 .. dec'.left
    BY <1>2, <1>3, <1>5 DEF VideoInv, DecodeInStep, Header
  <2>5. dec'.at = "frame" => rd'.data = Data(dec', need')
    BY <1>3, <1>5, <1>12
  <2>6. dec'.whole => dec'.at = "drain" /\ frames'[slot'] = Data(dec', need')
    BY <1>5 DEF VideoInv, DecodeInStep, Data
  <2>7. dec'.at \in {"header", "frame", "drain"} /\ rd'.at = "done"
    BY <1>3, <1>5, <1>6
  <2>8. QED
    BY <2>1, <2>2, <2>3, <2>4, <2>5, <2>6, <2>7 DEF DecodeInStep, Header, Packet, Data
<1>14. QED
  BY <1>4, <1>9, <1>10, <1>11, <1>13 DEF VideoInv

LEMMA CallTyped ==
  ASSUME NEW stage \in {"idle", "peek", "size", "header", "frame", "drain"},
         NEW pts \in Nat, NEW len \in Nat, NEW left \in Nat, NEW given \in BOOLEAN
  PROVE  Call(stage, pts, len, left, given) \in Decode
BY DEF Call, Decode

\* a call of the ring is over, and what it gave is used
LEMMA ReadOver ==
  ASSUME VideoInv, ReadReturns, UNCHANGED wr
  PROVE  /\ RingInv' /\ UNCHANGED <<Contents, Used>>
         /\ rd.at = "done" /\ rd'.at = "idle"
<1>1. rd' = Quiet /\ rd.at = "done" /\ UNCHANGED <<writePos, readPos>>
  BY DEF ReadReturns
<1>2. RingInv' /\ Contents' = Contents
  BY ReaderLookInv DEF VideoInv
<1>3. rd'.at = "idle"
  BY <1>1, CallingIs DEF Quiet
<1>4. QED
  BY <1>1, <1>2, <1>3 DEF Used

LEMMA HeaderSeen ==
  ASSUME VideoInv, Peeked
  PROVE  VideoInv'
<1>1. /\ dec.at = "peek" /\ ReadReturns
      /\ UNCHANGED <<wr, queued, need, push, nextPts, slot, frames>>
  BY DEF Peeked, SameVideo, framesVars
<1>2. /\ RingInv' /\ UNCHANGED <<Contents, Used>>
      /\ rd.at = "done" /\ rd'.at = "idle"
  BY <1>1, ReadOver
<1>3. rd.n = Header /\ rd.data = HeaderCells(Head(queued)) /\ Used >= Header /\ need > 0
  BY <1>1, <1>2 DEF VideoInv, DecodeInStep
<1>4. Consumed = 0 /\ Used > 0
  BY <1>1, <1>3, NothingTaken, VideoTypes DEF Header
<1>5. queued # <<>>
  BY <1>4, SomePacket
<1>6. /\ Head(queued).pts \in Nat /\ Head(queued).len \in Nat
      /\ Head(queued) = [pts |-> Head(queued).pts, len |-> Head(queued).len]
  <2>1. \A P : \A q \in Seq(P) : q # <<>> => Head(q) \in P
    OBVIOUS
  <2>2. Head(queued) \in [pts : Nat, len : Nat]
    BY <1>5, <2>1, VideoTypes
  <2>3. QED
    BY <2>2
<1>7. dec' = Call("size", Head(queued).pts, Head(queued).len, 0, FALSE)
  <2>1. dec' = Call("size", rd.data[1][2], rd.data[2][2], 0, FALSE)
    BY <1>3 DEF Peeked
  <2>2. rd.data[1][2] = Head(queued).pts /\ rd.data[2][2] = Head(queued).len
    BY <1>3 DEF HeaderCells
  <2>3. QED
    BY <2>1, <2>2
<1>8. /\ dec'.at = "size" /\ dec'.pts = Head(queued).pts /\ dec'.len = Head(queued).len
      /\ dec'.whole = FALSE
  BY <1>7 DEF Call
<1>9. dec' \in Decode
  BY <1>6, <1>7, CallTyped
<1>10. Packet(dec') = Head(queued)
  BY <1>6, <1>8 DEF Packet
<1>11. DecodeInStep'
  BY <1>1, <1>2, <1>3, <1>5, <1>8, <1>10 DEF DecodeInStep, Packet
<1>12. Consumed' = Consumed
  BY <1>2, <1>4, <1>8 DEF Consumed
<1>13. QED
  BY <1>1, <1>2, <1>8, <1>9, <1>11, <1>12, DecodeTypes, DecoderStep

LEMMA SizeSeen ==
  ASSUME VideoInv, SizeTested
  PROVE  VideoInv'
<1>1. /\ dec.at = "size" /\ UNCHANGED ringVars
      /\ UNCHANGED <<queued, need, push, nextPts, slot, frames>>
  BY DEF SizeTested, SameVideo, framesVars
<1>2. RingInv' /\ UNCHANGED <<Contents, Used, wr, rd>>
  BY <1>1, RingStutterInv DEF Used, ringVars, VideoInv
<1>3. /\ rd.at = "idle" /\ Consumed = 0 /\ dec.whole = FALSE /\ need > 0
      /\ queued # <<>> /\ Head(queued) = Packet(dec)
  BY <1>1, NothingTaken, VideoTypes DEF VideoInv, DecodeInStep
<1>4. CASE PacketComplete /\ dec' = [dec EXCEPT !.at = "header"]
  <2>1. Used >= Header + dec.len
    BY <1>4 DEF PacketComplete
  <2>2. /\ dec' \in Decode /\ dec'.at = "header" /\ dec'.len = dec.len /\ dec'.pts = dec.pts
        /\ dec'.whole = FALSE
    BY <1>3, <1>4, DecodeTypes
  <2>3. Consumed' = 0
    BY <1>2, <1>3, <2>2 DEF Consumed
  <2>4. Used' + Consumed' >= Header + dec'.len
    BY <1>2, <2>1, <2>2, <2>3, VideoTypes
  <2>5. DecodeInStep'
    BY <1>1, <1>2, <1>3, <2>2, <2>4 DEF DecodeInStep, Packet
  <2>6. QED
    BY <1>1, <1>2, <1>3, <2>2, <2>3, <2>5, DecodeTypes, DecoderStep
<1>5. CASE dec' = Resting
  BY <1>1, <1>2, <1>3, <1>5, RestingStep, DecodeTypes, DecoderStep
<1>6. QED
  BY <1>4, <1>5 DEF SizeTested, Decoding, Fails

LEMMA HeaderTaken ==
  ASSUME VideoInv, HeaderRead
  PROVE  VideoInv'
<1>1. /\ dec.at = "header" /\ ReadReturns
      /\ UNCHANGED <<wr, queued, need, push, nextPts, slot, frames>>
  BY DEF HeaderRead, SameVideo, framesVars
<1>2. /\ RingInv' /\ UNCHANGED <<Contents, Used>>
      /\ rd.at = "done" /\ rd'.at = "idle"
  BY <1>1, ReadOver
<1>3. /\ rd.n = Header /\ need > 0 /\ queued # <<>> /\ Head(queued) = Packet(dec)
      /\ Used + Consumed >= Header + dec.len
  BY <1>1, <1>2 DEF VideoInv, DecodeInStep
<1>4. Consumed = 2
  BY <1>1, <1>2, <1>3 DEF Consumed, Header
<1>5. dec.len \in Nat /\ dec.pts \in Nat /\ need \in Nat /\ Used \in Nat
  BY VideoTypes
<1>6. CASE dec.len < need /\ dec' = Call("drain", dec.pts, dec.len, dec.len, FALSE)
  <2>1. /\ dec'.at = "drain" /\ dec'.pts = dec.pts /\ dec'.len = dec.len
        /\ dec'.left = dec.len /\ dec'.whole = FALSE
    BY <1>6 DEF Call
  <2>2. dec' \in Decode
    BY <1>5, <1>6, CallTyped
  <2>3. Consumed' = 2
    <3>1. Consumed' = (2 + dec.len) - dec.len
      BY <1>2, <1>5, <2>1 DEF Consumed, Header
    <3>2. QED
      BY <1>5, <3>1
  <2>4. DecodeInStep'
    BY <1>1, <1>2, <1>3, <1>4, <1>5, <2>1, <2>3 DEF DecodeInStep, Packet
  <2>5. QED
    BY <1>1, <1>2, <1>4, <2>1, <2>2, <2>3, <2>4, DecodeTypes, DecoderStep
<1>7. CASE ~(dec.len < need) /\ dec' = Call("frame", dec.pts, dec.len, 0, FALSE)
  <2>1. /\ dec'.at = "frame" /\ dec'.pts = dec.pts /\ dec'.len = dec.len
        /\ dec'.whole = FALSE
    BY <1>7 DEF Call
  <2>2. dec' \in Decode
    BY <1>5, <1>7, CallTyped
  <2>3. Consumed' = 2
    BY <1>2, <2>1 DEF Consumed, Header
  <2>4. DecodeInStep'
    <3>1. need <= dec.len
      BY <1>5, <1>7
    <3>2. QED
      BY <1>1, <1>2, <1>3, <1>4, <2>1, <2>3, <3>1 DEF DecodeInStep, Packet
  <2>5. QED
    BY <1>1, <1>2, <1>4, <2>1, <2>2, <2>3, <2>4, DecodeTypes, DecoderStep
<1>8. QED
  BY <1>6, <1>7 DEF HeaderRead

LEMMA FrameTaken ==
  ASSUME VideoInv, FrameRead
  PROVE  VideoInv'
<1>1. /\ dec.at = "frame" /\ ReadReturns
      /\ UNCHANGED <<wr, queued, need, push, nextPts, slot>>
      /\ frames' = [frames EXCEPT ![slot] = rd.data]
  BY DEF FrameRead
<1>2. /\ RingInv' /\ UNCHANGED <<Contents, Used>>
      /\ rd.at = "done" /\ rd'.at = "idle"
  BY <1>1, ReadOver
<1>3. /\ rd.n = need /\ need > 0 /\ queued # <<>> /\ Head(queued) = Packet(dec)
      /\ Used + Consumed >= Header + dec.len
      /\ need <= dec.len /\ rd.data = Data(dec, need)
  BY <1>1, <1>2 DEF VideoInv, DecodeInStep
<1>4. dec.len \in Nat /\ dec.pts \in Nat /\ need \in Nat /\ Used \in Nat
  BY VideoTypes
<1>5. Consumed = 2 + need
  BY <1>1, <1>2, <1>3 DEF Consumed, Header
<1>6. dec' = Call("drain", dec.pts, dec.len, dec.len - need, TRUE)
  BY <1>3 DEF FrameRead
<1>7. /\ dec'.at = "drain" /\ dec'.pts = dec.pts /\ dec'.len = dec.len
      /\ dec'.left = dec.len - need /\ dec'.whole = TRUE
  BY <1>6 DEF Call
<1>8. dec' \in Decode
  <2>1. dec.len - need \in Nat
    BY <1>3, <1>4
  <2>2. QED
    BY <1>4, <1>6, <2>1, CallTyped
<1>9. Consumed' = 2 + need
  <2>1. Consumed' = (2 + dec.len) - (dec.len - need)
    BY <1>2, <1>4, <1>7 DEF Consumed, Header
  <2>2. QED
    BY <1>4, <2>1
<1>10. frames'[slot] = Data(dec', need) /\ frames' = [s \in Slots |-> frames'[s]]
  <2>1. frames' = [s \in Slots |-> frames'[s]]
    BY <1>1, SlotsKept
  <2>2. frames'[slot] = rd.data
    BY <1>1, DecodeTypes
  <2>3. Data(dec', need) = Data(dec, need)
    BY <1>7 DEF Data
  <2>4. QED
    BY <1>3, <2>1, <2>2, <2>3
<1>11. DecodeInStep'
  <2>1. dec'.left <= dec'.len
    BY <1>3, <1>4, <1>7
  <2>2. Head(queued') = Packet(dec') /\ Used' + Consumed' >= Header + dec'.len
    BY <1>1, <1>2, <1>3, <1>5, <1>7, <1>9 DEF Packet
  <2>3. QED
    BY <1>1, <1>2, <1>3, <1>7, <1>10, <2>1, <2>2 DEF DecodeInStep
<1>12. QED
  BY <1>1, <1>2, <1>5, <1>7, <1>8, <1>9, <1>10, <1>11, DecodeTypes, DecoderStep

LEMMA RestDrained ==
  ASSUME VideoInv, Drained
  PROVE  VideoInv'
<1>1. /\ dec.at = "drain" /\ ReadReturns
      /\ UNCHANGED <<wr, queued, need, push, nextPts, slot, frames>>
  BY DEF Drained, SameVideo, framesVars
<1>2. /\ RingInv' /\ UNCHANGED <<Contents, Used>>
      /\ rd.at = "done" /\ rd'.at = "idle"
  BY <1>1, ReadOver
<1>3. /\ rd.n \in 1 .. dec.left /\ need > 0 /\ queued # <<>> /\ Head(queued) = Packet(dec)
      /\ Used + Consumed >= Header + dec.len
      /\ dec.left <= dec.len
      /\ dec.whole => frames[slot] = Data(dec, need)
  BY <1>1, <1>2 DEF VideoInv, DecodeInStep
<1>4. dec.len \in Nat /\ dec.pts \in Nat /\ dec.left \in Nat /\ Used \in Nat
  BY VideoTypes
<1>5. dec' = [dec EXCEPT !.left = dec.left - rd.n] /\ dec.left - rd.n \in Nat
  <2>1. rd.n # 0 /\ dec.left - rd.n \in Nat
    BY <1>3, <1>4
  <2>2. QED
    BY <2>1 DEF Drained
<1>6. /\ dec'.at = "drain" /\ dec'.pts = dec.pts /\ dec'.len = dec.len
      /\ dec'.left = dec.left - rd.n /\ dec'.whole = dec.whole
      /\ dec' \in Decode
  <2>1. dec \in Decode
    BY DecodeTypes
  <2>2. QED
    BY <1>1, <1>5, <2>1 DEF Decode
<1>7. Consumed' = Consumed
  <2>1. Consumed = ((2 + dec.len) - dec.left) + rd.n
    BY <1>1, <1>2, <1>4 DEF Consumed, Header
  <2>2. Consumed' = (2 + dec.len) - (dec.left - rd.n)
    BY <1>2, <1>4, <1>5, <1>6 DEF Consumed, Header
  <2>3. rd.n \in Nat
    BY <1>3
  <2>4. QED
    BY <1>4, <2>1, <2>2, <2>3
<1>8. DecodeInStep'
  <2>1. dec'.left <= dec'.len
    BY <1>3, <1>4, <1>6
  <2>2. Head(queued') = Packet(dec') /\ Used' + Consumed' >= Header + dec'.len
    BY <1>1, <1>2, <1>3, <1>6, <1>7 DEF Packet
  <2>3. dec'.whole => frames'[slot'] = Data(dec', need')
    BY <1>1, <1>3, <1>6 DEF Data
  <2>4. QED
    BY <1>1, <1>2, <1>3, <1>6, <2>1, <2>2, <2>3 DEF DecodeInStep
<1>9. QED
  BY <1>1, <1>2, <1>6, <1>7, <1>8, DecodeTypes, DecoderStep

LEMMA PacketDone ==
  ASSUME VideoInv, DecodeReturn
  PROVE  VideoInv'
<1>1. /\ dec.at = "drain" /\ dec.left = 0 /\ rd.at = "idle"
      /\ UNCHANGED ringVars /\ UNCHANGED <<need, push, nextPts, frames>>
      /\ queued' = Tail(queued) /\ dec' = Resting
      /\ slot' \in {slot, (slot + 1) % 3}
  BY DEF DecodeReturn, Fails, Deliver, framesVars
<1>2. RingInv' /\ UNCHANGED <<Contents, Used, Free, wr, rd>>
  BY <1>1, RingStutterInv DEF Used, Free, ringVars, VideoInv
<1>3. queued # <<>> /\ Head(queued) = Packet(dec) /\ dec.len \in Nat
  BY <1>1, VideoTypes DEF VideoInv, DecodeInStep
<1>4. Consumed = Header + Head(queued).len
  <2>1. Consumed = 2 + dec.len
    BY <1>1, <1>3 DEF Consumed, Header
  <2>2. QED
    BY <1>3, <2>1 DEF Packet, Header
<1>5. DecodeInStep' /\ Consumed' = 0 /\ dec' \in Decode
  BY <1>1, <1>2, RestingStep
<1>6. Missing' = Missing
  BY <1>1, <1>2 DEF Missing
<1>7. Layout'
  BY <1>1, <1>2, <1>3, <1>4, <1>5, <1>6, LayoutReturned
<1>8. /\ queued' \in Seq([pts : Nat, len : Nat])
      /\ queued' # <<>> => queued'[Len(queued')] = queued[Len(queued)]
  <2>1. \A P : \A q \in Seq(P) : q # <<>> =>
          /\ Tail(q) \in Seq(P) /\ Len(Tail(q)) = Len(q) - 1 /\ Len(q) \in Nat
          /\ \A i \in 1 .. Len(q) - 1 : Tail(q)[i] = q[i + 1]
    OBVIOUS
  <2>2. /\ queued' \in Seq([pts : Nat, len : Nat])
        /\ Len(queued') = Len(queued) - 1 /\ Len(queued) \in Nat /\ Len(queued') \in Nat
        /\ \A i \in 1 .. Len(queued) - 1 : queued'[i] = queued[i + 1]
    BY <1>1, <1>3, <2>1, VideoTypes
  <2>3. queued' # <<>> => Len(queued') \in 1 .. Len(queued) - 1
    BY <2>2
  <2>4. Len(queued') + 1 = Len(queued)
    BY <2>2
  <2>5. QED
    BY <2>2, <2>3, <2>4
<1>9. Missing > 0 => queued' # <<>>
  <2> SUFFICES ASSUME queued' = <<>> PROVE ~(Missing > 0)
    OBVIOUS
  <2>1. Layout' /\ Consumed' = 0 /\ Used' = Used /\ Missing' = Missing
    BY <1>2, <1>5, <1>6, <1>7
  <2>2. PICK start : LaidOut(start)'
    BY <2>1 DEF Layout
  <2>3. start[1] = 0 - 0 /\ start[0 + 1] = Used + Missing
    BY <2>1, <2>2 DEF LaidOut
  <2>4. Used \in Nat /\ Missing \in Nat
    BY VideoTypes
  <2>5. Used + Missing = 0
    BY <2>3
  <2>6. QED
    BY <2>4, <2>5
<1>10. PushInStep'
  <2>1. /\ Missing <= Free
        /\ Missing > 0 => queued # <<>> /\ queued[Len(queued)] = Packet(push)
        /\ wr.at # "idle" =>
             \/ push.at = "header" /\ wr.data = HeaderCells(push) /\ wr.n = Header
             \/ push.at = "payload" /\ wr.data = Data(push, push.len) /\ wr.n = push.len
    BY DEF VideoInv, PushInStep
  <2>2. Missing' <= Free'
        /\ (Missing' > 0 => queued' # <<>> /\ queued'[Len(queued')] = Packet(push'))
    BY <1>1, <1>2, <1>6, <1>8, <1>9, <2>1
  <2>3. QED
    BY <1>1, <1>2, <2>1, <2>2 DEF PushInStep, HeaderCells, Data, Packet, Header
<1>11. VideoTypeOK'
  <2>1. slot' \in Slots
    BY <1>1, SlotsKept, VideoTypes
  <2>2. QED
    BY <1>1, <1>5, <1>8, <2>1 DEF VideoInv, VideoTypeOK, Decode
<1>12. QED
  BY <1>2, <1>5, <1>7, <1>10, <1>11 DEF VideoInv

-----------------------------------------------------------------------------
LEMMA VideoInitInv ==
  ASSUME RingInit, VideoInit
  PROVE  VideoInv
<1>1. RingInv /\ Contents = <<>>
  BY RingInitInv
<1>2. /\ wr.at = "idle" /\ rd.at = "idle"
      /\ push = Resting /\ dec = Resting
      /\ queued = <<>> /\ slot = 0 /\ nextPts = 0 /\ need = 0
      /\ frames = [s \in Slots |-> Blank]
  BY CallingIs DEF RingInit, VideoInit, Quiet
<1>3. push.at = "idle" /\ dec.at = "idle" /\ dec.whole = FALSE
  BY <1>2, RestingIs
<1>4. Used = 0 /\ Free \in Nat
  <2>1. Used \in 0 .. Cap /\ Contents = [i \in 1 .. Used |-> buffer[Cell(readPos + i - 1)]]
        /\ Cap \in Nat /\ Free \in 0 .. Cap
    BY <1>1, InCells, Widths DEF RingInv
  <2>2. DOMAIN Contents = 1 .. Used /\ DOMAIN <<>> = {}
    BY <2>1
  <2>3. 1 .. Used = {}
    BY <1>1, <2>2
  <2>4. QED
    BY <2>1, <2>3
<1>5. Missing = 0 /\ Consumed = 0
  BY <1>2, <1>3 DEF Missing, Consumed
<1>6. Layout
  <2> DEFINE start == [i \in 1 .. 0 + 1 |-> 0]
  <2>1. start \in [1 .. 0 + 1 -> Int] /\ start[1] = 0 /\ start[0 + 1] = 0
    OBVIOUS
  <2> HIDE DEF start
  <2>2. Len(queued) = 0 /\ 1 .. Len(queued) = {}
    BY <1>2
  <2>3. LaidOut(start)
    BY <1>4, <1>5, <2>1, <2>2 DEF LaidOut
  <2>4. QED
    BY <2>1, <2>2, <2>3 DEF Layout
<1>7. VideoTypeOK
  <2>1. /\ Resting \in [at : {"idle", "header", "payload"}, pts : Nat, len : Nat, left : Nat,
                         whole : BOOLEAN]
        /\ Resting \in [at : {"idle", "peek", "size", "header", "frame", "drain"}, pts : Nat,
                        len : Nat, left : Nat, whole : BOOLEAN]
    BY DEF Resting, Call
  <2>2. 0 \in Slots /\ <<>> \in Seq([pts : Nat, len : Nat])
    BY DEF Slots
  <2>3. QED
    BY <1>2, <2>1, <2>2 DEF VideoTypeOK
<1>8. PushInStep
  BY <1>2, <1>4, <1>5 DEF PushInStep
<1>9. DecodeInStep
  BY <1>2, <1>3 DEF DecodeInStep
<1>10. QED
  BY <1>1, <1>6, <1>7, <1>8, <1>9 DEF VideoInv

LEMMA VideoStutter ==
  ASSUME VideoInv, UNCHANGED <<ringVars, videoVars>>
  PROVE  VideoInv'
<1>1. UNCHANGED ringVars /\ dec' = dec /\ need' = need /\ slot' = slot /\ frames' = frames
      /\ queued' = queued /\ push' = push /\ nextPts' = nextPts
  BY DEF videoVars
<1>2. RingInv' /\ UNCHANGED <<Contents, Used, wr, rd>>
  BY <1>1, RingStutterInv DEF Used, ringVars, VideoInv
<1>3. Used \in Nat /\ Used <= Used'
  BY <1>2, VideoTypes
<1>4. DecodeInStep' /\ Consumed' = Consumed
  BY <1>1, <1>2, <1>3, DecodeKept
<1>5. QED
  BY <1>1, <1>2, <1>4, DecodeTypes, DecoderStep DEF VideoInv, VideoTypeOK

LEMMA VideoStepInv ==
  ASSUME VideoInv, [VideoNext]_<<ringVars, videoVars>>
  PROVE  VideoInv'
<1>1. CASE \E n \in FrameSizes \cup {0} : Open(n)
  BY <1>1, VideoOpened
<1>2. CASE \E len \in Payloads : PushPacket(len)
  BY <1>2, PacketPushed
<1>3. CASE PushWrite \/ PushCopies \/ PushWritten
  BY <1>3, WriteAsked, WriteGoesOn, WriteReturned DEF PushCopies
<1>4. CASE DecodePattern \/ DecodePacket \/ DecodeReads \/ DecodeCopies
  BY <1>4, PatternDecoded, HeaderFound, ReadAsked, ReadGoesOn DEF DecodeCopies
<1>5. CASE Peeked \/ SizeTested \/ HeaderRead \/ FrameRead \/ Drained \/ DecodeReturn
  BY <1>5, HeaderSeen, SizeSeen, HeaderTaken, FrameTaken, RestDrained, PacketDone
<1>6. CASE RingStep /\ UNCHANGED videoVars
  BY <1>6, WriteGoesOn, WritePublished, ReadGoesOn, ReadPublished DEF RingStep
<1>7. CASE UNCHANGED <<ringVars, videoVars>>
  BY <1>7, VideoStutter
<1>8. QED
  BY <1>1, <1>2, <1>3, <1>4, <1>5, <1>6, <1>7 DEF VideoNext

LEMMA VideoInvInOrder ==
  ASSUME VideoInv
  PROVE  PacketsInOrder
<1>1. VideoTypeOK /\ PushInStep /\ DecodeInStep
  BY DEF VideoInv
<1>2. /\ dec.at \in {"size", "header", "frame", "drain"} =>
           queued # <<>> /\ Head(queued) = Packet(dec)
      /\ dec.whole => frames[slot] = Data(dec, need)
  BY <1>1 DEF DecodeInStep
<1>3. ASSUME push # Resting, wr.at = "done" PROVE wr.n = Len(wr.data)
  <2>1. CASE wr.data = HeaderCells(push) /\ wr.n = Header
    BY <2>1 DEF HeaderCells, Header
  <2>2. CASE wr.data = Data(push, push.len) /\ wr.n = push.len
    <3>1. push.len \in Nat
      BY VideoTypes
    <3>2. QED
      BY <2>2, <3>1 DEF Data
  <2>3. QED
    BY <1>1, <1>3, <2>1, <2>2 DEF PushInStep
<1>4. ASSUME dec # Resting, rd.at = "done"
      PROVE  rd.n > 0 /\ (dec.at = "frame" => rd.n = need)
  <2>1. dec.at \in {"peek", "header", "frame", "drain"}
    BY <1>1, <1>4 DEF VideoTypeOK, DecodeInStep
  <2>2. CASE dec.at \in {"peek", "header"}
    BY <1>1, <1>4, <2>2 DEF DecodeInStep, Header
  <2>3. CASE dec.at = "frame"
    BY <1>1, <1>4, <2>3 DEF DecodeInStep
  <2>4. CASE dec.at = "drain"
    <3>1. rd.n \in 1 .. dec.left /\ dec.left \in Nat
      BY <1>1, <1>4, <2>4, VideoTypes DEF DecodeInStep
    <3>2. QED
      BY <2>4, <3>1
  <2>5. QED
    BY <2>1, <2>2, <2>3, <2>4
<1>5. QED
  BY <1>2, <1>3, <1>4 DEF PacketsInOrder

\* The inductive invariant of the decoder over the ring, for any sizes of frames, payloads
\* and chunks: the packets under way lie one behind the other in what the ring holds.
THEOREM VideoInvariant == VideoSpec => []VideoInv
<1>1. RingInit /\ VideoInit => VideoInv
  BY VideoInitInv
<1>2. VideoInv /\ [VideoNext]_<<ringVars, videoVars>> => VideoInv'
  BY VideoStepInv
<1>3. QED
  BY <1>1, <1>2, PTL DEF VideoSpec

\* The decoder takes the packets apart exactly as push_packet put them together, in order
\* and none twice, whatever the two threads' calls give each other.
THEOREM VideoPacketsInOrder == VideoSpec => []PacketsInOrder
BY VideoInvariant, VideoInvInOrder, PTL

-----------------------------------------------------------------------------
(* The programs as MCBench runs them, two of them over the one ring.       *)

\* What the callers do to the ring is what any caller may do.
LEMMA AudioIsRing ==
  ASSUME AudioInv, [AudioNext]_<<ringVars, audioVars>>
  PROVE  [RingNext]_ringVars
<1>1. CASE WriteS16
  <2>1. PICK count \in Counts : AcquireWrite(Samples(spoken, count))
    BY <1>1 DEF WriteS16
  <2>2. IsSequence(Samples(spoken, count))
    BY AudioAssumption, SamplesLength
  <2>3. QED
    BY <2>1, <2>2 DEF RingNext
<1>2. CASE FillView
  BY <1>2 DEF FillView, RingNext
<1>3. CASE Written
  BY <1>3 DEF Written, RingNext
<1>4. CASE ReadS16
  <2>1. \A n \in Nat, m \in Nat : n * m \in Nat
    OBVIOUS
  <2>2. promised * FrameBytes \in Nat /\ \A count \in Counts : count * 2 \in Nat
    BY <2>1, AudioAssumption, AudioTypes
  <2>3. \E bytes \in Nat : AcquireRead(bytes, "copy")
    BY <1>4, <2>2 DEF ReadS16
  <2>4. QED
    BY <2>3 DEF RingNext
<1>5. CASE EmptyView
  BY <1>5 DEF EmptyView, RingNext
<1>6. CASE Heard
  BY <1>6 DEF Heard, RingNext
<1>7. CASE AskFrames
  BY <1>7 DEF AskFrames
<1>8. CASE RingStep /\ UNCHANGED audioVars
  BY <1>8 DEF RingNext
<1>9. CASE UNCHANGED <<ringVars, audioVars>>
  BY <1>9
<1>10. QED
  BY <1>1, <1>2, <1>3, <1>4, <1>5, <1>6, <1>7, <1>8, <1>9 DEF AudioNext

LEMMA VideoIsRing ==
  ASSUME VideoInv, [VideoNext]_<<ringVars, videoVars>>
  PROVE  [RingNext]_ringVars
<1>1. CASE PushWrite
  <2>1. IsSequence(HeaderCells(push))
    BY DEF HeaderCells, IsSequence
  <2>2. IsSequence(Data(push, push.len))
    <3>1. push.len \in Nat /\ DOMAIN Data(push, push.len) = 1 .. push.len
          /\ Data(push, push.len) = [i \in 1 .. push.len |-> Data(push, push.len)[i]]
      BY VideoTypes DEF Data
    <3>2. QED
      BY <3>1 DEF IsSequence
  <2>3. \E cells : IsSequence(cells) /\ AcquireWrite(cells)
    BY <1>1, <2>1, <2>2 DEF PushWrite
  <2>4. QED
    BY <2>3 DEF RingNext
<1>2. CASE PushCopies \/ DecodeCopies
  <2>1. wr.n \in 0 .. wr.n /\ rd.n \in 0 .. rd.n
    <3>1. wr.n \in Nat /\ rd.n \in Nat
      BY VideoTypes
    <3>2. QED
      BY <3>1
  <2>2. QED
    BY <1>2, <2>1 DEF PushCopies, DecodeCopies, RingNext
<1>3. CASE PushWritten
  BY <1>3 DEF PushWritten, RingNext
<1>4. CASE DecodeReads
  <2>1. Header \in Nat /\ need \in Nat /\ Least(dec.left, Chunk) \in Nat
    BY VideoTypes, VideoAssumption DEF Header, Least
  <2>2. \E bytes \in Nat, stage \in {"copy", "peek"} : AcquireRead(bytes, stage)
    BY <1>4, <2>1 DEF DecodeReads
  <2>3. QED
    BY <2>2 DEF RingNext
<1>5. CASE Peeked \/ HeaderRead \/ FrameRead \/ Drained
  BY <1>5 DEF Peeked, HeaderRead, FrameRead, Drained, RingNext
<1>6. CASE \/ \E n \in FrameSizes \cup {0} : Open(n)
           \/ \E len \in Payloads : PushPacket(len)
           \/ DecodePattern \/ DecodePacket \/ SizeTested \/ DecodeReturn
  BY <1>6 DEF Open, PushPacket, DecodePattern, DecodePacket, SizeTested, DecodeReturn
<1>7. CASE RingStep /\ UNCHANGED videoVars
  BY <1>7 DEF RingNext
<1>8. CASE UNCHANGED <<ringVars, videoVars>>
  BY <1>8
<1>9. QED
  BY <1>1, <1>2, <1>3, <1>4, <1>5, <1>6, <1>7, <1>8 DEF VideoNext

\* the program that runs is in its invariant
MediaInv ==
  /\ program = "audio" => AudioInv
  /\ program = "video" => VideoInv

LEMMA MediaInitInv ==
  ASSUME MCInit
  PROVE  MediaInv /\ RingInit
BY AudioInitInv, VideoInitInv DEF MCInit, MediaInv

LEMMA MediaStepInv ==
  ASSUME MediaInv, [MCNext]_allVars
  PROVE  MediaInv' /\ [RingNext]_ringVars
<1>1. CASE program = "audio" /\ AudioNext /\ program' = program
  BY <1>1, AudioStepInv, AudioIsRing DEF MediaInv
<1>2. CASE program = "video" /\ VideoNext /\ program' = program
  BY <1>2, VideoStepInv, VideoIsRing DEF MediaInv
<1>3. CASE UNCHANGED <<ringVars, audioVars, videoVars, program>>
  <2>1. UNCHANGED <<ringVars, audioVars>> /\ UNCHANGED <<ringVars, videoVars>> /\ program' = program
        /\ UNCHANGED ringVars
    BY <1>3
  <2>2. AudioInv => AudioInv'
    BY <2>1, AudioStepInv
  <2>3. VideoInv => VideoInv'
    BY <2>1, VideoStepInv
  <2>4. QED
    BY <2>1, <2>2, <2>3 DEF MediaInv
<1>4. QED
  BY <1>1, <1>2, <1>3 DEF MCNext, OfBench, allVars, mediaVars

LEMMA MediaInvariant == MCSpec => []MediaInv
<1>1. MCInit => MediaInv
  BY MediaInitInv
<1>2. MediaInv /\ [MCNext]_allVars => MediaInv'
  BY MediaStepInv
<1>3. QED
  BY <1>1, <1>2, PTL DEF MCSpec

\* The consumer of an audio pipeline hears every sample once, in order and whole, for
\* all sizes of calls and frames and every even capacity.
THEOREM MCSamplesInOrder == MCSpec => []SamplesInOrder
<1>1. MediaInv => SamplesInOrder
  BY AudioInvInOrder DEF MediaInv, SamplesInOrder
<1>2. QED
  BY <1>1, MediaInvariant, PTL

\* Under the audio pipeline and under the decoder, the ring is the bounded queue of bytes.
THEOREM MCImplementsByteQueue == MCSpec => ImplementsByteQueue
<1>1. MCInit => RingInit
  BY MediaInitInv
<1>2. MediaInv /\ [MCNext]_allVars => [RingNext]_ringVars
  BY MediaStepInv
<1>3. MCSpec => RingSpec
  BY <1>1, <1>2, MediaInvariant, PTL DEF MCSpec, RingSpec
<1>4. QED
  BY <1>3, RingImplementsByteQueue
=============================================================================
