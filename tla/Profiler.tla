------------------------------ MODULE Profiler ------------------------------
(* Profiler (profiler.cpp): recorders reserve a slot with fetch_add and fill   *)
(* it without a lock; what does not fit is counted as dropped.  Times, names   *)
(* and the cache counters are left out.                                        *)
EXTENDS Integers

CONSTANTS
  Recorder,  \* the threads that record
  EventCap,  \* kCapacity
  NoSlot

ASSUME ProfilerAssumption == EventCap \in Nat /\ NoSlot \notin Nat

VARIABLES
  write,    \* write_
  dropped,  \* dropped_
  whole,    \* the slots of events_ filled since the last reset
  filling,  \* per thread: the slot it has reserved
  trace     \* what export_chrome_trace wrote: its events, and its counter of drops

profVars == <<write, dropped, whole, filling, trace>>

NoTrace == [events |-> {}, dropped |-> 0, count |-> 0]

ProfInit ==
  /\ write = 0 /\ dropped = 0 /\ whole = {}
  /\ filling = [th \in Recorder |-> NoSlot]
  /\ trace = NoTrace

ProfReset ==
  /\ write' = 0 /\ dropped' = 0 /\ whole' = {}
  /\ UNCHANGED <<filling, trace>>

ProfTypeOK ==
  /\ write \in Nat /\ dropped \in Nat /\ whole \subseteq Nat
  /\ filling \in [Recorder -> Nat \cup {NoSlot}]

\* a slot number at or beyond the capacity, whichever
NoRoom == EventCap

\* record_span and record_allocator, the reservation of the slot
Reserve(th) ==
  /\ filling' = [filling EXCEPT ![th] = IF write < EventCap THEN write ELSE NoRoom]
  /\ write' = write + 1
  /\ UNCHANGED <<dropped, whole, trace>>

\* and the event, or the drop
Fill(th) ==
  /\ filling[th] # NoSlot
  /\ IF filling[th] = NoRoom
       THEN dropped' = dropped + 1 /\ UNCHANGED whole
       ELSE whole' = whole \cup {filling[th]} /\ UNCHANGED dropped
  /\ filling' = [filling EXCEPT ![th] = NoSlot]
  /\ UNCHANGED <<write, trace>>

\* export_chrome_trace: the events below event_count(), in the state they are in
Export ==
  /\ LET count == IF write > EventCap THEN EventCap ELSE write IN
     trace' = [events |-> whole \cap 0 .. count - 1, dropped |-> dropped, count |-> count]
  /\ UNCHANGED <<write, dropped, whole, filling>>
=============================================================================
