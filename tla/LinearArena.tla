---------------------------- MODULE LinearArena ----------------------------
(***************************************************************************)
(* LinearArenaAllocator (memory_allocators.cpp:38-97): blocks are cut from *)
(* the front of one buffer by moving offset_ forward with compare-and-swap *)
(* and given up all at once by reset.  One action per access of offset_ or *)
(* high_water_, for threads that allocate, reset and re-base the mark.     *)
(*                                                                         *)
(* Requests are such that aligned + size stays within size_t.              *)
(***************************************************************************)
EXTENDS BumpBase

CONSTANT Caller   \* the threads that call the arena

VARIABLES
  offset,      \* offset_
  highWater,   \* high_water_
  call,        \* per thread: the call it is in and its locals
  live,        \* history: the blocks [lo, hi) cut since the last reset
  peak,        \* history: the greatest end of a block since the mark was re-based
  overlapped   \* history: a reset_high_water has run beside another call

arenaVars == <<offset, highWater, call, live, peak, overlapped>>

ArenaPC == {"idle", "swap", "load_mark", "swap_mark", "store_mark"}
Marks == {"load_mark", "swap_mark"}

\* the normalized alignment, the size asked for, current, and hw
Frame(pc, n, a, c, hw) == [at |-> pc, size |-> n, align |-> a, cur |-> c, mark |-> hw]
Idle == Frame("idle", 1, MinAlign, 0, 0)

ArenaInit ==
  /\ offset = 0
  /\ highWater = 0
  /\ call = [th \in Caller |-> Idle]
  /\ live = {}
  /\ peak = 0
  /\ overlapped = FALSE

Go(th, f) == call' = [call EXCEPT ![th] = f]
Attempt(th, c) == Go(th, Frame("swap", call[th].size, call[th].align, c, 0))
Marking(th, pc, hw) ==
  Go(th, Frame(pc, call[th].size, call[th].align, call[th].cur, hw))

\* aligned and next of the thread's attempt
Lo(th) == AlignUp(call[th].cur, call[th].align)
Hi(th) == Lo(th) + call[th].size

-----------------------------------------------------------------------------
\* allocate(n, a) up to the load of offset_
BeginAllocate(th) ==
  /\ call[th].at = "idle"
  /\ \E n \in Sizes, a \in Aligns : Go(th, Frame("swap", n, NormalizeAlign(a), offset, 0))
  /\ UNCHANGED <<offset, highWater, live, peak>>

\* nullptr: the block does not fit
Exhausted(th) ==
  /\ call[th].at = "swap" /\ Hi(th) > Capacity
  /\ Go(th, Idle)
  /\ UNCHANGED <<offset, highWater, live, peak>>

\* Mutant: the swap of offset_ is a store.
SwapOffset_Store(th) ==
  /\ call[th].at = "swap" /\ Hi(th) <= Capacity
  /\ offset' = Hi(th)
  /\ live' = live \cup {[lo |-> Lo(th), hi |-> Hi(th)]}
  /\ peak' = Greater(peak, Hi(th))
  /\ Marking(th, "load_mark", 0)
  /\ UNCHANGED highWater

\* the swap of offset_ succeeds: the block is the thread's
SwapOffset(th) ==
  /\ call[th].at = "swap" /\ Hi(th) <= Capacity
  /\ offset = call[th].cur
  /\ offset' = Hi(th)
  /\ live' = live \cup {[lo |-> Lo(th), hi |-> Hi(th)]}
  /\ peak' = Greater(peak, Hi(th))
  /\ Marking(th, "load_mark", 0)
  /\ UNCHANGED highWater

\* it fails and loads offset_ anew (for no reason too, and then it changes nothing)
SwapFails(th) ==
  /\ call[th].at = "swap" /\ Hi(th) <= Capacity
  /\ offset # call[th].cur
  /\ Attempt(th, offset)
  /\ UNCHANGED <<offset, highWater, live, peak>>

LoadMark(th) ==
  /\ call[th].at = "load_mark"
  /\ Marking(th, "swap_mark", highWater)
  /\ UNCHANGED <<offset, highWater, live, peak>>

\* Mutant: the mark is stored, not swapped.
RaiseMark_Store(th) ==
  /\ call[th].at = "swap_mark"
  /\ highWater' = Greater(Hi(th), call[th].mark)
  /\ Go(th, Idle)
  /\ UNCHANGED <<offset, live, peak>>

\* the loop that raises high_water_ to next, and the return of the block
RaiseMark(th) ==
  /\ call[th].at = "swap_mark"
  /\ \/ /\ Hi(th) <= call[th].mark
        /\ Go(th, Idle)
        /\ UNCHANGED highWater
     \/ /\ Hi(th) > call[th].mark /\ highWater = call[th].mark
        /\ highWater' = Hi(th)
        /\ Go(th, Idle)
     \/ /\ Hi(th) > call[th].mark /\ highWater # call[th].mark
        /\ Marking(th, "swap_mark", highWater)
        /\ UNCHANGED highWater
  /\ UNCHANGED <<offset, live, peak>>

Reset(th) ==
  /\ call[th].at = "idle"
  /\ offset' = 0
  /\ live' = {}
  /\ UNCHANGED <<highWater, call, peak>>

\* reset_high_water: offset_ is loaded,
ResetMarkLoad(th) ==
  /\ call[th].at = "idle"
  /\ Go(th, Frame("store_mark", 1, MinAlign, offset, 0))
  /\ UNCHANGED <<offset, highWater, live, peak>>

\* and stored to high_water_
ResetMarkStore(th) ==
  /\ call[th].at = "store_mark"
  /\ highWater' = call[th].cur
  /\ peak' = call[th].cur
  /\ Go(th, Idle)
  /\ UNCHANGED <<offset, live>>

ArenaStep(th) ==
  \/ BeginAllocate(th) \/ Exhausted(th) \/ SwapOffset(th) \/ SwapFails(th)
  \/ LoadMark(th) \/ RaiseMark(th)
  \/ Reset(th) \/ ResetMarkLoad(th) \/ ResetMarkStore(th)

\* a thread is in reset_high_water while another is in any call
Beside(calls) ==
  \E t, u \in Caller :
    t # u /\ calls[t].at = "store_mark" /\ calls[u].at # "idle"

ArenaNext ==
  /\ \E th \in Caller : ArenaStep(th)
  /\ overlapped' = (overlapped \/ Beside(call'))

ArenaSpec == ArenaInit /\ [][ArenaNext]_arenaVars

-----------------------------------------------------------------------------
ArenaTypeOK ==
  /\ offset \in Nat /\ highWater \in Nat /\ peak \in Nat
  /\ call \in [Caller -> [at : ArenaPC, size : Nat \ {0}, align : Nat \ {0},
                         cur : Nat, mark : Nat]]
  /\ live \subseteq [lo : Nat, hi : Nat]
  /\ overlapped \in BOOLEAN

\* Every block cut since the last reset lies within what offset_ says is used
\* and within the buffer, and no two blocks share a byte, whatever threads bump
\* offset_ at once and whenever it is reset beside them.
BlocksDisjoint ==
  /\ Apart(live, offset)
  /\ offset <= Capacity

\* high_water_mark() is exact once no call is under way: the greatest extent any
\* frame has needed since the mark was re-based, never less than what is in use.
\* reset_high_water loads offset_ and stores the mark in two steps and so must
\* not run beside another call.
HighWaterExact ==
  (~overlapped /\ \A th \in Caller : call[th].at = "idle")
    => highWater = peak /\ offset <= highWater
=============================================================================
