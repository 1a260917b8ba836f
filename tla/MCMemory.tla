------------------------------ MODULE MCMemory ------------------------------
(* The three allocators of memory_allocators.cpp, one at a time: they share no *)
(* state, so a behaviour is one of the pool, one of the arena or one of the    *)
(* stack.                                                                      *)
EXTENDS PoolAllocator, LinearArena, StackAllocator, TLC

VARIABLE allocator   \* the one this behaviour exercises

memoryVars == <<vars, arenaVars, stackVars, allocator>>

MemoryInit ==
  /\ allocator \in {"pool", "arena", "stack"}
  /\ Init /\ ArenaInit /\ StackInit

MemoryNext ==
  /\ UNCHANGED allocator
  /\ \/ allocator = "pool" /\ Next /\ UNCHANGED <<arenaVars, stackVars>>
     \/ allocator = "arena" /\ ArenaNext /\ UNCHANGED <<vars, stackVars>>
     \/ allocator = "stack" /\ StackNext /\ UNCHANGED <<vars, arenaVars>>

\* the threads are alike in every property checked
Symmetry == Permutations(Thread)

MemorySpec == MemoryInit /\ [][MemoryNext]_memoryVars
=============================================================================
