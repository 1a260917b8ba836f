# Verification of the engine optimisation core

TLA+ models, TLC runs and TLAPS proofs for the C++ engine library `eoc_core`
(`src/src`, `src/include`) and the way its benchmark `eoc_bench` uses it. The
models are translated from the source; `PROJECT.json` maps every definition to
the lines it stands for.

    tlc -workers 2 -config MCTaskGraphDag.cfg MCTaskGraph.tla    # one run
    tlapm DequeClientProofs.tla                                  # one proof

## 1. Inventory

| component | state | operations | interacts with |
|---|---|---|---|
| **ChaseLevDeque** `task_graph.cpp:89-148` | ring of node pointers, `top_`, `bottom_` (atomic) | `push`, `pop`, `steal` | one per worker; `dispatch` pushes, the worker pops, everybody else steals |
| **MpmcQueue** `task_graph.cpp:150-208` | slots (`seq` atomic, `item` plain), `head_`, `tail_` | `enqueue`, `dequeue` | the graph's inbox, used when a deque is full |
| **TaskGraph** `task_graph.cpp:216-527` | nodes, `tasks_`, `free_nodes_` (mutex), `outstanding_`, `submitted_`, `stop_`, worker threads | create, add_dependency, submit, wait, reset, destroy; worker loop, dispatch, execute, recycle | deques, inbox, node pool; callables run on any thread |
| **ModuleRegistry** `module_interface.cpp:380-692` | records with phase, error, dependencies, owned instance, library handle | register, load_shared, unregister, startup_all, shutdown_all | calls back into modules, which may fail |
| **PropertyRegistry** `module_interface.cpp:197-345` | list of name, type, address | bind, get, set_from_string, get_as_string, clear | one per module and one per registry |
| **PoolAllocator** `memory_allocators.cpp:99-186` | tagged head, `next_index_`, count | allocate, deallocate, owns | task nodes, tensors, inference jobs |
| **LinearArenaAllocator** `memory_allocators.cpp:30-97` | `offset_`, `high_water_` | allocate, reset, reset_high_water | the frame's scratch memory |
| **StackAllocator** `memory_allocators.cpp:188-230` | `offset_` | allocate, marker, rewind, reset | single threaded |
| **ZeroCopyRing, AudioPipeline** `zero_copy_ring.cpp`, `audio_pipeline.cpp` | buffer, `write_pos_`, `read_pos_` | acquire/commit write and read, write, read, peek, size | one producer, one consumer |
| **VideoDecoderStub** `video_decoder_stub.cpp` | packet ring, three frame slots, counters | open, close, push_packet, decode_next | ZeroCopyRing |
| **InferenceEngine** `inference_engine.cpp` | graph, two pools, session, NPU | submit (future or callback), load, destroy | creates tasks on a live TaskGraph; jobs from PoolAllocator |
| **TensorBuffer, SimulatedNpu, OnnxSession** | buffers and their owners, device blocks | move, release, malloc, free, run | InferenceEngine |
| **Profiler** `profiler.cpp` | event slots, `write_`, counters | record, reset, export | every thread |
| **MetricsCollector, NetworkTelemetry** | samples, count, socket | record, flush_to, flush_udp | single threaded |
| **eoc_bench** `main.cpp` | options, one of each component, `tick_ok` | one pass over all components, then `run_ticks` | drives everything; frames share the arena and the profiler |
| **simd_kernels**, **tools/** | none that outlives a call | | |

What is hard: the lock-free algorithms (two queues, a free list, an arena, a
ring, a slot reservation), their composition in the task graph (work stealing,
helping waiters, recycling of nodes other threads may still point to, reset and
destruction), partial failure and ordering in module start-up and shutdown, and
lifetimes in the inference engine. `PROJECT.json` lists each hazard at its line
with the properties that cover it.

What makes each component correct:

- *ChaseLevDeque*: every pushed node is returned unless it is still in the ring, and
  returned a second time only from the entry a lost race leaves behind; the ring never
  overfills; `top_` never goes back.
- *MpmcQueue*: a bounded FIFO queue; no two threads in one plain slot.
- *TaskGraph*: each task runs once, after submit, after its prerequisites, with
  its own callable alive; wait returns, and only when all have run; nothing is
  freed in use.
- *ModuleRegistry*: a module starts after its dependencies are ready and is shut
  down exactly once, before them; a failure stops its dependents and nobody else.
- *PoolAllocator*: no block allocated twice, none lost. *Arena*: allocations are
  disjoint. *StackAllocator*: live blocks are below the offset.
- *ZeroCopyRing*: bytes come out in order, once. *VideoDecoderStub*: packet
  framing survives any sequence of calls, a delivered frame keeps its picture.
- *InferenceEngine*: every accepted job the graph does not lose is answered, by its
  model; memory goes back where it came from; nothing outlives its pool.
- *Profiler*: one writer per slot; export reads complete events, but for the spans of
  jobs already answered. *Telemetry*: a sample leaves at most once, in order.
  *eoc_bench*: a frame's memory outlives its tasks; the exit code does not depend on
  the schedule, unless a graph loses a task.

## 2. Modules

| module | models | kind |
|---|---|---|
| `TaskBase` | threads and nodes, shared by the modules below | constants |
| `ChaseLevDeque` | the deque: one action per load, store or compare-and-swap | component |
| `DequeClient` | threads over one deque, as owner, pushers and thieves | environment |
| `Inbox` | the queue's promise: cells reserved, published, taken, released | abstract |
| `MpmcQueue` | the queue's code, refining `Inbox` | component |
| `TaskGraphSpec` | what a client of one graph is promised | abstract |
| `TaskGraph` | workers, client, dispatch, execute, over `ChaseLevDeque` and `Inbox`; refines `TaskGraphSpec` | composition |
| `MCTaskGraph` | instances for TLC | model checking |
| `ModuleLifecycle` | what the registry promises each module | abstract |
| `ModuleRegistry` | registration, order, start-up, shutdown; refines `ModuleLifecycle` | component |
| `MCModuleRegistry` | instances for TLC | model checking |
| `FreeStack` | a stack of free blocks | abstract |
| `PoolAllocator` | the lock-free free list; refines `FreeStack` | component |
| `BumpBase` | the buffer, the requests and the rounding the next two share | operators |
| `LinearArena` | the arena: one action per access of offset and mark | component |
| `StackAllocator` | the stack: one action per call | component |
| `ByteQueue` | what the ring promises its producer and its consumer | abstract |
| `ZeroCopyRing` | the ring's calls, cut at the loads of the other side's position; refines `ByteQueue` | component |
| `AudioPipeline` | samples and frames over the ring, two threads | composition |
| `VideoDecoder` | packets, frame slots, open and close over the ring, two threads | composition |
| `InferenceEngine` | jobs, buffers, device memory, model, destruction, over a live graph and two pools | composition |
| `Profiler` | slot reservation, drops, export | component |
| `Telemetry` | the collector, buffers, sockets | component |
| `Bench` | `main` and its frame loop over all of these, `Profiler` in full | composition |
| `MCQueues`, `MCMemory`, `MCBench` | instances for TLC, components that share nothing one at a time | model checking |
| `ChaseLevDequeProofs`, `DequeClientProofs`, `MpmcQueueProofs`, `TaskGraphProofs`, `ModuleRegistryProofs`, `AllocatorProofs` (pool, arena, stack), `InferenceEngineProofs`, `BenchProofs` (bench, telemetry, ring, audio, video) | theorems | proofs |

### ChaseLevDeque and DequeClient

A thread inside `push`, `pop` or `steal` has a frame `dq[th]` with the program
counter and the locals `node`, `b`, `t`; each action is one access of a shared
variable, so every interleaving of accesses is explored. The failed
`compare_exchange_strong` of `pop` writes `top_` into `t`, as the C++ one does,
and the next store uses that `t`. Slot indices are taken modulo the capacity,
which is what the mask does for a power of two, `-1` included. A finished
operation leaves its result in the frame until the caller collects it.

`DequeClient` puts threads around one deque: the owner pops, others steal, the
set `Pushers` pushes. `MCQueues` has the discipline of the algorithm (only the
owner pushes). `dispatch` (`task_graph.cpp:275`) lets any thread push; what that
loses is seen in the graph's runs.

Four histories tell what the client was given: `returned`, `repeats` (how often a node
came back that had come back before), `lost` (how many pops lost the race for the last
entry) and `phantom`. A pop that loses that race finds `t = b + 1` after the failed
compare-and-swap and stores `t + 1` (`task_graph.cpp:122-125`): `bottom_` is one past an
index to which nothing was pushed. `phantom` is that index; whatever the slot holds is
handed out when `top_` or `bottom_` gets there, a null pointer or a node returned
before, with no pusher but the owner. `HandedOutOnce` says that this is the only way a
node comes back: never more repetitions than lost races, and at rest every entry of the
window but a phantom is owed to somebody and to one.

### Inbox and MpmcQueue

`Inbox` keeps what a caller can tell apart: an enqueue takes effect in two steps
(a reserved cell blocks the ones behind it until it is published), so does a
dequeue (a slot not yet released can make the queue look full). `MpmcQueue` is
the code; its run checks that it implements `Inbox`, and `TaskGraph` then uses
`Inbox`'s actions in place of the queue's.

### TaskGraph

`loc` is where a thread is in `worker_loop`/`take_task` or in the client's call,
`stk` its stack of `execute` activations (dispatch can call execute), `dsp` its
progress in `dispatch`, `dq` its frame in a deque. A task is a call of
`create_task`; its number stands for the function in `invoke` and for the
callable constructed in the node. Control is kept: the exchange of `invoke`, the
decrements of `pending` and what they trigger, `recycle` in the order of the
code, `outstanding_`, the fallback from deque to inbox to inline execution, the
round of steals, the order in which reset returns nodes to the pool.

Steps merged into one action, because no other thread can tell: the release of
an inbox slot with the exchange that follows; the stores of `create_task`
between `invoke` and `outstanding_`; `recycle`'s stores before its lock.
`signal_` and `wake_all` are left out: nothing waits on the signal. Names,
profiling and sleeping are left out.

How the client calls (from `main.cpp` and the tests): one thread creates, adds
edges while the graph is not submitted, from earlier to later tasks and each at
most once, submits, waits or resets, and destroys with no call under way. It does
not wait for tasks it has not submitted, which in the code spins for ever.
`LiveCreates` adds creation after submit, as the inference engine does.

Memory is sequentially consistent throughout: reorderings that the weaker
memory orders of the code permit are not explored.

### ModuleRegistry and ModuleLifecycle

The registry is called from one thread, so its actions are its calls, cut where it
calls back into a module (`pre_init`, `startup`, `post_init` return true, false or
throw) and at each turn of its loops. `at` says which loop is under way, `order` and
`cursor` where it is: in `compute_order` `order` is the vector `ready` and `cursor`
the index `ri`; in the start-up and shutdown loops they are the loop itself. A record
is its place in `records` and its entry in `phase`, `error` and `deps`. `running`,
`strays`, `given` and `destroyed` are history: on which modules `startup()` was called
and `shutdown()` not since, on which `shutdown()` was called though `startup()` had
not been, whose ownership was handed over, which instances are gone.

The three callers of `shutdown()` differ: `shutdown_all` and the destructor test for
`Init`, `PostInit` and `Ready` (656), `unregister` for `PreInit` as well (494). A module
whose `pre_init` threw is left in `PreInit`, never started, and `unregister` shuts it
down all the same. `ShutdownOwed` says that nothing else does.

`in_degree` is not kept: a module's count is 0 when all its dependencies have
been dealt with, which is how `OrderNext` says it. A module that lists itself or
one name twice as a dependency, call backs that call the registry, a `shutdown()`
that throws and the property bindings are left out.

`Careful` is the client's discipline: it does not unregister what others depend
on and after an exception shuts down before it starts again. With `Careful` FALSE
TLC finds that the code does not defend itself:

- `compute_order` (519) marks a `Ready` module whose dependency is gone `Failed`
  without shutting it down, and `unregister`, `shutdown_all` and the destructor
  pass over `Failed` records: it is destroyed running;
- `startup_all` after an exception starts a half-started module again (600)
  without a `shutdown()` between the two calls of `startup()`.

Also with a careful client, every record the order does not reach is given the
error `dependency cycle` (557), the dependents of a module that failed in an
earlier start-up included, where a reader of the error would look for a cycle.
`FailureHasCause` states what the code does.

### PoolAllocator and FreeStack

One action per access of `head_`, `next_index_` or `allocated_`. The read of
`next_index_` in `allocate` races with the write in `deallocate`; on an aligned
word it returns the old or the new value, and both orders are explored. A weak
compare-and-swap may fail although the head is unchanged (`AllocRetry`,
`FreeRetry`). `held` and `free` are history: the blocks with the client and the
stack the list stands for; `behind` counts the changes of the head since a thread
loaded it. The tag wraps at `TagMod`, and `OneLap` is the assumption every tagged
pointer makes: fewer than `TagMod` (2^32) changes during one attempt of
`allocate`. A client frees only what it holds; `deallocate` ignores foreign
pointers, and a double free is outside the contract.

### LinearArena and StackAllocator

`LinearArena` has one action per access of `offset_` and `high_water_`; a thread's
frame `call[th]` holds the locals `current` and `hw` and the request. `live` is the
history of the blocks cut since the last `reset`, `peak` the greatest end of a
block since the mark was re-based, `overlapped` whether a `reset_high_water` ever
ran beside another call: its load and its store are two steps, and a mark
re-based beside an allocation can end below it. A spurious failure of the weak
compare-and-swap reloads the same offset, which is no step.

`StackAllocator` is single threaded, so an action is a call. Blocks are numbered;
a marker remembers how many had been made when it was taken, and a rewind gives up
the younger ones, also when the marker is stale and the code ignores it or moves
the offset over blocks made since. Markers are never forgotten, so every order of
use is explored.

### ZeroCopyRing, ByteQueue, AudioPipeline, VideoDecoder

The ring's positions are shared by two threads that each store one and load the
other. A call is cut there: `acquire_write` loads the free space and computes the
view, the copy fills it, `commit_write` loads the free space again and clamps,
then publishes; the reader's calls alike. A copy is one step although it is many
stores: `ImplementsByteQueue` maps the ring to a bounded queue, and would fail if
the consumer's cells were overwritten or read before they are published.
Positions wrap at `PosMod`, 2^64 in the code; views split at the end of the buffer.

In `AudioPipeline` a cell is half a sample, numbered; the producer writes by value
or fills part of a view, the consumer reads by count or what `frames()` promised. All
of them move whole samples: an odd number of bytes through `write_bytes` or
`read_bytes`, after which every later sample is split, is left out.
In `VideoDecoder` a header is two cells and a frame one or two; packets larger and
smaller than a frame, too little room, generated frames in between, and `open` or
`close` with packets left in the ring, which are then decoded at the new size.
`open` and `close` touch plain members and so run between calls. `queued` and `held`
are history: the packets not consumed and the last two frames delivered.

### InferenceEngine

The engine's graph is what `TaskGraphSpec` says of it (an accepted task runs at most
once, on some worker), save that it may lose sight of a task and find it again
(`Lose`, `Find`), as `graph_hang` shows of a client that dispatches from its own
thread. The pools are what `FreeStack` says (`allocate` answers nullptr when nothing
is free), so the model is about what the engine adds. `phase[j]` is where job `j` is:
`made` and `ready` in `enqueue`; `refused` when `create_task` had no node, which
nobody notices (line 140); `queued`; then the steps of the task, from `execute` and
its two device allocations to the answer, `~InferJob` and `free_job`. `jobPool`,
`jobHeap`, `tensorPool`, `tensorHeap` and `device` say which job's memory is where. An
answer is the number of the load whose weights computed it.

A session without a model makes `session.run` return false without touching its output.
On the host that is the zeroed vector (`Zeros`). On the device it is the block just
allocated for `dy`, which nobody wrote and which is copied into the answer all the same
(`inference_engine.cpp:93`): `Run` then chooses among what such memory can hold
(`Unwritten`), the output of an earlier model, zeros, or `Garbage`.

The client is one thread, submits with or without a call back, loads a model when
it has all its answers, and destroys the engine. `EagerDestroy` is what the tests
do: the engine goes as soon as the answers are there. With `EagerDestroy` FALSE
the client lets the workers finish first.

### Profiler, Telemetry, Bench

`Profiler`'s actions are used by `Bench`, which adds who records when. `Bench` is
`main` as a sequence of steps (`pc`, and the frame `f`) beside the workers of two
graphs. The options are initial states: the number of frames, an arena that holds a
frame's allocations or not. The decoder may refuse the assets' dimensions. Media,
telemetry and modules are called by `main` alone; what they do is in their own modules,
so `Media` is one step.

A task of `main`'s graph is in `todo`, then its body runs (`busy`), then its span is
recorded (`closing`), which `execute` does after the body (`task_graph.cpp:331-335`) and
before it counts the task as finished; `Wait` and `ResetGraph` wait for all three
(`Done`). A job of the engine records two spans: its own `infer_execute` before the
answer, and the graph's after it (`JobOrder`), by when `main` may be on its way to the
export. `epoch` counts the resets of the arena, and the frame's tasks capture pointers
into the epoch they were created in. In a frame `TickStart` resets the arena and nothing
else; the graph's reset, which waits, is a step of its own and comes after it, then
`TickCreate`. So it is the wait at the end of one frame that keeps its tasks out of the
next frame's memory.

Both graphs may lose a task or a job (`LoseTask`, `LoseJob`), and `main`'s graph may run
a task out of turn through a stale pointer (`BeginEarly`), as `graph_hang` and
`graph_reset_reuse` show. A task run so early that `create_task` has not yet constructed
its callable is undefined behaviour of the graph, and is left out here.

`Telemetry` is single threaded: one action per call, with a datagram that is sent
whole or not at all. `delivered`, `reported` and `forgone` are history.

### MCQueues, MCMemory, MCBench

Components that share no state are checked together, one at a time: a variable
drawn in the initial state says which of them a behaviour exercises, the others
stand still. The reachable states are the sum of the components', not their
product, and a counterexample is one of its component. `MCQueues` takes the
thieves and the inbox's items as symmetric, `MCMemory` the threads: no property and
no action of the modules tells them apart, and none of the properties is a
liveness property. The liveness property of `MCBench` is the
bench's, and its instance has no symmetry.

## 3. Runs

| run | instance | checks |
|---|---|---|
| `queues` | 1 owner, 2 thieves, 3 nodes, ring of 2; 3 threads, 2 items, ring of 2, 4 enqueues | the deque loses nothing and hands a node out again only from a phantom entry, its window stays bounded; the inbox refines `Inbox`, no race on `item`, honest answers |
| `graph_dag` | 1 worker and client, every DAG of 3 tasks and 2 edges, fair threads | dependency order, live callables, refinement of `TaskGraphSpec`, a wait that hangs has lost a ready task |
| `graph_two_workers` | 2 workers and client, 2 tasks, 1 edge | the same promise with stealing between workers |
| `graph_overflow` | deque of 1, inbox of 2, 4 tasks created live, an edge or a reset | inbox, nested inline execution, reuse of nodes: run at most once, wait exact, `free_nodes_` holds only idle nodes |
| `graph_hang` | 2 tasks, fair threads | **violated**: wait does hang |
| `graph_reset_reuse` | deque of 1, two batches over 2 nodes | **violated**: a task runs before its prerequisite |
| `registry` | 4 modules, 3 names, every set of dependencies and order of calls | phases, failures, shutdown calls and who is owed one, ownership, refinement of `ModuleLifecycle` |
| `registry_stop_order` | same, no failures | **violated**: a dependency is shut down before its dependent |
| `memory` | pool: 2 threads, 3 blocks, tag of 4; arena: 2 threads, 8 units; stack: 8 units, 4 blocks | no byte in two hands, exact count and high-water mark, refinement of `FreeStack` |
| `inference` | 3 jobs, 2 workers, 2 nodes, 1 block in each pool, 1 load | memory exact, the right model answers, every accepted job is answered or lost by the graph |
| `inference_teardown` | same, `EagerDestroy` | **violated**: a worker uses a pool that is gone |
| `bench` | 2 frames, 2 tasks in the first batch, 10 trace slots; 6 samples over 3 slots; rings of 8 cells | frame memory, trace, verdict; telemetry; audio; video; refinement of `ByteQueue` |

The four violations are behaviours of the code:

- `graph_hang`. `dispatch` pushes a worker's deque from any thread. When the
  client has loaded `bottom_` for its push and the worker's pop then stores
  `bottom_`, one store overwrites the other and a node leaves the window unread.
  `outstanding_` never reaches 0 and wait spins. `OnlyLossBlocksWait`, checked by
  `graph_dag`, is the converse under the same fairness: when no node is lost, wait
  returns.
- `graph_reset_reuse`. A pop that loses the race for the last node sets `bottom_`
  to `top_ + 1` (its `t` was overwritten by the failed compare-and-swap). The
  window then has one entry nobody pushed, with an old pointer in it. After a
  reset that pointer is a node of the next batch, and a worker that finds it runs
  the task although its `pending` count is not 0. The same stale pointer on a
  live graph can run a task between the store of `invoke` (454) and the
  construction of its callable (469). Within one batch on fresh nodes the stale
  pointer is harmless, which is what `graph_dag` and `graph_two_workers` show.
- `registry_stop_order`. `shutdown_all` walks `records_` backwards; when a module
  is registered before its dependency, which `startup_all` allows and
  `tests/test_modules.cpp:134` does, the dependency is shut down first.
  `StopsInReverse`, checked by `registry`, is what does hold: with dependencies
  registered first, dependents are stopped first.
- `inference_teardown`. A task keeps its promise (146) before it frees its job
  (148). `~Impl` destroys its members from the last to the first: NPU, session,
  `job_pool`, `tensor_pool` and only then `graph`, whose destructor would have waited
  for the worker. With the answer in hand the client may destroy the engine while
  the worker is about to give its blocks back to pools that are gone.

What the passing runs leave to the caller, and how to see it: with `Careful` FALSE
`RunningTracked` fails (section 2); without the clause on `overlapped`
`HighWaterExact` fails; were `Load` possible with jobs under way, `AnsweredByModel`
would. Each is listed as a hazard at its line.

### Bounds

`MaxCreates`, `MaxEdges`, `MaxResets` bound the client's calls, `MaxSetups` edges and
resets together: in `graph_overflow` a behaviour has an edge or a reset. `MaxIndex` bounds
`bottom_`: a pop can push it up through entries nobody pushed, without limit, so
beyond the bound the worker starts no more pops (it can still be stolen from).
`MaxEnqueues` bounds `tail_`. Rings of one and two slots wrap and overflow within
those bounds: in `queues` the third push and the third enqueue reuse slot 0, and
four enqueues are two laps; in `graph_overflow` four tasks pass one deque slot and
two inbox slots. Two tasks and one edge suffice for the double dispatch, the lost
node and the stale pointer; three tasks with two edges add two prerequisites of
one task, two dependents of one, and the chain. `CounterMod` is 8 in place of 2^32:
larger than any count the runs reach, small enough to see a wrap.

`registry` needs no bound: its state space is finite. Its four modules are a name
registered twice (by an owned and by a loaded module), a raw and an owned one,
enough for chains, shared dependencies, cycles of two and three and refusals.

In `memory` three pool blocks let a thread take two and give one back while another
sleeps (ABA), and the tag wraps within that; `TagMod` is 4 in place of 2^32. The
arena and the stack have eight units, requests of one and three and alignments of
two (an illegal one is normalized to it) and four: padding, exhaustion and exact
fit all occur. `MaxBlocks` bounds the calls of the stack's `allocate`; four blocks
over two nested markers make every kind of stale marker.

In `inference` three jobs meet pools of one block and two nodes, so that the second
job is on the heap and the third may be refused; `MaxLoads` bounds the loads. Losing a
task needs no bound, for a task found again is queued as before.

In `bench` `MaxFrames` bounds the frames; a run without frames fills ten slots or,
with the span after its job's answer, eleven, and one with frames more, so that traces
are exported both without and with events dropped. `main`'s graph loses one task at
most, since `main` then waits for ever and a second makes no difference. `MaxSamples`
is twice `SlotCount`. The rings of eight cells have positions that wrap at 16, so both
the buffer and the positions wrap; calls of one and three samples leave odd rests.
`MaxPackets` bounds the packets; four pass three frame slots. `DecodedMod` tells a
generated frame from the one before, and `SampleMod` is as much as the ring holds
twice over.

Deadlock is checked in `queues` and `memory`; the other systems end, with a
destructor, with `main` or with their bounds, so there it is off.

### Fairness

`FairSpec` has weak fairness of every thread's steps and of every step of a call
the client has made: the operating system schedules the workers, which spin or
sleep for 50 microseconds and try again, and no action waits on a lock held
elsewhere. The client owes no call, so nothing is assumed of what it does next.
Weak fairness is enough for the compare-and-swap loops because a failed attempt
in `steal` or `pop` returns.

`inference` assumes least: as long as there is work, some worker goes on with it. A
task is straight-line code and there are finitely many. `bench` has weak fairness of
`main`, of the graph's workers and of each job's worker. Neither needs strong fairness,
for no step they need is disabled again and again by another's.

What no fairness gives is that a graph keeps every task: both dispatch from the client's
thread, which is how `graph_hang` loses one. `Lose`, `Find`, `LoseTask`, `BeginEarly` and
`LoseJob` may therefore happen or not, under no fairness, and the two properties say no
more than the code can keep: `AcceptedAnswered` that a job is answered or lost,
`BenchVerdict` that `main` ends with the right verdict or a task or a job stays lost.

## 4. Proofs

`DequeClientProofs` proves for all sets of threads and nodes, any set of pushers
and every ring size:

- `ClientTypeOK`: the type invariant.
- `ClientWindowBound`: `bottom - top <= DequeCap` and `bottom >= -1`. The bound is
  not inductive alone: a thread pushes from copies of `bottom_` and `top_` that
  may be old. `LocalsInWindow` says what a copy is worth (a copied `bottom_` is
  within the ring of the *current* `top_`, since `top_` only grows, and a copied
  `top_` never passes it); `BottomRestored` says that `bottom_` is negative only
  while the one thread that stored it still has to restore it, which is where the
  assumption that one thread pops each deque enters (`OnePopper`). `DequeInv` is
  their conjunction.
- `ClientProvenance`: slots, frames and results hold nodes somebody pushed.
- `ClientTopMonotone`: `top_` never goes back, so that a thief's swap meets no ABA; from
  the same invariant.
- `ClientConserves`: `DequeConserves`, when `Pushers` is at most the owner. The code
  does not keep to that (`dispatch`), and the graph's runs show the loss it costs; the
  theorem says that the deque itself is not to blame for a loss, and how far it is for
  a repetition. For the first half, `NothingLost`, the invariant is `ConserveInv`.
  `Edge` is one past the last index a thief may still take: `bottom_`, or one more
  while the owner has lowered it and has yet to learn whether the index is its own
  (`Claiming`). `OwnerInStep`: nobody else stores `bottom_`, so the owner's copy is
  exact, and what it has seen of `top_` lags by one steal at most. `ThiefInStep`: a
  thief about to swap is inside the edge, and if `top_` is what it loaded, the slot
  still holds what it read. `NodesKept`: a pushed node is between `top_` and the edge, in
  the hand of one operation, or returned.
- `ClientOnceInvariant`: `OnceInv`, on top of `ConserveInv`, which makes the second
  half, `HandedOutOnce`, inductive. `PhantomOldest`: an entry nobody pushed is the first
  of the window or gone, so there is never more than one. `Balance`: each repetition was
  paid for by a lost race, and so is the one a phantom stands for. `FreshEntries`: all
  other entries are owed, no two alike. `DeadSlots`: a slot outside the window holds what
  was returned before, which is why a phantom can repeat a node but not steal one that
  is owed. `HandFresh` says the same of the node in the owner's hand after its swap.

`ChaseLevDequeProofs` has the lemmas about one step of the deque code, which do
not know the client: `DequeStepInv` and `CallInv` say that steps and calls
preserve `DequeInv`, and are cited by whatever composes the deque.

`MpmcQueueProofs`, for all threads, nodes and capacities: `QueueSafe`,
`QueueImplementsInbox` and `QueueAnswersHonestly`, from the inductive `InStep`. Its
parts say what a slot's sequence number means. `SlotsInStep`: between `head_` and
`tail_` a slot is reserved by one writer or published, and in the lap after that
free or still in the hands of one reader. `OwnersInStep`: a thread between its
compare-and-swap and its last store owns its position alone. `CopiesInStep`: no
sequence number is ever taken back, so that what a thread has read of one is still a
lower bound when its compare-and-swap succeeds, and that success shows that the
position has not moved. The lemmas behind it are about remainders: two positions
with one slot are a lap apart (`EqualRemainders`), so no two of the `QueueCap`
positions of a lap meet. With `QueueImplementsInbox` what `TaskGraph` shows over
`Inbox` holds of the code's queue.

`TaskGraphProofs`, for all numbers of workers, nodes, lanes, tasks, edges and resets
and all capacities, builds on the lemmas of `ChaseLevDequeProofs`:

- `GraphTypesHold`: types and control. `TypeOK` is not inductive alone: that a frame of
  `execute` is on the stack when a step takes it off, or that a deque's operation is
  entered only when the last one is finished, depends on where a thread can be;
  `ControlOK` says so, and `HandlesOK` that the client's call has a task to work on.
- `GraphInduction`: `GraphInv`, the inductive invariant. `OnePlace`: there is one
  permission to run a task, it is in the `invoke` of one node or in one activation, and
  the body has run exactly when the activation is past it. `HeldOnce` and `NodesWait`:
  a node is in one place, in the pool, in `free_nodes_`, with a task to run, or in one
  activation until that has recycled it. `Nested`: only the innermost activation of a
  thread is past its successors. `Accounted`: `outstanding_` is, modulo 2^32, the tasks
  counted in less those finished; the last task may run before it is counted in.
- `GraphAtMostOnce`, `GraphFreeNodesAreIdle`, `GraphWaitMeansDone`: its consequences.
- `GraphBatchInduction`, `GraphBatchInv`, `GraphKeepsPromise`: for a client that creates
  its tasks before `submit` and never resets, a body runs only after the bodies of its
  prerequisites, it finds its own callable in the node, and the graph implements
  `TaskGraphSpec`.

Nothing in `GraphInv` speaks of what the deques hold: the deques lose nodes, hand them
out twice and invent them (section 3), and these results hold all the same. The
exchange of `invoke` is what keeps a task from running twice. `WaitMeansDone` needs a
count that cannot wrap to zero: every unfinished task has a node to itself or is the
innermost activation of a thread (`UnfinishedCount`), and `CounterAssumption` says that
nodes and threads are fewer than 2^32; a node takes four cache lines. The number of
tasks over the graph's life is not bounded by it.

The batch is where the contents of the deques matter: they may still lose a node or hand
it out twice, but what they hand out must be due. `BatchInduction` is `GraphInv` with
`OneBatch`, whose parts are

- `ClientPlace` and `FreshNodes`: where the client can be, and that a node has the one
  task it was created for, to the end, so that a node stands for its task;
- `Callables`: a node's callable is its task's until the body has run;
- `EdgeLists`: edges lead to later tasks, and the successors of a node are the
  dependents of its task, each once, as long as the task has not run or the loop over
  them is under way;
- `SharesCounted`: `pending` is the number of prerequisites that have not yet given
  up their share of it, with one more while `submit` holds its own; a share is given up
  once, by the activation of the prerequisite, which is one because the task runs once;
- `Pointers`: every pointer in a slot of a deque, in the inbox, in an operation, a
  dispatch or an activation of a thread is to the node of a task owed nothing
  (`ReadyNodes`); and `RanReady`: every task whose body has run is owed nothing.

A task owed nothing stays so, which is why a stale pointer does no harm here: it finds a
task that may run, or one that has. That `pending` does not wrap follows from
`CounterAssumption`, since every task has a node of its own (`CreatedFits`). The two
hypotheses are on the client and cannot be dropped. With a reset the same stale pointer
finds the node of a later task, as `graph_reset_reuse` shows; on a live graph it may run
a task before `create_task` has placed its callable. TLC checked `BatchInduction` on the
instances of `graph_dag` and `graph_two_workers`.

`ModuleRegistryProofs`, for all modules, names and kinds: `RegistryOneRecordPerName`
and `RegistryOwnershipExact`, from `RecordInv`, for every client. Exact ownership is
not inductive alone: a module whose instance the registry has must not be handed over
again, for which `RecordInv` adds that everything owned and registered was given away.
Erasing a record shifts the ones behind it; `RemovedModule` shows that exactly
one module goes with it, since no other record has its name.

For a client that is `Careful` (section 2; TLC shows what happens with one that is not)
the same module proves `RegistryTracksRunning`, `RegistryReadyNeedsReady`,
`RegistryCallsComplete`, `RegistryStopsInReverse`, `RegistryFailuresHaveCause`,
`RegistryShutdownOwed` and `RegistryKeepsLifecycle`, the refinement of `ModuleLifecycle`,
from `RegistryInv`. Its
heart is `OrderSound`, which says of `compute_order`'s vector that each module in it
comes after all its dependencies and that none whose dependencies have been dealt with
is left out. That a restart finds a place for the modules that are ready already needs
`ReadyFounded`: ready modules do not depend on one another in a circle. What the order
leaves out is a set whose members all wait for one another or for a failed one, which
is the cause `FailureHasCause` asks for.

`AllocatorProofs`, for the pool, all threads, blocks and tag widths: `PoolInvariant`,
`PoolNoBlockTwice`, `PoolNoBlockLost`, and `PoolImplementsStack`, the refinement of
`FreeStack`. The invariant says what a thread's old copies are worth
(`TagCounts`): tag and copied tag differ, modulo the wrap, by the number of
changes the thread has missed; as long as it has missed none, its index is the
head and its `nxt` the head's successor. `SwapIsFresh` then is the absence of ABA:
a swap whose tags agree has missed nothing. A write of `next_index_` cannot hurt a
fresh thread, because it goes to a block in the writer's hand, which is not in
the list. Assumed: `PoolAssumption` and `OneLap`, which is a guard of the swap.
`PoolCountExact` counts: `used_blocks` is the size of `held` and of the set of threads
that have freed a block and not yet counted it, which is finite because the threads are.

For the arena, all threads, capacities, sizes and alignments: `ArenaInvariant`,
`ArenaKeepsApart` and `ArenaMarkExact`. Disjointness is nearly inductive: a successful
swap finds `offset_` as it was loaded, and `AlignUpAbove` and `ApartGrows` say that a
block cut above the offset is apart from the others. The mark needs `MarkInv`: a
thread between its swap and the mark is all that can hold the mark back, what it has
loaded of the mark is no more than the mark is now, and a thread in
`reset_high_water`, as long as it is alone, knows all that is in use. `ArenaInv` is
the conjunction, with `MarkInv` only while nothing overlapped.

For the stack, all capacities, sizes and alignments: `StackInvariant` and
`StackKeepsApart`. What is not inductive is a rewind; `MarkersAbove` adds that a
marker lies above every block made before it, so that whatever a rewind does to the
offset, the blocks it leaves are below it (`ApartShrinks`).

`InferenceEngineProofs`, for all numbers of jobs, workers, nodes, blocks and loads:
`EngineInvariant`, `EngineMemoryExact`, `EngineAnsweredByModel` and
`OrderlyTeardown`. The books of the memory need `DeviceOfNpu` (a job that skips the
step that frees device memory has none: only the NPU's backend takes any), and the
answers need `ModelInv`: until it is answered a job was submitted to the session the
engine still has, because the client loads only when it has its answers, and between
the run and the answer the result is what the answer must be, or, for a session without
a model on the device, one of those it can be. `NoneUnderWay` carries
`OrderlyTeardown`: with `EagerDestroy` FALSE no worker touches a destroyed member,
where the run `inference_teardown` shows that with TRUE one does.

`BenchProofs` is about what `MCBench` runs.

- The ring, for every capacity and every width of positions that is a multiple of it
  (`RingAssumption`; `2^64` and a power of two in the code): `RingInvariant` and
  `RingImplementsByteQueue`, for callers that ask whatever they like. `RingInv` says
  what a call still knows after its look at the other side: the producer found at least
  `wr.n` cells free, and they still are, for the consumer only frees more
  (`WriterInStep`); the consumer likewise (`ReaderInStep`). So the clamp in `commit_*`
  never cuts. Positions wrap and views split, so most of the lemmas are about
  remainders: a view's cells are consecutive modulo `Cap` (`Cell`), and `Cap` positions
  in a row have different cells. `MCImplementsByteQueue` is the same for the ring's two
  real callers, whose steps are steps of such callers.
- The audio pipeline, for all sizes of calls and frames and every even capacity:
  `MCSamplesInOrder`. `AudioInv` says that the ring holds the samples from `Oldest`,
  the next to be heard, to `Newest`, the last one spoken, with the calls under way
  accounted for, and that what `frames()` promised is still there. That the capacity is
  even (`AudioAssumption`) is what keeps a clamped write from cutting a sample in half;
  the code rounds it up to a power of two, so it excludes the ring of one byte alone.
- The decoder, for all sizes of frames, payloads and chunks: `VideoInvariant` and
  `VideoPacketsInOrder`. `Layout` says that the packets under way lie one behind the
  other in the ring, the first with `Consumed` cells already taken, the last with
  `Missing` cells yet to come. So a read of what the decoder believes to be a header is
  one, after frames cut short, drained rests and a close in between. `VideoFramesStay`
  needs the ring for nothing: the frames held are in the slots behind the current one
  (`HeldBehind`).
- The collector: `TelemetrySamplesOnce`, from `OutInOrder`: what was delivered, and what
  the slots hold after it, is one increasing sequence.
- The bench, for any frames, independent tasks and slots: `BenchInvariant`,
  `BenchFrameMemoryLive` and `BenchTraceWhole`. Of `BenchInv`, `TasksInStep` says that
  the graph has tasks only between their creation and the end of the wait, and that
  until then they hold the current epoch; it is kept by `Done` in `Wait`, for tasks that
  were lost or run out of turn too, and `FrameMemoryLive` follows. `RecordersInStep` says
  which threads are between a reservation and its stores: a job's before or after its
  answer, a task's after its body. `JobsInStep` says that an answer is owed only between
  the submission and the `get` of `main`, so that at the export the jobs' threads that
  still record are past the answer (`Late`). `SlotsInStep` accounts for every slot:
  filled, being filled by one thread, or dropped. `BenchTraceWhole` is the action property
  of the export that follows from the last three.

The invariants the runs check are defined with the model; what makes them inductive is
at the head of the module that proves it. Every inductive invariant was first checked
by TLC on the instance of the component's run. Assumed are the constants' assumptions
alone: `BumpAssumption`, `StackAssumption`, `PoolAssumption`, `EngineAssumption`,
`TaskGraphAssumption`, `CounterAssumption`, `BenchAssumption`, `RingAssumption`,
`AudioAssumption`, `VideoAssumption`, those of the deque, the queue, the registry and
the profiler, and the discipline stated in `ClientConserves` and in the theorems on
one batch. TLC evaluates each named one in a run.

Only model-checked is liveness (`OnlyLossBlocksWait`, `AcceptedAnswered`,
`BenchVerdict`), which is out of the prover's reach. Every invariant and every action
property of the passing runs is proved, and so are the refinements.

Induction: the library's induction rules take an operator as a parameter, which the
provers cannot instantiate. `Listed`, the one recursive function the proofs reason about
(the scan over the records in `compute_order`), is taken apart with the least
counterexample instead (`LeastNatural`, from `WFMin`).

## 5. Plan

Done: every component with state of its own has a module and a run. What would
add most from here:

1. **An observer of the ring** on a third thread, whose `size()` loads the two
   positions one after the other (`zero_copy_ring.cpp:87`).
2. **Odd byte counts** through `write_bytes` and `read_bytes`, which split samples.

## 6. Not modelled

- `PropertyRegistry`: a list of names, types and addresses used by one thread at a
  time; its conversions between text and values are formatting.
- `simd_kernels`, the sessions' arithmetic, the device's simulated clock: floating
  point and timing, without state a property here is about.
- ONNX Runtime: the build without it, where `load_file` fails, is the one modelled;
  the other calls a library that is not in the repository.
- `tools/`, the command line, the assets, the printing of `eoc_bench`: input and output.
- The weak memory model: memory is sequentially consistent throughout, so that
  reorderings the code's acquire and release orders permit are not explored.
- Data races whose outcomes nothing depends on: `accelerator` in the engine and
  `last_op_us_` in the device.
