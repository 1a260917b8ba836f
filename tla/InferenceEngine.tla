-------------------------- MODULE InferenceEngine --------------------------
(***************************************************************************)
(* InferenceEngine (inference_engine.cpp) with the owners of its memory:   *)
(* TensorBuffer, SimulatedNpu and the two pools.  A client submits jobs to *)
(* a live task graph, loads models and destroys the engine; the graph's    *)
(* workers run the jobs.  The pools are what FreeStack says of them:       *)
(* allocate answers nullptr when no block is free.  The graph is what      *)
(* TaskGraphSpec says, no task runs twice, and what the run graph_hang     *)
(* shows of it: a client that dispatches while a worker pops may lose a    *)
(* task from its queue.                                                    *)
(*                                                                         *)
(* Built without ONNX Runtime, as load_file is then: it fails.  What a     *)
(* model computes is the number of the load it came with.  session.run     *)
(* writes nothing without a model: the answer is then the Zeros that out   *)
(* was made of, or whatever was in the device memory it is copied from.    *)
(* Inputs have the size the model asks for.                                *)
(***************************************************************************)
EXTENDS Integers, FiniteSets

CONSTANTS
  Jobs,          \* bound on the calls of submit
  Workers,       \* worker_count
  Nodes,         \* the nodes of the graph, 1024 in the code
  JobBlocks,     \* the blocks of job_pool, 256
  TensorBlocks,  \* the blocks of tensor_pool, 64
  MaxLoads,      \* bound on the models loaded
  EagerDestroy,  \* whether the client destroys the engine with its last answer
  None, Zeros,   \* no answer yet, and an answer without a run
  Garbage        \* memory nobody wrote, that holds nothing the engine computed

ASSUME EngineAssumption ==
  /\ Jobs \in Nat /\ Workers \in Nat \ {0} /\ Nodes \in Nat /\ MaxLoads \in Nat
  /\ JobBlocks \in Nat /\ TensorBlocks \in Nat /\ EagerDestroy \in BOOLEAN

VARIABLES
  backend,                \* backend, resolved
  session,                \* the model: its load, and whether it was a success
  phase,                  \* where each job is
  jobPool, jobHeap,       \* the jobs allocated from job_pool and with new
  tensorPool, tensorHeap, \* the jobs whose input is in a block of each kind
  device,                 \* SimulatedNpu's blocks, by job
  callback,               \* use_callback
  result,                 \* execute's out
  answer,                 \* what the future or the call back got
  asked,                  \* history: the session a job under way was submitted to
  filled,                 \* history: whether the job has an input
  torn                    \* how many members the destructor has destroyed

Job == 1 .. Jobs   \* in the order of their submission

memoryVars == <<jobPool, jobHeap, tensorPool, tensorHeap>>
jobVars == <<callback, asked, filled>>
vars == <<backend, session, phase, memoryVars, device, jobVars, result, answer, torn>>

\* resolve_backend, with no runtime_available
Resolve(requested) ==
  IF requested \in {"auto", "onnx"} THEN "npu" ELSE requested

NoModel == [load |-> 0, ready |-> FALSE]

\* the constructor loads the identity
Init ==
  /\ \E requested \in {"auto", "onnx", "npu", "simd"} : backend = Resolve(requested)
  /\ session = [load |-> 0, ready |-> TRUE]
  /\ phase = [j \in Job |-> "new"]
  /\ jobPool = {} /\ jobHeap = {} /\ tensorPool = {} /\ tensorHeap = {}
  /\ device = {}
  /\ callback = [j \in Job |-> FALSE]
  /\ asked = [j \in Job |-> NoModel]
  /\ filled = [j \in Job |-> FALSE]
  /\ result = [j \in Job |-> Zeros]
  /\ answer = [j \in Job |-> None]
  /\ torn = 0

Executing == {"malloc_in", "malloc_out", "run", "free"}
Running == Executing \cup {"answer", "promise", "tensor", "job", "end"}
Unanswered ==
  Executing \cup {"new", "made", "ready", "queued", "lost", "refused", "answer"}
Phases == Unanswered \cup Running \cup {"gone"}
In(phases) == {j \in Job : phase[j] \in phases}
Go(j, p) == phase' = [phase EXCEPT ![j] = p]

-----------------------------------------------------------------------------
\* the client
Idle == torn = 0 /\ In({"made", "ready"}) = {}

\* enqueue: alloc_job,
AllocJob(j) ==
  /\ Idle /\ phase[j] = "new" /\ \A i \in 1 .. j - 1 : phase[i] # "new"
  /\ IF Cardinality(jobPool) < JobBlocks
       THEN jobPool' = jobPool \cup {j} /\ UNCHANGED jobHeap
       ELSE jobHeap' = jobHeap \cup {j} /\ UNCHANGED jobPool
  /\ \E cb \in BOOLEAN : callback' = [callback EXCEPT ![j] = cb]
  /\ asked' = [asked EXCEPT ![j] = session]
  /\ Go(j, "made")
  /\ UNCHANGED <<backend, session, tensorPool, tensorHeap, device, filled, result, answer, torn>>

\* make_tensor: a block for an input that fits one, memory of its own for a large
\* one or when no block is free, and nothing for an empty input or without memory,
MakeTensor(j) ==
  /\ phase[j] = "made"
  /\ \/ /\ Cardinality(tensorPool) < TensorBlocks
        /\ tensorPool' = tensorPool \cup {j} /\ UNCHANGED tensorHeap
        /\ filled' = [filled EXCEPT ![j] = TRUE]
     \/ /\ tensorHeap' = tensorHeap \cup {j} /\ UNCHANGED tensorPool
        /\ filled' = [filled EXCEPT ![j] = TRUE]
     \/ UNCHANGED <<tensorPool, tensorHeap, filled>>
  /\ Go(j, "ready")
  /\ UNCHANGED <<backend, session, jobPool, jobHeap, device, callback, asked, result, answer, torn>>

\* and create_task, whose answer nobody looks at
CreateTask(j) ==
  /\ phase[j] = "ready"
  /\ IF Cardinality(In(Running \cup {"queued", "lost"})) < Nodes
       THEN Go(j, "queued") ELSE Go(j, "refused")
  /\ UNCHANGED <<backend, session, memoryVars, device, jobVars, result, answer, torn>>

\* the client has got whatever it asked for
AllAnswered == \A j \in Job : phase[j] \in {"new", "gone"} \/ answer[j] # None

\* load_linear and load_identity, and a load that clears the session and fails
Load ==
  /\ Idle /\ AllAnswered /\ session.load < MaxLoads
  /\ \E ok \in BOOLEAN : session' = [load |-> session.load + 1, ready |-> ok]
  /\ UNCHANGED <<backend, phase, memoryVars, device, jobVars, result, answer, torn>>

\* ~Impl destroys its members from the last to the first
Members == <<"npu", "session", "job_pool", "tensor_pool", "graph">>

\* Eager, the client has its answers; otherwise it has also let the workers finish.
BeginDestroy ==
  /\ Idle /\ AllAnswered
  /\ EagerDestroy \/ In(Running) = {}
  /\ torn' = 1 /\ device' = {}
  /\ UNCHANGED <<backend, session, phase, memoryVars, jobVars, result, answer>>

\* the graph's destructor waits for its workers
DestroyMember ==
  /\ torn \in 1 .. 4
  /\ torn = 4 => In(Running) = {}
  /\ torn' = torn + 1
  /\ UNCHANGED <<backend, session, phase, memoryVars, device, jobVars, result, answer>>

-----------------------------------------------------------------------------
\* the queues of the graph: create_task of a live graph pushes from the client's
\* thread, and a worker's pop under way may store bottom_ over that; a later push
\* may bring the task back into the window
Lose(j) ==
  /\ phase[j] = "queued" /\ Go(j, "lost")
  /\ UNCHANGED <<backend, session, memoryVars, device, jobVars, result, answer, torn>>

Find(j) ==
  /\ phase[j] = "lost" /\ Go(j, "queued")
  /\ UNCHANGED <<backend, session, memoryVars, device, jobVars, result, answer, torn>>

-----------------------------------------------------------------------------
\* the workers
CanTake(j) ==
  /\ phase[j] = "queued" /\ torn < 5
  /\ Cardinality(In(Running)) < Workers

\* Mutant: a job without input is not answered.
Take_EmptyDropped(j) ==
  /\ CanTake(j)
  /\ Go(j, IF ~filled[j] THEN "tensor" ELSE IF backend = "npu" THEN "malloc_in" ELSE "run")
  /\ UNCHANGED <<backend, session, memoryVars, device, jobVars, result, answer, torn>>

\* execute up to the choice of the backend; without input the answer is all zeros
Take(j) ==
  /\ CanTake(j)
  /\ Go(j, IF ~filled[j] THEN "answer" ELSE IF backend = "npu" THEN "malloc_in" ELSE "run")
  /\ UNCHANGED <<backend, session, memoryVars, device, jobVars, result, answer, torn>>

\* Mutant: no run on the host without device memory.
NpuMalloc_NoFallback(j) ==
  /\ \/ /\ phase[j] = "malloc_in"
        /\ \/ device' = device \cup {<<j, "in">>} /\ Go(j, "malloc_out")
           \/ UNCHANGED device /\ Go(j, "free")
     \/ /\ phase[j] = "malloc_out"
        /\ \/ device' = device \cup {<<j, "out">>} /\ Go(j, "run")
           \/ UNCHANGED device /\ Go(j, "free")
  /\ UNCHANGED <<backend, session, memoryVars, jobVars, result, answer, torn>>

\* npu.malloc of dx and dy: either may fail, and the host runs the model then
NpuMalloc(j) ==
  /\ \/ /\ phase[j] = "malloc_in"
        /\ \/ device' = device \cup {<<j, "in">>} /\ Go(j, "malloc_out")
           \/ UNCHANGED device /\ Go(j, "run")
     \/ /\ phase[j] = "malloc_out"
        /\ \/ device' = device \cup {<<j, "out">>} /\ Go(j, "run")
           \/ UNCHANGED device /\ Go(j, "run")
  /\ UNCHANGED <<backend, session, memoryVars, jobVars, result, answer, torn>>

\* a block of the device that was not written since its malloc: zeros, what an earlier
\* job left there, or anything else
Unwritten(s) == (0 .. s.load) \cup {Zeros, Garbage}

\* session.run, which does nothing without a model; on the device dy is copied to
\* out whatever it answered
Run(j) ==
  /\ phase[j] = "run"
  /\ \E r \in IF session.ready THEN {session.load}
             ELSE IF {<<j, "in">>, <<j, "out">>} \subseteq device THEN Unwritten(session)
             ELSE {Zeros} :
       result' = [result EXCEPT ![j] = r]
  /\ Go(j, IF backend = "npu" THEN "free" ELSE "answer")
  /\ UNCHANGED <<backend, session, memoryVars, device, jobVars, answer, torn>>

\* Mutant: dy is forgotten.
NpuFree_InOnly(j) ==
  /\ phase[j] = "free"
  /\ device' = device \ {<<j, "in">>}
  /\ Go(j, "answer")
  /\ UNCHANGED <<backend, session, memoryVars, jobVars, result, answer, torn>>

\* npu.free of dx and dy; nullptr is ignored
NpuFree(j) ==
  /\ phase[j] = "free"
  /\ device' = device \ {<<j, "in">>, <<j, "out">>}
  /\ Go(j, "answer")
  /\ UNCHANGED <<backend, session, memoryVars, jobVars, result, answer, torn>>

\* the call back, or the promise, gets the vector
Answer(j) ==
  /\ phase[j] = "answer"
  /\ answer' = [answer EXCEPT ![j] = result[j]]
  /\ result' = [result EXCEPT ![j] = Zeros]
  /\ Go(j, IF callback[j] THEN "promise" ELSE "tensor")
  /\ UNCHANGED <<backend, session, memoryVars, device, jobVars, torn>>

\* after a call back the promise gets an empty vector nobody waits for
KeepPromise(j) ==
  /\ phase[j] = "promise"
  /\ Go(j, "tensor")
  /\ UNCHANGED <<backend, session, memoryVars, device, jobVars, result, answer, torn>>

\* free_job: ~InferJob releases the input where it came from,
ReleaseTensor(j) ==
  /\ phase[j] = "tensor"
  /\ tensorPool' = tensorPool \ {j} /\ tensorHeap' = tensorHeap \ {j}
  /\ Go(j, "job")
  /\ UNCHANGED <<backend, session, jobPool, jobHeap, device, jobVars, result, answer, torn>>

\* and the job goes back to the pool if the pool owns it
ReleaseJob(j) ==
  /\ phase[j] = "job"
  /\ IF j \in jobPool
       THEN jobPool' = jobPool \ {j} /\ UNCHANGED jobHeap
       ELSE jobHeap' = jobHeap \ {j} /\ UNCHANGED jobPool
  /\ Go(j, "end")
  /\ UNCHANGED <<backend, session, tensorPool, tensorHeap, device, jobVars, result, answer, torn>>

\* the graph gets its node back; nothing is left of the job, and its answer is with
\* the client
EndTask(j) ==
  /\ phase[j] = "end"
  /\ Go(j, "gone")
  /\ callback' = [callback EXCEPT ![j] = FALSE]
  /\ filled' = [filled EXCEPT ![j] = FALSE]
  /\ asked' = [asked EXCEPT ![j] = NoModel]
  /\ answer' = [answer EXCEPT ![j] = None]
  /\ UNCHANGED <<backend, session, memoryVars, device, result, torn>>

ClientStep(j) == AllocJob(j) \/ MakeTensor(j) \/ CreateTask(j)
WorkerStep(j) ==
  \/ Take(j) \/ NpuMalloc(j) \/ Run(j) \/ NpuFree(j) \/ Answer(j)
  \/ KeepPromise(j) \/ ReleaseTensor(j) \/ ReleaseJob(j) \/ EndTask(j)

Next ==
  \/ \E j \in Job : ClientStep(j) \/ WorkerStep(j) \/ Lose(j) \/ Find(j)
  \/ Load \/ BeginDestroy \/ DestroyMember

\* as long as there is work in a queue or under way, some worker goes on with it
Spec == Init /\ [][Next]_vars /\ WF_vars(\E j \in Job : WorkerStep(j))

-----------------------------------------------------------------------------
TypeOK ==
  /\ session \in [load : Nat, ready : BOOLEAN]
  /\ asked \in [Job -> [load : Nat, ready : BOOLEAN]]
  /\ phase \in [Job -> Phases]
  /\ jobPool \subseteq Job /\ jobHeap \subseteq Job
  /\ tensorPool \subseteq Job /\ tensorHeap \subseteq Job
  /\ device \subseteq Job \X {"in", "out"}
  /\ callback \in [Job -> BOOLEAN] /\ filled \in [Job -> BOOLEAN]
  /\ result \in [Job -> Nat \cup {Zeros, Garbage}]
  /\ answer \in [Job -> Nat \cup {Zeros, Garbage, None}]
  /\ torn \in 0 .. 5

HasJob == Phases \ {"new", "end", "gone"}
HasTensor == HasJob \ {"made", "job"}

\* Every block in use belongs to one job, in the place it was taken from, and the
\* pools never run over; a finished job has given everything back, on the device
\* too when one of its two allocations failed.  The jobs create_task refused keep
\* theirs for ever, and those the graph has lost as long as they are.
MemoryExact ==
  /\ jobPool \cap jobHeap = {}
  /\ jobPool \cup jobHeap = In(HasJob)
  /\ tensorPool \cap tensorHeap = {}
  /\ tensorPool \cup tensorHeap = {j \in In(HasTensor) : filled[j]}
  /\ Cardinality(jobPool) <= JobBlocks /\ Cardinality(tensorPool) <= TensorBlocks
  /\ \A b \in device : phase[b[1]] \in Executing

\* what the session the job was submitted to makes of its input
Expected(j) ==
  IF ~filled[j] THEN {Zeros}
  ELSE IF asked[j].ready THEN {asked[j].load}
  ELSE IF backend = "npu" THEN Unwritten(asked[j])
  ELSE {Zeros}

\* An answer comes from the model the job was submitted to, whichever backend ran
\* it and however its device memory went: no load of a client that waits for its
\* answers gets in between.  A job without an input, and one without a model on the
\* host, gets zeros; without a model on the device its answer is undetermined, since
\* memory nobody wrote is copied into it (inference_engine.cpp:93).
AnsweredByModel ==
  \A j \in Job : answer[j] # None => answer[j] \in Expected(j)

\* Every job the graph accepted is answered at last, unless the graph loses it: the
\* engine's create_task and submit dispatch from the client's thread
\* (task_graph.cpp:275), which is how the run graph_hang loses a task.
AcceptedAnswered ==
  \A j \in Job : phase[j] = "queued" ~> answer[j] # None \/ phase[j] = "lost"

\* what the worker of a job touches next
Touches(j) ==
  CASE phase[j] \in {"malloc_in", "malloc_out", "free"} -> {"npu"}
    [] phase[j] = "run" -> {"session"}
    [] phase[j] = "tensor" /\ j \in tensorPool -> {"tensor_pool"}
    [] phase[j] = "promise" /\ j \in jobPool -> {"job_pool"}
    [] phase[j] = "job" -> {"job_pool"}
    [] OTHER -> {}

\* Whoever has its answers may destroy the engine: no worker touches a member that
\* is gone.  The tests do so, at the end of the scope that got the answer.
NoUseAfterDestroy ==
  \A j \in Job : \A i \in 1 .. 5 : Members[i] \in Touches(j) => torn < i
=============================================================================
