----------------------- MODULE InferenceEngineProofs -----------------------
(* For any number of jobs, workers, nodes, blocks and loads: what the engine  *)
(* takes it gives back, its answers come from the right model, and a client   *)
(* that lets the workers finish may destroy it.                               *)
EXTENDS InferenceEngine, FiniteSetTheorems, TLAPS

-----------------------------------------------------------------------------
(* What makes MemoryExact, AnsweredByModel and NoUseAfterDestroy inductive. *)

\* Until it is answered a job's session is the engine's,
\* since a load waits for the answers, and between the run and the answer the
\* result is what the answer will be.
ModelInv ==
  \A j \in Job :
    /\ phase[j] \in Unanswered \cup {"gone"} => answer[j] = None
    /\ phase[j] \in Unanswered \ {"new"} => asked[j] = session
    /\ phase[j] \in {"new", "made"} => ~filled[j]
    /\ phase[j] \in Executing => filled[j]
    /\ result[j] \in IF phase[j] \in {"free", "answer"} THEN Expected(j) ELSE {Zeros}
    /\ answer[j] # None => answer[j] \in Expected(j)

\* A client that lets the workers finish first leaves no job under way.
NoneUnderWay == torn > 0 /\ ~EagerDestroy => \A j \in Job : phase[j] \in {"new", "gone"}

\* The host's run takes no device memory: its jobs skip the step that gives it back.
DeviceOfNpu ==
  device # {} \/ In({"malloc_in", "malloc_out"}) # {} => backend = "npu"

EngineInv == TypeOK /\ MemoryExact /\ ModelInv /\ DeviceOfNpu /\ NoneUnderWay

-----------------------------------------------------------------------------
\* a pool that takes one more job while a block is free does not run over
LEMMA OneMoreFits ==
  ASSUME NEW S, S \subseteq Job, NEW j \in Job, NEW n \in Nat, Cardinality(S) < n
  PROVE  Cardinality(S \cup {j}) <= n
<1>1. IsFiniteSet(Job)
  BY EngineAssumption, FS_Interval DEF Job
<1>2. IsFiniteSet(S) /\ Cardinality(S) \in Nat
  BY <1>1, FS_Subset, FS_CardinalityType
<1>3. QED
  BY <1>2, FS_AddElement

LEMMA OneLessFits ==
  ASSUME NEW S, S \subseteq Job, NEW j, NEW n \in Nat, Cardinality(S) <= n
  PROVE  Cardinality(S \ {j}) <= n
<1>1. IsFiniteSet(Job)
  BY EngineAssumption, FS_Interval DEF Job
<1>2. IsFiniteSet(S) /\ Cardinality(S) \in Nat
  BY <1>1, FS_Subset, FS_CardinalityType
<1>3. QED
  BY <1>2, FS_RemoveElement

LEMMA EngineInitInv ==
  ASSUME Init
  PROVE  EngineInv
<1>1. TypeOK
  BY DEF Init, TypeOK, Phases, Unanswered, NoModel
<1>2. MemoryExact
  BY EngineAssumption, FS_EmptySet
     DEF Init, MemoryExact, In, HasJob, HasTensor, Phases, Unanswered, Running, Executing
<1>3. ModelInv
  BY DEF Init, ModelInv, Unanswered, Executing
<1>4. DeviceOfNpu /\ NoneUnderWay
  BY DEF Init, DeviceOfNpu, NoneUnderWay, In
<1>5. QED
  BY <1>1, <1>2, <1>3, <1>4 DEF EngineInv

-----------------------------------------------------------------------------
(* Types *)

LEMMA TypeStep ==
  ASSUME TypeOK, [Next]_vars
  PROVE  TypeOK'
<1> USE DEF TypeOK, Go, Phases, Unanswered, Running, Executing
<1>1. ASSUME NEW j \in Job, AllocJob(j) PROVE TypeOK'
  BY <1>1 DEF AllocJob
<1>2. ASSUME NEW j \in Job, MakeTensor(j) PROVE TypeOK'
  BY <1>2 DEF MakeTensor
<1>3. ASSUME NEW j \in Job, CreateTask(j) PROVE TypeOK'
  BY <1>3 DEF CreateTask, memoryVars, jobVars
<1>4. ASSUME NEW j \in Job, Take(j) PROVE TypeOK'
  BY <1>4 DEF Take, memoryVars, jobVars
<1>5. ASSUME NEW j \in Job, NpuMalloc(j) PROVE TypeOK'
  BY <1>5 DEF NpuMalloc, memoryVars, jobVars
<1>6. ASSUME NEW j \in Job, Run(j) PROVE TypeOK'
  <2>1. Unwritten(session) \subseteq Nat \cup {Zeros, Garbage}
    BY DEF Unwritten
  <2>2. \E r \in Nat \cup {Zeros, Garbage} : result' = [result EXCEPT ![j] = r]
    BY <1>6, <2>1 DEF Run
  <2>3. \E p \in {"free", "answer"} : Go(j, p)
    BY <1>6 DEF Run
  <2>4. UNCHANGED <<backend, session, memoryVars, device, jobVars, answer, torn>>
    BY <1>6 DEF Run
  <2>5. QED
    BY <2>2, <2>3, <2>4 DEF memoryVars, jobVars
<1>7. ASSUME NEW j \in Job, NpuFree(j) PROVE TypeOK'
  BY <1>7 DEF NpuFree, memoryVars, jobVars
<1>8. ASSUME NEW j \in Job, Answer(j) PROVE TypeOK'
  BY <1>8 DEF Answer, memoryVars, jobVars
<1>9. ASSUME NEW j \in Job, KeepPromise(j) PROVE TypeOK'
  BY <1>9 DEF KeepPromise, memoryVars, jobVars
<1>10. ASSUME NEW j \in Job, ReleaseTensor(j) PROVE TypeOK'
  BY <1>10 DEF ReleaseTensor, jobVars
<1>11. ASSUME NEW j \in Job, ReleaseJob(j) PROVE TypeOK'
  BY <1>11 DEF ReleaseJob, jobVars
<1>12. ASSUME NEW j \in Job, EndTask(j) PROVE TypeOK'
  BY <1>12 DEF EndTask, memoryVars, NoModel
<1>13. CASE Load
  BY <1>13 DEF Load, memoryVars, jobVars
<1>14. CASE BeginDestroy
  BY <1>14 DEF BeginDestroy, memoryVars, jobVars
<1>15. CASE DestroyMember
  BY <1>15 DEF DestroyMember, memoryVars, jobVars
<1>16. CASE UNCHANGED vars
  BY <1>16 DEF vars, memoryVars, jobVars
<1>17. ASSUME NEW j \in Job, Lose(j) \/ Find(j) PROVE TypeOK'
  BY <1>17 DEF Lose, Find, memoryVars, jobVars
<1>18. QED
  BY <1>1, <1>2, <1>3, <1>4, <1>5, <1>6, <1>7, <1>8, <1>9, <1>10, <1>11, <1>12,
     <1>13, <1>14, <1>15, <1>16, <1>17 DEF Next, ClientStep, WorkerStep

-----------------------------------------------------------------------------
(* Memory *)

\* A step that moves one job within the phases that have an input, and leaves the
\* host's memory alone.
LEMMA MoveKeepsMemory ==
  ASSUME TypeOK, MemoryExact, NEW j \in Job, NEW p, Go(j, p),
         phase[j] \in HasTensor, p \in HasTensor,
         UNCHANGED memoryVars, UNCHANGED filled,
         \A b \in device' : b[1] \in Job /\ phase'[b[1]] \in Executing
  PROVE  MemoryExact'
<1>1. \A i \in Job : /\ phase'[i] \in HasJob <=> phase[i] \in HasJob
                     /\ phase'[i] \in HasTensor <=> phase[i] \in HasTensor
  BY DEF Go, TypeOK, HasTensor
<1>2. In(HasJob)' = In(HasJob)
  BY <1>1 DEF In, HasJob, Phases, Unanswered, Running, Executing
<1>3. {i \in In(HasTensor) : filled[i]}' = {i \in In(HasTensor) : filled[i]}
  BY <1>1 DEF In, HasTensor, HasJob, Phases, Unanswered, Running, Executing
<1>4. QED
  BY <1>2, <1>3 DEF MemoryExact, memoryVars

\* the blocks on the device belong to jobs that execute, before and after a step
\* of a job that leaves the device alone and does not execute or goes on to
LEMMA MoveKeepsDevice ==
  ASSUME TypeOK, MemoryExact, NEW j \in Job, NEW p, Go(j, p),
         phase[j] \notin Executing \/ p \in Executing,
         UNCHANGED device
  PROVE  \A b \in device' : b[1] \in Job /\ phase'[b[1]] \in Executing
BY DEF TypeOK, MemoryExact, Go

LEMMA MemoryStep ==
  ASSUME TypeOK, MemoryExact, ModelInv, DeviceOfNpu, [Next]_vars
  PROVE  MemoryExact'
<1> USE DEF HasJob, HasTensor, Phases, Unanswered, Running, Executing
<1>1. ASSUME NEW j \in Job, AllocJob(j) PROVE MemoryExact'
  <2>1. /\ phase[j] = "new" /\ Go(j, "made") /\ ~filled[j]
        /\ UNCHANGED <<tensorPool, tensorHeap, device, filled>>
    BY <1>1 DEF AllocJob, ModelInv
  <2>2. \/ /\ Cardinality(jobPool) < JobBlocks
           /\ jobPool' = jobPool \cup {j} /\ jobHeap' = jobHeap
        \/ jobHeap' = jobHeap \cup {j} /\ jobPool' = jobPool
    BY <1>1 DEF AllocJob
  <2>3. j \notin jobPool /\ j \notin jobHeap
    BY <2>1 DEF MemoryExact, In
  <2>4. \A i \in Job : /\ phase'[i] \in HasJob <=> phase[i] \in HasJob \/ i = j
                       /\ filled[i] => (phase'[i] \in HasTensor <=> phase[i] \in HasTensor)
    BY <2>1 DEF Go, TypeOK
  <2>5. In(HasJob)' = In(HasJob) \cup {j}
    BY <2>4 DEF In
  <2>6. {i \in In(HasTensor) : filled[i]}' = {i \in In(HasTensor) : filled[i]}
    BY <2>1, <2>4 DEF In
  <2>7. (jobPool \cap jobHeap)' = {} /\ (jobPool \cup jobHeap)' = In(HasJob)'
    BY <2>2, <2>3, <2>5 DEF MemoryExact
  <2>8. Cardinality(jobPool') <= JobBlocks
    BY <2>2, OneMoreFits, EngineAssumption DEF MemoryExact, TypeOK
  <2>9. \A b \in device' : phase'[b[1]] \in Executing
    BY <2>1, MoveKeepsDevice
  <2>10. QED
    BY <2>1, <2>6, <2>7, <2>8, <2>9 DEF MemoryExact
<1>2. ASSUME NEW j \in Job, MakeTensor(j) PROVE MemoryExact'
  <2>1. /\ phase[j] = "made" /\ Go(j, "ready") /\ ~filled[j]
        /\ UNCHANGED <<jobPool, jobHeap, device>>
    BY <1>2 DEF MakeTensor, ModelInv
  <2>2. \/ /\ Cardinality(tensorPool) < TensorBlocks
           /\ tensorPool' = tensorPool \cup {j} /\ tensorHeap' = tensorHeap
           /\ filled' = [filled EXCEPT ![j] = TRUE]
        \/ /\ tensorHeap' = tensorHeap \cup {j} /\ tensorPool' = tensorPool
           /\ filled' = [filled EXCEPT ![j] = TRUE]
        \/ UNCHANGED <<tensorPool, tensorHeap, filled>>
    BY <1>2 DEF MakeTensor
  <2>3. j \notin tensorPool /\ j \notin tensorHeap
    BY <2>1 DEF MemoryExact, In
  <2>4. \A i \in Job : /\ phase'[i] \in HasJob <=> phase[i] \in HasJob
                       /\ phase'[i] \in HasTensor <=> phase[i] \in HasTensor \/ i = j
    BY <2>1 DEF Go, TypeOK
  <2>5. In(HasJob)' = In(HasJob)
    BY <2>4 DEF In
  <2>6. \A i \in Job : i # j => (filled'[i] <=> filled[i])
    BY <2>1, <2>2 DEF TypeOK
  <2>7. /\ (tensorPool \cap tensorHeap)' = {}
        /\ (tensorPool \cup tensorHeap)' = {i \in In(HasTensor) : filled[i]}'
    <3>1. CASE UNCHANGED <<tensorPool, tensorHeap, filled>>
      <4>1. {i \in In(HasTensor) : filled[i]}' = {i \in In(HasTensor) : filled[i]}
        BY <2>1, <2>4, <3>1 DEF In
      <4>2. QED
        BY <3>1, <4>1 DEF MemoryExact
    <3>2. CASE filled' = [filled EXCEPT ![j] = TRUE]
      <4>1. {i \in In(HasTensor) : filled[i]}' = {i \in In(HasTensor) : filled[i]} \cup {j}
        BY <2>4, <2>6, <3>2 DEF In, TypeOK
      <4>2. \/ tensorPool' = tensorPool \cup {j} /\ tensorHeap' = tensorHeap
            \/ tensorHeap' = tensorHeap \cup {j} /\ tensorPool' = tensorPool
        <5>1. filled' # filled
          BY <2>1, <3>2 DEF TypeOK
        <5>2. QED
          BY <2>2, <5>1
      <4>3. QED
        BY <2>3, <4>1, <4>2 DEF MemoryExact
    <3>3. QED
      BY <2>2, <3>1, <3>2, Zenon
  <2>8. Cardinality(tensorPool') <= TensorBlocks
    BY <2>2, OneMoreFits, EngineAssumption DEF MemoryExact, TypeOK
  <2>9. \A b \in device' : phase'[b[1]] \in Executing
    BY <2>1, MoveKeepsDevice
  <2>10. QED
    BY <2>1, <2>5, <2>7, <2>8, <2>9 DEF MemoryExact
<1>3. ASSUME NEW j \in Job, CreateTask(j) PROVE MemoryExact'
  <2>1. PICK p \in {"queued", "refused"} : Go(j, p)
    BY <1>3 DEF CreateTask
  <2>2. phase[j] = "ready" /\ UNCHANGED memoryVars /\ UNCHANGED filled /\ UNCHANGED device
    BY <1>3 DEF CreateTask, jobVars
  <2>3. QED
    BY <2>1, <2>2, MoveKeepsDevice, MoveKeepsMemory
<1>4. ASSUME NEW j \in Job, Take(j) PROVE MemoryExact'
  <2>1. PICK p \in {"answer", "malloc_in", "run"} : Go(j, p)
    BY <1>4 DEF Take
  <2>2. phase[j] = "queued" /\ UNCHANGED memoryVars /\ UNCHANGED filled /\ UNCHANGED device
    BY <1>4 DEF Take, CanTake, jobVars
  <2>3. QED
    BY <2>1, <2>2, MoveKeepsDevice, MoveKeepsMemory
<1>5. ASSUME NEW j \in Job, NpuMalloc(j) PROVE MemoryExact'
  <2>1. PICK p \in {"malloc_out", "run"} : Go(j, p)
    BY <1>5 DEF NpuMalloc
  <2>2. /\ phase[j] \in {"malloc_in", "malloc_out"}
        /\ UNCHANGED memoryVars /\ UNCHANGED filled
        /\ device' \subseteq device \cup {<<j, "in">>, <<j, "out">>}
    BY <1>5 DEF NpuMalloc, jobVars
  <2>3. \A b \in device' : b[1] \in Job /\ phase'[b[1]] \in Executing
    BY <2>1, <2>2 DEF TypeOK, MemoryExact, Go
  <2>4. QED
    BY <2>1, <2>2, <2>3, MoveKeepsMemory
<1>6. ASSUME NEW j \in Job, Run(j) PROVE MemoryExact'
  <2>1. PICK p \in {"free", "answer"} : Go(j, p) /\ (p = "answer" => backend # "npu")
    BY <1>6 DEF Run
  <2>2. phase[j] = "run" /\ UNCHANGED memoryVars /\ UNCHANGED filled /\ UNCHANGED device
    BY <1>6 DEF Run, jobVars
  <2>3. \A b \in device' : b[1] \in Job /\ phase'[b[1]] \in Executing
    BY <2>1, <2>2 DEF TypeOK, MemoryExact, DeviceOfNpu, Go
  <2>4. QED
    BY <2>1, <2>2, <2>3, MoveKeepsMemory
<1>7. ASSUME NEW j \in Job, NpuFree(j) PROVE MemoryExact'
  <2>1. /\ phase[j] = "free" /\ Go(j, "answer")
        /\ UNCHANGED memoryVars /\ UNCHANGED filled
        /\ device' = device \ {<<j, "in">>, <<j, "out">>}
    BY <1>7 DEF NpuFree, jobVars
  <2>2. \A b \in device' : b \in device /\ b[1] \in Job /\ b[1] # j
    BY <2>1 DEF TypeOK
  <2>3. \A b \in device' : b[1] \in Job /\ phase'[b[1]] \in Executing
    BY <2>1, <2>2 DEF TypeOK, MemoryExact, Go
  <2>4. QED
    BY <2>1, <2>3, MoveKeepsMemory
<1>8. ASSUME NEW j \in Job, Answer(j) PROVE MemoryExact'
  <2>1. PICK p \in {"promise", "tensor"} : Go(j, p)
    BY <1>8 DEF Answer
  <2>2. phase[j] = "answer" /\ UNCHANGED memoryVars /\ UNCHANGED filled /\ UNCHANGED device
    BY <1>8 DEF Answer, jobVars
  <2>3. QED
    BY <2>1, <2>2, MoveKeepsDevice, MoveKeepsMemory
<1>9. ASSUME NEW j \in Job, KeepPromise(j) PROVE MemoryExact'
  <2>1. /\ phase[j] = "promise" /\ Go(j, "tensor")
        /\ UNCHANGED memoryVars /\ UNCHANGED filled /\ UNCHANGED device
    BY <1>9 DEF KeepPromise, jobVars
  <2>2. QED
    BY <2>1, MoveKeepsDevice, MoveKeepsMemory
<1>10. ASSUME NEW j \in Job, ReleaseTensor(j) PROVE MemoryExact'
  <2>1. /\ phase[j] = "tensor" /\ Go(j, "job")
        /\ tensorPool' = tensorPool \ {j} /\ tensorHeap' = tensorHeap \ {j}
        /\ UNCHANGED <<jobPool, jobHeap, device, filled>>
    BY <1>10 DEF ReleaseTensor, jobVars
  <2>2. \A i \in Job : /\ phase'[i] \in HasJob <=> phase[i] \in HasJob
                       /\ phase'[i] \in HasTensor <=> phase[i] \in HasTensor /\ i # j
    BY <2>1 DEF Go, TypeOK
  <2>3. In(HasJob)' = In(HasJob)
    BY <2>2 DEF In
  <2>4. {i \in In(HasTensor) : filled[i]}' = {i \in In(HasTensor) : filled[i]} \ {j}
    BY <2>1, <2>2 DEF In
  <2>5. Cardinality(tensorPool') <= TensorBlocks
    BY <2>1, OneLessFits, EngineAssumption DEF MemoryExact, TypeOK
  <2>6. \A b \in device' : phase'[b[1]] \in Executing
    BY <2>1, MoveKeepsDevice
  <2>7. QED
    BY <2>1, <2>3, <2>4, <2>5, <2>6 DEF MemoryExact
<1>11. ASSUME NEW j \in Job, ReleaseJob(j) PROVE MemoryExact'
  <2>1. /\ phase[j] = "job" /\ Go(j, "end")
        /\ UNCHANGED <<tensorPool, tensorHeap, device, filled>>
    BY <1>11 DEF ReleaseJob, jobVars
  <2>2. \/ j \in jobPool /\ jobPool' = jobPool \ {j} /\ jobHeap' = jobHeap
        \/ j \notin jobPool /\ jobHeap' = jobHeap \ {j} /\ jobPool' = jobPool
    BY <1>11 DEF ReleaseJob
  <2>3. \A i \in Job : /\ phase'[i] \in HasJob <=> phase[i] \in HasJob /\ i # j
                       /\ phase'[i] \in HasTensor <=> phase[i] \in HasTensor
    BY <2>1 DEF Go, TypeOK
  <2>4. In(HasJob)' = In(HasJob) \ {j}
    BY <2>3 DEF In
  <2>5. {i \in In(HasTensor) : filled[i]}' = {i \in In(HasTensor) : filled[i]}
    BY <2>1, <2>3 DEF In
  <2>6. (jobPool \cap jobHeap)' = {} /\ (jobPool \cup jobHeap)' = In(HasJob)'
    BY <2>2, <2>4 DEF MemoryExact
  <2>7. Cardinality(jobPool') <= JobBlocks
    BY <2>2, OneLessFits, EngineAssumption DEF MemoryExact, TypeOK
  <2>8. \A b \in device' : phase'[b[1]] \in Executing
    BY <2>1, MoveKeepsDevice
  <2>9. QED
    BY <2>1, <2>5, <2>6, <2>7, <2>8 DEF MemoryExact
<1>12. ASSUME NEW j \in Job, EndTask(j) PROVE MemoryExact'
  <2>1. /\ phase[j] = "end" /\ Go(j, "gone")
        /\ filled' = [filled EXCEPT ![j] = FALSE]
        /\ UNCHANGED memoryVars /\ UNCHANGED device
    BY <1>12 DEF EndTask
  <2>2. \A i \in Job : /\ phase'[i] \in HasJob <=> phase[i] \in HasJob
                       /\ phase'[i] \in HasTensor <=> phase[i] \in HasTensor
                       /\ phase[i] \in HasTensor => filled'[i] = filled[i]
    BY <2>1 DEF Go, TypeOK
  <2>3. In(HasJob)' = In(HasJob)
    BY <2>2 DEF In
  <2>4. {i \in In(HasTensor) : filled[i]}' = {i \in In(HasTensor) : filled[i]}
    BY <2>2 DEF In
  <2>5. \A b \in device' : phase'[b[1]] \in Executing
    BY <2>1, MoveKeepsDevice
  <2>6. QED
    BY <2>1, <2>3, <2>4, <2>5 DEF MemoryExact, memoryVars
<1>13. CASE Load
  BY <1>13 DEF Load, MemoryExact, In, memoryVars, jobVars
<1>14. CASE BeginDestroy
  BY <1>14 DEF BeginDestroy, MemoryExact, In, memoryVars, jobVars
<1>15. CASE DestroyMember
  BY <1>15 DEF DestroyMember, MemoryExact, In, memoryVars, jobVars
<1>16. CASE UNCHANGED vars
  BY <1>16 DEF vars, MemoryExact, In, memoryVars, jobVars
<1>17. ASSUME NEW j \in Job, Lose(j) \/ Find(j) PROVE MemoryExact'
  <2>1. PICK p \in {"queued", "lost"} : Go(j, p)
    BY <1>17 DEF Lose, Find
  <2>2. /\ phase[j] \in {"queued", "lost"}
        /\ UNCHANGED memoryVars /\ UNCHANGED filled /\ UNCHANGED device
    BY <1>17 DEF Lose, Find, jobVars
  <2>3. QED
    BY <2>1, <2>2, MoveKeepsDevice, MoveKeepsMemory
<1>18. QED
  BY <1>1, <1>2, <1>3, <1>4, <1>5, <1>6, <1>7, <1>8, <1>9, <1>10, <1>11, <1>12,
     <1>13, <1>14, <1>15, <1>16, <1>17 DEF Next, ClientStep, WorkerStep

-----------------------------------------------------------------------------
(* Answers *)

LEMMA ModelStep ==
  ASSUME TypeOK, ModelInv, DeviceOfNpu, [Next]_vars
  PROVE  ModelInv'
<1> USE DEF TypeOK, ModelInv, Expected, Go, Phases, Unanswered, Running, Executing
<1>1. ASSUME NEW j \in Job, AllocJob(j) PROVE ModelInv'
  BY <1>1 DEF AllocJob, memoryVars, jobVars
<1>2. ASSUME NEW j \in Job, MakeTensor(j) PROVE ModelInv'
  BY <1>2 DEF MakeTensor, memoryVars, jobVars
<1>3. ASSUME NEW j \in Job, CreateTask(j) PROVE ModelInv'
  BY <1>3 DEF CreateTask, memoryVars, jobVars
<1>4. ASSUME NEW j \in Job, Take(j) PROVE ModelInv'
  <2>1. PICK p \in {"answer", "malloc_in", "run"} :
          Go(j, p) /\ (p = "answer" <=> ~filled[j])
    BY <1>4 DEF Take
  <2>2. phase[j] = "queued" /\ torn < 5
    BY <1>4 DEF Take, CanTake
  <2>3. UNCHANGED <<backend, session, torn, asked, filled, result, answer>>
    BY <1>4 DEF Take, jobVars
  <2>4. QED
    BY <2>1, <2>2, <2>3
<1>5. ASSUME NEW j \in Job, NpuMalloc(j) PROVE ModelInv'
  BY <1>5 DEF NpuMalloc, memoryVars, jobVars
<1>6. ASSUME NEW j \in Job, Run(j) PROVE ModelInv'
  <2>1. PICK r : /\ result' = [result EXCEPT ![j] = r]
                 /\ r \in IF session.ready THEN {session.load}
                         ELSE IF {<<j, "in">>, <<j, "out">>} \subseteq device
                              THEN Unwritten(session)
                         ELSE {Zeros}
    BY <1>6 DEF Run
  <2>2. {<<j, "in">>, <<j, "out">>} \subseteq device => backend = "npu"
    BY DEF DeviceOfNpu
  <2>3. Zeros \in Unwritten(session)
    BY DEF Unwritten
  <2>4. phase[j] = "run" /\ asked[j] = session /\ filled[j]
    BY <1>6 DEF Run
  <2>5. r \in Expected(j)
    BY <2>1, <2>2, <2>3, <2>4
  <2>6. PICK p \in {"free", "answer"} : Go(j, p)
    BY <1>6 DEF Run
  <2>7. UNCHANGED <<backend, session, asked, filled, answer>>
    BY <1>6 DEF Run, jobVars
  <2>8. QED
    BY <2>1, <2>4, <2>5, <2>6, <2>7
<1>7. ASSUME NEW j \in Job, NpuFree(j) PROVE ModelInv'
  BY <1>7 DEF NpuFree, memoryVars, jobVars
<1>8. ASSUME NEW j \in Job, Answer(j) PROVE ModelInv'
  BY <1>8 DEF Answer, memoryVars, jobVars
<1>9. ASSUME NEW j \in Job, KeepPromise(j) PROVE ModelInv'
  BY <1>9 DEF KeepPromise, memoryVars, jobVars
<1>10. ASSUME NEW j \in Job, ReleaseTensor(j) PROVE ModelInv'
  BY <1>10 DEF ReleaseTensor, memoryVars, jobVars
<1>11. ASSUME NEW j \in Job, ReleaseJob(j) PROVE ModelInv'
  BY <1>11 DEF ReleaseJob, memoryVars, jobVars
<1>12. ASSUME NEW j \in Job, EndTask(j) PROVE ModelInv'
  BY <1>12 DEF EndTask, memoryVars, jobVars
<1>13. CASE Load
  BY <1>13 DEF Load, AllAnswered, memoryVars, jobVars
<1>14. CASE BeginDestroy
  BY <1>14 DEF BeginDestroy, memoryVars, jobVars
<1>15. CASE DestroyMember
  BY <1>15 DEF DestroyMember, memoryVars, jobVars
<1>16. CASE UNCHANGED vars
  BY <1>16 DEF vars, memoryVars, jobVars
<1>17. ASSUME NEW j \in Job, Lose(j) \/ Find(j) PROVE ModelInv'
  BY <1>17 DEF Lose, Find, jobVars
<1>18. QED
  BY <1>1, <1>2, <1>3, <1>4, <1>5, <1>6, <1>7, <1>8, <1>9, <1>10, <1>11, <1>12,
     <1>13, <1>14, <1>15, <1>16, <1>17 DEF Next, ClientStep, WorkerStep

-----------------------------------------------------------------------------
(* The device *)

LEMMA DeviceStep ==
  ASSUME TypeOK, DeviceOfNpu, [Next]_vars
  PROVE  DeviceOfNpu'
<1> USE DEF TypeOK, DeviceOfNpu, In, Go, Phases, Unanswered, Running, Executing
<1>1. ASSUME NEW j \in Job, ClientStep(j) PROVE DeviceOfNpu'
  BY <1>1 DEF ClientStep, AllocJob, MakeTensor, CreateTask, memoryVars, jobVars
<1>2. ASSUME NEW j \in Job, Take(j) PROVE DeviceOfNpu'
  <2>1. PICK p \in {"answer", "malloc_in", "run"} :
          Go(j, p) /\ (p = "malloc_in" => backend = "npu")
    BY <1>2 DEF Take
  <2>2. UNCHANGED <<backend, device>>
    BY <1>2 DEF Take
  <2>3. QED
    BY <2>1, <2>2
<1>3. ASSUME NEW j \in Job, NpuMalloc(j) PROVE DeviceOfNpu'
  <2>1. backend = "npu" /\ UNCHANGED backend
    BY <1>3 DEF NpuMalloc
  <2>2. QED
    BY <2>1
<1>4. ASSUME NEW j \in Job, Run(j) PROVE DeviceOfNpu'
  BY <1>4 DEF Run
<1>5. ASSUME NEW j \in Job, NpuFree(j) PROVE DeviceOfNpu'
  BY <1>5 DEF NpuFree
<1>6. ASSUME NEW j \in Job, Answer(j) PROVE DeviceOfNpu'
  BY <1>6 DEF Answer
<1>7. ASSUME NEW j \in Job,
             KeepPromise(j) \/ ReleaseTensor(j) \/ ReleaseJob(j) \/ EndTask(j)
      PROVE  DeviceOfNpu'
  BY <1>7 DEF KeepPromise, ReleaseTensor, ReleaseJob, EndTask
<1>8. CASE Load \/ BeginDestroy \/ DestroyMember
  BY <1>8 DEF Load, BeginDestroy, DestroyMember
<1>9. CASE UNCHANGED vars
  BY <1>9 DEF vars
<1>10. ASSUME NEW j \in Job, Lose(j) \/ Find(j) PROVE DeviceOfNpu'
  BY <1>10 DEF Lose, Find
<1>11. QED
  BY <1>1, <1>2, <1>3, <1>4, <1>5, <1>6, <1>7, <1>8, <1>9, <1>10 DEF Next, WorkerStep

-----------------------------------------------------------------------------
(* Destruction *)

LEMMA UnderWayStep ==
  ASSUME TypeOK, ModelInv, NoneUnderWay, [Next]_vars
  PROVE  NoneUnderWay'
<1> USE EngineAssumption DEF TypeOK, NoneUnderWay, Go, Phases, Unanswered, Running, Executing
<1>1. ASSUME NEW j \in Job, AllocJob(j) PROVE NoneUnderWay'
  BY <1>1 DEF AllocJob, Idle
<1>2. ASSUME NEW j \in Job, MakeTensor(j) PROVE NoneUnderWay'
  BY <1>2 DEF MakeTensor
<1>3. ASSUME NEW j \in Job, CreateTask(j) PROVE NoneUnderWay'
  BY <1>3 DEF CreateTask
<1>4. ASSUME NEW j \in Job, Take(j) PROVE NoneUnderWay'
  <2>1. PICK p \in {"answer", "malloc_in", "run"} :
          Go(j, p) /\ (p = "answer" <=> ~filled[j])
    BY <1>4 DEF Take
  <2>2. phase[j] = "queued" /\ torn < 5
    BY <1>4 DEF Take, CanTake
  <2>3. UNCHANGED <<session, torn, asked, filled, result, answer>>
    BY <1>4 DEF Take, jobVars
  <2>4. QED
    BY <2>1, <2>2, <2>3
<1>5. ASSUME NEW j \in Job, NpuMalloc(j) PROVE NoneUnderWay'
  BY <1>5 DEF NpuMalloc
<1>6. ASSUME NEW j \in Job, Run(j) PROVE NoneUnderWay'
  BY <1>6 DEF Run
<1>7. ASSUME NEW j \in Job, NpuFree(j) PROVE NoneUnderWay'
  BY <1>7 DEF NpuFree
<1>8. ASSUME NEW j \in Job, Answer(j) PROVE NoneUnderWay'
  BY <1>8 DEF Answer
<1>9. ASSUME NEW j \in Job, KeepPromise(j) PROVE NoneUnderWay'
  BY <1>9 DEF KeepPromise
<1>10. ASSUME NEW j \in Job, ReleaseTensor(j) PROVE NoneUnderWay'
  BY <1>10 DEF ReleaseTensor
<1>11. ASSUME NEW j \in Job, ReleaseJob(j) PROVE NoneUnderWay'
  BY <1>11 DEF ReleaseJob
<1>12. ASSUME NEW j \in Job, EndTask(j) PROVE NoneUnderWay'
  BY <1>12 DEF EndTask
<1>13. CASE Load
  BY <1>13 DEF Load, memoryVars, jobVars
<1>14. CASE BeginDestroy
  BY <1>14 DEF BeginDestroy, ModelInv, AllAnswered, In, memoryVars, jobVars
<1>15. CASE DestroyMember
  BY <1>15 DEF DestroyMember
<1>16. CASE UNCHANGED vars
  BY <1>16 DEF vars, memoryVars, jobVars
<1>17. ASSUME NEW j \in Job, Lose(j) \/ Find(j) PROVE NoneUnderWay'
  BY <1>17 DEF Lose, Find
<1>18. QED
  BY <1>1, <1>2, <1>3, <1>4, <1>5, <1>6, <1>7, <1>8, <1>9, <1>10, <1>11, <1>12,
     <1>13, <1>14, <1>15, <1>16, <1>17 DEF Next, ClientStep, WorkerStep
-----------------------------------------------------------------------------
\* Every step of the client and of the workers preserves the invariant.
LEMMA EngineNextInv ==
  ASSUME EngineInv, [Next]_vars
  PROVE  EngineInv'
BY TypeStep, MemoryStep, ModelStep, DeviceStep, UnderWayStep DEF EngineInv

\* Whatever the numbers of jobs, workers, nodes and blocks, the types, the books of
\* the memory and what each job knows of its model hold in every state.
THEOREM EngineInvariant == Spec => []EngineInv
<1>1. Init => EngineInv
  BY EngineInitInv
<1>2. EngineInv /\ [Next]_vars => EngineInv'
  BY EngineNextInv
<1>3. QED
  BY <1>1, <1>2, PTL DEF Spec

\* The two pools, the heap and the device hold exactly what the jobs under way own,
\* and the pools never run over.
THEOREM EngineMemoryExact == Spec => []MemoryExact
<1>1. EngineInv => MemoryExact
  BY DEF EngineInv
<1>2. QED
  BY <1>1, EngineInvariant, PTL

\* Every answer comes from the model its job was submitted to; it is zeros without an
\* input and undetermined only without a model on the device.
THEOREM EngineAnsweredByModel == Spec => []AnsweredByModel
<1>1. EngineInv => AnsweredByModel
  BY DEF EngineInv, ModelInv, AnsweredByModel
<1>2. QED
  BY <1>1, EngineInvariant, PTL

\* A client that lets the workers finish before it destroys the engine never has a
\* worker touch a member that is gone.
THEOREM OrderlyTeardown ==
  ASSUME ~EagerDestroy
  PROVE  Spec => []NoUseAfterDestroy
<1>1. EngineInv => NoUseAfterDestroy
  <2>1. SUFFICES ASSUME EngineInv, NEW j \in Job, NEW i \in 1 .. 5,
                        Members[i] \in Touches(j)
                 PROVE  torn < i
    BY DEF NoUseAfterDestroy
  <2>2. ~(phase[j] \in {"new", "gone"})
    BY <2>1 DEF Touches
  <2>3. ~(torn > 0)
    BY <2>1, <2>2 DEF EngineInv, NoneUnderWay
  <2>4. QED
    BY <2>1, <2>3 DEF EngineInv, TypeOK
<1>2. QED
  BY <1>1, EngineInvariant, PTL
=============================================================================
