------------------------------- MODULE Bench -------------------------------
(***************************************************************************)
(* eoc_bench (main.cpp): main drives the components one after the other    *)
(* and then in frames.  Each component is what its own specification says: *)
(* a submitted batch of tasks runs on the workers and on main, but the     *)
(* graph may lose a task or run it too early (MCTaskGraphHang and          *)
(* MCTaskGraphResetReuse show how); an inference job is answered by a      *)
(* worker of the engine; audio and video calls of one thread give what the *)
(* rings promise.  What is modelled is what the components share: the      *)
(* arena's memory that a frame's tasks capture, the profiler all threads   *)
(* record to, and the order main imposes.                                  *)
(***************************************************************************)
EXTENDS Profiler, FiniteSets

CONSTANTS
  Main,             \* the thread of main
  MaxFrames,        \* bound on --frames
  IndependentTask   \* the tasks of the first batch, kIndependent in the code

VARIABLES
  frameCount, \* opts.frames
  fits,       \* whether opts.arena_bytes holds a frame's allocations
  videoOk,    \* video_ok: the assets' dimensions may be refused
  pc,         \* where main is
  f,          \* the frame it is in
  batch,      \* the batch main has created
  submitted,  \* submitted_ of the graph
  todo, busy, \* the tasks not yet begun, and those whose body runs
  closing,    \* those whose body has returned and whose span is being recorded
  lost,       \* those the graph has lost sight of
  epoch,      \* how often the arena has been reset for a frame
  captured,   \* the epoch whose memory the frame's tasks hold
  written,    \* the tasks whose effect is in the state of the current epoch
  counted,    \* history of counter and dag_flag: the tasks of both batches run
  job,        \* the inference jobs, by number
  tickOk,     \* ok_frames
  rc          \* the exit code

taskVars == <<todo, busy, closing, lost>>
graphVars == <<batch, submitted, taskVars, captured>>
optVars == <<frameCount, fits, videoOk>>
benchVars ==
  <<profVars, optVars, pc, f, graphVars, epoch, written, counted, job, tickOk, rc>>

JobNo == 0 .. MaxFrames

Batch(b) ==
  CASE b = "independent" -> IndependentTask
    [] b = "dag" -> {"a", "b", "c"}
    [] b = "tick" -> {"phys", "aud", "inf", "rend"}
    [] OTHER -> {}

Task == Batch("independent") \cup Batch("dag") \cup Batch("tick")

\* add_dependency in main: c and rend come last
Last(t) == t \in {"c", "rend"}

\* The threads that record, each named for what it runs: main, the worker that runs
\* job k, and the thread that runs task t, a worker or main in wait.
Worker(k) == <<"job", k>>
Runner(t) == <<"task", t>>
BenchRecorder == {Main} \cup {Worker(k) : k \in JobNo} \cup {Runner(t) : t \in Task}

ASSUME BenchAssumption ==
  /\ MaxFrames \in Nat
  /\ Recorder = BenchRecorder /\ IsFiniteSet(Recorder)
  /\ \A k \in JobNo : Main # Worker(k)
  /\ \A t \in Task : Main # Runner(t)

BenchInit ==
  /\ ProfInit
  /\ frameCount \in 0 .. MaxFrames /\ fits \in BOOLEAN /\ videoOk = FALSE
  /\ pc = "start" /\ f = 0
  /\ batch = "none" /\ submitted = FALSE /\ captured = 0
  /\ todo = {} /\ busy = {} /\ closing = {} /\ lost = {}
  /\ epoch = 0 /\ written = {} /\ counted = {}
  /\ job = [k \in JobNo |-> "none"]
  /\ tickOk = 0 /\ rc = 1

-----------------------------------------------------------------------------
\* Main records one event at a time; At(p) is main at p with nothing to fill in.
At(p) == pc = p /\ filling[Main] = NoSlot
To(p) == pc' = p
Quietly == UNCHANGED profVars

Start ==
  /\ At("start") /\ To("arena")
  /\ ProfReset
  /\ UNCHANGED <<optVars, f, graphVars, epoch, written, counted, job, tickOk, rc>>

\* the allocators' loops, and the high-water mark recorded
Allocators ==
  /\ At("arena") /\ To("independent")
  /\ Reserve(Main)
  /\ UNCHANGED <<optVars, f, graphVars, epoch, written, counted, job, tickOk, rc>>

\* create_task and add_dependency; a frame's tasks capture what the arena holds now
CreateBatch(b) ==
  /\ batch' = b /\ captured' = epoch
  /\ todo' = todo \cup Batch(b) /\ UNCHANGED <<busy, closing, lost>>

\* the two batches that are timed, and their submission
TimedBatch ==
  /\ \E b \in {"independent", "dag"} : At(b) /\ CreateBatch(b)
  /\ submitted' = TRUE
  /\ To("wait")
  /\ Quietly /\ UNCHANGED <<optVars, f, epoch, written, counted, job, tickOk, rc>>

\* Mutant: a task is no longer outstanding when its body returns.
Done_BeforeSpan == todo = {} /\ busy = {} /\ lost = {}

\* outstanding_ = 0: a task counts until its span is recorded
Done == todo = {} /\ busy = {} /\ closing = {} /\ lost = {}

AfterWait ==
  /\ IF batch = "tick"
       THEN To("future") /\ Quietly
       ELSE To(IF batch = "independent" THEN "reset" ELSE "infer") /\ Reserve(Main)
  /\ UNCHANGED <<optVars, f, graphVars, epoch, written, counted, job, tickOk, rc>>

\* Mutant: wait returns when the last task has begun.
Wait_NotLast == At("wait") /\ todo = {} /\ lost = {} /\ AfterWait

\* graph.wait, and the scope of the two spans closed
Wait == At("wait") /\ Done /\ AfterWait

\* graph.reset, which waits
ResetGraph ==
  /\ \/ At("reset") /\ To("dag")
     \/ At("tick_reset") /\ To("tick_create")
  /\ Done
  /\ submitted' = FALSE
  /\ Quietly
  /\ UNCHANGED <<optVars, f, batch, taskVars, captured, epoch, written, counted, job,
                 tickOk, rc>>

\* infer.submit; the first job is number 0, that of frame f is f + 1
SubmitJob(k) == job' = [job EXCEPT ![k] = "queued"]

FirstJob ==
  /\ At("infer") /\ SubmitJob(0) /\ To("future")
  /\ Quietly /\ UNCHANGED <<optVars, f, graphVars, epoch, written, counted, tickOk, rc>>

CurrentJob == IF batch = "tick" THEN f + 1 ELSE 0

\* fut.get()
Future ==
  /\ At("future") /\ job[CurrentJob] \in {"free", "last", "gone"}
  /\ To(IF batch = "tick" THEN "video" ELSE "media")
  /\ Quietly /\ UNCHANGED <<optVars, f, graphVars, epoch, written, counted, job, tickOk, rc>>

\* the video is opened, with the dimensions the assets give, and tried out; audio,
\* telemetry and the modules are main's alone
Media ==
  /\ At("media") /\ To("tick")
  /\ videoOk' \in BOOLEAN
  /\ Quietly
  /\ UNCHANGED <<frameCount, fits, f, graphVars, epoch, written, counted, job, tickOk, rc>>

\* run_ticks: the arena is reset and the frame's state allocated; without room the
\* frame is skipped and only its span recorded
TickStart ==
  /\ At("tick") /\ f < frameCount
  /\ epoch' = epoch + 1 /\ written' = {}
  /\ To(IF fits THEN "tick_reset" ELSE "tick_end")
  /\ Quietly
  /\ UNCHANGED <<optVars, f, graphVars, counted, job, tickOk, rc>>

TickCreate ==
  /\ At("tick_create") /\ CreateBatch("tick") /\ To("tick_infer")
  /\ Quietly
  /\ UNCHANGED <<optVars, f, submitted, epoch, written, counted, job, tickOk, rc>>

TickSubmit ==
  /\ \/ At("tick_infer") /\ SubmitJob(f + 1) /\ To("tick_submit") /\ UNCHANGED submitted
     \/ At("tick_submit") /\ submitted' = TRUE /\ To("wait") /\ UNCHANGED job
  /\ Quietly
  /\ UNCHANGED <<optVars, f, batch, taskVars, captured, epoch, written, counted, tickOk, rc>>

\* the frame is decoded and the mark recorded; all must have come
TickVideo ==
  /\ At("video") /\ To("tick_end")
  /\ Reserve(Main)
  /\ tickOk' = IF videoOk /\ {"aud", "phys"} \subseteq written THEN tickOk + 1 ELSE tickOk
  /\ UNCHANGED <<optVars, f, graphVars, epoch, written, counted, job, rc>>

\* the frame's ScopedTrace ends
TickEnd ==
  /\ At("tick_end") /\ To("tick")
  /\ Reserve(Main)
  /\ f' = f + 1
  /\ UNCHANGED <<optVars, graphVars, epoch, written, counted, job, tickOk, rc>>

\* end_frame
EndFrame ==
  /\ At("tick") /\ f = frameCount /\ To("export")
  /\ Reserve(Main)
  /\ UNCHANGED <<optVars, f, graphVars, epoch, written, counted, job, tickOk, rc>>

\* the trace, the verdict, and shutdown_all
Finish ==
  /\ At("export") /\ To("done")
  /\ Export
  /\ rc' = IF /\ counted = Batch("independent") \cup Batch("dag")
              /\ videoOk /\ (frameCount = 0 \/ tickOk = frameCount)
             THEN 0 ELSE 1
  /\ UNCHANGED <<optVars, f, graphVars, epoch, written, counted, job, tickOk>>

MainStep ==
  \/ Start \/ Allocators \/ TimedBatch \/ Wait \/ ResetGraph \/ FirstJob \/ Future \/ Media
  \/ TickStart \/ TickCreate \/ TickSubmit \/ TickVideo \/ TickEnd \/ EndFrame \/ Finish
  \/ (Fill(Main) /\ UNCHANGED <<optVars, pc, f, graphVars, epoch, written, counted, job,
                                tickOk, rc>>)

-----------------------------------------------------------------------------
Begins(t) ==
  /\ t \in todo
  /\ todo' = todo \ {t} /\ busy' = busy \cup {t}
  /\ Quietly /\ UNCHANGED <<closing, lost, written, counted>>

\* A task begins, on a worker of the graph or on main in wait,
BeginTask(t) ==
  /\ submitted
  /\ Last(t) => todo = {t} /\ busy = {} /\ closing = {} /\ lost = {}
  /\ Begins(t)

\* or out of turn, by a stale pointer to a node that a reset gave back;
BeginEarly(t) == batch # "independent" /\ Begins(t)

\* it has its effect on the state it captured, returns, and its span is begun;
EndTask(t) ==
  /\ t \in busy
  /\ busy' = busy \ {t} /\ closing' = closing \cup {t}
  /\ IF batch = "tick"
       THEN written' = written \cup {t} /\ UNCHANGED counted
       ELSE counted' = counted \cup {t} /\ UNCHANGED written
  /\ Reserve(Runner(t)) /\ UNCHANGED <<todo, lost>>

\* only when the span is recorded are its successors released, and wait.
CloseTask(t) ==
  /\ t \in closing
  /\ Fill(Runner(t)) /\ closing' = closing \ {t}
  /\ UNCHANGED <<todo, busy, lost, written, counted>>

\* The graph loses a task it has dispatched; one it finds again was only late, and with
\* one lost, main waits for ever and a second makes no difference.
LoseTask(t) ==
  /\ submitted /\ t \in todo /\ lost = {}
  /\ todo' = todo \ {t} /\ lost' = lost \cup {t}
  /\ Quietly /\ UNCHANGED <<busy, closing, written, counted>>

OfGraph == UNCHANGED <<optVars, pc, f, batch, submitted, captured, epoch, job, tickOk, rc>>

TaskStep == OfGraph /\ \E t \in Task : BeginTask(t) \/ EndTask(t) \/ CloseTask(t)
TaskStray == OfGraph /\ \E t \in Task : BeginEarly(t) \/ LoseTask(t)

-----------------------------------------------------------------------------
\* An inference job on the engine's graph: execute, whose span ends with it, the
\* answer, free_job, and then the span the graph records for the task it has run.
JobOrder ==
  [queued |-> "execute", execute |-> "span", span |-> "answer",
   answer |-> "free", free |-> "last", last |-> "gone"]

OfEngine == UNCHANGED <<optVars, pc, f, graphVars, epoch, written, counted, tickOk, rc>>

JobStep(k) ==
  /\ job[k] \in DOMAIN JobOrder /\ job' = [job EXCEPT ![k] = JobOrder[job[k]]]
  /\ \/ job[k] \in {"queued", "answer"} /\ Quietly
     \/ job[k] \in {"execute", "free"} /\ Reserve(Worker(k))
     \/ job[k] \in {"span", "last"} /\ Fill(Worker(k))
  /\ OfEngine

\* the engine's graph loses a job as main's graph a task
LoseJob(k) ==
  /\ OfEngine /\ Quietly
  /\ job[k] = "queued" /\ job' = [job EXCEPT ![k] = "lost"]

BenchNext ==
  MainStep \/ TaskStep \/ TaskStray \/ \E k \in JobNo : JobStep(k) \/ LoseJob(k)

-----------------------------------------------------------------------------
\* No task outlives its frame: whoever runs one, late or out of turn, finds the arena
\* as it was when the task captured pointers into it.
FrameMemoryLive == Batch("tick") \cap (todo \cup busy) # {} => captured = epoch

\* the workers that record the task of a job already answered
Late == {Worker(k) : k \in {j \in JobNo : job[j] = "last"}}
LateDrops == {w \in Late : filling[w] = NoRoom}

\* The exported trace has every event of main and of the graph's tasks, and of the
\* engine's jobs every infer_execute: what may be missing or half-written are the spans
\* the engine's graph records after the answer.  What the trace has no room for it
\* counts as dropped, those spans apart again.
TraceWhole ==
  [][trace' # trace =>
       /\ 0 .. trace'.count - 1 \ trace'.events = {filling[w] : w \in Late \ LateDrops}
       /\ trace'.count + trace'.dropped + Cardinality(LateDrops) = write]_benchVars

-----------------------------------------------------------------------------
BenchTypeOK ==
  /\ ProfTypeOK
  /\ frameCount \in 0 .. MaxFrames /\ f \in 0 .. frameCount
  /\ epoch \in Nat /\ captured \in Nat
  /\ todo \subseteq Task /\ busy \subseteq Task
  /\ closing \subseteq Task /\ lost \subseteq Task
  /\ job \in [JobNo -> {"none", "lost", "gone"} \cup DOMAIN JobOrder]
=============================================================================
