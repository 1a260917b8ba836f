------------------------------ MODULE MCBench ------------------------------
(* The bench, and beyond the calls its one thread makes of them the telemetry, *)
(* the audio pipeline and the video decoder: a behaviour is one of these.      *)
EXTENDS Bench, Telemetry, AudioPipeline, VideoDecoder

VARIABLE program   \* what this behaviour runs

mediaVars == <<ringVars, audioVars, videoVars>>
allVars == <<benchVars, telVars, mediaVars, program>>

MCInit ==
  /\ program \in {"bench", "telemetry", "audio", "video"}
  /\ BenchInit /\ TelInit /\ RingInit /\ AudioInit /\ VideoInit
  \* the bench's options are no other program's
  /\ program # "bench" => frameCount = 0 /\ fits

OfBench(Step) == program = "bench" /\ Step /\ UNCHANGED <<telVars, mediaVars, program>>

MCNext ==
  \/ OfBench(BenchNext)
  \/ /\ program = "telemetry" /\ TelNext
     /\ UNCHANGED <<benchVars, mediaVars, program>>
  \/ /\ program = "audio" /\ AudioNext
     /\ UNCHANGED <<benchVars, telVars, videoVars, program>>
  \/ /\ program = "video" /\ VideoNext
     /\ UNCHANGED <<benchVars, telVars, audioVars, program>>

\* main and the workers of the graph and of the engine go on as long as they can
MCSpec ==
  /\ MCInit /\ [][MCNext]_allVars
  /\ WF_allVars(OfBench(MainStep)) /\ WF_allVars(OfBench(TaskStep))
  /\ \A k \in JobNo : WF_allVars(OfBench(JobStep(k)))

\* The bench ends, and with exit code 0 exactly when its arena holds a frame and
\* the video opens: the verdict does not depend on who ran what when.  Only a task or
\* a job that a graph loses can keep it from ending.
BenchVerdict ==
  program = "bench" =>
    \/ <>(/\ pc = "done"
          /\ rc = 0 <=> videoOk /\ (frameCount = 0 \/ fits))
    \/ <>[](lost # {} \/ \E k \in JobNo : job[k] = "lost")

\* Of the audio pipeline's behaviours: the consumer hears every sample once, in
\* order and whole (AudioInOrder of AudioPipeline).
SamplesInOrder == program = "audio" => AudioInOrder
=============================================================================
