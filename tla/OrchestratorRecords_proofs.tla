--------------------- MODULE OrchestratorRecords_proofs ---------------------
(***************************************************************************)
(* Proofs about what the orchestrator writes to the store: which way a     *)
(* record moves, what the settlement of a message says of it, and what     *)
(* must have been tried before a PDF job fails.                            *)
(***************************************************************************)
EXTENDS Orchestrator_proofs, SequenceTheorems

-----------------------------------------------------------------------------
(* The order of the PDF engines *)

\* The order has the engine e.
Lists(order, e) == \E i \in 1..Len(order) : order[i] = e

\* A turn of the fallback loop keeps the engines listed so far and adds its own.
LEMMA ThenFallbackLists ==
  ASSUME NEW S, NEW order \in Seq(S), order # << >>, NEW fb \in S
  PROVE  /\ ThenFallback(order, fb) \in Seq(S)
         /\ ThenFallback(order, fb) # << >>
         /\ Lists(ThenFallback(order, fb), fb)
         /\ \A e : Lists(order, e) => Lists(ThenFallback(order, fb), e)
<1> DEFINE next == ThenFallback(order, fb)
<1>1. Head(order) = order[1] /\ 1 \in 1..Len(order) /\ Len(order) \in Nat
  OBVIOUS
<1>2. CASE fb = Head(order)
  BY <1>1, <1>2 DEF ThenFallback, Lists
<1>3. CASE fb # Head(order)
  <2>1. next = Append(order, fb)
    BY <1>3 DEF ThenFallback
  <2>2. /\ next \in Seq(S) /\ Len(next) = Len(order) + 1 /\ next[Len(order) + 1] = fb
        /\ \A i \in 1..Len(order) : next[i] = order[i]
    BY <2>1, AppendProperties
  <2> HIDE DEF next
  <2>3. next # << >>
    BY <1>1, <2>2
  <2>4. Lists(next, fb) /\ \A e : Lists(order, e) => Lists(next, e)
    BY <1>1, <2>2 DEF Lists
  <2> QED BY <2>2, <2>3, <2>4 DEF next
<1> QED BY <1>2, <1>3

\* Whatever engine a job asks for, every engine there is is in its order.
LEMMA EngineOrderComplete ==
  ASSUME NEW m \in ConversionJob
  PROVE  /\ Len(EngineOrder(m)) \in Nat
         /\ \A e \in Engines : Lists(EngineOrder(m), e)
<1> DEFINE S  == Engines \union {"unsupported"}
           o0 == << FirstEngine(m) >>
           o1 == ThenFallback(o0, "pdflatex")
           o2 == ThenFallback(o1, "xelatex")
           o3 == ThenFallback(o2, "lualatex")
<1>1. FirstEngine(m) \in S
  BY DEF FirstEngine, DetectLatexEngine, ConversionJob, Engines
<1>2. o0 \in Seq(S) /\ o0 # << >>
  <2> HIDE DEF S
  <2> QED BY <1>1
<1>3. "pdflatex" \in S /\ "xelatex" \in S /\ "lualatex" \in S
  BY DEF Engines
<1>4. EngineOrder(m) = o3
  BY DEF EngineOrder, Fallbacks
<1> HIDE DEF S, o0
<1>5. o1 \in Seq(S) /\ o1 # << >> /\ Lists(o1, "pdflatex")
  BY <1>2, <1>3, ThenFallbackLists
<1>6. /\ o2 \in Seq(S) /\ o2 # << >>
      /\ Lists(o2, "xelatex") /\ Lists(o2, "pdflatex")
  <2> HIDE DEF o1
  <2> QED BY <1>3, <1>5, ThenFallbackLists
<1>7. /\ o3 \in Seq(S)
      /\ Lists(o3, "lualatex") /\ Lists(o3, "xelatex") /\ Lists(o3, "pdflatex")
  <2> HIDE DEF o2
  <2> QED BY <1>3, <1>6, ThenFallbackLists
<1>8. Len(EngineOrder(m)) \in Nat
  BY <1>4, <1>7, LenProperties
<1> QED BY <1>4, <1>7, <1>8 DEF Engines

-----------------------------------------------------------------------------
(* The pipelines move forward *)

InterimStates == {"parsing", "transforming", "rendering", "post_processing"}

\* The progress a step may store: a compilation may be retried, at 40.
Level(step) == IF step.op = "latex" THEN 40 ELSE step.progress

Storing == {"update", "latex"}

\* A pipeline starts with an update, passes through interim states only, and no
\* step stores less progress than an earlier one, the retries included.
Forward(p) ==
  /\ p[1].op = "update"
  /\ \A n \in 1..Len(p) : p[n].op = "update" /\ n < Len(p) => p[n].state \in InterimStates
  /\ \A m, n \in 1..Len(p) :
       m < n /\ p[m].op \in Storing /\ p[n].op \in Storing => Level(p[m]) <= Level(p[n])

LEMMA LatexToWordForward == Forward(LatexToWordPipeline)
BY DEF LatexToWordPipeline, Forward, InterimStates, Level, Storing, Update, Produce

LEMMA WordToLatexForward == Forward(WordToLatexPipeline)
BY DEF WordToLatexPipeline, Forward, InterimStates, Level, Storing, Update, Produce

LEMMA LatexToPdfForward == Forward(LatexToPdfPipeline)
BY DEF LatexToPdfPipeline, Forward, InterimStates, Level, Storing, Update, Produce

LEMMA WordToPdfForward == Forward(WordToPdfPipeline)
BY DEF WordToPdfPipeline, Forward, InterimStates, Level, Storing, Update, Produce

LEMMA RoundTripForward == Forward(RoundTripPipeline)
BY DEF RoundTripPipeline, Forward, InterimStates, Level, Storing, Update, Produce

LEMMA PipelinesForward ==
  ASSUME NEW d \in Directions
  PROVE  Forward(ExecutePipeline(d))
BY LatexToWordForward, WordToLatexForward, LatexToPdfForward, WordToPdfForward,
   RoundTripForward DEF Directions, ExecutePipeline, PipelineOf

\* Only the compilation of a PDF job is retried, and no pandoc runs on one.
LEMMA PdfPipelineOps ==
  ASSUME NEW i \in 1..Len(LatexToPdfPipeline)
  PROVE  LatexToPdfPipeline[i].op # "pandoc"
BY DEF LatexToPdfPipeline, Update, Produce

-----------------------------------------------------------------------------
(* What a step of processJob makes of its task *)

\* The goroutine of r for j goes to pc, at this step of the pipeline and in this
\* attempt; no other goroutine moves.
Goes(r, j, pc, at, attempt) ==
  /\ task'[r][j].pc = pc /\ task'[r][j].at = at /\ task'[r][j].attempt = attempt
  /\ \A r2 \in Replicas, j2 \in Jobs : r2 # r \/ j2 # j => task'[r2][j2] = task[r2][j2]

\* Its copy of the job gets this state and progress.
JobGets(r, j, state, progress) ==
  task'[r][j].job.state = state /\ task'[r][j].job.progress = progress

\* It goes on with the job it has, and the store is left alone.
KeepsJob(r, j) == task'[r][j].job = task[r][j].job /\ UNCHANGED storeVars

\* It saves the job it goes on with.
SavesJob(r, j) == SaveJob(r, j, task'[r][j].job)

\* The steps that end the goroutine's work on the message, or fail, or retry.
LEMMA MovingSteps ==
  ASSUME TypeOK, NEW r \in Replicas, NEW j \in Jobs
  PROVE  LET t == task[r][j]
         IN  /\ RejectMalformed(r, j) \/ Nack(r, j) \/ Ack(r, j) =>
                  Goes(r, j, "settled", t.at, t.attempt) /\ KeepsJob(r, j)
             /\ TryNextEngine(r, j) =>
                  Goes(r, j, "fallback", t.at, t.attempt) /\ KeepsJob(r, j)
             /\ PipelineFails(r, j) =>
                  Goes(r, j, "failing", t.at, t.attempt) /\ KeepsJob(r, j)
<1> DEFINE t     == task[r][j]
           u(pc) == [t EXCEPT !.pc = pc]
<1>1. ASSUME NEW pc \in Pcs, task' = [task EXCEPT ![r][j] = u(pc)], UNCHANGED storeVars
      PROVE  Goes(r, j, pc, t.at, t.attempt) /\ KeepsJob(r, j)
  <2>1. u(pc).pc = pc /\ u(pc).at = t.at /\ u(pc).attempt = t.attempt /\ u(pc).job = t.job
    BY DEF TypeOK, Task
  <2> HIDE DEF u
  <2> QED BY <1>1, <2>1 DEF TypeOK, Goes, KeepsJob
<1>2. ASSUME RejectMalformed(r, j) \/ Nack(r, j) \/ Ack(r, j)
      PROVE  task' = [task EXCEPT ![r][j] = u("settled")] /\ UNCHANGED storeVars
  BY <1>2 DEF RejectMalformed, Nack, Ack
<1>3. ASSUME TryNextEngine(r, j)
      PROVE  task' = [task EXCEPT ![r][j] = u("fallback")] /\ UNCHANGED storeVars
  BY <1>3 DEF TryNextEngine
<1>4. ASSUME PipelineFails(r, j)
      PROVE  task' = [task EXCEPT ![r][j] = u("failing")] /\ UNCHANGED storeVars
  BY <1>4 DEF PipelineFails
<1>5. "settled" \in Pcs /\ "fallback" \in Pcs /\ "failing" \in Pcs
  BY DEF Pcs
<1> HIDE DEF u
<1> QED BY <1>1, <1>2, <1>3, <1>4, <1>5

LEMMA StartJobGoes ==
  ASSUME TypeOK, NEW r \in Replicas, NEW j \in Jobs, StartJob(r, j)
  PROVE  /\ Goes(r, j, "pipeline", 1, 1)
         /\ JobGets(r, j, "queued", 0)
         /\ SavesJob(r, j)
<1> DEFINE u == [pc |-> "pipeline", at |-> 1, attempt |-> 1, job |-> NewJob]
<1>1. task' = [task EXCEPT ![r][j] = u] /\ SaveJob(r, j, NewJob)
  BY DEF StartJob
<1>2. u.pc = "pipeline" /\ u.at = 1 /\ u.attempt = 1 /\ u.job = NewJob
  OBVIOUS
<1> HIDE DEF u
<1>3. Goes(r, j, "pipeline", 1, 1) /\ task'[r][j].job = NewJob
  BY <1>1, <1>2 DEF Goes, TypeOK
<1> QED BY <1>1, <1>3 DEF JobGets, SavesJob, NewJob

LEMMA UpdateProgressGoes ==
  ASSUME TypeOK, NEW r \in Replicas, NEW j \in Jobs, UpdateProgress(r, j)
  PROVE  LET t    == task[r][j]
             step == Pipeline(j)[t.at]
         IN  /\ Goes(r, j, "pipeline", t.at + 1, t.attempt)
             /\ JobGets(r, j, step.state, step.progress)
             /\ SavesJob(r, j)
<1> DEFINE t    == task[r][j]
           step == Pipeline(j)[t.at]
           job  == [t.job EXCEPT !.state = step.state, !.progress = step.progress]
           u    == [t EXCEPT !.at = t.at + 1, !.job = job]
<1>t. t \in Task /\ t.job \in Records /\ t.pc = "pipeline"
  BY DEF TypeOK, Task, UpdateProgress, AtStep
<1>1. task' = [task EXCEPT ![r][j] = u] /\ SaveJob(r, j, job)
  BY DEF UpdateProgress
<1>2. job.state = step.state /\ job.progress = step.progress
  BY <1>t DEF Records
<1> HIDE DEF job
<1>3. u.pc = "pipeline" /\ u.at = t.at + 1 /\ u.attempt = t.attempt /\ u.job = job
  BY <1>t DEF Task
<1> HIDE DEF u
<1>4. Goes(r, j, "pipeline", t.at + 1, t.attempt) /\ task'[r][j].job = job
  BY <1>1, <1>3 DEF Goes, TypeOK
<1> QED BY <1>1, <1>2, <1>4 DEF JobGets, SavesJob

LEMMA ProduceOutputGoes ==
  ASSUME TypeOK, NEW r \in Replicas, NEW j \in Jobs, ProduceOutput(r, j)
  PROVE  LET t == task[r][j]
         IN  /\ Goes(r, j, "pipeline", t.at + 1, t.attempt)
             /\ JobGets(r, j, t.job.state, t.job.progress)
             /\ UNCHANGED storeVars
<1> DEFINE t   == task[r][j]
           job == [t.job EXCEPT !.output = HasOutput(j)]
           u   == [t EXCEPT !.at = t.at + 1, !.job = job]
<1>t. t \in Task /\ t.job \in Records /\ t.pc = "pipeline"
  BY DEF TypeOK, Task, ProduceOutput, AtStep
<1>1. task' = [task EXCEPT ![r][j] = u] /\ UNCHANGED storeVars
  BY DEF ProduceOutput
<1>2. job.state = t.job.state /\ job.progress = t.job.progress
  BY <1>t DEF Records
<1> HIDE DEF job
<1>3. u.pc = "pipeline" /\ u.at = t.at + 1 /\ u.attempt = t.attempt /\ u.job = job
  BY <1>t DEF Task
<1> HIDE DEF u
<1>4. Goes(r, j, "pipeline", t.at + 1, t.attempt) /\ task'[r][j].job = job
  BY <1>1, <1>3 DEF Goes, TypeOK
<1> QED BY <1>1, <1>2, <1>4 DEF JobGets

LEMMA RetryGoes ==
  ASSUME TypeOK, NEW r \in Replicas, NEW j \in Jobs, RetryWithFallback(r, j)
  PROVE  LET t == task[r][j]
         IN  /\ Goes(r, j, "pipeline", t.at, t.attempt + 1)
             /\ JobGets(r, j, "rendering", 40)
             /\ SavesJob(r, j)
<1> DEFINE t   == task[r][j]
           job == [t.job EXCEPT !.state = "rendering", !.progress = 40]
           u   == [t EXCEPT !.pc = "pipeline", !.attempt = t.attempt + 1, !.job = job]
<1>t. t \in Task /\ t.job \in Records
  BY DEF TypeOK, Task
<1>1. task' = [task EXCEPT ![r][j] = u] /\ SaveJob(r, j, job)
  BY DEF RetryWithFallback
<1>2. job.state = "rendering" /\ job.progress = 40
  BY <1>t DEF Records
<1> HIDE DEF job
<1>3. u.pc = "pipeline" /\ u.at = t.at /\ u.attempt = t.attempt + 1 /\ u.job = job
  BY <1>t DEF Task
<1> HIDE DEF u
<1>4. Goes(r, j, "pipeline", t.at, t.attempt + 1) /\ task'[r][j].job = job
  BY <1>1, <1>3 DEF Goes, TypeOK
<1> QED BY <1>1, <1>2, <1>4 DEF JobGets, SavesJob

\* The two outcomes: the job is saved once more, as failed or as completed.
LEMMA RecordFailureGoes ==
  ASSUME TypeOK, NEW r \in Replicas, NEW j \in Jobs, RecordFailure(r, j)
  PROVE  LET t == task[r][j]
         IN  /\ Goes(r, j, "nacking", t.at, t.attempt)
             /\ JobGets(r, j, "failed", t.job.progress)
             /\ SavesJob(r, j)
<1> DEFINE t   == task[r][j]
           job == [t.job EXCEPT !.state = "failed"]
           u   == [t EXCEPT !.pc = "nacking", !.job = job]
<1>t. t \in Task /\ t.job \in Records
  BY DEF TypeOK, Task
<1>1. task' = [task EXCEPT ![r][j] = u] /\ SaveJob(r, j, job)
  BY DEF RecordFailure
<1>2. job.state = "failed" /\ job.progress = t.job.progress
  BY <1>t DEF Records
<1> HIDE DEF job
<1>3. u.pc = "nacking" /\ u.at = t.at /\ u.attempt = t.attempt /\ u.job = job
  BY <1>t DEF Task
<1> HIDE DEF u
<1>4. Goes(r, j, "nacking", t.at, t.attempt) /\ task'[r][j].job = job
  BY <1>1, <1>3 DEF Goes, TypeOK
<1> QED BY <1>1, <1>2, <1>4 DEF JobGets, SavesJob

LEMMA RecordCompletionGoes ==
  ASSUME TypeOK, NEW r \in Replicas, NEW j \in Jobs, RecordCompletion(r, j)
  PROVE  LET t == task[r][j]
         IN  /\ Goes(r, j, "acking", t.at, t.attempt)
             /\ JobGets(r, j, "completed", t.job.progress)
             /\ SavesJob(r, j)
<1> DEFINE t   == task[r][j]
           job == [t.job EXCEPT !.state = "completed"]
           u   == [t EXCEPT !.pc = "acking", !.job = job]
<1>t. t \in Task /\ t.job \in Records
  BY DEF TypeOK, Task
<1>1. task' = [task EXCEPT ![r][j] = u] /\ SaveJob(r, j, job)
  BY DEF RecordCompletion
<1>2. job.state = "completed" /\ job.progress = t.job.progress
  BY <1>t DEF Records
<1> HIDE DEF job
<1>3. u.pc = "acking" /\ u.at = t.at /\ u.attempt = t.attempt /\ u.job = job
  BY <1>t DEF Task
<1> HIDE DEF u
<1>4. Goes(r, j, "acking", t.at, t.attempt) /\ task'[r][j].job = job
  BY <1>1, <1>3 DEF Goes, TypeOK
<1> QED BY <1>1, <1>2, <1>4 DEF JobGets, SavesJob

LEMMA ReleaseSlotGoes ==
  ASSUME TypeOK, NEW r \in Replicas, NEW j \in Jobs, ReleaseSlot(r, j)
  PROVE  task'[r][j] = Idle /\ Goes(r, j, "none", 1, 1) /\ UNCHANGED storeVars
<1>1. task' = [task EXCEPT ![r][j] = Idle] /\ UNCHANGED storeVars
  BY DEF ReleaseSlot
<1> QED BY <1>1 DEF Goes, Idle, TypeOK

-----------------------------------------------------------------------------
(* Where a goroutine is *)

\* The goroutine has begun its job and has not settled the message.
Writing == {"pipeline", "fallback", "failing", "nacking", "acking"}

\* What the place of a goroutine says of its job and its attempt: no later step
\* stores less progress than it has, the job's state is that of the steps behind
\* it, only a compilation is retried, and a PDF job fails in the last attempt.
TaskPlaced(j, t) ==
  /\ t.pc \in Writing => ~Message[j].malformed
  /\ t.pc \in {"pipeline", "fallback"} =>
       /\ Message[j].direction \notin Directions => t.at = 1
       /\ t.at = 1 => t.job.state = "queued"
       /\ t.at \in 2..Len(Pipeline(j)) => t.job.state \in InterimStates
       /\ \A i \in 1..Len(Pipeline(j)) :
            i >= t.at /\ Pipeline(j)[i].op \in Storing => t.job.progress <= Level(Pipeline(j)[i])
  /\ t.pc = "fallback" => t.at \in 2..Len(Pipeline(j)) /\ Pipeline(j)[t.at].op = "latex"
  /\ t.pc = "failing" => t.job.state \in InterimStates \union {"queued"}
  /\ t.pc = "nacking" => t.job.state = "failed"
  /\ t.pc = "acking" => t.job.state = "completed"
  /\ t.pc \in {"failing", "nacking"} /\ Message[j].direction = "latex_to_pdf" =>
       t.attempt = Len(EngineOrder(Message[j]))

TaskInv == \A r \in Replicas, j \in Jobs : TaskPlaced(j, task[r][j])

LEMMA NotWritingPlaced ==
  ASSUME NEW j, NEW t, t.pc \notin Writing
  PROVE  TaskPlaced(j, t)
BY DEF TaskPlaced, Writing

LEMMA TaskInvInit == Init => TaskInv
<1> SUFFICES ASSUME Init, NEW r \in Replicas, NEW j \in Jobs PROVE TaskPlaced(j, task[r][j])
  BY DEF TaskInv
<1>1. task[r][j].pc = "none"
  BY DEF Init, Idle
<1> QED BY <1>1, NotWritingPlaced DEF Writing

\* A goroutine that moves leaves the others where they are.
LEMMA TaskInvLocal ==
  ASSUME TypeOK, TaskInv, NEW r \in Replicas, NEW j \in Jobs,
         \A r2 \in Replicas, j2 \in Jobs :
           r2 # r \/ j2 # j => task'[r2][j2] = task[r2][j2],
         TaskPlaced(j, task'[r][j])
  PROVE  TaskInv'
<1>1. ASSUME NEW r2 \in Replicas, NEW j2 \in Jobs PROVE TaskPlaced(j2, task'[r2][j2])
  <2>1. CASE r2 = r /\ j2 = j
    BY <2>1
  <2>2. CASE r2 # r \/ j2 # j
    BY <2>2 DEF TaskInv
  <2> QED BY <2>1, <2>2
<1> QED BY <1>1 DEF TaskInv, TaskPlaced, Pipeline

\* What the order of a pipeline says of the step a goroutine is at.
LEMMA StepForward ==
  ASSUME TypeOK, NEW r \in Replicas, NEW j \in Jobs, NEW ops, AtStep(r, j, ops)
  PROVE  LET n == task[r][j].at
             p == Pipeline(j)
         IN  /\ Message[j].direction \in Directions
             /\ Forward(p) /\ WellFormed(p)
             /\ Len(p) \in Nat /\ n \in 1..Len(p)
             /\ p[n].op \in ops
             /\ p[n].op # "update" => n \in 2..Len(p)
<1> DEFINE n == task[r][j].at
           p == Pipeline(j)
<1>1. WellFormed(p) /\ n \in 1..Len(p) /\ Message[j].direction \in Directions
  BY AtStepInside
<1>2. Forward(p)
  BY <1>1, PipelinesForward DEF Pipeline
<1>3. Len(p) \in Nat
  BY <1>1 DEF WellFormed
<1>4. p[n].op # "update" => n \in 2..Len(p)
  BY <1>1, <1>2, <1>3 DEF Forward
<1> QED BY <1>1, <1>2, <1>3, <1>4 DEF AtStep

\* The level of a storing step is a number.
LEMMA LevelType ==
  ASSUME NEW p, WellFormed(p), NEW i \in 1..Len(p), p[i].op \in Storing
  PROVE  Level(p[i]) \in 0..100
<1>1. CASE p[i].op = "latex"
  BY <1>1 DEF Level
<1>2. CASE p[i].op = "update"
  BY <1>2 DEF WellFormed, Level, Converters
<1> QED BY <1>1, <1>2 DEF Storing

LEMMA TaskInvProcessJob ==
  ASSUME TypeOK, TaskInv, NEW r \in Replicas, NEW j \in Jobs, ProcessJob(r, j)
  PROVE  TaskInv'
<1> DEFINE t == task[r][j]
           u == task'[r][j]
           p == Pipeline(j)
<1>t. t \in Task /\ t.job \in Records /\ t.at \in Nat \ {0}
  BY DEF TypeOK, Task
<1>p. TaskPlaced(j, t)
  BY DEF TaskInv
<1>o. \A r2 \in Replicas, j2 \in Jobs : r2 # r \/ j2 # j => task'[r2][j2] = task[r2][j2]
  BY ProcessJobStep
<1>s. TaskPlaced(j, u) => TaskInv'
  BY <1>o, TaskInvLocal
<1>1. CASE RejectMalformed(r, j) \/ Nack(r, j) \/ Ack(r, j)
  <2>1. u.pc = "settled"
    BY <1>1, MovingSteps DEF Goes
  <2> QED BY <1>s, <2>1, NotWritingPlaced DEF Writing
<1>2. CASE ReleaseSlot(r, j)
  <2>1. u.pc = "none"
    BY <1>2, ReleaseSlotGoes DEF Idle
  <2> QED BY <1>s, <2>1, NotWritingPlaced DEF Writing
<1>3. CASE TryNextEngine(r, j)
  <2>1. u.pc = "fallback" /\ u.at = t.at /\ u.job = t.job
    BY <1>3, MovingSteps DEF Goes, KeepsJob
  <2>2. t.pc = "pipeline" /\ AtStep(r, j, {"latex"})
    BY <1>3 DEF TryNextEngine, AtStep
  <2>3. t.at \in 2..Len(p) /\ p[t.at].op = "latex"
    BY <2>2, StepForward
  <2>4. TaskPlaced(j, u)
    BY <1>p, <2>1, <2>2, <2>3 DEF TaskPlaced, Writing
  <2> QED BY <1>s, <2>4
<1>4. CASE PipelineFails(r, j)
  <2>1. u.pc = "failing" /\ u.attempt = t.attempt /\ u.job = t.job
    BY <1>4, MovingSteps DEF Goes, KeepsJob
  <2>2. t.pc = "pipeline"
    BY <1>4 DEF PipelineFails, AtStep
  <2>3. t.job.state \in InterimStates \union {"queued"}
    <3>1. CASE Message[j].direction \notin Directions
      BY <1>p, <2>2, <3>1 DEF TaskPlaced
    <3>2. CASE AtStep(r, j, {"latex"}) \/ AtStep(r, j, {"pandoc"})
      <4>1. Len(p) \in Nat /\ t.at \in 1..Len(p)
        BY <3>2, StepForward
      <4> QED BY <1>p, <2>2, <4>1 DEF TaskPlaced
    <3> QED BY <1>4, <3>1, <3>2 DEF PipelineFails
  <2>4. ASSUME Message[j].direction = "latex_to_pdf"
        PROVE  t.attempt = Len(EngineOrder(Message[j]))
    <3>1. p = LatexToPdfPipeline /\ Message[j].direction \in Directions
      BY <2>4 DEF Pipeline, ExecutePipeline, PipelineOf, Directions
    <3>2. ~AtStep(r, j, {"pandoc"})
      BY <3>1, StepForward, PdfPipelineOps
    <3> QED BY <1>4, <3>1, <3>2 DEF PipelineFails
  <2>5. TaskPlaced(j, u)
    BY <1>p, <2>1, <2>2, <2>3, <2>4 DEF TaskPlaced, Writing
  <2> QED BY <1>s, <2>5
<1>5. CASE StartJob(r, j)
  <2>1. u.pc = "pipeline" /\ u.at = 1 /\ u.job.state = "queued" /\ u.job.progress = 0
    BY <1>5, StartJobGoes DEF Goes, JobGets
  <2>2. ~Message[j].malformed
    BY <1>5 DEF StartJob
  <2>3. ASSUME NEW i \in 1..Len(p), p[i].op \in Storing PROVE 0 <= Level(p[i])
    <3>1. Message[j].direction \in Directions
      <4>1. Message[j].direction \notin Directions => p = << >>
        BY DEF Pipeline, ExecutePipeline
      <4>2. p # << >>
        BY <2>3
      <4> QED BY <4>1, <4>2
    <3>2. WellFormed(p)
      BY <3>1, PipelinesWellFormed DEF Pipeline
    <3>3. Level(p[i]) \in 0..100
      BY <2>3, <3>2, LevelType
    <3>4. \A x \in 0..100 : 0 <= x
      OBVIOUS
    <3> QED BY <3>3, <3>4
  <2>4. TaskPlaced(j, u)
    BY <2>1, <2>2, <2>3 DEF TaskPlaced
  <2> QED BY <1>s, <2>4
<1>6. CASE UpdateProgress(r, j)
  <2>1. /\ u.pc = "pipeline" /\ u.at = t.at + 1
        /\ u.job.state = p[t.at].state /\ u.job.progress = p[t.at].progress
    BY <1>6, UpdateProgressGoes DEF Goes, JobGets
  <2>2. t.pc = "pipeline" /\ AtStep(r, j, {"update"})
    BY <1>6 DEF UpdateProgress, AtStep
  <2>3. /\ Message[j].direction \in Directions /\ Forward(p)
        /\ Len(p) \in Nat /\ t.at \in 1..Len(p) /\ p[t.at].op = "update"
    BY <2>2, StepForward
  <2>4. u.at \in 2..Len(p) => u.job.state \in InterimStates
    BY <2>1, <2>3 DEF Forward
  <2>5. ASSUME NEW i \in 1..Len(p), i >= u.at, p[i].op \in Storing
        PROVE  u.job.progress <= Level(p[i])
    <3>1. t.at < i /\ p[t.at].op \in Storing /\ Level(p[t.at]) = u.job.progress
      BY <2>1, <2>3, <2>5 DEF Storing, Level
    <3> QED BY <2>3, <2>5, <3>1 DEF Forward
  <2>6. u.at # 1
    BY <2>1, <2>3
  <2>7. TaskPlaced(j, u)
    BY <1>p, <2>1, <2>2, <2>3, <2>4, <2>5, <2>6 DEF TaskPlaced, Writing
  <2> QED BY <1>s, <2>7
<1>7. CASE ProduceOutput(r, j)
  <2>1. /\ u.pc = "pipeline" /\ u.at = t.at + 1
        /\ u.job.state = t.job.state /\ u.job.progress = t.job.progress
    BY <1>7, ProduceOutputGoes DEF Goes, JobGets
  <2>2. t.pc = "pipeline" /\ AtStep(r, j, Converters)
    BY <1>7 DEF ProduceOutput, AtStep
  <2>3. Message[j].direction \in Directions /\ Len(p) \in Nat /\ t.at \in 2..Len(p)
    BY <2>2, StepForward DEF Converters
  <2>4. /\ u.at # 1
        /\ \A i \in 1..Len(p) : i >= u.at => i >= t.at
    BY <2>1, <2>3
  <2>5. TaskPlaced(j, u)
    BY <1>p, <2>1, <2>2, <2>3, <2>4 DEF TaskPlaced, Writing
  <2> QED BY <1>s, <2>5
<1>8. CASE RetryWithFallback(r, j)
  <2>1. /\ u.pc = "pipeline" /\ u.at = t.at
        /\ u.job.state = "rendering" /\ u.job.progress = 40
    BY <1>8, RetryGoes DEF Goes, JobGets
  <2>2. t.pc = "fallback"
    BY <1>8 DEF RetryWithFallback
  <2>3. t.at \in 2..Len(p) /\ p[t.at].op = "latex" /\ ~Message[j].malformed
    BY <1>p, <2>2 DEF TaskPlaced, Writing
  <2>4. Message[j].direction \in Directions /\ t.at # 1
    BY <1>p, <2>2, <2>3 DEF TaskPlaced
  <2>5. Forward(p)
    BY <2>4, PipelinesForward DEF Pipeline
  <2>6. Len(p) \in Nat
    BY <2>4, PipelinesWellFormed DEF Pipeline, WellFormed
  <2>7. ASSUME NEW i \in 1..Len(p), i >= t.at, p[i].op \in Storing
        PROVE  40 <= Level(p[i])
    <3>1. CASE i = t.at
      BY <2>3, <3>1 DEF Level
    <3>2. CASE t.at < i
      <4>1. t.at \in 1..Len(p) /\ p[t.at].op \in Storing /\ Level(p[t.at]) = 40
        BY <2>3, <2>6 DEF Storing, Level
      <4> QED BY <2>5, <2>7, <3>2, <4>1 DEF Forward
    <3> QED BY <1>t, <2>6, <2>7, <3>1, <3>2
  <2>8. TaskPlaced(j, u)
    BY <2>1, <2>3, <2>4, <2>7 DEF TaskPlaced, InterimStates
  <2> QED BY <1>s, <2>8
<1>9. CASE RecordFailure(r, j)
  <2>1. u.pc = "nacking" /\ u.attempt = t.attempt /\ u.job.state = "failed"
    BY <1>9, RecordFailureGoes DEF Goes, JobGets
  <2>2. t.pc = "failing"
    BY <1>9 DEF RecordFailure
  <2>3. TaskPlaced(j, u)
    BY <1>p, <2>1, <2>2 DEF TaskPlaced, Writing
  <2> QED BY <1>s, <2>3
<1>10. CASE RecordCompletion(r, j)
  <2>1. u.pc = "acking" /\ u.job.state = "completed"
    BY <1>10, RecordCompletionGoes DEF Goes, JobGets
  <2>2. t.pc = "pipeline"
    BY <1>10 DEF RecordCompletion
  <2>3. TaskPlaced(j, u)
    BY <1>p, <2>1, <2>2 DEF TaskPlaced, Writing
  <2> QED BY <1>s, <2>3
<1> HIDE DEF u, t, p
<1> QED BY <1>1, <1>2, <1>3, <1>4, <1>5, <1>6, <1>7, <1>8, <1>9, <1>10 DEF ProcessJob

\* What the steps of main and of the broker do to the goroutines: nothing, or
\* they end those of one process.
LEMMA OtherSteps ==
  ASSUME TypeOK, NEW r \in Replicas
  PROVE  /\ (\E j \in Jobs : Deliver(r, j)) \/ StopConsuming(r) \/ ConsumerFails(r)
              \/ Disconnect(r) \/ Signal(r) \/ Shutdown(r) \/ Restart(r)
              => UNCHANGED <<task, storeVars>>
         /\ Exit(r) \/ Crash(r) =>
              /\ \A j \in Jobs : task'[r][j] = Idle
              /\ \A r2 \in Replicas : r2 # r => task'[r2] = task[r2]
              /\ UNCHANGED storeVars
BY DEF Deliver, StopConsuming, ConsumerFails, Disconnect, Signal, Shutdown, Restart,
       Exit, Crash, Terminate, TypeOK

\* What the consumer loop does to a goroutine: it makes one, and starts it.
LEMMA ConsumerSteps ==
  ASSUME TypeOK, NEW r \in Replicas, NEW j \in Jobs
  PROVE  /\ Receive(r, j) =>
              Goes(r, j, "received", 1, 1) /\ UNCHANGED storeVars
         /\ Spawn(r, j) =>
              Goes(r, j, "spawned", task[r][j].at, task[r][j].attempt) /\ UNCHANGED storeVars
<1>1. ASSUME Receive(r, j) PROVE Goes(r, j, "received", 1, 1) /\ UNCHANGED storeVars
  <2> DEFINE u == [Idle EXCEPT !.pc = "received"]
  <2>1. task' = [task EXCEPT ![r][j] = u] /\ UNCHANGED storeVars
    BY <1>1 DEF Receive
  <2>2. u.pc = "received" /\ u.at = 1 /\ u.attempt = 1
    BY DEF Idle
  <2> HIDE DEF u
  <2> QED BY <2>1, <2>2 DEF Goes, TypeOK
<1>2. ASSUME Spawn(r, j)
      PROVE  Goes(r, j, "spawned", task[r][j].at, task[r][j].attempt) /\ UNCHANGED storeVars
  <2> DEFINE u == [task[r][j] EXCEPT !.pc = "spawned"]
  <2>1. task' = [task EXCEPT ![r][j] = u] /\ UNCHANGED storeVars
    BY <1>2 DEF Spawn
  <2>2. u.pc = "spawned" /\ u.at = task[r][j].at /\ u.attempt = task[r][j].attempt
    BY DEF TypeOK, Task
  <2> HIDE DEF u
  <2> QED BY <2>1, <2>2 DEF Goes, TypeOK
<1> QED BY <1>1, <1>2

LEMMA TaskInvNext ==
  ASSUME TypeOK, TaskInv, [Next]_vars
  PROVE  TaskInv'
<1>1. ASSUME task' = task PROVE TaskInv'
  BY <1>1 DEF TaskInv, TaskPlaced, Pipeline
<1>2. ASSUME NEW j \in Jobs, Publish(j) \/ Expire(j) PROVE TaskInv'
  BY <1>1, <1>2 DEF Publish, Expire
<1>3. ASSUME NEW r \in Replicas, NEW j \in Jobs, Receive(r, j) \/ Spawn(r, j) PROVE TaskInv'
  <2>1. /\ task'[r][j].pc \in {"received", "spawned"}
        /\ \A r2 \in Replicas, j2 \in Jobs : r2 # r \/ j2 # j => task'[r2][j2] = task[r2][j2]
    BY <1>3, ConsumerSteps DEF Goes
  <2>2. TaskPlaced(j, task'[r][j])
    BY <2>1, NotWritingPlaced DEF Writing
  <2> QED BY <2>1, <2>2, TaskInvLocal
<1>4. ASSUME NEW r \in Replicas, Exit(r) \/ Crash(r) PROVE TaskInv'
  <2>2. \A r2 \in Replicas, j \in Jobs : TaskPlaced(j, task'[r2][j])
    <3>1. \A j \in Jobs : TaskPlaced(j, Idle)
      BY NotWritingPlaced DEF Writing, Idle
    <3>2. /\ \A j \in Jobs : task'[r][j] = Idle
          /\ \A r2 \in Replicas : r2 # r => task'[r2] = task[r2]
      BY <1>4, OtherSteps
    <3> QED BY <3>1, <3>2 DEF TaskInv
  <2> QED BY <2>2 DEF TaskInv, TaskPlaced, Pipeline
<1>5. ASSUME NEW r \in Replicas, NEW j \in Jobs, Deliver(r, j) PROVE TaskInv'
  BY <1>1, <1>5, OtherSteps
<1>6. ASSUME NEW r \in Replicas, ConsumeJobs(r) \/ Disconnect(r) PROVE TaskInv'
  BY <1>1, <1>3, <1>6, OtherSteps DEF ConsumeJobs
<1>7. ASSUME NEW r \in Replicas, Signal(r) \/ Stop(r) \/ Crash(r) \/ Restart(r)
      PROVE  TaskInv'
  BY <1>1, <1>4, <1>7, OtherSteps DEF Stop
<1>8. CASE UNCHANGED vars
  BY <1>1, <1>8 DEF vars
<1> QED BY <1>2, <1>5, <1>6, <1>7, <1>8, TaskInvProcessJob DEF Next

\* A PDF job that has failed was in its last attempt, and the attempts before it
\* had tried every engine listed before: there is no engine left.
LEMMA TaskInvImpliesEveryEngine ==
  ASSUME TaskInv
  PROVE  FailedAfterEveryEngine
<1> SUFFICES ASSUME NEW r \in Replicas, NEW j \in Jobs,
                    task[r][j].pc \in {"failing", "nacking"},
                    Message[j].direction = "latex_to_pdf",
                    NEW e \in Engines
             PROVE  \E i \in 1..task[r][j].attempt : EngineOrder(Message[j])[i] = e
  BY DEF FailedAfterEveryEngine
<1>1. task[r][j].attempt = Len(EngineOrder(Message[j]))
  BY DEF TaskInv, TaskPlaced
<1>2. Message[j] \in ConversionJob
  BY MessageAssumption
<1> QED BY <1>1, <1>2, EngineOrderComplete DEF Lists

\* A PDF job is recorded as failed, and its message rejected, only after every
\* engine was tried on it, whichever engine it asked for or was detected to need:
\* the fallback loop of latexToPdfPipeline gives up after its last turn only.
THEOREM FailsAfterEveryEngine == Safety => []FailedAfterEveryEngine
<1> DEFINE Inv == TypeOK /\ TaskInv
<1>1. Init => Inv
  BY TypeInit, TaskInvInit
<1>2. Inv /\ [Next]_vars => Inv'
  BY TypeNext, TaskInvNext
<1>3. Inv => FailedAfterEveryEngine
  BY TaskInvImpliesEveryEngine
<1> QED BY <1>1, <1>2, <1>3, PTL DEF Safety

-----------------------------------------------------------------------------
(* What one delivery writes *)

\* A goroutine t of the only delivery of j is never behind the record: it has at
\* least the progress on record, the record is terminal only when nothing is left
\* but to say so again, and it agrees with the outcome that the goroutine is about
\* to report to the broker.
Ahead(j, t, record, saved) ==
  /\ t.pc \in {"pipeline", "fallback", "failing"} =>
       /\ record.progress <= t.job.progress
       /\ record.state \in TerminalStates =>
            /\ t.pc = "pipeline"
            /\ Message[j].direction \in Directions
            /\ t.at > Len(Pipeline(j))
            /\ record.state = "completed"
  /\ t.pc \in {"nacking", "acking"} => Agrees(record.state, t.job.state, saved)

\* As long as the message of j was not delivered again, only the replica it is
\* delivered to works on it, nothing is on record before that work begins, and
\* the settlement agrees with the record.
FirstDelivery(j) ==
  /\ \A r \in Replicas :
       /\ j \in inbox[r] => j \in unacked[r] /\ task[r][j].pc \in {"none", "settled"}
       /\ task[r][j].pc \notin {"none", "settled"} => j \in unacked[r]
       /\ j \in inbox[r] \/ task[r][j].pc \in {"received", "spawned"} => store[j] = NoRecord
       /\ Ahead(j, task[r][j], store[j], j \notin unsaved)
  /\ msg[j] \in {"unpublished", "ready", "expired"} => store[j] = NoRecord
  /\ msg[j] = "acked" => Agrees(store[j].state, "completed", j \notin unsaved)
  /\ msg[j] = "rejected" =>
       IF Message[j].malformed THEN store[j].state = "none"
       ELSE Agrees(store[j].state, "failed", j \notin unsaved)

RecordInv == \A j \in Jobs : ~redelivered[j] => FirstDelivery(j)

LEMMA EndedIsAhead ==
  ASSUME NEW j, NEW t, NEW record, NEW saved, t.pc \notin Writing
  PROVE  Ahead(j, t, record, saved)
BY DEF Ahead, Writing

LEMMA RecordInvInit == Init => RecordInv
<1> SUFFICES ASSUME Init, NEW j \in Jobs PROVE FirstDelivery(j)
  BY DEF RecordInv
<1>1. /\ msg[j] = "unpublished" /\ store[j] = NoRecord
      /\ \A r \in Replicas : j \notin inbox[r] /\ task[r][j].pc = "none"
  BY DEF Init, Idle
<1> QED BY <1>1, EndedIsAhead DEF FirstDelivery, Writing

\* Nothing that matters to j happens, but perhaps the end of a goroutine for it.
Untouched(j) ==
  /\ msg'[j] = msg[j] /\ store'[j] = store[j]
  /\ j \in unsaved' <=> j \in unsaved
  /\ \A r \in Replicas :
       /\ j \in unacked'[r] <=> j \in unacked[r]
       /\ j \in inbox'[r] => j \in inbox[r]
       /\ task'[r][j] = task[r][j] \/ task'[r][j].pc = "none"

LEMMA FirstDeliveryStays ==
  ASSUME NEW j \in Jobs, FirstDelivery(j), Untouched(j)
  PROVE  FirstDelivery(j)'
<1>1. ASSUME NEW r \in Replicas
      PROVE  /\ j \in inbox'[r] => j \in unacked'[r] /\ task'[r][j].pc \in {"none", "settled"}
             /\ task'[r][j].pc \notin {"none", "settled"} => j \in unacked'[r]
             /\ j \in inbox'[r] \/ task'[r][j].pc \in {"received", "spawned"} =>
                  store'[j] = NoRecord
             /\ Ahead(j, task'[r][j], store'[j], j \notin unsaved')
  <2>1. CASE task'[r][j] = task[r][j]
    BY <2>1 DEF FirstDelivery, Untouched, Ahead
  <2>2. CASE task'[r][j].pc = "none"
    BY <2>2, EndedIsAhead DEF FirstDelivery, Untouched, Writing
  <2> QED BY <2>1, <2>2 DEF Untouched
<1> QED BY <1>1 DEF FirstDelivery, Untouched, Ahead, Pipeline

\* A save replaces the record, or it is lost; it concerns one job only.
LEMMA SaveJobEffect ==
  ASSUME TypeOK, NEW r \in Replicas, NEW j \in Jobs, NEW record, SaveJob(r, j, record)
  PROVE  /\ \/ store'[j] = record /\ j \notin unsaved'
            \/ store'[j] = store[j] /\ j \in unsaved'
         /\ \A j2 \in Jobs : j2 # j =>
              store'[j2] = store[j2] /\ (j2 \in unsaved' <=> j2 \in unsaved)
BY DEF SaveJob, TypeOK

\* A goroutine saves its own job, or nothing.
LEMMA ProcessJobSaves ==
  ASSUME TypeOK, NEW r \in Replicas, NEW j \in Jobs, ProcessJob(r, j)
  PROVE  SavesJob(r, j) \/ UNCHANGED storeVars
BY MovingSteps, StartJobGoes, UpdateProgressGoes, ProduceOutputGoes, RetryGoes,
   RecordFailureGoes, RecordCompletionGoes, ReleaseSlotGoes DEF ProcessJob, KeepsJob

\* A goroutine's step is of no concern to any other job.
LEMMA ProcessJobUntouched ==
  ASSUME TypeOK, NEW r \in Replicas, NEW j \in Jobs, ProcessJob(r, j),
         NEW j2 \in Jobs, j2 # j
  PROVE  Untouched(j2)
<1>1. store'[j2] = store[j2] /\ (j2 \in unsaved' <=> j2 \in unsaved)
  BY ProcessJobSaves, SaveJobEffect DEF SavesJob, storeVars
<1>2. msg'[j2] = msg[j2] /\ \A r2 \in Replicas : j2 \in unacked'[r2] <=> j2 \in unacked[r2]
  <2>1. CASE msg' = msg /\ unacked' = unacked
    BY <2>1
  <2>2. CASE /\ unacked' = [unacked EXCEPT ![r] = unacked[r] \ {j}]
             /\ \E v \in Settled : msg' = [msg EXCEPT ![j] = v]
    BY <2>2 DEF TypeOK
  <2> QED BY <2>1, <2>2, ProcessJobStep
<1> QED BY <1>1, <1>2, ProcessJobStep DEF Untouched

\* The goroutine of a first delivery is the only one, and holds the message.
LEMMA OnlyWriter ==
  ASSUME TypeOK, OwnerInv, NEW r \in Replicas, NEW j \in Jobs, FirstDelivery(j),
         task[r][j].pc \notin {"none", "settled"}
  PROVE  /\ j \in unacked[r] /\ msg[j] = "unacked"
         /\ \A r2 \in Replicas : j \notin inbox[r2]
         /\ \A r2 \in Replicas : r2 # r => task[r2][j].pc \in {"none", "settled"}
<1>1. j \in unacked[r] /\ j \notin inbox[r]
  BY DEF FirstDelivery
<1>2. msg[j] = "unacked" /\ \A r2 \in Replicas : r2 # r => j \notin unacked[r2]
  BY <1>1 DEF OwnerInv
<1> QED BY <1>1, <1>2 DEF FirstDelivery

\* What a step of that goroutine must show: its new place, the new record and
\* the message fit together again.
LEMMA FirstDeliveryWriter ==
  ASSUME TypeOK, OwnerInv, NEW r \in Replicas, NEW j \in Jobs, FirstDelivery(j),
         ProcessJob(r, j), task[r][j].pc # "settled",
         Ahead(j, task'[r][j], store'[j], j \notin unsaved'),
         \/ msg'[j] = msg[j] /\ task'[r][j].pc \in Writing /\ unacked' = unacked
         \/ /\ task'[r][j].pc = "settled"
            /\ \/ msg'[j] = "acked" /\ Agrees(store'[j].state, "completed", j \notin unsaved')
               \/ /\ msg'[j] = "rejected"
                  /\ IF Message[j].malformed THEN store'[j].state = "none"
                     ELSE Agrees(store'[j].state, "failed", j \notin unsaved')
  PROVE  FirstDelivery(j)'
<1>1. /\ j \in unacked[r] /\ msg[j] = "unacked"
      /\ \A r2 \in Replicas : j \notin inbox[r2]
      /\ \A r2 \in Replicas : r2 # r => task[r2][j].pc \in {"none", "settled"}
  BY OnlyWriter, ProcessJobStep
<1>2. inbox' = inbox /\ \A r2 \in Replicas : r2 # r => task'[r2][j] = task[r2][j]
  BY ProcessJobStep
<1>3. \A r2 \in Replicas : Ahead(j, task'[r2][j], store'[j], j \notin unsaved')
  BY <1>1, <1>2, EndedIsAhead DEF Writing
<1>4. CASE msg'[j] = msg[j] /\ task'[r][j].pc \in Writing /\ unacked' = unacked
  <2>1. \A r2 \in Replicas :
          /\ j \notin inbox'[r2]
          /\ task'[r2][j].pc \notin {"none", "settled"} => j \in unacked'[r2]
          /\ task'[r2][j].pc \notin {"received", "spawned"}
    BY <1>1, <1>2, <1>4 DEF Writing
  <2> QED BY <1>1, <1>3, <1>4, <2>1 DEF FirstDelivery, Ahead, Pipeline
<1>5. CASE /\ task'[r][j].pc = "settled"
           /\ \/ msg'[j] = "acked" /\ Agrees(store'[j].state, "completed", j \notin unsaved')
              \/ /\ msg'[j] = "rejected"
                 /\ IF Message[j].malformed THEN store'[j].state = "none"
                    ELSE Agrees(store'[j].state, "failed", j \notin unsaved')
  <2>1. \A r2 \in Replicas :
          j \notin inbox'[r2] /\ task'[r2][j].pc \in {"none", "settled"}
    BY <1>1, <1>2, <1>5
  <2> QED BY <1>3, <1>5, <2>1 DEF FirstDelivery, Ahead, Pipeline
<1> QED BY <1>4, <1>5

LEMMA ProgressIsTransitive ==
  ASSUME NEW a \in 0..100, NEW b \in 0..100, NEW c \in 0..100, a <= b, b <= c
  PROVE  a <= c
OBVIOUS

\* Every step of that goroutine keeps it ahead of the record, and moves the
\* record forward.
LEMMA WriterStep ==
  ASSUME TypeOK, OwnerInv, TaskInv, NEW r \in Replicas, NEW j \in Jobs,
         FirstDelivery(j), ProcessJob(r, j)
  PROVE  FirstDelivery(j)' /\ Advances(store[j], store'[j])
<1> DEFINE t == task[r][j]
           u == task'[r][j]
           p == Pipeline(j)
           saved == j \notin unsaved'
<1>t. /\ t \in Task /\ t.job \in Records /\ t.at \in Nat \ {0}
      /\ t.job.progress \in 0..100 /\ store[j].progress \in 0..100
  BY DEF TypeOK, Task, Records
<1>p. TaskPlaced(j, t) /\ Ahead(j, t, store[j], j \notin unsaved)
  BY DEF TaskInv, FirstDelivery
<1>q. Advances(store[j], store[j])
  BY <1>t DEF Advances
<1>1. CASE t.pc = "settled"
  <2>1. ReleaseSlot(r, j)
    BY <1>1 DEF ProcessJob, RejectMalformed, StartJob, UpdateProgress, ProduceOutput,
                TryNextEngine, RetryWithFallback, PipelineFails, RecordFailure, Nack,
                RecordCompletion, Ack, AtStep
  <2>2. store'[j] = store[j] /\ (j \in unsaved' <=> j \in unsaved)
    BY <2>1, ReleaseSlotGoes DEF storeVars
  <2>3. Untouched(j)
    <3>1. UNCHANGED brokerVars /\ task'[r][j].pc = "none"
      BY <2>1, ReleaseSlotGoes DEF ReleaseSlot, Goes
    <3>2. \A r2 \in Replicas : task'[r2][j] = task[r2][j] \/ task'[r2][j].pc = "none"
      BY <3>1, ProcessJobStep
    <3> QED BY <2>2, <3>1, <3>2 DEF brokerVars, Untouched
  <2> QED BY <1>q, <2>2, <2>3, FirstDeliveryStays
<1>2. CASE t.pc # "settled"
  <2>o. /\ j \in unacked[r] /\ msg[j] = "unacked"
        /\ t.pc \notin {"none", "received"}
    BY <1>2, OnlyWriter, ProcessJobStep
  <2>g. ASSUME NEW verdict, Settle(r, j, verdict) PROVE msg'[j] = verdict
    BY <2>o, <2>g DEF Settle, TypeOK
  <2>k. ASSUME UNCHANGED brokerVars PROVE msg'[j] = msg[j] /\ unacked' = unacked
    BY <2>k DEF brokerVars
  <2>1. CASE RejectMalformed(r, j)
    <3>1. u.pc = "settled" /\ store' = store /\ msg'[j] = "rejected"
      BY <2>1, <2>g, MovingSteps DEF Goes, KeepsJob, storeVars, RejectMalformed
    <3>2. store[j] = NoRecord /\ Message[j].malformed
      BY <2>1 DEF RejectMalformed, FirstDelivery
    <3>3. store'[j].state = "none"
      BY <3>1, <3>2 DEF NoRecord
    <3>4. Ahead(j, u, store'[j], saved)
      BY <3>1, EndedIsAhead DEF Writing
    <3> QED BY <1>2, <1>q, <3>1, <3>2, <3>3, <3>4, FirstDeliveryWriter
  <2>2. CASE Nack(r, j)
    <3>1. u.pc = "settled" /\ UNCHANGED storeVars /\ msg'[j] = "rejected"
      BY <2>2, <2>g, MovingSteps DEF Goes, KeepsJob, Nack
    <3>2. t.pc = "nacking"
      BY <2>2 DEF Nack
    <3>3. ~Message[j].malformed /\ Agrees(store'[j].state, "failed", saved)
      BY <1>p, <3>1, <3>2 DEF TaskPlaced, Ahead, Writing, storeVars
    <3>4. Ahead(j, u, store'[j], saved)
      BY <3>1, EndedIsAhead DEF Writing
    <3> QED BY <1>2, <1>q, <3>1, <3>3, <3>4, FirstDeliveryWriter DEF storeVars
  <2>3. CASE Ack(r, j)
    <3>1. u.pc = "settled" /\ UNCHANGED storeVars /\ msg'[j] = "acked"
      BY <2>3, <2>g, MovingSteps DEF Goes, KeepsJob, Ack
    <3>2. t.pc = "acking"
      BY <2>3 DEF Ack
    <3>3. Agrees(store'[j].state, "completed", saved)
      BY <1>p, <3>1, <3>2 DEF TaskPlaced, Ahead, storeVars
    <3>4. Ahead(j, u, store'[j], saved)
      BY <3>1, EndedIsAhead DEF Writing
    <3> QED BY <1>2, <1>q, <3>1, <3>3, <3>4, FirstDeliveryWriter DEF storeVars
  <2>4. CASE TryNextEngine(r, j)
    <3>1. u.pc = "fallback" /\ u.job = t.job /\ UNCHANGED storeVars
      BY <2>4, MovingSteps DEF Goes, KeepsJob
    <3>2. t.pc = "pipeline" /\ t.at <= Len(p) /\ Len(p) \in Nat
      BY <2>4, StepForward DEF TryNextEngine, AtStep
    <3>3. Ahead(j, u, store'[j], saved)
      BY <1>p, <1>t, <3>1, <3>2 DEF Ahead, storeVars
    <3>4. msg'[j] = msg[j] /\ unacked' = unacked
      BY <2>4, <2>k DEF TryNextEngine
    <3> QED BY <1>2, <1>q, <3>1, <3>3, <3>4, FirstDeliveryWriter DEF storeVars, Writing
  <2>5. CASE PipelineFails(r, j)
    <3>1. u.pc = "failing" /\ u.job = t.job /\ UNCHANGED storeVars
      BY <2>5, MovingSteps DEF Goes, KeepsJob
    <3>2. /\ t.pc = "pipeline"
          /\ Message[j].direction \in Directions => t.at <= Len(p) /\ Len(p) \in Nat
      BY <2>5, StepForward DEF PipelineFails, AtStep
    <3>3. Ahead(j, u, store'[j], saved)
      BY <1>p, <1>t, <3>1, <3>2 DEF Ahead, storeVars
    <3>4. msg'[j] = msg[j] /\ unacked' = unacked
      BY <2>5, <2>k DEF PipelineFails
    <3> QED BY <1>2, <1>q, <3>1, <3>3, <3>4, FirstDeliveryWriter DEF storeVars, Writing
  <2>6. CASE ProduceOutput(r, j)
    <3>1. u.pc = "pipeline" /\ u.job.progress = t.job.progress /\ UNCHANGED storeVars
      BY <2>6, ProduceOutputGoes DEF Goes, JobGets
    <3>2. t.pc = "pipeline" /\ t.at <= Len(p) /\ Len(p) \in Nat
      BY <2>6, StepForward DEF ProduceOutput, AtStep
    <3>3. Ahead(j, u, store'[j], saved)
      BY <1>p, <1>t, <3>1, <3>2 DEF Ahead, storeVars
    <3>4. msg'[j] = msg[j] /\ unacked' = unacked
      BY <2>6, <2>k DEF ProduceOutput
    <3> QED BY <1>2, <1>q, <3>1, <3>3, <3>4, FirstDeliveryWriter DEF storeVars, Writing
  <2>7. CASE StartJob(r, j)
    <3>1. u.pc = "pipeline" /\ u.job.state = "queued" /\ u.job.progress = 0 /\ SavesJob(r, j)
      BY <2>7, StartJobGoes DEF Goes, JobGets
    <3>2. store[j].progress = 0 /\ store[j].state = "none"
      BY <2>7 DEF StartJob, FirstDelivery, NoRecord
    <3>3. store'[j] = u.job \/ store'[j] = store[j]
      BY <3>1, SaveJobEffect DEF SavesJob
    <3>4. Ahead(j, u, store'[j], saved) /\ Advances(store[j], store'[j])
      BY <3>1, <3>2, <3>3 DEF Ahead, Advances, TerminalStates
    <3>5. msg'[j] = msg[j] /\ unacked' = unacked
      BY <2>7, <2>k DEF StartJob
    <3> QED BY <1>2, <3>1, <3>4, <3>5, FirstDeliveryWriter DEF Writing
  <2>8. CASE UpdateProgress(r, j)
    <3>1. /\ u.pc = "pipeline" /\ u.at = t.at + 1 /\ SavesJob(r, j)
          /\ u.job.state = p[t.at].state /\ u.job.progress = p[t.at].progress
      BY <2>8, UpdateProgressGoes DEF Goes, JobGets
    <3>2. t.pc = "pipeline" /\ AtStep(r, j, {"update"})
      BY <2>8 DEF UpdateProgress, AtStep
    <3>3. /\ Message[j].direction \in Directions /\ Forward(p) /\ WellFormed(p)
          /\ Len(p) \in Nat /\ t.at \in 1..Len(p) /\ p[t.at].op = "update"
      BY <3>2, StepForward
    <3>4. store[j].state \notin TerminalStates /\ store[j].progress <= t.job.progress
      BY <1>p, <1>t, <3>2, <3>3 DEF Ahead
    <3>5. /\ Level(p[t.at]) = p[t.at].progress
          /\ t.job.progress <= Level(p[t.at]) /\ Level(p[t.at]) \in 0..100
      <4>1. Level(p[t.at]) = p[t.at].progress
        BY <3>3 DEF Level
      <4>2. p[t.at].op \in Storing /\ t.at >= t.at
        BY <3>3, <1>t DEF Storing
      <4>3. t.job.progress <= Level(p[t.at])
        BY <1>p, <3>2, <3>3, <4>2 DEF TaskPlaced
      <4>4. Level(p[t.at]) \in 0..100
        BY <3>3, <4>2, LevelType
      <4> QED BY <4>1, <4>3, <4>4
    <3>6. store[j].progress <= u.job.progress
      <4>1. u.job.progress \in 0..100 /\ t.job.progress <= u.job.progress
        BY <3>1, <3>5
      <4> QED BY <1>t, <3>4, <4>1, ProgressIsTransitive
    <3>7. u.job.state \in TerminalStates => u.job.state = "completed" /\ u.at > Len(p)
      <4>1. CASE t.at < Len(p)
        <5>1. p[t.at].state \in InterimStates
          BY <3>3, <4>1 DEF Forward
        <5> QED BY <3>1, <5>1 DEF TerminalStates, InterimStates
      <4>2. CASE t.at = Len(p)
        <5>1. p[t.at].state = "completed"
          BY <3>3, <4>2 DEF WellFormed, Update
        <5>2. t.at + 1 > Len(p)
          BY <3>3, <4>2
        <5> QED BY <3>1, <5>1, <5>2
      <4> QED BY <3>3, <4>1, <4>2
    <3>8. store'[j] = u.job \/ store'[j] = store[j]
      BY <3>1, SaveJobEffect DEF SavesJob
    <3>9. u.job.progress <= u.job.progress
      BY <3>1, <3>5
    <3>10. Ahead(j, u, store'[j], saved)
      BY <3>1, <3>3, <3>4, <3>6, <3>7, <3>8, <3>9 DEF Ahead
    <3>11. Advances(store[j], store'[j])
      BY <1>t, <3>4, <3>6, <3>8 DEF Advances
    <3>12. msg'[j] = msg[j] /\ unacked' = unacked
      BY <2>8, <2>k DEF UpdateProgress
    <3> QED BY <1>2, <3>1, <3>10, <3>11, <3>12, FirstDeliveryWriter DEF Writing
  <2>9. CASE RetryWithFallback(r, j)
    <3>1. /\ u.pc = "pipeline" /\ SavesJob(r, j)
          /\ u.job.state = "rendering" /\ u.job.progress = 40
      BY <2>9, RetryGoes DEF Goes, JobGets
    <3>2. t.pc = "fallback"
      BY <2>9 DEF RetryWithFallback
    <3>3. store[j].state \notin TerminalStates /\ store[j].progress <= t.job.progress
      BY <1>p, <3>2 DEF Ahead
    <3>4. t.job.progress <= 40
      <4>1. t.at \in 2..Len(p) /\ p[t.at].op = "latex"
        BY <1>p, <3>2 DEF TaskPlaced
      <4>2. Len(p) \in Nat
        BY <1>p, <3>2, <4>1, PipelinesWellFormed DEF TaskPlaced, Pipeline, WellFormed
      <4>3. t.at \in 1..Len(p) /\ t.at >= t.at /\ p[t.at].op \in Storing /\ Level(p[t.at]) = 40
        <5>1. t.at \in 1..Len(p) /\ t.at >= t.at
          BY ONLY <4>1, <4>2
        <5>2. p[t.at].op \in Storing /\ Level(p[t.at]) = 40
          BY ONLY <4>1 DEF Storing, Level
        <5> QED BY <5>1, <5>2
      <4> QED BY <1>p, <3>2, <4>3 DEF TaskPlaced
    <3>5. store'[j] = u.job \/ store'[j] = store[j]
      BY <3>1, SaveJobEffect DEF SavesJob
    <3>6. store[j].progress <= 40
      <4>1. store[j].progress \in Nat /\ t.job.progress \in Nat
        BY <1>t
      <4>2. store[j].progress <= t.job.progress
        BY <3>3
      <4> QED BY ONLY <3>4, <4>1, <4>2
    <3>7. Ahead(j, u, store'[j], saved) /\ Advances(store[j], store'[j])
      <4>1. CASE store'[j] = u.job
        <5>1. 40 <= 40 /\ 40 >= store[j].progress
          BY <1>t, <3>6
        <5> QED BY <3>1, <3>3, <4>1, <5>1 DEF Ahead, Advances, TerminalStates
      <4>2. CASE store'[j] = store[j]
        BY <1>q, <3>1, <3>3, <3>6, <4>2 DEF Ahead, TerminalStates
      <4> QED BY <3>5, <4>1, <4>2
    <3>8. msg'[j] = msg[j] /\ unacked' = unacked
      BY <2>9, <2>k DEF RetryWithFallback
    <3> QED BY <1>2, <3>1, <3>7, <3>8, FirstDeliveryWriter DEF Writing
  <2>10. CASE RecordFailure(r, j)
    <3>1. /\ u.pc = "nacking" /\ SavesJob(r, j)
          /\ u.job.state = "failed" /\ u.job.progress = t.job.progress
      BY <2>10, RecordFailureGoes DEF Goes, JobGets
    <3>2. t.pc = "failing"
      BY <2>10 DEF RecordFailure
    <3>3. store[j].state \notin TerminalStates /\ store[j].progress <= t.job.progress
      BY <1>p, <3>2 DEF Ahead
    <3>4. \/ store'[j] = u.job
          \/ store'[j] = store[j] /\ j \in unsaved'
      BY <3>1, SaveJobEffect DEF SavesJob
    <3>5. Ahead(j, u, store'[j], saved) /\ Advances(store[j], store'[j])
      BY <1>t, <3>1, <3>3, <3>4 DEF Ahead, Advances, Agrees, TerminalStates
    <3>6. msg'[j] = msg[j] /\ unacked' = unacked
      BY <2>10, <2>k DEF RecordFailure
    <3> QED BY <1>2, <3>1, <3>5, <3>6, FirstDeliveryWriter DEF Writing
  <2>11. CASE RecordCompletion(r, j)
    <3>1. /\ u.pc = "acking" /\ SavesJob(r, j)
          /\ u.job.state = "completed" /\ u.job.progress = t.job.progress
      BY <2>11, RecordCompletionGoes DEF Goes, JobGets
    <3>2. t.pc = "pipeline"
      BY <2>11 DEF RecordCompletion
    <3>3. /\ store[j].state \in TerminalStates => store[j].state = "completed"
          /\ store[j].progress <= t.job.progress
      BY <1>p, <3>2 DEF Ahead
    <3>4. \/ store'[j] = u.job
          \/ store'[j] = store[j] /\ j \in unsaved'
      BY <3>1, SaveJobEffect DEF SavesJob
    <3>5. Ahead(j, u, store'[j], saved) /\ Advances(store[j], store'[j])
      BY <1>t, <3>1, <3>3, <3>4 DEF Ahead, Advances, Agrees, TerminalStates
    <3>6. msg'[j] = msg[j] /\ unacked' = unacked
      BY <2>11, <2>k DEF RecordCompletion
    <3> QED BY <1>2, <3>1, <3>5, <3>6, FirstDeliveryWriter DEF Writing
  <2>12. ~ReleaseSlot(r, j)
    BY <1>2 DEF ReleaseSlot
  <2> HIDE DEF t, u, p, saved
  <2> QED BY <2>1, <2>2, <2>3, <2>4, <2>5, <2>6, <2>7, <2>8, <2>9, <2>10, <2>11, <2>12
          DEF ProcessJob
<1> QED BY <1>1, <1>2

\* Nothing of j but its message changes, or the goroutine that has taken it.
Delivered(j) ==
  /\ store'[j] = store[j]
  /\ j \in unsaved' <=> j \in unsaved
  /\ \A r \in Replicas :
       /\ j \in inbox'[r] => j \in unacked'[r] /\ task'[r][j].pc \in {"none", "settled"}
       /\ task'[r][j].pc \notin {"none", "settled"} => j \in unacked'[r]
       /\ task'[r][j] = task[r][j] \/ task'[r][j].pc \in {"received", "spawned"}

\* The job has no record yet, and its message goes on to its only delivery.
LEMMA FirstDeliveryBegins ==
  ASSUME NEW j \in Jobs, FirstDelivery(j), Delivered(j), store[j] = NoRecord,
         msg'[j] \notin {"acked", "rejected"}
  PROVE  FirstDelivery(j)'
<1>1. ASSUME NEW r \in Replicas PROVE Ahead(j, task'[r][j], store'[j], j \notin unsaved')
  <2>1. CASE task'[r][j] = task[r][j]
    BY <2>1 DEF FirstDelivery, Delivered, Ahead
  <2>2. CASE task'[r][j].pc \in {"received", "spawned"}
    BY <2>2, EndedIsAhead DEF Writing
  <2> QED BY <2>1, <2>2 DEF Delivered
<1> QED BY <1>1 DEF FirstDelivery, Delivered, Ahead, Pipeline

\* The steps of the broker and of the consumer loop.
LEMMA RecordInvDelivery ==
  ASSUME TypeOK, OwnerInv, NEW r \in Replicas, NEW j \in Jobs, FirstDelivery(j),
         NEW j0 \in Jobs,
         Publish(j0) \/ Expire(j0) \/ Deliver(r, j0) \/ Receive(r, j0) \/ Spawn(r, j0)
  PROVE  FirstDelivery(j)' /\ store' = store /\ redelivered' = redelivered
<1>0. store' = store /\ unsaved' = unsaved /\ redelivered' = redelivered
  BY DEF Publish, Expire, Deliver, Receive, Spawn, storeVars, brokerVars
<1>1. CASE Publish(j0) \/ Expire(j0)
  <2>1. /\ task' = task /\ inbox' = inbox /\ unacked' = unacked
        /\ msg' = [msg EXCEPT ![j0] = "ready"] \/ msg' = [msg EXCEPT ![j0] = "expired"]
        /\ msg[j0] \in {"unpublished", "ready"}
    BY <1>1 DEF Publish, Expire
  <2>2. CASE j0 = j
    <3>1. msg'[j] \in {"ready", "expired"} /\ store[j] = NoRecord
      BY <2>1, <2>2 DEF TypeOK, FirstDelivery
    <3>2. Delivered(j)
      BY <1>0, <2>1 DEF Delivered, FirstDelivery
    <3> QED BY <1>0, <3>1, <3>2, FirstDeliveryBegins
  <2>3. CASE j0 # j
    <3>1. msg'[j] = msg[j]
      BY <2>1, <2>3 DEF TypeOK
    <3>2. Untouched(j)
      BY <1>0, <2>1, <3>1 DEF Untouched
    <3> QED BY <1>0, <3>2, FirstDeliveryStays
  <2> QED BY <2>2, <2>3
<1>2. CASE Deliver(r, j0)
  <2>1. /\ task' = task /\ msg[j0] = "ready" /\ msg' = [msg EXCEPT ![j0] = "unacked"]
        /\ \A r2 \in Replicas :
             /\ unacked'[r2] = IF r2 = r THEN unacked[r] \union {j0} ELSE unacked[r2]
             /\ inbox'[r2] = IF r2 = r THEN inbox[r] \union {j0} ELSE inbox[r2]
    BY <1>2 DEF Deliver, TypeOK
  <2>2. CASE j0 = j
    <3>1. store[j] = NoRecord /\ msg'[j] = "unacked"
      BY <2>1, <2>2 DEF FirstDelivery, TypeOK
    <3>2. \A r2 \in Replicas : j \notin unacked[r2] /\ task[r2][j].pc \in {"none", "settled"}
      BY <2>1, <2>2 DEF OwnerInv, FirstDelivery
    <3>3. Delivered(j)
      BY <1>0, <2>1, <2>2, <3>2 DEF Delivered, FirstDelivery
    <3> QED BY <1>0, <3>1, <3>3, FirstDeliveryBegins
  <2>3. CASE j0 # j
    <3>1. msg'[j] = msg[j]
      BY <2>1, <2>3 DEF TypeOK
    <3>2. Untouched(j)
      BY <1>0, <2>1, <2>3, <3>1 DEF Untouched
    <3> QED BY <1>0, <3>2, FirstDeliveryStays
  <2> QED BY <2>2, <2>3
<1>3. CASE Receive(r, j0)
  <2>1. /\ msg' = msg /\ unacked' = unacked /\ j0 \in inbox[r]
        /\ \A r2 \in Replicas : inbox'[r2] = IF r2 = r THEN inbox[r] \ {j0} ELSE inbox[r2]
    BY <1>3 DEF Receive, TypeOK
  <2>2. /\ task'[r][j0].pc = "received"
        /\ \A r2 \in Replicas, j2 \in Jobs : r2 # r \/ j2 # j0 => task'[r2][j2] = task[r2][j2]
    BY <1>3, ConsumerSteps DEF Goes
  <2>3. CASE j0 = j
    <3>1. j \in unacked[r] /\ store[j] = NoRecord
      BY <2>1, <2>3 DEF FirstDelivery
    <3>2. msg'[j] = "unacked"
      BY <2>1, <3>1 DEF OwnerInv
    <3>3. Delivered(j)
      BY <1>0, <2>1, <2>2, <2>3, <3>1 DEF Delivered, FirstDelivery
    <3> QED BY <1>0, <3>1, <3>2, <3>3, FirstDeliveryBegins
  <2>4. CASE j0 # j
    <3>1. Untouched(j)
      BY <1>0, <2>1, <2>2, <2>4 DEF Untouched
    <3> QED BY <1>0, <3>1, FirstDeliveryStays
  <2> QED BY <2>3, <2>4
<1>4. CASE Spawn(r, j0)
  <2>1. msg' = msg /\ unacked' = unacked /\ inbox' = inbox /\ task[r][j0].pc = "received"
    BY <1>4 DEF Spawn, brokerVars
  <2>2. /\ task'[r][j0].pc = "spawned"
        /\ \A r2 \in Replicas, j2 \in Jobs : r2 # r \/ j2 # j0 => task'[r2][j2] = task[r2][j2]
    BY <1>4, ConsumerSteps DEF Goes
  <2>3. CASE j0 = j
    <3>1. j \in unacked[r] /\ store[j] = NoRecord /\ j \notin inbox[r]
      BY <2>1, <2>3 DEF FirstDelivery
    <3>2. msg'[j] = "unacked"
      BY <2>1, <3>1 DEF OwnerInv
    <3>3. Delivered(j)
      BY <1>0, <2>1, <2>2, <2>3, <3>1 DEF Delivered, FirstDelivery
    <3> QED BY <1>0, <3>1, <3>2, <3>3, FirstDeliveryBegins
  <2>4. CASE j0 # j
    <3>1. Untouched(j)
      BY <1>0, <2>1, <2>2, <2>4 DEF Untouched
    <3> QED BY <1>0, <3>1, FirstDeliveryStays
  <2> QED BY <2>3, <2>4
<1> QED BY <1>0, <1>1, <1>2, <1>3, <1>4

\* A channel that closes redelivers what it had; it leaves the others alone.
LEMMA RecordInvClose ==
  ASSUME TypeOK, NEW r \in Replicas, NEW j \in Jobs, FirstDelivery(j), ~redelivered'[j],
         Disconnect(r) \/ Shutdown(r) \/ Exit(r) \/ Crash(r)
  PROVE  FirstDelivery(j)' /\ store' = store
<1>1. Requeue(r) /\ store' = store /\ unsaved' = unsaved
  BY DEF Disconnect, Shutdown, Exit, Crash, Terminate, storeVars
<1>2. j \notin unacked[r] /\ msg'[j] = msg[j]
  BY <1>1 DEF Requeue
<1>3. \A r2 \in Replicas : j \in unacked'[r2] <=> j \in unacked[r2]
  BY <1>1, <1>2 DEF Requeue, TypeOK
<1>4. \A r2 \in Replicas :
        /\ j \in inbox'[r2] => j \in inbox[r2]
        /\ task'[r2][j] = task[r2][j] \/ task'[r2][j].pc = "none"
  <2>1. CASE Disconnect(r) \/ Shutdown(r)
    BY <2>1 DEF Disconnect, Shutdown
  <2>2. CASE Exit(r) \/ Crash(r)
    <3>1. \A r2 \in Replicas : task'[r2][j] = task[r2][j] \/ task'[r2][j] = Idle
      BY <2>2, OtherSteps
    <3>2. inbox' = [inbox EXCEPT ![r] = {}]
      BY <2>2 DEF Exit, Crash, Terminate
    <3> QED BY <3>1, <3>2 DEF Idle, TypeOK
  <2> QED BY <2>1, <2>2
<1>5. Untouched(j)
  BY <1>1, <1>2, <1>3, <1>4 DEF Untouched
<1> QED BY <1>1, <1>5, FirstDeliveryStays

LEMMA RedeliveredStays ==
  ASSUME TypeOK, [Next]_vars, NEW j \in Jobs, redelivered[j]
  PROVE  redelivered'[j]
<1>1. ASSUME NEW r \in Replicas, Requeue(r) PROVE redelivered'[j]
  BY <1>1 DEF Requeue
<1>2. ASSUME UNCHANGED redelivered PROVE redelivered'[j]
  BY <1>2
<1>3. ASSUME NEW j0 \in Jobs, Publish(j0) \/ Expire(j0) PROVE redelivered'[j]
  BY <1>2, <1>3 DEF Publish, Expire
<1>4. ASSUME NEW r \in Replicas, NEW j0 \in Jobs, Deliver(r, j0) \/ ProcessJob(r, j0)
      PROVE  redelivered'[j]
  BY <1>2, <1>4, ProcessJobStep DEF Deliver
<1>5. ASSUME NEW r \in Replicas, ConsumeJobs(r) \/ Disconnect(r) PROVE redelivered'[j]
  BY <1>1, <1>2, <1>5
     DEF ConsumeJobs, Receive, Spawn, StopConsuming, ConsumerFails, Disconnect, brokerVars
<1>6. ASSUME NEW r \in Replicas, Signal(r) \/ Stop(r) \/ Crash(r) \/ Restart(r)
      PROVE  redelivered'[j]
  BY <1>1, <1>2, <1>6
     DEF Signal, Stop, Shutdown, Exit, Crash, Terminate, Restart, brokerVars
<1>7. CASE UNCHANGED vars
  BY <1>2, <1>7 DEF vars
<1> QED BY <1>3, <1>4, <1>5, <1>6, <1>7 DEF Next

\* Every step either redelivers the message of j or moves the record of j
\* forward, and in the second case the first delivery goes on as it should.
LEMMA FirstDeliveryNext ==
  ASSUME TypeOK, OwnerInv, TaskInv, RecordInv, [Next]_vars,
         NEW j \in Jobs, ~redelivered'[j]
  PROVE  FirstDelivery(j)' /\ Advances(store[j], store'[j])
<1>f. FirstDelivery(j)
  BY RedeliveredStays DEF RecordInv
<1>q. ASSUME store' = store PROVE Advances(store[j], store'[j])
  <2>1. store[j].progress \in 0..100
    BY DEF TypeOK, Records
  <2> QED BY <1>q, <2>1 DEF Advances
<1>u. ASSUME UNCHANGED <<msg, unacked, task, storeVars>>,
             \A r \in Replicas : j \in inbox'[r] => j \in inbox[r]
      PROVE  FirstDelivery(j)' /\ Advances(store[j], store'[j])
  <2>1. Untouched(j)
    BY <1>u DEF Untouched, storeVars
  <2> QED BY <1>f, <1>q, <1>u, <2>1, FirstDeliveryStays DEF storeVars
<1>1. ASSUME NEW j0 \in Jobs, Publish(j0) \/ Expire(j0)
      PROVE  FirstDelivery(j)' /\ Advances(store[j], store'[j])
  <2>1. CASE Replicas = {}
    BY <1>1, <1>f, <1>q, <2>1 DEF Publish, Expire, FirstDelivery, storeVars, TypeOK
  <2>2. CASE Replicas # {}
    BY <1>1, <1>f, <1>q, <2>2, RecordInvDelivery
  <2> QED BY <2>1, <2>2
<1>2. ASSUME NEW r \in Replicas, NEW j0 \in Jobs,
             Deliver(r, j0) \/ Receive(r, j0) \/ Spawn(r, j0)
      PROVE  FirstDelivery(j)' /\ Advances(store[j], store'[j])
  BY <1>2, <1>f, <1>q, RecordInvDelivery
<1>3. ASSUME NEW r \in Replicas, NEW j0 \in Jobs, ProcessJob(r, j0)
      PROVE  FirstDelivery(j)' /\ Advances(store[j], store'[j])
  <2>1. CASE j0 = j
    BY <1>3, <1>f, <2>1, WriterStep
  <2>2. CASE j0 # j
    <3>1. Untouched(j)
      BY <1>3, <2>2, ProcessJobUntouched
    <3>2. store[j].progress \in 0..100
      BY DEF TypeOK, Records
    <3> QED BY <1>f, <3>1, <3>2, FirstDeliveryStays DEF Untouched, Advances
  <2> QED BY <2>1, <2>2
<1>4. ASSUME NEW r \in Replicas,
             StopConsuming(r) \/ ConsumerFails(r) \/ Signal(r) \/ Restart(r)
      PROVE  FirstDelivery(j)' /\ Advances(store[j], store'[j])
  <2>1. UNCHANGED <<msg, unacked, task, storeVars>>
    BY <1>4 DEF StopConsuming, ConsumerFails, Signal, Restart, brokerVars
  <2>2. \A r2 \in Replicas : j \in inbox'[r2] => j \in inbox[r2]
    BY <1>4 DEF StopConsuming, ConsumerFails, Signal, Restart, brokerVars, TypeOK
  <2> QED BY <1>u, <2>1, <2>2
<1>5. ASSUME NEW r \in Replicas, Disconnect(r) \/ Shutdown(r) \/ Exit(r) \/ Crash(r)
      PROVE  FirstDelivery(j)' /\ Advances(store[j], store'[j])
  BY <1>5, <1>f, <1>q, RecordInvClose
<1>6. CASE UNCHANGED vars
  BY <1>6, <1>u DEF vars, storeVars
<1> QED BY <1>1, <1>2, <1>3, <1>4, <1>5, <1>6 DEF Next, ConsumeJobs, Stop

LEMMA RecordInvNext ==
  ASSUME TypeOK, OwnerInv, TaskInv, RecordInv, [Next]_vars
  PROVE  RecordInv'
BY FirstDeliveryNext DEF RecordInv

LEMMA RecordInvImpliesRecorded ==
  ASSUME RecordInv
  PROVE  SettledIsRecorded
<1> SUFFICES ASSUME NEW j \in Jobs, ~redelivered[j]
             PROVE  CASE msg[j] = "acked"    -> Agrees(store[j].state, "completed", j \notin unsaved)
                      [] msg[j] = "rejected" -> IF Message[j].malformed THEN store[j].state = "none"
                                                ELSE Agrees(store[j].state, "failed", j \notin unsaved)
                      [] msg[j] = "expired"  -> store[j].state = "none"
                      [] OTHER               -> TRUE
  BY DEF SettledIsRecorded
<1>1. /\ msg[j] = "acked" => Agrees(store[j].state, "completed", j \notin unsaved)
      /\ msg[j] = "rejected" =>
           IF Message[j].malformed THEN store[j].state = "none"
           ELSE Agrees(store[j].state, "failed", j \notin unsaved)
      /\ msg[j] = "expired" => store[j].state = "none"
  BY DEF RecordInv, FirstDelivery, NoRecord
<1>2. CASE msg[j] = "acked"
  BY <1>1, <1>2
<1>3. CASE msg[j] = "rejected"
  BY <1>1, <1>3
<1>4. CASE msg[j] = "expired"
  BY <1>1, <1>4
<1>5. CASE msg[j] \notin {"acked", "rejected", "expired"}
  BY <1>5
<1> QED BY <1>2, <1>3, <1>4, <1>5

\* What became of a message that was delivered at most once can be read off the
\* store: processJob saves the outcome before it settles the message, and nobody
\* else saves that job. If that save is lost, the record has at most fallen behind.
THEOREM RecordsAgree == Safety => []SettledIsRecorded
<1> DEFINE Inv == TypeOK /\ OwnerInv /\ TaskInv /\ RecordInv
<1>1. Init => Inv
  BY TypeInit, OwnerInvInit, TaskInvInit, RecordInvInit
<1>2. Inv /\ [Next]_vars => Inv'
  BY TypeNext, OwnerInvNext, TaskInvNext, RecordInvNext
<1>3. Inv => SettledIsRecorded
  BY RecordInvImpliesRecorded
<1> QED BY <1>1, <1>2, <1>3, PTL DEF Safety

\* One delivery moves the record of its job only forward: the saves of
\* processJob, updateProgress and the fallback loop never lower the progress and
\* never take back an outcome. Only a redelivered message does.
THEOREM OneDeliveryAdvances == Safety => OnlyRedeliveryRegresses
<1> DEFINE Inv == TypeOK /\ OwnerInv /\ TaskInv /\ RecordInv
           A   == \A j \in Jobs : redelivered'[j] \/ Advances(store[j], store'[j])
<1>1. Init => Inv
  BY TypeInit, OwnerInvInit, TaskInvInit, RecordInvInit
<1>2. Inv /\ [Next]_vars => Inv'
  BY TypeNext, OwnerInvNext, TaskInvNext, RecordInvNext
<1>3. Inv /\ [Next]_vars => [A]_vars
  BY FirstDeliveryNext
<1> QED BY <1>1, <1>2, <1>3, PTL DEF Safety, OnlyRedeliveryRegresses
=============================================================================
