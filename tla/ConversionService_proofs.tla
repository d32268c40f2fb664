----------------------- MODULE ConversionService_proofs -----------------------
(***************************************************************************)
(* Proofs about the whole conversion service: the invariants of the client *)
(* that hold over any service that keeps its outcomes, put together with   *)
(* those of the orchestrator, which is such a service whatever fails in it.*)
(***************************************************************************)
EXTENDS ConversionService, OrchestratorRefinement_proofs

\* The client and the lemmas about it, over this service.
Browser == INSTANCE WebClient_proofs
  WITH CompileJobs <- JobsOf({"latex_to_pdf"}),
       PdfJobs     <- JobsOf({"latex_to_pdf", "word_to_pdf"}),
       EmptyJobs   <- {j \in Jobs : ~HasOutput(j)},
       WorkersDie  <- TRUE,
       phase       <- [j \in Jobs |-> Phase(j)],
       retried     <- {j \in Jobs : redelivered[j]},
       status      <- [j \in Jobs |-> Status(j)]

\* What WebClient assumes of its constants holds here: only a round trip may
\* complete with nothing to download, and it makes no PDF.
LEMMA ClientAssumptions ==
  LET pdfJobs == JobsOf({"latex_to_pdf", "word_to_pdf"}) IN
  /\ JobsOf({"latex_to_pdf"}) \subseteq pdfJobs /\ pdfJobs \subseteq Jobs
  /\ {j \in Jobs : ~HasOutput(j)} \subseteq Jobs \ pdfJobs
  /\ NoJob \notin Jobs
  /\ MaxOverlap \in Nat \ {0}
  /\ NetworkFails \in BOOLEAN /\ TRUE \in BOOLEAN
BY NullAssumption, PollAssumption, NetworkAssumption DEF JobsOf, HasOutput

-----------------------------------------------------------------------------
(* The orchestrator inside                                                 *)

\* Every step is one of the orchestrator, or leaves it alone.
LEMMA OrchestratorStep ==
  ASSUME [ServiceNext]_serviceVars
  PROVE  [Next]_vars
<1>1. ASSUME NEW j \in Jobs, Submit(j) PROVE Next
  BY <1>1 DEF Submit, Next
<1>2. ASSUME NEW j \in Jobs, Browse(j) PROVE UNCHANGED vars
  BY <1>2 DEF Browse
<1>3. ASSUME NEW j \in Jobs, NEW k \in Client!Slots,
             GetStatus(j, k) \/ Download(j, k) \/ Handle(j, k) \/ RequestFails(j, k)
      PROVE  UNCHANGED vars
  BY <1>3 DEF GetStatus, Download, Handle, RequestFails, vars
<1>4. CASE Poll
  BY <1>4 DEF Poll
<1>5. CASE Work
  BY <1>5 DEF Work, Next
<1>6. CASE UNCHANGED serviceVars
  BY <1>6 DEF serviceVars
<1> QED BY <1>1, <1>2, <1>3, <1>4, <1>5, <1>6 DEF ServiceNext

\* The orchestrator behind the gateway behaves as it does by itself, so every
\* theorem about it holds of the whole service.
THEOREM ServiceRunsOrchestrator == ServiceSafety => Safety
<1>1. ServiceInit => Init
  BY DEF ServiceInit
<1>2. [ServiceNext]_serviceVars => [Next]_vars
  BY OrchestratorStep
<1> QED BY <1>1, <1>2, PTL DEF ServiceSafety, Safety

-----------------------------------------------------------------------------
(* What the gateway can answer                                             *)
(*                                                                         *)
(* Whatever fails, a record is never "cancelled", it is past 0 once work   *)
(* on the job has begun, and it is at 0 before. So the statuses a client   *)
(* sees are those it knows, and they come in the order of the progress.    *)

Proper(record) ==
  \/ record.state = "queued" /\ record.progress = 0
  \/ record.state \in InterimStates /\ record.progress > 0
  \/ record.state \in TerminalStates

ProperInv ==
  /\ \A j \in Jobs : store[j] = NoRecord \/ Proper(store[j])
  /\ \A r \in Replicas, j \in Jobs : task[r][j].pc \in Writing => Proper(task[r][j].job)

\* Every update of a pipeline stores some progress.
LEMMA PipelinesPositive ==
  ASSUME NEW d \in Directions, NEW n \in 1..Len(ExecutePipeline(d)),
         ExecutePipeline(d)[n].op = "update"
  PROVE  ExecutePipeline(d)[n].progress > 0
<1> DEFINE Positive(p) == \A i \in 1..Len(p) : p[i].op = "update" => p[i].progress > 0
<1>1. Positive(LatexToWordPipeline)
  BY DEF LatexToWordPipeline, Update, Produce
<1>2. Positive(WordToLatexPipeline)
  BY DEF WordToLatexPipeline, Update, Produce
<1>3. Positive(LatexToPdfPipeline)
  BY DEF LatexToPdfPipeline, Update, Produce
<1>4. Positive(WordToPdfPipeline)
  BY DEF WordToPdfPipeline, Update, Produce
<1>5. Positive(RoundTripPipeline)
  BY DEF RoundTripPipeline, Update, Produce
<1>6. Positive(ExecutePipeline(d))
  <2> HIDE DEF Positive
  <2> QED BY <1>1, <1>2, <1>3, <1>4, <1>5 DEF Directions, ExecutePipeline, PipelineOf
<1> QED BY <1>6

LEMMA ProperInvInit == Init => ProperInv
BY DEF Init, ProperInv, Idle, Writing

\* The job a goroutine goes on with.
LEMMA ProperTask ==
  ASSUME TypeOK, TaskInv, ProperInv, NEW r \in Replicas, NEW j \in Jobs, ProcessJob(r, j)
  PROVE  task'[r][j].pc \in Writing => Proper(task'[r][j].job)
<1> DEFINE t == task[r][j]
           u == task'[r][j]
<1>k. ASSUME t.pc \in Writing, u.job.state = t.job.state, u.job.progress = t.job.progress
      PROVE  Proper(u.job)
  BY <1>k DEF ProperInv, Proper
<1>1. CASE RejectMalformed(r, j) \/ Nack(r, j) \/ Ack(r, j) \/ ReleaseSlot(r, j)
  BY <1>1, MovingSteps, ReleaseSlotGoes DEF Goes, Idle, Writing
<1>2. CASE StartJob(r, j)
  BY <1>2, StartJobGoes DEF JobGets, Proper
<1>3. CASE UpdateProgress(r, j)
  <2>1. AtStep(r, j, {"update"})
    BY <1>3 DEF UpdateProgress
  <2> DEFINE n == t.at
             p == Pipeline(j)
  <2>2. /\ n \in 1..Len(p) /\ p[n].op = "update" /\ Forward(p) /\ WellFormed(p)
        /\ Message[j].direction \in Directions /\ Len(p) \in Nat
    BY <2>1, StepForward
  <2>3. p[n].progress > 0
    BY <2>2, PipelinesPositive DEF Pipeline
  <2>4. p[n].state \in InterimStates \/ p[n].state = "completed"
    <3>1. CASE n < Len(p)
      BY <2>2, <3>1 DEF Forward
    <3>2. CASE n = Len(p)
      BY <2>2, <3>2 DEF WellFormed, Update
    <3> QED BY <2>2, <3>1, <3>2
  <2>5. u.job.state = p[n].state /\ u.job.progress = p[n].progress
    BY <1>3, UpdateProgressGoes DEF JobGets
  <2> QED BY <2>3, <2>4, <2>5 DEF Proper, TerminalStates
<1>4. CASE ProduceOutput(r, j)
  <2>1. t.pc \in Writing
    BY <1>4 DEF ProduceOutput, AtStep, Writing
  <2> QED BY <1>4, <1>k, <2>1, ProduceOutputGoes DEF JobGets
<1>5. CASE TryNextEngine(r, j) \/ PipelineFails(r, j)
  <2>1. t.pc \in Writing
    BY <1>5 DEF TryNextEngine, PipelineFails, AtStep, Writing
  <2> QED BY <1>5, <1>k, <2>1, MovingSteps DEF KeepsJob
<1>6. CASE RetryWithFallback(r, j)
  BY <1>6, RetryGoes DEF JobGets, Proper, InterimStates
<1>7. CASE RecordFailure(r, j)
  BY <1>7, RecordFailureGoes DEF JobGets, Proper, TerminalStates
<1>8. CASE RecordCompletion(r, j)
  BY <1>8, RecordCompletionGoes DEF JobGets, Proper, TerminalStates
<1> QED BY <1>1, <1>2, <1>3, <1>4, <1>5, <1>6, <1>7, <1>8 DEF ProcessJob

\* Only goroutines that have begun their job save it.
LEMMA SaversWrite ==
  ASSUME TypeOK, NEW r \in Replicas, NEW j \in Jobs, ProcessJob(r, j)
  PROVE  UNCHANGED storeVars \/ (SavesJob(r, j) /\ task'[r][j].pc \in Writing)
BY MovingSteps, StartJobGoes, UpdateProgressGoes, ProduceOutputGoes, RetryGoes,
   RecordFailureGoes, RecordCompletionGoes, ReleaseSlotGoes
   DEF ProcessJob, KeepsJob, Goes, Writing

LEMMA ProperInvNext ==
  ASSUME TypeOK, TaskInv, ProperInv, [Next]_vars
  PROVE  ProperInv'
<1>1. ASSUME store' = store,
             \A r \in Replicas, j \in Jobs :
               task'[r][j] = task[r][j] \/ task'[r][j].pc \notin Writing
      PROVE  ProperInv'
  BY <1>1 DEF ProperInv
<1>2. ASSUME NEW j \in Jobs, Publish(j) \/ Expire(j) PROVE ProperInv'
  BY <1>1, <1>2 DEF Publish, Expire, storeVars
<1>3. ASSUME NEW r \in Replicas, NEW j \in Jobs, Receive(r, j) \/ Spawn(r, j) PROVE ProperInv'
  BY <1>1, <1>3, ConsumerSteps DEF Goes, Writing, storeVars
<1>4. ASSUME NEW r \in Replicas, Crash(r) \/ Exit(r) PROVE ProperInv'
  <2>1. \A j \in Jobs : task'[r][j].pc \notin Writing
    BY <1>4, OtherSteps DEF Idle, Writing
  <2> QED BY <1>1, <1>4, <2>1, OtherSteps DEF storeVars
<1>5. ASSUME NEW r \in Replicas,
             (\E j \in Jobs : Deliver(r, j)) \/ StopConsuming(r) \/ ConsumerFails(r)
               \/ Disconnect(r) \/ Signal(r) \/ Shutdown(r) \/ Restart(r)
      PROVE  ProperInv'
  BY <1>1, <1>5, OtherSteps DEF storeVars
<1>6. ASSUME NEW r \in Replicas, NEW j \in Jobs, ProcessJob(r, j) PROVE ProperInv'
  <2>1. \A r2 \in Replicas, j2 \in Jobs : r2 # r \/ j2 # j => task'[r2][j2] = task[r2][j2]
    BY <1>6, ProcessJobStep
  <2>2. task'[r][j].pc \in Writing => Proper(task'[r][j].job)
    BY <1>6, ProperTask
  <2>3. \A j2 \in Jobs : store'[j2] = store[j2] \/ Proper(store'[j2])
    BY <1>6, <2>2, SaversWrite, SaveJobEffect DEF SavesJob, storeVars
  <2> QED BY <2>1, <2>2, <2>3 DEF ProperInv
<1>7. CASE UNCHANGED vars
  BY <1>1, <1>7 DEF vars
<1> QED BY <1>2, <1>3, <1>4, <1>5, <1>6, <1>7 DEF Next, ConsumeJobs, Stop

\* The status of a record, and what it says of the record.
LEMMA StatusOf ==
  ASSUME ProperInv, NEW j \in Jobs
  PROVE  \/ store[j] = NoRecord /\ Status(j) = "absent"
         \/ store[j].state = "queued" /\ store[j].progress = 0 /\ Status(j) = "queued"
         \/ /\ store[j].state \in InterimStates /\ store[j].progress > 0
            /\ Status(j) = "processing"
         \/ store[j].state \in TerminalStates /\ Status(j) = store[j].state
<1>1. store[j] = NoRecord \/ Proper(store[j])
  BY DEF ProperInv
<1> QED BY <1>1 DEF Proper, Status, MapStateToStatus, InterimStates, TerminalStates, NoRecord

-----------------------------------------------------------------------------
(* The client on top                                                       *)

\* The steps of the client, as the lemmas about it name them.
LEMMA SameClient ==
  /\ Client!Init <=> Browser!Init
  /\ Client!TypeOK <=> Browser!TypeOK
  /\ Client!Slots = Browser!Slots
  /\ Client!Poll <=> Browser!Poll
  /\ \A j \in Jobs :
       /\ Client!Post(j) <=> Browser!Post(j)
       /\ Client!SubmissionFails(j) <=> Browser!SubmissionFails(j)
       /\ Client!OnSuccess(j) <=> Browser!OnSuccess(j)
       /\ Client!SetActiveJob(j) <=> Browser!SetActiveJob(j)
  /\ \A j \in Jobs, k \in Browser!Slots :
       /\ Client!GetJobStatus(j, k) <=> Browser!GetJobStatus(j, k)
       /\ Client!Handle(j, k) <=> Browser!Handle(j, k)
       /\ Client!RequestFails(j, k) <=> Browser!RequestFails(j, k)
<1>1. Client!Init <=> Browser!Init
  BY DEF Client!Init, Browser!Init, Client!LifecycleInit, Browser!LifecycleInit,
         Client!Slots, Browser!Slots, Client!Idle, Browser!Idle
<1>2. Client!TypeOK <=> Browser!TypeOK
  BY DEF Client!TypeOK, Browser!TypeOK, Client!Statuses, Browser!Statuses,
         Client!Slots, Browser!Slots, Client!Request, Browser!Request
<1>3. Client!Slots = Browser!Slots
  BY DEF Client!Slots, Browser!Slots
<1>4. Client!Poll <=> Browser!Poll
  BY DEF Client!Poll, Browser!Poll, Client!Pending, Browser!Pending,
         Client!Listed, Browser!Listed, Client!TERMINAL_STATES, Browser!TERMINAL_STATES,
         Client!FreeSlots, Browser!FreeSlots, Client!FreeSlot, Browser!FreeSlot,
         Client!Slots, Browser!Slots, Client!lifecycleVars, Browser!lifecycleVars,
         Client!storeVars, Browser!storeVars
<1>5. ASSUME NEW j \in Jobs
      PROVE  /\ Client!Post(j) <=> Browser!Post(j)
             /\ Client!SubmissionFails(j) <=> Browser!SubmissionFails(j)
             /\ Client!OnSuccess(j) <=> Browser!OnSuccess(j)
             /\ Client!SetActiveJob(j) <=> Browser!SetActiveJob(j)
  BY DEF Client!Post, Browser!Post, Client!SubmissionFails, Browser!SubmissionFails,
         Client!OnSuccess, Browser!OnSuccess, Client!SetActiveJob, Browser!SetActiveJob,
         Client!lifecycleVars, Browser!lifecycleVars, Client!storeVars, Browser!storeVars
<1>6. ASSUME NEW j \in Jobs, NEW k \in Browser!Slots
      PROVE  /\ Client!GetJobStatus(j, k) <=> Browser!GetJobStatus(j, k)
             /\ Client!Handle(j, k) <=> Browser!Handle(j, k)
             /\ Client!RequestFails(j, k) <=> Browser!RequestFails(j, k)
  BY DEF Client!GetJobStatus, Browser!GetJobStatus, Client!Handle, Browser!Handle,
         Client!IgnoreNotFound, Browser!IgnoreNotFound, Client!UpdateJob, Browser!UpdateJob,
         Client!ShowOutput, Browser!ShowOutput, Client!RequestFails, Browser!RequestFails,
         Client!MoveTo, Browser!MoveTo, Client!EndRequest, Browser!EndRequest,
         Client!Idle, Browser!Idle,
         Client!lifecycleVars, Browser!lifecycleVars, Client!storeVars, Browser!storeVars
<1> QED BY <1>1, <1>2, <1>3, <1>4, <1>5, <1>6

\* The gateway sends an output exactly when the client of the abstract service
\* expects one: what says "completed" has the output it was to have.
LEMMA DownloadIsExpected ==
  ASSUME OutputInv, ProperInv, NEW j \in Jobs, NEW k, Download(j, k)
  PROVE  Browser!DownloadResult(j, k)
<1>1. store[j].state = "completed" <=> Status(j) = "completed"
  BY StatusOf DEF InterimStates, TerminalStates, NoRecord
<1>2. store[j].state = "completed" => store[j].output = HasOutput(j)
  BY DEF OutputInv, Sound
<1>3. UNCHANGED Browser!lifecycleVars
  BY DEF Download, Browser!lifecycleVars, vars, Phase, Status
<1> QED
  BY <1>1, <1>2, <1>3
  DEF Download, Browser!DownloadResult, Browser!storeVars, Client!MoveTo, Browser!MoveTo,
      Client!EndRequest, Browser!EndRequest, Client!Idle, Browser!Idle

Submissions == [Jobs -> {"unsent", "posting", "accepted", "answered", "failed"}]

\* Every step is one of the client, or leaves its store and requests alone.
LEMMA ClientSteps ==
  ASSUME OutputInv, ProperInv, Browser!TypeOK, [ServiceNext]_serviceVars
  PROVE  Browser!ClientStep \/ (Browser!ServiceStep /\ submission' \in Submissions)
<1>0. submission \in Submissions
  BY DEF Browser!TypeOK, Submissions
<1>1. ASSUME NEW j \in Jobs, Submit(j)
      PROVE  Browser!ServiceStep /\ submission' \in Submissions
  BY <1>0, <1>1 DEF Submit, Submissions, Browser!ServiceStep, Browser!storeVars
<1>2. ASSUME NEW j \in Jobs, Browse(j) PROVE Browser!ClientStep
  BY <1>2, SameClient DEF Browse, Browser!ClientStep
<1>3. ASSUME NEW j \in Jobs, NEW k \in Client!Slots,
             GetStatus(j, k) \/ Download(j, k) \/ Handle(j, k) \/ RequestFails(j, k)
      PROVE  Browser!ClientStep
  <2>1. k \in Browser!Slots
    BY SameClient
  <2>2. Browser!Answer(j, k) \/ Browser!Handle(j, k) \/ Browser!RequestFails(j, k)
    BY <1>3, <2>1, SameClient, DownloadIsExpected
    DEF GetStatus, Handle, RequestFails, Browser!Answer
  <2> QED BY <2>1, <2>2 DEF Browser!ClientStep
<1>4. CASE Poll
  BY <1>4, SameClient DEF Poll, Browser!ClientStep
<1>5. CASE Work \/ UNCHANGED serviceVars
  BY <1>0, <1>5 DEF Work, serviceVars, clientVars, Browser!ServiceStep, Browser!storeVars
<1> QED BY <1>1, <1>2, <1>3, <1>4, <1>5 DEF ServiceNext

\* What the gateway answers, as the client types it.
AnswersTyped ==
  /\ [j \in Jobs |-> Phase(j)] \in [Jobs -> {"new", "waiting", "working", "settled"}]
  /\ {j \in Jobs : redelivered[j]} \in SUBSET Jobs
  /\ [j \in Jobs |-> Status(j)] \in [Jobs -> Browser!Statuses \union {"absent"}]

LEMMA AnswersType == ProperInv => AnswersTyped
<1> SUFFICES ASSUME ProperInv, NEW j \in Jobs
             PROVE  /\ Phase(j) \in {"new", "waiting", "working", "settled"}
                    /\ Status(j) \in Browser!Statuses \union {"absent"}
  BY DEF AnswersTyped
<1>1. Phase(j) \in {"new", "waiting", "working", "settled"}
  BY DEF Phase
<1>2. Status(j) \in Browser!Statuses \union {"absent"}
  BY StatusOf DEF Browser!Statuses, TerminalStates
<1> QED BY <1>1, <1>2

LEMMA ServiceType ==
  ASSUME ProperInv', OutputInv, ProperInv, Browser!TypeOK, [ServiceNext]_serviceVars
  PROVE  Browser!TypeOK'
<1>1. CASE Browser!ClientStep
  BY <1>1, Browser!ClientStepType, ClientAssumptions
<1>2. CASE Browser!ServiceStep /\ submission' \in Submissions
  <2>1. AnswersTyped'
    BY AnswersType, PTL
  <2> QED BY <1>2, <2>1
          DEF Browser!ServiceStep, Browser!storeVars, Browser!TypeOK, Submissions, AnswersTyped
<1> QED BY <1>1, <1>2, ClientSteps

-----------------------------------------------------------------------------
(* The orchestrator is a service the client can rely on                    *)

\* It keeps the outcome of a job that is not redelivered, whatever fails.
LEMMA OutcomesAreKept ==
  ASSUME TypeOK, OwnerInv, TaskInv, RecordInv, ProperInv, [Next]_vars
  PROVE  Browser!OutcomeKept
<1> SUFFICES ASSUME NEW j \in Jobs, ~redelivered'[j]
             PROVE  /\ ~redelivered[j]
                    /\ Status(j) \in TerminalStates => Status(j)' = Status(j)
  BY DEF Browser!OutcomeKept, Browser!TERMINAL_STATES, TerminalStates
<1>1. ~redelivered[j]
  BY RedeliveredStays
<1>2. ASSUME Status(j) \in TerminalStates PROVE Status(j)' = Status(j)
  <2>1. store[j].state \in TerminalStates /\ Status(j) = store[j].state
    BY <1>2, StatusOf DEF TerminalStates
  <2>2. store'[j].state = store[j].state
    BY <2>1, FirstDeliveryNext DEF Advances
  <2> QED BY <2>1, <2>2 DEF Status, NoRecord, MapStateToStatus, TerminalStates
<1> QED BY <1>1, <1>2

\* And it moves the status of such a job only forward.
LEMMA StatusesAreKept ==
  ASSUME TypeOK, TypeOK', OwnerInv, TaskInv, RecordInv, ProperInv, ProperInv', [Next]_vars
  PROVE  Browser!StatusKept
<1> SUFFICES ASSUME NEW j \in Jobs, ~redelivered'[j]
             PROVE  /\ ~redelivered[j]
                    /\ Browser!Rank(Status(j)) <= Browser!Rank(Status(j)')
  BY DEF Browser!StatusKept
<1>1. ~redelivered[j]
  BY RedeliveredStays
<1>2. Advances(store[j], store'[j])
  BY FirstDeliveryNext
<1>p. store[j].progress \in 0..100 /\ store'[j].progress \in 0..100
  BY DEF TypeOK, Records
<1>3. \/ store[j] = NoRecord /\ Status(j) = "absent"
      \/ store[j].state = "queued" /\ Status(j) = "queued"
      \/ /\ store[j].state \in InterimStates /\ store[j].progress > 0
         /\ Status(j) = "processing"
      \/ store[j].state \in TerminalStates /\ Status(j) = store[j].state
  BY StatusOf
<1>4. \/ store'[j] = NoRecord /\ Status(j)' = "absent"
      \/ store'[j].state = "queued" /\ store'[j].progress = 0 /\ Status(j)' = "queued"
      \/ store'[j].state \in InterimStates /\ Status(j)' = "processing"
      \/ store'[j].state \in TerminalStates /\ Status(j)' = store'[j].state
  <2>1. store'[j] = NoRecord \/ Proper(store'[j])
    BY DEF ProperInv
  <2> QED BY <2>1 DEF Proper, Status, MapStateToStatus, InterimStates, TerminalStates, NoRecord
<1>5. \/ Status(j) \in {"absent", "queued"} /\ Status(j)' # "unlisted"
      \/ Status(j) = "processing" /\ Status(j)' \in {"processing", "completed", "failed"}
      \/ Status(j)' = Status(j)
  BY <1>2, <1>3, <1>4, <1>p DEF Advances, NoRecord, InterimStates, TerminalStates
<1>6. Browser!Rank(Status(j)) <= Browser!Rank(Status(j)')
  BY <1>5, Browser!RankOrder DEF Browser!Rank
<1> QED BY <1>1, <1>6

-----------------------------------------------------------------------------
(* What the browser shows                                                  *)

ServiceInv ==
  /\ TypeOK /\ OwnerInv /\ TaskInv /\ RecordInv /\ OutputInv /\ ProperInv
  /\ Browser!TypeOK /\ Browser!OutputsOnly /\ Browser!ClientInv

LEMMA ServiceInvInit == ServiceInit => ServiceInv
<1> SUFFICES ASSUME ServiceInit PROVE ServiceInv
  OBVIOUS
<1>1. Init /\ Browser!Init
  BY SameClient DEF ServiceInit
<1>2. TypeOK /\ OwnerInv /\ TaskInv /\ RecordInv /\ OutputInv /\ ProperInv
  BY <1>1, TypeInit, OwnerInvInit, TaskInvInit, RecordInvInit, OutputInvInit, ProperInvInit
<1>3. Browser!TypeOK /\ Browser!OutputsOnly /\ Browser!ClientInv
  BY <1>1, Browser!TypeInit, Browser!OutputsOnlyInit, Browser!ClientInvInit, ClientAssumptions
<1> QED BY <1>2, <1>3 DEF ServiceInv

LEMMA ServiceInvNext ==
  ASSUME ServiceInv, [ServiceNext]_serviceVars
  PROVE  ServiceInv'
<1> USE DEF ServiceInv
<1>1. [Next]_vars
  BY OrchestratorStep
<1>2. (TypeOK /\ OwnerInv /\ TaskInv /\ RecordInv /\ OutputInv /\ ProperInv)'
  BY <1>1, TypeNext, OwnerInvNext, TaskInvNext, RecordInvNext, OutputInvNext, ProperInvNext
<1>3. Browser!TypeOK'
  BY <1>2, ServiceType
<1>4. Browser!OutcomeKept
  BY <1>1, OutcomesAreKept
<1>5. Browser!OutputsOnly' /\ Browser!ClientInv'
  BY <1>4, ClientSteps, Browser!SoundOverAnyService, ClientAssumptions
<1> QED BY <1>2, <1>3, <1>5

LEMMA ServiceInvImpliesRecorded ==
  ASSUME ServiceInv
  PROVE  ShownIsRecorded
<1> SUFFICES ASSUME NEW j \in Jobs, ~redelivered[j]
             PROVE  /\ jobs[j] \in TerminalStates => store[j].state = jobs[j]
                    /\ j \in {previewUrl, downloadUrl} =>
                         /\ store[j].state = "completed"
                         /\ store[j].progress = 100 /\ store[j].output
  BY DEF ShownIsRecorded
<1>1. /\ jobs[j] \in TerminalStates => jobs[j] = Status(j)
      /\ j \in {previewUrl, downloadUrl} => Status(j) = "completed"
  BY DEF ServiceInv, Browser!ClientInv, Browser!JobSound, Browser!TERMINAL_STATES,
         TerminalStates
<1>2. Status(j) \in TerminalStates => store[j].state = Status(j)
  BY StatusOf DEF ServiceInv, TerminalStates
<1>3. store[j].state = "completed" => store[j].progress = 100 /\ store[j].output = HasOutput(j)
  BY DEF ServiceInv, OutputInv, Sound
<1>4. j \in {previewUrl, downloadUrl} => HasOutput(j)
  BY NullAssumption DEF ServiceInv, Browser!ClientInv, Browser!UrlsSound, JobsOf, HasOutput
<1> QED BY <1>1, <1>2, <1>3, <1>4 DEF TerminalStates

\* The orchestrator and the client stay well typed together, whatever fails: no
\* record holds a state the gateway would answer with a status unknown to the
\* browser.
THEOREM ServiceTypeCorrect == ServiceSafety => []ServiceTypeOK
<1>1. ServiceInv => ServiceTypeOK
  BY SameClient DEF ServiceInv, ServiceTypeOK
<1>2. ServiceInv /\ [ServiceNext]_serviceVars => ServiceInv'
  BY ServiceInvNext
<1> QED BY <1>1, <1>2, ServiceInvInit, PTL DEF ServiceSafety

\* Whatever fails in the orchestrator and on the network, and however late an
\* answer of the gateway comes, an outcome the browser shows of a job delivered at
\* most once is the outcome on record, and an output it shows is there: the
\* record is written before the answer, and never taken back.
THEOREM ShownIsOnRecord == ServiceSafety => []ShownIsRecorded
<1>1. ServiceInv => ShownIsRecorded
  BY ServiceInvImpliesRecorded
<1>2. ServiceInv /\ [ServiceNext]_serviceVars => ServiceInv'
  BY ServiceInvNext
<1> QED BY <1>1, <1>2, ServiceInvInit, PTL DEF ServiceSafety

LEMMA ProgressInvInit == ServiceInit => Browser!ProgressInv
<1> SUFFICES ASSUME ServiceInit PROVE Browser!ProgressInv
  OBVIOUS
<1>1. Browser!Init
  BY SameClient DEF ServiceInit
<1> QED BY <1>1, Browser!ProgressInvInit, ClientAssumptions

\* While every poll is answered before the next one starts, the status the browser
\* shows of a job goes back only if its message was redelivered, whatever else
\* fails: the saves of processJob go forward, and updateJob writes none that is
\* older than what it shows.
THEOREM ShownGoesForward ==
  ASSUME MaxOverlap = 1
  PROVE  ServiceSafety => ShownAdvances
<1> DEFINE A == \A j \in Jobs :
                  redelivered'[j] \/ Client!Rank(jobs'[j]) >= Client!Rank(jobs[j])
<1>1. ServiceInit => Browser!ProgressInv
  BY ProgressInvInit
<1>2. ServiceInv /\ ServiceInv' /\ Browser!ProgressInv /\ [ServiceNext]_serviceVars
        => Browser!ProgressInv' /\ Browser!Onward
  <2> SUFFICES ASSUME ServiceInv, ServiceInv', Browser!ProgressInv, [ServiceNext]_serviceVars
               PROVE  Browser!ProgressInv' /\ Browser!Onward
    OBVIOUS
  <2>1. Browser!StatusKept
    BY OrchestratorStep, StatusesAreKept DEF ServiceInv
  <2> QED BY <2>1, ClientSteps, Browser!ForwardOverAnyService, ClientAssumptions DEF ServiceInv
<1>3. Browser!Onward => A
  BY DEF Browser!Onward, Browser!Rank, Client!Rank
<1>4. ServiceInv /\ [ServiceNext]_serviceVars => ServiceInv'
  BY ServiceInvNext
<1>5. ServiceInv /\ ServiceInv' /\ Browser!ProgressInv /\ [ServiceNext]_serviceVars
        => Browser!ProgressInv' /\ [A]_serviceVars
  BY <1>2, <1>3
<1> HIDE DEF A
<1>6. ServiceSafety => [][A]_serviceVars
  BY <1>1, <1>4, <1>5, ServiceInvInit, PTL DEF ServiceSafety
<1> QED BY <1>6 DEF ShownAdvances, A

-----------------------------------------------------------------------------
(* The service the client was written for                                  *)

\* The steps of the life cycle, as the orchestrator and the client name them.
LEMMA SameLifecycle ==
  /\ UNCHANGED Lifecycle!lifecycleVars <=> UNCHANGED Client!lifecycleVars
  /\ \A j \in Jobs :
       /\ Lifecycle!Accept(j) <=> Client!Accept(j)
       /\ Lifecycle!Begin(j) <=> Client!Begin(j)
       /\ Lifecycle!Advance(j) <=> Client!Advance(j)
       /\ Lifecycle!Finish(j) <=> Client!Finish(j)
  /\ \A S \in SUBSET Jobs : Lifecycle!Abandon(S) <=> Client!Abandon(S)
<1>1. UNCHANGED Lifecycle!lifecycleVars <=> UNCHANGED Client!lifecycleVars
  BY DEF Lifecycle!lifecycleVars, Client!lifecycleVars
<1>2. ASSUME NEW j \in Jobs
      PROVE  /\ Lifecycle!Accept(j) <=> Client!Accept(j)
             /\ Lifecycle!Begin(j) <=> Client!Begin(j)
             /\ Lifecycle!Finish(j) <=> Client!Finish(j)
  BY DEF Lifecycle!Accept, Client!Accept, Lifecycle!Begin, Client!Begin,
         Lifecycle!Finish, Client!Finish, Lifecycle!Move, Client!Move
<1>3. ASSUME NEW j \in Jobs
      PROVE  Lifecycle!Advance(j) <=> Client!Advance(j)
  BY DEF Lifecycle!Advance, Client!Advance, Lifecycle!Successors, Client!Successors
<1>4. ASSUME NEW S \in SUBSET Jobs
      PROVE  Lifecycle!Abandon(S) <=> Client!Abandon(S)
  BY DEF Lifecycle!Abandon, Client!Abandon
<1> QED BY <1>1, <1>2, <1>3, <1>4

\* What the orchestrator does by itself.
LEMMA WorkImplements ==
  ASSUME OnlyCrashes, CrashInv, Work
  PROVE  [Client!Next]_(Client!vars)
<1>0. UNCHANGED Client!clientVars
  BY DEF Work, clientVars, Client!clientVars, Client!storeVars
<1>1. ASSUME UNCHANGED Lifecycle!lifecycleVars PROVE UNCHANGED Client!vars
  <2>1. UNCHANGED Client!lifecycleVars
    BY <1>1, SameLifecycle
  <2> QED BY <1>0, <2>1 DEF Client!vars
<1>2. ASSUME NEW j \in Jobs, Expire(j) PROVE FALSE
  BY <1>2, NoOtherFault DEF Expire
<1>3. ASSUME NEW r \in Replicas, NEW j \in Jobs, Deliver(r, j)
      PROVE  UNCHANGED Lifecycle!lifecycleVars
  BY <1>3, DeliveryImplements
<1>4. ASSUME NEW r \in Replicas, NEW j \in Jobs, ProcessJob(r, j)
      PROVE  [Client!Next]_(Client!vars)
  <2>1. ~Message[j].malformed
    BY GatewayAssumption
  <2>2. \/ UNCHANGED Lifecycle!lifecycleVars
        \/ Lifecycle!Begin(j) \/ Lifecycle!Advance(j) \/ Lifecycle!Finish(j)
    BY <1>4, <2>1, GoroutineImplements
  <2>3. UNCHANGED Lifecycle!lifecycleVars \/ Client!Serve(j)
    BY <1>0, <2>2, SameLifecycle DEF Client!Serve
  <2> QED BY <1>1, <2>3 DEF Client!Next
<1>5. ASSUME NEW r \in Replicas, ConsumeJobs(r) \/ Disconnect(r) \/ Signal(r) \/ Stop(r)
      PROVE  UNCHANGED Lifecycle!lifecycleVars
  BY <1>5, Disabled, DeliveryImplements DEF CrashInv, ConsumeJobs, Stop
<1>6. ASSUME NEW r \in Replicas, Restart(r) PROVE UNCHANGED Lifecycle!lifecycleVars
  <2>1. CASE Jobs = {}
    BY <2>1, Stutters
  <2>2. CASE Jobs # {}
    BY <1>6, <2>2, DeliveryImplements
  <2> QED BY <2>1, <2>2
<1>7. ASSUME NEW r \in Replicas, Crash(r) PROVE [Client!Next]_(Client!vars)
  <2>1. \/ UNCHANGED Lifecycle!lifecycleVars
        \/ \E S \in SUBSET Jobs : Lifecycle!Abandon(S)
    BY <1>7, CrashImplements
  <2>2. UNCHANGED Lifecycle!lifecycleVars \/ Client!WorkerDies
    BY <1>0, <2>1, SameLifecycle DEF Client!WorkerDies
  <2> QED BY <1>1, <2>2 DEF Client!Next
<1> QED BY <1>1, <1>2, <1>3, <1>4, <1>5, <1>6, <1>7 DEF Work

\* What the client does, with the gateway or by itself.
LEMMA CallsImplement ==
  ASSUME OnlyCrashes, CrashInv, ProperInv, [ServiceNext]_serviceVars, ~Work
  PROVE  [Client!Next]_(Client!vars)
<1>1. ASSUME NEW j \in Jobs, Submit(j) PROVE Client!Next
  <2>1. Client!Accept(j)
    BY <1>1, PublishImplements, SameLifecycle DEF Submit
  <2>2. Client!SubmitConversion(j)
    BY <1>1, <2>1 DEF Submit, Client!SubmitConversion, Client!storeVars
  <2> QED BY <2>2 DEF Client!Next
<1>2. ASSUME NEW j \in Jobs, Browse(j) PROVE Client!Next
  BY <1>2 DEF Browse, Client!Next
<1>3. ASSUME NEW j \in Jobs, NEW k \in Client!Slots, Download(j, k)
      PROVE  Client!DownloadResult(j, k)
  <2>1. Browser!DownloadResult(j, k)
    BY <1>3, DownloadIsExpected DEF CrashInv
  <2> QED BY <2>1
          DEF Client!DownloadResult, Browser!DownloadResult, Client!MoveTo, Browser!MoveTo,
              Client!EndRequest, Browser!EndRequest, Client!Idle, Browser!Idle,
              Client!storeVars, Browser!storeVars,
              Client!lifecycleVars, Browser!lifecycleVars
<1>4. ASSUME NEW j \in Jobs, NEW k \in Client!Slots,
             GetStatus(j, k) \/ Download(j, k) \/ Handle(j, k) \/ RequestFails(j, k)
      PROVE  Client!Next
  BY <1>3, <1>4 DEF GetStatus, Handle, RequestFails, Client!Answer, Client!Next
<1>5. CASE Poll
  BY <1>5 DEF Poll, Client!Next
<1>6. CASE UNCHANGED serviceVars
  <2>1. UNCHANGED Client!lifecycleVars
    BY <1>6 DEF serviceVars, vars, Client!lifecycleVars, Phase, Status
  <2>2. UNCHANGED Client!clientVars
    BY <1>6 DEF serviceVars, clientVars, Client!clientVars, Client!storeVars
  <2> QED BY <2>1, <2>2 DEF Client!vars
<1> QED BY <1>1, <1>2, <1>4, <1>5, <1>6 DEF ServiceNext

\* When processes may crash, and nothing else goes wrong in the orchestrator, the
\* gateway, its queue, its workers and its store are, up to fairness, the service
\* the client was written for: every step of the whole is one of the client over
\* that service, or changes nothing the client could see.
THEOREM ServiceImplementsClient ==
  ASSUME OnlyCrashes
  PROVE  ServiceSafety => ImplementsClient
<1> DEFINE Inv == CrashInv /\ ProperInv
<1>1. ServiceInit => Inv
  <2>1. Init => CrashInv
    BY TypeInit, OwnerInvInit, SlotInvInit, TaskInvInit, RecordInvInit, OutputInvInit,
       ServeInvInit, StoreInvInit DEF CrashInv
  <2> QED BY <2>1, ProperInvInit DEF ServiceInit
<1>2. Inv /\ [ServiceNext]_serviceVars => Inv'
  <2> SUFFICES ASSUME CrashInv, ProperInv, [ServiceNext]_serviceVars
               PROVE  CrashInv' /\ ProperInv'
    OBVIOUS
  <2>1. [Next]_vars
    BY OrchestratorStep
  <2>2. CrashInv'
    BY <2>1, TypeNext, OwnerInvNext, SlotInvNext, TaskInvNext, RecordInvNext, OutputInvNext,
       ServeInvNext, StoreInvNext DEF CrashInv
  <2>3. ProperInv'
    BY <2>1, <2>2, ProperInvNext DEF CrashInv
  <2> QED BY <2>2, <2>3
<1>3. Inv /\ [ServiceNext]_serviceVars => [Client!Next]_(Client!vars)
  BY WorkImplements, CallsImplement
<1>4. ServiceInit => Client!Init
  BY DEF ServiceInit
<1> HIDE DEF Inv
<1> QED BY <1>1, <1>2, <1>3, <1>4, PTL DEF ServiceSafety, ImplementsClient, Client!Safety
=============================================================================
