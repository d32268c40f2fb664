------------------------- MODULE Orchestrator_proofs -------------------------
(***************************************************************************)
(* Proofs about the orchestrator, for every number of replicas and jobs,   *)
(* every message, every concurrency and any combination of faults.         *)
(***************************************************************************)
EXTENDS Orchestrator, FiniteSetTheorems, TLAPS

-----------------------------------------------------------------------------
(* The pipelines *)

\* What the proofs use of a pipeline p: an update stores a state of the right
\* type, and only the last step stores "completed", after a conversion.
WellFormed(p) ==
  /\ Len(p) \in Nat \ {0}
  /\ \A i \in 1..Len(p) :
       \/ p[i].op \in Converters
       \/ /\ p[i].op = "update"
          /\ p[i].state \in JobStates
          /\ p[i].progress \in 0..100
          /\ p[i].state = "completed" => i = Len(p)
  /\ p[Len(p)] = Update("completed", 100)
  /\ \E i \in 1..(Len(p) - 1) : p[i].op \in Converters

LEMMA LatexToWordWellFormed == WellFormed(LatexToWordPipeline)
<1> DEFINE p == LatexToWordPipeline
<1> USE DEF Update, Produce, Converters, JobStates
<1>1. /\ Len(p) = 5
      /\ p[5] = Update("completed", 100)
      /\ p[3].op \in Converters
  BY DEF LatexToWordPipeline
<1>2. ASSUME NEW i \in 1..5
      PROVE  \/ p[i].op \in Converters
             \/ /\ p[i].op = "update"
                /\ p[i].state \in JobStates
                /\ p[i].progress \in 0..100
                /\ p[i].state = "completed" => i = 5
  <2>1. i = 1 \/ i = 2 \/ i = 3 \/ i = 4 \/ i = 5
    OBVIOUS
  <2> QED BY <2>1 DEF LatexToWordPipeline
<1> HIDE DEF p
<1>3. 3 \in 1..(Len(p) - 1)
  BY <1>1
<1>4. WellFormed(p)
  BY <1>1, <1>2, <1>3 DEF WellFormed
<1> QED BY <1>4 DEF p

LEMMA WordToLatexWellFormed == WellFormed(WordToLatexPipeline)
<1> DEFINE p == WordToLatexPipeline
<1> USE DEF Update, Produce, Converters, JobStates
<1>1. /\ Len(p) = 6
      /\ p[6] = Update("completed", 100)
      /\ p[4].op \in Converters
  BY DEF WordToLatexPipeline
<1>2. ASSUME NEW i \in 1..6
      PROVE  \/ p[i].op \in Converters
             \/ /\ p[i].op = "update"
                /\ p[i].state \in JobStates
                /\ p[i].progress \in 0..100
                /\ p[i].state = "completed" => i = 6
  <2>1. i = 1 \/ i = 2 \/ i = 3 \/ i = 4 \/ i = 5 \/ i = 6
    OBVIOUS
  <2> QED BY <2>1 DEF WordToLatexPipeline
<1> HIDE DEF p
<1>3. 4 \in 1..(Len(p) - 1)
  BY <1>1
<1>4. WellFormed(p)
  BY <1>1, <1>2, <1>3 DEF WellFormed
<1> QED BY <1>4 DEF p

LEMMA LatexToPdfWellFormed == WellFormed(LatexToPdfPipeline)
<1> DEFINE p == LatexToPdfPipeline
<1> USE DEF Update, Produce, Converters, JobStates
<1>1. /\ Len(p) = 5
      /\ p[5] = Update("completed", 100)
      /\ p[3].op \in Converters
  BY DEF LatexToPdfPipeline
<1>2. ASSUME NEW i \in 1..5
      PROVE  \/ p[i].op \in Converters
             \/ /\ p[i].op = "update"
                /\ p[i].state \in JobStates
                /\ p[i].progress \in 0..100
                /\ p[i].state = "completed" => i = 5
  <2>1. i = 1 \/ i = 2 \/ i = 3 \/ i = 4 \/ i = 5
    OBVIOUS
  <2> QED BY <2>1 DEF LatexToPdfPipeline
<1> HIDE DEF p
<1>3. 3 \in 1..(Len(p) - 1)
  BY <1>1
<1>4. WellFormed(p)
  BY <1>1, <1>2, <1>3 DEF WellFormed
<1> QED BY <1>4 DEF p

LEMMA WordToPdfWellFormed == WellFormed(WordToPdfPipeline)
<1> DEFINE p == WordToPdfPipeline
<1> USE DEF Update, Produce, Converters, JobStates
<1>1. /\ Len(p) = 4
      /\ p[4] = Update("completed", 100)
      /\ p[3].op \in Converters
  BY DEF WordToPdfPipeline
<1>2. ASSUME NEW i \in 1..4
      PROVE  \/ p[i].op \in Converters
             \/ /\ p[i].op = "update"
                /\ p[i].state \in JobStates
                /\ p[i].progress \in 0..100
                /\ p[i].state = "completed" => i = 4
  <2>1. i = 1 \/ i = 2 \/ i = 3 \/ i = 4
    OBVIOUS
  <2> QED BY <2>1 DEF WordToPdfPipeline
<1> HIDE DEF p
<1>3. 3 \in 1..(Len(p) - 1)
  BY <1>1
<1>4. WellFormed(p)
  BY <1>1, <1>2, <1>3 DEF WellFormed
<1> QED BY <1>4 DEF p

LEMMA RoundTripWellFormed == WellFormed(RoundTripPipeline)
<1> DEFINE p == RoundTripPipeline
<1> USE DEF Update, Produce, Converters, JobStates
<1>1. /\ Len(p) = 6
      /\ p[6] = Update("completed", 100)
      /\ p[4].op \in Converters
  BY DEF RoundTripPipeline
<1>2. ASSUME NEW i \in 1..6
      PROVE  \/ p[i].op \in Converters
             \/ /\ p[i].op = "update"
                /\ p[i].state \in JobStates
                /\ p[i].progress \in 0..100
                /\ p[i].state = "completed" => i = 6
  <2>1. i = 1 \/ i = 2 \/ i = 3 \/ i = 4 \/ i = 5 \/ i = 6
    OBVIOUS
  <2> QED BY <2>1 DEF RoundTripPipeline
<1> HIDE DEF p
<1>3. 4 \in 1..(Len(p) - 1)
  BY <1>1
<1>4. WellFormed(p)
  BY <1>1, <1>2, <1>3 DEF WellFormed
<1> QED BY <1>4 DEF p

\* Every pipeline of a known direction is well formed.
LEMMA PipelinesWellFormed ==
  ASSUME NEW d \in Directions
  PROVE  WellFormed(ExecutePipeline(d))
BY LatexToWordWellFormed, WordToLatexWellFormed, LatexToPdfWellFormed,
   WordToPdfWellFormed, RoundTripWellFormed DEF Directions, ExecutePipeline, PipelineOf

-----------------------------------------------------------------------------
(* Type correctness *)

LEMMA TypeInit == Init => TypeOK
BY FaultsAssumption DEF Init, TypeOK, Idle, Task, Pcs, NoRecord, Records, JobStates

\* A goroutine at a step is inside a well-formed pipeline.
LEMMA AtStepInside ==
  ASSUME NEW r \in Replicas, NEW j \in Jobs, NEW ops, TypeOK, AtStep(r, j, ops)
  PROVE  /\ Message[j].direction \in Directions
         /\ WellFormed(Pipeline(j))
         /\ task[r][j].at \in 1..Len(Pipeline(j))
<1>1. task[r][j].at \in Nat \ {0}
  BY DEF TypeOK, Task
<1>2. Message[j].direction \in Directions
  <2> SUFFICES ASSUME Message[j].direction \notin Directions PROVE FALSE
    OBVIOUS
  <2>1. Len(Pipeline(j)) = 0
    BY DEF Pipeline, ExecutePipeline
  <2> QED BY <1>1, <2>1 DEF AtStep
<1>3. WellFormed(Pipeline(j))
  BY <1>2, PipelinesWellFormed DEF Pipeline
<1>4. task[r][j].at \in 1..Len(Pipeline(j))
  BY <1>1, <1>3 DEF AtStep, WellFormed
<1> QED BY <1>2, <1>3, <1>4

\* SaveJob keeps the types of the store and of the fault count.
LEMMA SaveJobType ==
  ASSUME NEW r \in Replicas, NEW j \in Jobs, NEW record \in Records,
         TypeOK, SaveJob(r, j, record)
  PROVE  /\ store' \in [Jobs -> Records]
         /\ unsaved' \in SUBSET Jobs
         /\ faults' \in 0..MaxFaults
BY FaultsAssumption DEF TypeOK, SaveJob, Fault

\* Settle keeps the types of the broker's variables.
LEMMA SettleType ==
  ASSUME NEW r \in Replicas, NEW j \in Jobs, NEW verdict \in Settled,
         TypeOK, Settle(r, j, verdict)
  PROVE  /\ msg' \in [Jobs -> {"unpublished", "ready", "unacked"} \union Settled]
         /\ unacked' \in [Replicas -> SUBSET Jobs]
<1>1. CASE j \in unacked[r]
  <2>1. unacked[r] \ {j} \in SUBSET Jobs
    BY DEF TypeOK
  <2>2. /\ msg' = [msg EXCEPT ![j] = verdict]
        /\ unacked' = [unacked EXCEPT ![r] = unacked[r] \ {j}]
    BY <1>1 DEF Settle
  <2> QED BY <2>1, <2>2 DEF TypeOK
<1>2. CASE j \notin unacked[r]
  BY <1>2 DEF Settle, TypeOK
<1> QED BY <1>1, <1>2

\* A goroutine's step that only changes its own task.
LEMMA TaskType ==
  ASSUME NEW r \in Replicas, NEW j \in Jobs, NEW t \in Task, TypeOK,
         task' = [task EXCEPT ![r][j] = t]
  PROVE  task' \in [Replicas -> [Jobs -> Task]]
BY DEF TypeOK

LEMMA IdleType == Idle \in Task
BY DEF Idle, Task, Pcs, NoRecord, Records

LEMMA PcType ==
  ASSUME NEW t \in Task, NEW pc \in Pcs
  PROVE  [t EXCEPT !.pc = pc] \in Task
BY DEF Task

\* What the steps of a goroutine make of its task and of its job.
LEMMA TaskAdvances ==
  ASSUME NEW t \in Task, NEW n \in Nat \ {0}, NEW job \in Records
  PROVE  [t EXCEPT !.at = n, !.job = job] \in Task
BY DEF Task

LEMMA TaskRetries ==
  ASSUME NEW t \in Task, NEW n \in Nat \ {0}, NEW job \in Records
  PROVE  [t EXCEPT !.pc = "pipeline", !.attempt = n, !.job = job] \in Task
BY DEF Task, Pcs

LEMMA JobUpdates ==
  ASSUME NEW job \in Records, NEW s \in JobStates, NEW p \in 0..100
  PROVE  [job EXCEPT !.state = s, !.progress = p] \in Records
BY DEF Records

LEMMA ProcessJobType ==
  ASSUME NEW r \in Replicas, NEW j \in Jobs, TypeOK, ProcessJob(r, j)
  PROVE  TypeOK'
<1> DEFINE t == task[r][j]
<1>t. t \in Task
  BY DEF TypeOK
<1>j. t.job \in Records /\ t.at \in Nat \ {0} /\ t.attempt \in Nat \ {0}
  BY <1>t DEF Task
<1>n. t.at + 1 \in Nat \ {0} /\ t.attempt + 1 \in Nat \ {0}
  BY <1>j
<1>p. \A pc \in Pcs : [t EXCEPT !.pc = pc] \in Task
  BY <1>t, PcType
<1>1. CASE RejectMalformed(r, j)
  <2>1. task' = [task EXCEPT ![r][j] = [t EXCEPT !.pc = "settled"]]
    BY <1>1 DEF RejectMalformed
  <2>2. task' \in [Replicas -> [Jobs -> Task]]
    BY <2>1, <1>p, TaskType DEF Pcs
  <2> QED BY <1>1, <2>2, SettleType DEF RejectMalformed, TypeOK, procVars, storeVars, Settled
<1>2. CASE StartJob(r, j)
  <2>1. NewJob \in Records
    BY DEF NewJob, Records, JobStates
  <2>2. [pc |-> "pipeline", at |-> 1, attempt |-> 1, job |-> NewJob] \in Task
    BY <2>1 DEF Task, Pcs
  <2>3. SaveJob(r, j, NewJob)
    BY <1>2 DEF StartJob
  <2>4. task' \in [Replicas -> [Jobs -> Task]]
    BY <1>2, <2>2, TaskType DEF StartJob
  <2>5. UNCHANGED <<brokerVars, procVars>>
    BY <1>2 DEF StartJob
  <2>6. store' \in [Jobs -> Records] /\ unsaved' \in SUBSET Jobs /\ faults' \in 0..MaxFaults
    BY <2>1, <2>3, SaveJobType
  <2> QED BY <2>4, <2>5, <2>6 DEF TypeOK, brokerVars, procVars
<1>3. CASE UpdateProgress(r, j)
  <2> DEFINE step == Pipeline(j)[t.at]
             job  == [t.job EXCEPT !.state = step.state, !.progress = step.progress]
  <2>1. AtStep(r, j, {"update"}) /\ SaveJob(r, j, job)
    BY <1>3 DEF UpdateProgress
  <2>2. step.op = "update" /\ step.state \in JobStates /\ step.progress \in 0..100
    <3>1. WellFormed(Pipeline(j)) /\ t.at \in 1..Len(Pipeline(j))
      BY <2>1, AtStepInside
    <3>2. step.op = "update"
      BY <2>1 DEF AtStep
    <3> QED BY <3>1, <3>2 DEF WellFormed, Converters
  <2>3. job \in Records
    BY <1>j, <2>2, JobUpdates
  <2>4. task' = [task EXCEPT ![r][j] = [t EXCEPT !.at = t.at + 1, !.job = job]]
    BY <1>3 DEF UpdateProgress
  <2>5. [t EXCEPT !.at = t.at + 1, !.job = job] \in Task
    <3> HIDE DEF job
    <3> QED BY <1>t, <1>n, <2>3, TaskAdvances
  <2>6. task' \in [Replicas -> [Jobs -> Task]]
    BY <2>4, <2>5, TaskType
  <2> QED BY <1>3, <2>1, <2>3, <2>6, SaveJobType DEF UpdateProgress, TypeOK, brokerVars, procVars
<1>4. CASE ProduceOutput(r, j)
  <2> DEFINE job == [t.job EXCEPT !.output = HasOutput(j)]
  <2>1. HasOutput(j) \in BOOLEAN
    BY DEF HasOutput
  <2>2. job \in Records
    BY <1>j, <2>1 DEF Records
  <2>3. task' = [task EXCEPT ![r][j] = [t EXCEPT !.at = t.at + 1, !.job = job]]
    BY <1>4 DEF ProduceOutput
  <2>4. [t EXCEPT !.at = t.at + 1, !.job = job] \in Task
    <3> HIDE DEF job
    <3> QED BY <1>t, <1>n, <2>2, TaskAdvances
  <2>5. task' \in [Replicas -> [Jobs -> Task]]
    BY <2>3, <2>4, TaskType
  <2> QED BY <1>4, <2>5 DEF ProduceOutput, TypeOK, brokerVars, procVars, storeVars
<1>5. CASE TryNextEngine(r, j)
  <2>1. task' = [task EXCEPT ![r][j] = [t EXCEPT !.pc = "fallback"]]
    BY <1>5 DEF TryNextEngine
  <2>2. task' \in [Replicas -> [Jobs -> Task]]
    BY <2>1, <1>p, TaskType DEF Pcs
  <2> QED BY <1>5, <2>2 DEF TryNextEngine, TypeOK, brokerVars, procVars, storeVars
<1>6. CASE RetryWithFallback(r, j)
  <2> DEFINE job == [t.job EXCEPT !.state = "rendering", !.progress = 40]
             u   == [t EXCEPT !.pc = "pipeline", !.attempt = t.attempt + 1, !.job = job]
  <2>1. job \in Records
    <3>1. "rendering" \in JobStates
      BY DEF JobStates
    <3>2. 40 \in 0..100
      BY SMT
    <3> QED BY <1>j, <3>1, <3>2, JobUpdates
  <2>2. task' = [task EXCEPT ![r][j] = u] /\ SaveJob(r, j, job)
    BY <1>6 DEF RetryWithFallback
  <2>3. u \in Task
    <3> HIDE DEF job
    <3> QED BY <1>t, <1>n, <2>1, TaskRetries
  <2>4. task' \in [Replicas -> [Jobs -> Task]]
    BY <2>2, <2>3, TaskType
  <2> QED BY <1>6, <2>1, <2>2, <2>4, SaveJobType
          DEF RetryWithFallback, TypeOK, brokerVars, procVars
<1>7. CASE PipelineFails(r, j)
  <2>1. task' = [task EXCEPT ![r][j] = [t EXCEPT !.pc = "failing"]]
    BY <1>7 DEF PipelineFails
  <2>2. task' \in [Replicas -> [Jobs -> Task]]
    BY <2>1, <1>p, TaskType DEF Pcs
  <2> QED BY <1>7, <2>2 DEF PipelineFails, TypeOK, brokerVars, procVars, storeVars
<1>8. CASE RecordFailure(r, j)
  <2> DEFINE job == [t.job EXCEPT !.state = "failed"]
  <2>1. job \in Records
    BY <1>j DEF Records, JobStates
  <2>2. task' = [task EXCEPT ![r][j] = [t EXCEPT !.pc = "nacking", !.job = job]]
    BY <1>8 DEF RecordFailure
  <2>3. [t EXCEPT !.pc = "nacking", !.job = job] \in Task
    BY <1>t, <2>1 DEF Task, Pcs
  <2>4. task' \in [Replicas -> [Jobs -> Task]]
    BY <2>2, <2>3, TaskType
  <2>5. SaveJob(r, j, job)
    BY <1>8 DEF RecordFailure
  <2> QED BY <1>8, <2>1, <2>4, <2>5, SaveJobType DEF RecordFailure, TypeOK, brokerVars, procVars
<1>9. CASE Nack(r, j)
  <2>1. task' = [task EXCEPT ![r][j] = [t EXCEPT !.pc = "settled"]]
    BY <1>9 DEF Nack
  <2>2. task' \in [Replicas -> [Jobs -> Task]]
    BY <2>1, <1>p, TaskType DEF Pcs
  <2> QED BY <1>9, <2>2, SettleType DEF Nack, TypeOK, procVars, storeVars, Settled
<1>10. CASE RecordCompletion(r, j)
  <2> DEFINE job == [t.job EXCEPT !.state = "completed"]
  <2>1. job \in Records
    BY <1>j DEF Records, JobStates
  <2>2. task' = [task EXCEPT ![r][j] = [t EXCEPT !.pc = "acking", !.job = job]]
    BY <1>10 DEF RecordCompletion
  <2>3. [t EXCEPT !.pc = "acking", !.job = job] \in Task
    BY <1>t, <2>1 DEF Task, Pcs
  <2>4. task' \in [Replicas -> [Jobs -> Task]]
    BY <2>2, <2>3, TaskType
  <2>5. SaveJob(r, j, job)
    BY <1>10 DEF RecordCompletion
  <2> QED BY <1>10, <2>1, <2>4, <2>5, SaveJobType
          DEF RecordCompletion, TypeOK, brokerVars, procVars
<1>11. CASE Ack(r, j)
  <2>1. task' = [task EXCEPT ![r][j] = [t EXCEPT !.pc = "settled"]]
    BY <1>11 DEF Ack
  <2>2. task' \in [Replicas -> [Jobs -> Task]]
    BY <2>1, <1>p, TaskType DEF Pcs
  <2> QED BY <1>11, <2>2, SettleType DEF Ack, TypeOK, procVars, storeVars, Settled
<1>12. CASE ReleaseSlot(r, j)
  <2>2. task' \in [Replicas -> [Jobs -> Task]]
    BY <1>12, IdleType, TaskType DEF ReleaseSlot
  <2> QED BY <1>12, <2>2 DEF ReleaseSlot, TypeOK, brokerVars, procVars, storeVars
<1> QED BY <1>1, <1>2, <1>3, <1>4, <1>5, <1>6, <1>7, <1>8, <1>9, <1>10, <1>11, <1>12
        DEF ProcessJob


\* Requeue keeps the types of the broker's variables.
LEMMA RequeueType ==
  ASSUME NEW r \in Replicas, TypeOK, Requeue(r)
  PROVE  /\ msg' \in [Jobs -> {"unpublished", "ready", "unacked"} \union Settled]
         /\ redelivered' \in [Jobs -> BOOLEAN]
         /\ unacked' \in [Replicas -> SUBSET Jobs]
         /\ chan' \in [Replicas -> {"open", "closed"}]
<1>1. \A j \in Jobs : (j \in unacked[r] \/ redelivered[j]) \in BOOLEAN
  BY DEF TypeOK
<1>2. redelivered' \in [Jobs -> BOOLEAN]
  BY <1>1 DEF Requeue
<1>3. msg' \in [Jobs -> {"unpublished", "ready", "unacked"} \union Settled]
  BY DEF Requeue, TypeOK
<1>4. unacked' \in [Replicas -> SUBSET Jobs] /\ chan' \in [Replicas -> {"open", "closed"}]
  BY DEF Requeue, TypeOK
<1> QED BY <1>2, <1>3, <1>4

\* Terminate keeps all types but that of the fault count.
LEMMA TerminateType ==
  ASSUME NEW r \in Replicas, TypeOK, Terminate(r), faults' \in 0..MaxFaults
  PROVE  TypeOK'
<1>2. [j \in Jobs |-> Idle] \in [Jobs -> Task]
  BY IdleType
<1>3. task' \in [Replicas -> [Jobs -> Task]]
  BY <1>2 DEF Terminate, TypeOK
<1>4. /\ proc' \in [Replicas -> {"up", "stopping", "closed", "down"}]
      /\ cancelled' \in [Replicas -> BOOLEAN]
      /\ loop' \in [Replicas -> {"select", "blocked", "returned"}]
      /\ inbox' \in [Replicas -> SUBSET Jobs]
  BY DEF Terminate, TypeOK
<1>5. store' \in [Jobs -> Records] /\ unsaved' \in SUBSET Jobs
  BY DEF Terminate, TypeOK, storeVars
<1>6. Requeue(r)
  BY DEF Terminate
<1> QED BY <1>3, <1>4, <1>5, <1>6, RequeueType DEF TypeOK

\* A fault stays within the budget.
LEMMA FaultType ==
  ASSUME NEW kind, TypeOK, Fault(kind)
  PROVE  faults' \in 0..MaxFaults
BY FaultsAssumption DEF TypeOK, Fault

LEMMA MessageType ==
  ASSUME TypeOK, NEW j \in Jobs, Publish(j) \/ Expire(j)
  PROVE  TypeOK'
<1>1. CASE Publish(j)
  BY <1>1 DEF Publish, TypeOK, procVars, storeVars
<1>2. CASE Expire(j)
  <2>1. faults' \in 0..MaxFaults
    BY <1>2, FaultType DEF Expire
  <2> QED BY <1>2, <2>1 DEF Expire, TypeOK, Settled, procVars, storeVars
<1> QED BY <1>1, <1>2

LEMMA ChannelType ==
  ASSUME TypeOK, NEW r \in Replicas, Disconnect(r) \/ \E j \in Jobs : Deliver(r, j)
  PROVE  TypeOK'
<1>1. ASSUME NEW j \in Jobs, Deliver(r, j) PROVE TypeOK'
  <2>1. /\ unacked' = [unacked EXCEPT ![r] = unacked[r] \union {j}]
        /\ inbox' = [inbox EXCEPT ![r] = inbox[r] \union {j}]
    BY <1>1 DEF Deliver
  <2>2. unacked[r] \union {j} \in SUBSET Jobs /\ inbox[r] \union {j} \in SUBSET Jobs
    BY DEF TypeOK
  <2>3. unacked' \in [Replicas -> SUBSET Jobs] /\ inbox' \in [Replicas -> SUBSET Jobs]
    BY <2>1, <2>2 DEF TypeOK
  <2> QED BY <1>1, <2>3 DEF Deliver, TypeOK, procVars, storeVars
<1>2. CASE Disconnect(r)
  <2>1. faults' \in 0..MaxFaults
    BY <1>2, FaultType DEF Disconnect
  <2>2. Requeue(r)
    BY <1>2 DEF Disconnect
  <2> QED BY <1>2, <2>1, <2>2, RequeueType DEF Disconnect, TypeOK, procVars, storeVars
<1> QED BY <1>1, <1>2

LEMMA ConsumeJobsType ==
  ASSUME TypeOK, NEW r \in Replicas, ConsumeJobs(r)
  PROVE  TypeOK'
<1>1. ASSUME NEW j \in Jobs, Receive(r, j) PROVE TypeOK'
  <2>1. [Idle EXCEPT !.pc = "received"] \in Task
    BY IdleType, PcType DEF Pcs
  <2>2. task' \in [Replicas -> [Jobs -> Task]]
    BY <1>1, <2>1, TaskType DEF Receive
  <2>3. inbox' = [inbox EXCEPT ![r] = inbox[r] \ {j}] /\ inbox[r] \ {j} \in SUBSET Jobs
    BY <1>1 DEF Receive, TypeOK
  <2>4. inbox' \in [Replicas -> SUBSET Jobs]
    BY <2>3 DEF TypeOK
  <2> QED BY <1>1, <2>2, <2>4 DEF Receive, TypeOK, storeVars
<1>2. ASSUME NEW j \in Jobs, Spawn(r, j) PROVE TypeOK'
  <2>1. task' = [task EXCEPT ![r][j] = [task[r][j] EXCEPT !.pc = "spawned"]]
    BY <1>2 DEF Spawn
  <2>2. [task[r][j] EXCEPT !.pc = "spawned"] \in Task
    <3> task[r][j] \in Task
      BY DEF TypeOK
    <3> QED BY PcType DEF Pcs
  <2>3. task' \in [Replicas -> [Jobs -> Task]]
    BY <2>1, <2>2, TaskType
  <2> QED BY <1>2, <2>3 DEF Spawn, TypeOK, brokerVars, storeVars
<1>3. CASE StopConsuming(r)
  BY <1>3 DEF StopConsuming, TypeOK, brokerVars, storeVars
<1>4. CASE ConsumerFails(r)
  BY <1>4 DEF ConsumerFails, TypeOK, storeVars
<1> QED BY <1>1, <1>2, <1>3, <1>4 DEF ConsumeJobs

LEMMA ProcessType ==
  ASSUME TypeOK, NEW r \in Replicas, Signal(r) \/ Stop(r) \/ Crash(r) \/ Restart(r)
  PROVE  TypeOK'
<1>1. CASE Signal(r)
  <2>1. faults' \in 0..MaxFaults
    BY <1>1, FaultType DEF Signal
  <2> QED BY <1>1, <2>1 DEF Signal, TypeOK, brokerVars, storeVars
<1>2. CASE Shutdown(r)
  <2>1. Requeue(r)
    BY <1>2 DEF Shutdown
  <2> QED BY <1>2, <2>1, RequeueType DEF Shutdown, TypeOK, storeVars
<1>3. CASE Exit(r)
  <2>1. faults' \in 0..MaxFaults
    BY <1>3 DEF Exit, TypeOK
  <2> QED BY <1>3, <2>1, TerminateType DEF Exit
<1>4. CASE Crash(r)
  <2>1. faults' \in 0..MaxFaults
    BY <1>4, FaultType DEF Crash
  <2> QED BY <1>4, <2>1, TerminateType DEF Crash
<1>5. CASE Restart(r)
  BY <1>5 DEF Restart, TypeOK, storeVars
<1> QED BY <1>1, <1>2, <1>3, <1>4, <1>5 DEF Stop

LEMMA TypeNext == TypeOK /\ [Next]_vars => TypeOK'
<1> SUFFICES ASSUME TypeOK, [Next]_vars PROVE TypeOK'
  OBVIOUS
<1>1. ASSUME NEW j \in Jobs, Publish(j) \/ Expire(j) PROVE TypeOK'
  BY <1>1, MessageType
<1>2. ASSUME NEW r \in Replicas, NEW j \in Jobs, Deliver(r, j) \/ ProcessJob(r, j)
      PROVE  TypeOK'
  BY <1>2, ChannelType, ProcessJobType
<1>3. ASSUME NEW r \in Replicas, ConsumeJobs(r) \/ Disconnect(r) PROVE TypeOK'
  BY <1>3, ChannelType, ConsumeJobsType
<1>4. ASSUME NEW r \in Replicas, Signal(r) \/ Stop(r) \/ Crash(r) \/ Restart(r)
      PROVE  TypeOK'
  BY <1>4, ProcessType
<1>5. CASE UNCHANGED vars
  BY <1>5 DEF TypeOK, vars
<1> QED BY <1>1, <1>2, <1>3, <1>4, <1>5 DEF Next

\* Every state the orchestrator reaches is well typed. What there is to show is
\* that the goroutines only read steps their pipeline has, so that every save
\* stores a state that JobState declares and a progress between 0 and 100.
THEOREM TypeCorrect == Safety => []TypeOK
<1>1. Init => TypeOK
  BY TypeInit
<1>2. TypeOK /\ [Next]_vars => TypeOK'
  BY TypeNext
<1> QED BY <1>1, <1>2, PTL DEF Safety


-----------------------------------------------------------------------------
(* What each step of a goroutine does to its task *)


\* A step of processJob changes its own task and settles its own message only,
\* and after "settled" there is nothing left but to free the slot.
LEMMA ProcessJobStep ==
  ASSUME TypeOK, NEW r \in Replicas, NEW j \in Jobs, ProcessJob(r, j)
  PROVE  /\ \A r2 \in Replicas, j2 \in Jobs :
              r2 # r \/ j2 # j => task'[r2][j2] = task[r2][j2]
         /\ task[r][j].pc \notin {"none", "received"}
         /\ task'[r][j].pc # "received"
         /\ task[r][j].pc = "settled" => task'[r][j].pc = "none"
         /\ \/ msg' = msg /\ unacked' = unacked
            \/ /\ j \in unacked[r]
               /\ unacked' = [unacked EXCEPT ![r] = unacked[r] \ {j}]
               /\ \E v \in Settled : msg' = [msg EXCEPT ![j] = v]
               /\ task'[r][j].pc = "settled"
         /\ UNCHANGED <<redelivered, inbox, chan, proc, cancelled, loop>>
<1> DEFINE t == task[r][j]
<1>t. t \in Task
  BY DEF TypeOK
<1>1. CASE RejectMalformed(r, j)
  <2> DEFINE u == [t EXCEPT !.pc = "settled"]
  <2>1. task' = [task EXCEPT ![r][j] = u]
    BY <1>1 DEF RejectMalformed
  <2>2. t.pc = "spawned" /\ Settle(r, j, "rejected") /\ UNCHANGED <<redelivered, inbox, chan, procVars>>
    BY <1>1 DEF RejectMalformed
  <2>3. u.pc = "settled"
    BY <1>t DEF Task
  <2> HIDE DEF u
  <2>4. /\ task'[r][j] = u
        /\ \A r2 \in Replicas, j2 \in Jobs :
             r2 # r \/ j2 # j => task'[r2][j2] = task[r2][j2]
    BY <2>1 DEF TypeOK
  <2> QED BY <2>2, <2>3, <2>4 DEF Settle, Settled, procVars
<1>2. CASE StartJob(r, j)
  <2> DEFINE u == [pc |-> "pipeline", at |-> 1, attempt |-> 1, job |-> NewJob]
  <2>1. task' = [task EXCEPT ![r][j] = u]
    BY <1>2 DEF StartJob
  <2>2. t.pc = "spawned" /\ UNCHANGED <<brokerVars, procVars>>
    BY <1>2 DEF StartJob
  <2>3. u.pc = "pipeline"
    OBVIOUS
  <2> HIDE DEF u
  <2>4. /\ task'[r][j] = u
        /\ \A r2 \in Replicas, j2 \in Jobs :
             r2 # r \/ j2 # j => task'[r2][j2] = task[r2][j2]
    BY <2>1 DEF TypeOK
  <2> QED BY <2>2, <2>3, <2>4 DEF brokerVars, procVars
<1>3. CASE UpdateProgress(r, j)
  <2> DEFINE job == [t.job EXCEPT !.state = Pipeline(j)[t.at].state,
                                  !.progress = Pipeline(j)[t.at].progress]
             u   == [t EXCEPT !.at = t.at + 1, !.job = job]
  <2>1. task' = [task EXCEPT ![r][j] = u]
    BY <1>3 DEF UpdateProgress
  <2>2. t.pc = "pipeline" /\ UNCHANGED <<brokerVars, procVars>>
    BY <1>3 DEF UpdateProgress, AtStep
  <2> HIDE DEF job
  <2>3. u.pc = "pipeline"
    BY <1>t, <2>2 DEF Task
  <2> HIDE DEF u
  <2>4. /\ task'[r][j] = u
        /\ \A r2 \in Replicas, j2 \in Jobs :
             r2 # r \/ j2 # j => task'[r2][j2] = task[r2][j2]
    BY <2>1 DEF TypeOK
  <2> QED BY <2>2, <2>3, <2>4 DEF brokerVars, procVars
<1>4. CASE ProduceOutput(r, j)
  <2> DEFINE job == [t.job EXCEPT !.output = HasOutput(j)]
             u   == [t EXCEPT !.at = t.at + 1, !.job = job]
  <2>1. task' = [task EXCEPT ![r][j] = u]
    BY <1>4 DEF ProduceOutput
  <2>2. t.pc = "pipeline" /\ UNCHANGED <<brokerVars, procVars>>
    BY <1>4 DEF ProduceOutput, AtStep
  <2> HIDE DEF job
  <2>3. u.pc = "pipeline"
    BY <1>t, <2>2 DEF Task
  <2> HIDE DEF u
  <2>4. /\ task'[r][j] = u
        /\ \A r2 \in Replicas, j2 \in Jobs :
             r2 # r \/ j2 # j => task'[r2][j2] = task[r2][j2]
    BY <2>1 DEF TypeOK
  <2> QED BY <2>2, <2>3, <2>4 DEF brokerVars, procVars
<1>5. CASE TryNextEngine(r, j)
  <2> DEFINE u == [t EXCEPT !.pc = "fallback"]
  <2>1. task' = [task EXCEPT ![r][j] = u]
    BY <1>5 DEF TryNextEngine
  <2>2. t.pc = "pipeline" /\ UNCHANGED <<brokerVars, procVars>>
    BY <1>5 DEF TryNextEngine, AtStep
  <2>3. u.pc = "fallback"
    BY <1>t DEF Task
  <2> HIDE DEF u
  <2>4. /\ task'[r][j] = u
        /\ \A r2 \in Replicas, j2 \in Jobs :
             r2 # r \/ j2 # j => task'[r2][j2] = task[r2][j2]
    BY <2>1 DEF TypeOK
  <2> QED BY <2>2, <2>3, <2>4 DEF brokerVars, procVars
<1>6. CASE RetryWithFallback(r, j)
  <2> DEFINE job == [t.job EXCEPT !.state = "rendering", !.progress = 40]
             u   == [t EXCEPT !.pc = "pipeline", !.attempt = t.attempt + 1, !.job = job]
  <2>1. task' = [task EXCEPT ![r][j] = u]
    BY <1>6 DEF RetryWithFallback
  <2>2. t.pc = "fallback" /\ UNCHANGED <<brokerVars, procVars>>
    BY <1>6 DEF RetryWithFallback
  <2> HIDE DEF job
  <2>3. u.pc = "pipeline"
    BY <1>t DEF Task
  <2> HIDE DEF u
  <2>4. /\ task'[r][j] = u
        /\ \A r2 \in Replicas, j2 \in Jobs :
             r2 # r \/ j2 # j => task'[r2][j2] = task[r2][j2]
    BY <2>1 DEF TypeOK
  <2> QED BY <2>2, <2>3, <2>4 DEF brokerVars, procVars
<1>7. CASE PipelineFails(r, j)
  <2> DEFINE u == [t EXCEPT !.pc = "failing"]
  <2>1. task' = [task EXCEPT ![r][j] = u]
    BY <1>7 DEF PipelineFails
  <2>2. t.pc = "pipeline" /\ UNCHANGED <<brokerVars, procVars>>
    BY <1>7 DEF PipelineFails, AtStep
  <2>3. u.pc = "failing"
    BY <1>t DEF Task
  <2> HIDE DEF u
  <2>4. /\ task'[r][j] = u
        /\ \A r2 \in Replicas, j2 \in Jobs :
             r2 # r \/ j2 # j => task'[r2][j2] = task[r2][j2]
    BY <2>1 DEF TypeOK
  <2> QED BY <2>2, <2>3, <2>4 DEF brokerVars, procVars
<1>8. CASE RecordFailure(r, j)
  <2> DEFINE job == [t.job EXCEPT !.state = "failed"]
             u   == [t EXCEPT !.pc = "nacking", !.job = job]
  <2>1. task' = [task EXCEPT ![r][j] = u]
    BY <1>8 DEF RecordFailure
  <2>2. t.pc = "failing" /\ UNCHANGED <<brokerVars, procVars>>
    BY <1>8 DEF RecordFailure
  <2> HIDE DEF job
  <2>3. u.pc = "nacking"
    BY <1>t DEF Task
  <2> HIDE DEF u
  <2>4. /\ task'[r][j] = u
        /\ \A r2 \in Replicas, j2 \in Jobs :
             r2 # r \/ j2 # j => task'[r2][j2] = task[r2][j2]
    BY <2>1 DEF TypeOK
  <2> QED BY <2>2, <2>3, <2>4 DEF brokerVars, procVars
<1>9. CASE Nack(r, j)
  <2> DEFINE u == [t EXCEPT !.pc = "settled"]
  <2>1. task' = [task EXCEPT ![r][j] = u]
    BY <1>9 DEF Nack
  <2>2. t.pc = "nacking" /\ Settle(r, j, "rejected") /\ UNCHANGED <<redelivered, inbox, chan, procVars>>
    BY <1>9 DEF Nack
  <2>3. u.pc = "settled"
    BY <1>t DEF Task
  <2> HIDE DEF u
  <2>4. /\ task'[r][j] = u
        /\ \A r2 \in Replicas, j2 \in Jobs :
             r2 # r \/ j2 # j => task'[r2][j2] = task[r2][j2]
    BY <2>1 DEF TypeOK
  <2> QED BY <2>2, <2>3, <2>4 DEF Settle, Settled, procVars
<1>10. CASE RecordCompletion(r, j)
  <2> DEFINE job == [t.job EXCEPT !.state = "completed"]
             u   == [t EXCEPT !.pc = "acking", !.job = job]
  <2>1. task' = [task EXCEPT ![r][j] = u]
    BY <1>10 DEF RecordCompletion
  <2>2. t.pc = "pipeline" /\ UNCHANGED <<brokerVars, procVars>>
    BY <1>10 DEF RecordCompletion
  <2> HIDE DEF job
  <2>3. u.pc = "acking"
    BY <1>t DEF Task
  <2> HIDE DEF u
  <2>4. /\ task'[r][j] = u
        /\ \A r2 \in Replicas, j2 \in Jobs :
             r2 # r \/ j2 # j => task'[r2][j2] = task[r2][j2]
    BY <2>1 DEF TypeOK
  <2> QED BY <2>2, <2>3, <2>4 DEF brokerVars, procVars
<1>11. CASE Ack(r, j)
  <2> DEFINE u == [t EXCEPT !.pc = "settled"]
  <2>1. task' = [task EXCEPT ![r][j] = u]
    BY <1>11 DEF Ack
  <2>2. t.pc = "acking" /\ Settle(r, j, "acked") /\ UNCHANGED <<redelivered, inbox, chan, procVars>>
    BY <1>11 DEF Ack
  <2>3. u.pc = "settled"
    BY <1>t DEF Task
  <2> HIDE DEF u
  <2>4. /\ task'[r][j] = u
        /\ \A r2 \in Replicas, j2 \in Jobs :
             r2 # r \/ j2 # j => task'[r2][j2] = task[r2][j2]
    BY <2>1 DEF TypeOK
  <2> QED BY <2>2, <2>3, <2>4 DEF Settle, Settled, procVars
<1>12. CASE ReleaseSlot(r, j)
  <2> DEFINE u == Idle
  <2>1. task' = [task EXCEPT ![r][j] = u]
    BY <1>12 DEF ReleaseSlot
  <2>2. t.pc = "settled" /\ UNCHANGED <<brokerVars, procVars>>
    BY <1>12 DEF ReleaseSlot
  <2>3. u.pc = "none"
    BY DEF Idle
  <2> HIDE DEF u
  <2>4. /\ task'[r][j] = u
        /\ \A r2 \in Replicas, j2 \in Jobs :
             r2 # r \/ j2 # j => task'[r2][j2] = task[r2][j2]
    BY <2>1 DEF TypeOK
  <2> QED BY <2>2, <2>3, <2>4 DEF brokerVars, procVars
<1> QED BY <1>1, <1>2, <1>3, <1>4, <1>5, <1>6, <1>7, <1>8, <1>9, <1>10, <1>11, <1>12
        DEF ProcessJob


-----------------------------------------------------------------------------
(* Ownership of messages *)

\* The broker has delivered an unacknowledged message to one replica only.
OwnerInv ==
  /\ \A r \in Replicas : \A j \in unacked[r] : msg[j] = "unacked"
  /\ \A r1, r2 \in Replicas : r1 # r2 => unacked[r1] \intersect unacked[r2] = {}

LEMMA OwnerInvInit == Init => OwnerInv
BY DEF Init, OwnerInv

\* A closing channel gives up what it owned, and nobody else's messages.
LEMMA OwnerInvRequeue ==
  ASSUME TypeOK, OwnerInv, NEW r \in Replicas, Requeue(r)
  PROVE  OwnerInv'
<1>1. /\ unacked'[r] = {}
      /\ \A r2 \in Replicas : r2 # r => unacked'[r2] = unacked[r2]
  BY DEF Requeue, TypeOK
<1>2. ASSUME NEW r2 \in Replicas, NEW j \in unacked'[r2] PROVE msg'[j] = "unacked"
  <2>1. r2 # r /\ j \in unacked[r2] /\ j \in Jobs
    BY <1>1, <1>2 DEF TypeOK
  <2>2. j \notin unacked[r] /\ msg[j] = "unacked"
    BY <2>1 DEF OwnerInv
  <2> QED BY <2>1, <2>2 DEF Requeue
<1>3. \A r1, r2 \in Replicas : r1 # r2 => unacked'[r1] \intersect unacked'[r2] = {}
  BY <1>1 DEF OwnerInv
<1> QED BY <1>2, <1>3 DEF OwnerInv

LEMMA OwnerInvNext ==
  ASSUME TypeOK, OwnerInv, [Next]_vars
  PROVE  OwnerInv'
<1>1. ASSUME NEW j \in Jobs, Publish(j) \/ Expire(j) PROVE OwnerInv'
  <2>1. /\ unacked' = unacked
        /\ msg[j] # "unacked"
        /\ \A j2 \in Jobs : j2 # j => msg'[j2] = msg[j2]
    BY <1>1 DEF Publish, Expire, TypeOK
  <2> QED BY <2>1 DEF OwnerInv, TypeOK
<1>2. ASSUME NEW r \in Replicas, NEW j \in Jobs, Deliver(r, j) PROVE OwnerInv'
  <2>1. /\ msg[j] = "ready"
        /\ msg'[j] = "unacked" /\ \A j2 \in Jobs : j2 # j => msg'[j2] = msg[j2]
        /\ unacked'[r] = unacked[r] \union {j}
        /\ \A r2 \in Replicas : r2 # r => unacked'[r2] = unacked[r2]
    BY <1>2 DEF Deliver, TypeOK
  <2>2. \A r2 \in Replicas : j \notin unacked[r2]
    BY <2>1 DEF OwnerInv
  <2>3. ASSUME NEW r2 \in Replicas, NEW j2 \in unacked'[r2] PROVE msg'[j2] = "unacked"
    <3>1. CASE j2 = j
      BY <2>1, <3>1
    <3>2. CASE j2 # j
      <4>1. unacked[r2] \in SUBSET Jobs
        BY DEF TypeOK
      <4>2. j2 \in unacked[r2]
        <5>1. CASE r2 = r
          BY <2>1, <2>3, <3>2, <5>1
        <5>2. CASE r2 # r
          BY <2>1, <2>3, <5>2
        <5> QED BY <5>1, <5>2
      <4>3. msg[j2] = "unacked"
        BY <4>2 DEF OwnerInv
      <4> QED BY <2>1, <3>2, <4>1, <4>2, <4>3
    <3> QED BY <3>1, <3>2
  <2>4. \A r1, r2 \in Replicas : r1 # r2 => unacked'[r1] \intersect unacked'[r2] = {}
    BY <2>1, <2>2 DEF OwnerInv
  <2> QED BY <2>3, <2>4 DEF OwnerInv
<1>3. ASSUME NEW r \in Replicas, NEW j \in Jobs, ProcessJob(r, j) PROVE OwnerInv'
  <2>1. CASE msg' = msg /\ unacked' = unacked
    BY <2>1 DEF OwnerInv
  <2>2. CASE /\ j \in unacked[r]
             /\ unacked' = [unacked EXCEPT ![r] = unacked[r] \ {j}]
             /\ \E v \in Settled : msg' = [msg EXCEPT ![j] = v]
    <3>1. /\ \A j2 \in Jobs : j2 # j => msg'[j2] = msg[j2]
          /\ unacked'[r] = unacked[r] \ {j}
          /\ \A r2 \in Replicas : r2 # r => unacked'[r2] = unacked[r2]
      BY <2>2 DEF TypeOK
    <3>2. \A r2 \in Replicas : r2 # r => j \notin unacked[r2]
      BY <2>2 DEF OwnerInv
    <3>3. ASSUME NEW r2 \in Replicas, NEW j2 \in unacked'[r2] PROVE msg'[j2] = "unacked"
      <4>1. j2 # j /\ j2 \in unacked[r2] /\ j2 \in Jobs
        BY <3>1, <3>2, <3>3 DEF TypeOK
      <4> QED BY <3>1, <4>1 DEF OwnerInv
    <3>4. \A r1, r2 \in Replicas : r1 # r2 => unacked'[r1] \intersect unacked'[r2] = {}
      BY <3>1 DEF OwnerInv
    <3> QED BY <3>3, <3>4 DEF OwnerInv
  <2> QED BY <1>3, <2>1, <2>2, ProcessJobStep
<1>4. ASSUME NEW r \in Replicas, ConsumeJobs(r) PROVE OwnerInv'
  BY <1>4 DEF ConsumeJobs, Receive, Spawn, StopConsuming, ConsumerFails, brokerVars, OwnerInv
<1>5. ASSUME NEW r \in Replicas, Disconnect(r) \/ Stop(r) \/ Crash(r) PROVE OwnerInv'
  BY <1>5, OwnerInvRequeue DEF Disconnect, Stop, Shutdown, Exit, Crash, Terminate
<1>6. ASSUME NEW r \in Replicas, Signal(r) \/ Restart(r) PROVE OwnerInv'
  BY <1>6 DEF Signal, Restart, brokerVars, OwnerInv
<1>7. CASE UNCHANGED vars
  BY <1>7 DEF vars, OwnerInv
<1> QED BY <1>1, <1>2, <1>3, <1>4, <1>5, <1>6, <1>7 DEF Next


-----------------------------------------------------------------------------
(* Worker slots *)

\* Why the prefetch keeps the consumer loop from waiting behind a conversion:
\* on an open channel whatever the replica has taken and not settled counts
\* against the prefetch, a blocked loop holds one such delivery, and a process
\* starts with nothing left over from the one before.
HoldsItsMessages(r) ==
  chan[r] = "open" =>
    /\ inbox[r] \subseteq unacked[r]
    /\ \A j \in Jobs : task[r][j].pc \notin {"none", "settled"} =>
                         j \in unacked[r] /\ j \notin inbox[r]

StartsEmpty(r) ==
  proc[r] = "down" =>
    /\ unacked[r] = {}
    /\ inbox[r] = {}
    /\ chan[r] = "closed"
    /\ \A j \in Jobs : task[r][j].pc = "none"

SlotInvAt(r) ==
  /\ Cardinality(unacked[r]) <= Prefetch
  /\ HoldsItsMessages(r)
  /\ loop[r] = "blocked" => \E j \in Jobs : task[r][j].pc = "received"
  /\ StartsEmpty(r)

SlotInv == \A r \in Replicas : SlotInvAt(r)

LEMMA SlotInvInit == Init => SlotInv
<1> SUFFICES ASSUME Init, NEW r \in Replicas PROVE SlotInvAt(r)
  BY DEF SlotInv
<1>1. unacked[r] = {} /\ inbox[r] = {} /\ loop[r] = "select" /\ proc[r] = "up"
  BY DEF Init
<1>2. Cardinality(unacked[r]) = 0
  BY <1>1, FS_EmptySet
<1>3. \A j \in Jobs : task[r][j].pc = "none"
  BY DEF Init, Idle
<1> QED BY <1>1, <1>2, <1>3, ConcurrencyAssumption
        DEF Prefetch, SlotInvAt, HoldsItsMessages, StartsEmpty

\* The deliveries of a replica are jobs, so they are finitely many.
LEMMA UnackedFinite ==
  ASSUME TypeOK, NEW r \in Replicas, NEW S \in SUBSET unacked[r]
  PROVE  IsFiniteSet(S) /\ Cardinality(S) \in Nat
<1>1. S \subseteq Jobs
  BY DEF TypeOK
<1>2. IsFiniteSet(S)
  BY <1>1, JobsAssumption, FS_Subset
<1> QED BY <1>2, FS_CardinalityType

\* Giving back deliveries keeps the prefetch limit.
LEMMA FewerUnacked ==
  ASSUME TypeOK, NEW r \in Replicas, NEW S \in SUBSET unacked[r],
         Cardinality(unacked[r]) <= Prefetch
  PROVE  Cardinality(S) <= Prefetch
<1>1. Cardinality(S) <= Cardinality(unacked[r])
  BY UnackedFinite, FS_Subset
<1>2. Cardinality(S) \in Nat /\ Cardinality(unacked[r]) \in Nat /\ Prefetch \in Nat
  BY UnackedFinite, ConcurrencyAssumption DEF Prefetch
<1> QED BY <1>1, <1>2

\* A step of one replica leaves what SlotInv says of the others alone.
LEMMA SlotInvLocal ==
  ASSUME TypeOK, SlotInv, NEW r \in Replicas, SlotInvAt(r)',
         \A r2 \in Replicas : r2 # r =>
           /\ unacked'[r2] = unacked[r2]
           /\ inbox'[r2] = inbox[r2]
           /\ chan'[r2] = chan[r2]
           /\ proc'[r2] = proc[r2]
           /\ loop'[r2] = loop[r2]
           /\ \A j \in Jobs : task'[r2][j] = task[r2][j]
  PROVE  SlotInv'
<1> SUFFICES ASSUME NEW r2 \in Replicas, r2 # r PROVE SlotInvAt(r2)'
  BY DEF SlotInv
<1>1. SlotInvAt(r2)
  BY DEF SlotInv
<1>2. HoldsItsMessages(r2)'
  BY <1>1 DEF SlotInvAt, HoldsItsMessages
<1>3. StartsEmpty(r2)'
  BY <1>1 DEF SlotInvAt, StartsEmpty
<1>4. loop'[r2] = "blocked" => \E j \in Jobs : task'[r2][j].pc = "received"
  BY <1>1 DEF SlotInvAt
<1>5. Cardinality(unacked'[r2]) <= Prefetch
  BY <1>1 DEF SlotInvAt
<1> QED BY <1>2, <1>3, <1>4, <1>5 DEF SlotInvAt, Prefetch

\* A goroutine keeps its message while it runs, and settles its own only.
LEMMA SlotInvProcessJob ==
  ASSUME TypeOK, SlotInv, NEW r \in Replicas, NEW j \in Jobs, ProcessJob(r, j)
  PROVE  SlotInv'
<1>1. SlotInvAt(r)
  BY DEF SlotInv
<1>2. unacked'[r] \in SUBSET unacked[r]
  BY ProcessJobStep DEF TypeOK
<1>3. Cardinality(unacked'[r]) <= Prefetch
  BY <1>1, <1>2, FewerUnacked DEF SlotInvAt
<1>4. HoldsItsMessages(r)'
  <2> SUFFICES ASSUME chan[r] = "open"
               PROVE  /\ inbox[r] \subseteq unacked'[r]
                      /\ \A j2 \in Jobs : task'[r][j2].pc \notin {"none", "settled"} =>
                           j2 \in unacked'[r] /\ j2 \notin inbox[r]
    BY ProcessJobStep DEF HoldsItsMessages
  <2>1. /\ inbox[r] \subseteq unacked[r]
        /\ \A j2 \in Jobs : task[r][j2].pc \notin {"none", "settled"} =>
             j2 \in unacked[r] /\ j2 \notin inbox[r]
    BY <1>1 DEF SlotInvAt, HoldsItsMessages
  <2>2. CASE unacked' = unacked
    BY <2>1, <2>2, ProcessJobStep
  <2>3. CASE /\ unacked' = [unacked EXCEPT ![r] = unacked[r] \ {j}]
             /\ task'[r][j].pc = "settled"
    <3>1. task[r][j].pc \notin {"none", "settled"}
      BY <2>3, ProcessJobStep
    <3>2. unacked'[r] = unacked[r] \ {j}
      BY <2>3 DEF TypeOK
    <3> QED BY <2>1, <2>3, <3>1, <3>2, ProcessJobStep
  <2> QED BY <2>2, <2>3, ProcessJobStep
<1>5. loop'[r] = "blocked" => \E j2 \in Jobs : task'[r][j2].pc = "received"
  BY <1>1, ProcessJobStep DEF SlotInvAt
<1>6. StartsEmpty(r)'
  BY <1>1, ProcessJobStep DEF SlotInvAt, StartsEmpty
<1>7. SlotInvAt(r)'
  BY <1>3, <1>4, <1>5, <1>6 DEF SlotInvAt, Prefetch
<1>8. \A r2 \in Replicas : r2 # r => unacked'[r2] = unacked[r2]
  BY ProcessJobStep DEF TypeOK
<1> QED BY <1>7, <1>8, SlotInvLocal, ProcessJobStep


\* A delivery takes a place in the prefetch and in the inbox; the goroutine of
\* an earlier delivery of the job cannot be running on the same open channel.
LEMMA SlotInvDeliver ==
  ASSUME TypeOK, OwnerInv, SlotInv, NEW r \in Replicas, NEW j \in Jobs, Deliver(r, j)
  PROVE  SlotInv'
<1>1. SlotInvAt(r)
  BY DEF SlotInv
<1>2. /\ unacked'[r] = unacked[r] \union {j}
      /\ inbox'[r] = inbox[r] \union {j}
      /\ \A r2 \in Replicas : r2 # r => unacked'[r2] = unacked[r2] /\ inbox'[r2] = inbox[r2]
      /\ UNCHANGED <<chan, proc, loop, task>>
  BY DEF Deliver, TypeOK, procVars
<1>3. j \notin unacked[r]
  BY DEF Deliver, OwnerInv
<1>4. Cardinality(unacked'[r]) <= Prefetch
  <2>1. Cardinality(unacked[r] \union {j}) = Cardinality(unacked[r]) + 1
    BY <1>3, UnackedFinite, FS_AddElement
  <2>2. Cardinality(unacked[r]) \in Nat /\ Cardinality(unacked[r]) < Prefetch /\ Prefetch \in Nat
    BY UnackedFinite, ConcurrencyAssumption DEF Deliver, Prefetch
  <2> QED BY <1>2, <2>1, <2>2
<1>5. HoldsItsMessages(r)'
  BY <1>1, <1>2, <1>3 DEF SlotInvAt, HoldsItsMessages
<1>6. StartsEmpty(r)'
  BY <1>1, <1>2 DEF SlotInvAt, StartsEmpty, Deliver
<1>7. loop'[r] = "blocked" => \E j2 \in Jobs : task'[r][j2].pc = "received"
  BY <1>1, <1>2 DEF SlotInvAt
<1>8. SlotInvAt(r)'
  BY <1>4, <1>5, <1>6, <1>7 DEF SlotInvAt, Prefetch
<1> QED BY <1>2, <1>8, SlotInvLocal

\* Taking a delivery and starting its goroutine.
LEMMA SlotInvConsumeJobs ==
  ASSUME TypeOK, SlotInv, NEW r \in Replicas, ConsumeJobs(r)
  PROVE  SlotInv'
<1>1. SlotInvAt(r)
  BY DEF SlotInv
<1>2. ASSUME NEW j \in Jobs, Receive(r, j) PROVE SlotInv'
  <2>1. /\ j \in inbox[r] /\ inbox'[r] = inbox[r] \ {j}
        /\ loop'[r] = "blocked"
        /\ \A r2 \in Replicas : r2 # r => inbox'[r2] = inbox[r2] /\ loop'[r2] = loop[r2]
        /\ UNCHANGED <<unacked, chan, proc>>
    BY <1>2 DEF Receive, TypeOK
  <2>2. task'[r][j].pc = "received"
    BY <1>2 DEF Receive, TypeOK, Idle
  <2>3. \A r2 \in Replicas, j2 \in Jobs : r2 # r \/ j2 # j => task'[r2][j2] = task[r2][j2]
    BY <1>2 DEF Receive, TypeOK
  <2>4. HoldsItsMessages(r)'
    BY <1>1, <2>1, <2>3 DEF SlotInvAt, HoldsItsMessages
  <2>5. StartsEmpty(r)'
    BY <1>1, <2>1 DEF SlotInvAt, StartsEmpty
  <2>6. SlotInvAt(r)'
    BY <1>1, <2>1, <2>2, <2>4, <2>5 DEF SlotInvAt, Prefetch
  <2> QED BY <2>1, <2>3, <2>6, SlotInvLocal
<1>3. ASSUME NEW j \in Jobs, Spawn(r, j) PROVE SlotInv'
  <2>1. /\ task[r][j].pc = "received"
        /\ loop'[r] = "select"
        /\ \A r2 \in Replicas : r2 # r => loop'[r2] = loop[r2]
        /\ UNCHANGED <<unacked, inbox, chan, proc>>
    BY <1>3 DEF Spawn, TypeOK, brokerVars
  <2>2. \A r2 \in Replicas, j2 \in Jobs : r2 # r \/ j2 # j => task'[r2][j2] = task[r2][j2]
    BY <1>3 DEF Spawn, TypeOK
  <2>3. HoldsItsMessages(r)'
    BY <1>1, <2>1, <2>2 DEF SlotInvAt, HoldsItsMessages
  <2>4. StartsEmpty(r)'
    BY <1>1, <2>1 DEF SlotInvAt, StartsEmpty
  <2>5. SlotInvAt(r)'
    BY <1>1, <2>1, <2>3, <2>4 DEF SlotInvAt, Prefetch
  <2> QED BY <2>1, <2>2, <2>5, SlotInvLocal
<1>4. CASE StopConsuming(r) \/ ConsumerFails(r)
  <2>1. /\ loop'[r] = "returned"
        /\ inbox'[r] = inbox[r] \/ inbox'[r] = {}
        /\ \A r2 \in Replicas : r2 # r => inbox'[r2] = inbox[r2] /\ loop'[r2] = loop[r2]
        /\ UNCHANGED <<unacked, chan, proc, task>>
    BY <1>4 DEF StopConsuming, ConsumerFails, TypeOK, brokerVars
  <2>2. HoldsItsMessages(r)'
    BY <1>1, <2>1 DEF SlotInvAt, HoldsItsMessages
  <2>3. StartsEmpty(r)'
    BY <1>1, <2>1 DEF SlotInvAt, StartsEmpty
  <2>4. SlotInvAt(r)'
    BY <1>1, <2>1, <2>2, <2>3 DEF SlotInvAt, Prefetch
  <2> QED BY <2>1, <2>4, SlotInvLocal
<1> QED BY <1>2, <1>3, <1>4 DEF ConsumeJobs

\* A closed channel holds nothing, and the process that ends leaves nothing.
LEMMA SlotInvClose ==
  ASSUME TypeOK, SlotInv, NEW r \in Replicas, Disconnect(r) \/ Stop(r) \/ Crash(r)
  PROVE  SlotInv'
<1>1. SlotInvAt(r)
  BY DEF SlotInv
<1>2. /\ unacked'[r] = {} /\ chan'[r] = "closed"
      /\ \A r2 \in Replicas : r2 # r => unacked'[r2] = unacked[r2] /\ chan'[r2] = chan[r2]
  BY DEF Disconnect, Stop, Shutdown, Exit, Crash, Terminate, Requeue, TypeOK
<1>3. Cardinality(unacked'[r]) <= Prefetch
  BY <1>2, FS_EmptySet, ConcurrencyAssumption DEF Prefetch
<1>4. HoldsItsMessages(r)'
  BY <1>2 DEF HoldsItsMessages
<1>5. CASE Disconnect(r) \/ Shutdown(r)
  <2>1. /\ UNCHANGED <<inbox, loop, task>>
        /\ proc'[r] = proc[r] \/ proc'[r] = "closed"
        /\ \A r2 \in Replicas : r2 # r => proc'[r2] = proc[r2]
    BY <1>5 DEF Disconnect, Shutdown, TypeOK, procVars
  <2>2. SlotInvAt(r)'
    BY <1>1, <1>2, <1>3, <1>4, <2>1 DEF SlotInvAt, StartsEmpty, Prefetch
  <2> QED BY <1>2, <2>1, <2>2, SlotInvLocal
<1>6. CASE Terminate(r)
  <2>1. /\ inbox'[r] = {} /\ loop'[r] = "returned"
        /\ \A r2 \in Replicas : r2 # r =>
             inbox'[r2] = inbox[r2] /\ loop'[r2] = loop[r2] /\ proc'[r2] = proc[r2]
    BY <1>6 DEF Terminate, TypeOK
  <2>2. /\ \A j \in Jobs : task'[r][j] = Idle
        /\ \A r2 \in Replicas : r2 # r => task'[r2] = task[r2]
    BY <1>6 DEF Terminate, TypeOK
  <2>3. \A j \in Jobs : task'[r][j].pc = "none"
    BY <2>2 DEF Idle
  <2>4. SlotInvAt(r)'
    BY <1>2, <1>3, <1>4, <2>1, <2>3 DEF SlotInvAt, StartsEmpty, Prefetch
  <2> QED BY <1>2, <2>1, <2>2, <2>4, SlotInvLocal
<1> QED BY <1>5, <1>6 DEF Stop, Exit, Crash

\* A signal changes nothing the slots depend on; a new process has nothing yet.
LEMMA SlotInvProcess ==
  ASSUME TypeOK, SlotInv, NEW r \in Replicas, Signal(r) \/ Restart(r)
  PROVE  SlotInv'
<1>1. SlotInvAt(r)
  BY DEF SlotInv
<1>2. CASE Signal(r)
  <2>1. /\ proc'[r] = "stopping"
        /\ \A r2 \in Replicas : r2 # r => proc'[r2] = proc[r2]
        /\ UNCHANGED <<unacked, inbox, chan, loop, task>>
    BY <1>2 DEF Signal, TypeOK, brokerVars
  <2>2. SlotInvAt(r)'
    BY <1>1, <2>1 DEF SlotInvAt, HoldsItsMessages, StartsEmpty, Prefetch
  <2> QED BY <2>1, <2>2, SlotInvLocal
<1>3. CASE Restart(r)
  <2>1. /\ proc[r] = "down" /\ proc'[r] = "up" /\ loop'[r] = "select"
        /\ \A r2 \in Replicas : r2 # r =>
             proc'[r2] = proc[r2] /\ chan'[r2] = chan[r2] /\ loop'[r2] = loop[r2]
        /\ UNCHANGED <<unacked, inbox, task>>
    BY <1>3 DEF Restart, TypeOK
  <2>2. unacked[r] = {} /\ inbox[r] = {} /\ \A j \in Jobs : task[r][j].pc = "none"
    BY <1>1, <2>1 DEF SlotInvAt, StartsEmpty
  <2>3. SlotInvAt(r)'
    BY <1>1, <2>1, <2>2 DEF SlotInvAt, HoldsItsMessages, StartsEmpty, Prefetch
  <2> QED BY <2>1, <2>3, SlotInvLocal
<1> QED BY <1>2, <1>3

LEMMA SlotInvNext ==
  ASSUME TypeOK, OwnerInv, SlotInv, [Next]_vars
  PROVE  SlotInv'
<1>1. ASSUME NEW j \in Jobs, Publish(j) \/ Expire(j) PROVE SlotInv'
  BY <1>1 DEF Publish, Expire, procVars, SlotInv, SlotInvAt, HoldsItsMessages,
              StartsEmpty, Prefetch
<1>2. CASE UNCHANGED vars
  BY <1>2 DEF vars, SlotInv, SlotInvAt, HoldsItsMessages, StartsEmpty, Prefetch
<1> QED BY <1>1, <1>2, SlotInvDeliver, SlotInvProcessJob, SlotInvConsumeJobs, SlotInvClose,
           SlotInvProcess DEF Next

\* If the loop were blocked behind goroutines that all still hold a message, the
\* replica would hold one message per slot and the one it waits with.
LEMMA SlotInvImpliesShortWait ==
  ASSUME TypeOK, SlotInv
  PROVE  SlotWaitIsShort
<1> SUFFICES ASSUME NEW r \in Replicas, chan[r] = "open", loop[r] = "blocked",
                    Cardinality(Working(r)) = WorkerConcurrency,
                    \A j \in Working(r) : task[r][j].pc # "settled"
             PROVE  FALSE
  BY DEF SlotWaitIsShort
<1>1. SlotInvAt(r)
  BY DEF SlotInv
<1>2. PICK j \in Jobs : task[r][j].pc = "received"
  BY <1>1 DEF SlotInvAt
<1>3. Working(r) \union {j} \in SUBSET unacked[r] /\ j \notin Working(r)
  BY <1>1, <1>2 DEF SlotInvAt, HoldsItsMessages, Working
<1>4. Cardinality(Working(r) \union {j}) = WorkerConcurrency + 1
  BY <1>3, UnackedFinite, FS_AddElement
<1>5. Cardinality(Working(r) \union {j}) <= Prefetch
  BY <1>1, <1>3, FewerUnacked DEF SlotInvAt
<1> QED BY <1>4, <1>5, ConcurrencyAssumption DEF Prefetch

\* The consumer loop waits for a worker slot only behind a goroutine that has
\* settled its message: NewOrchestrator asks for as many deliveries as it makes
\* slots, so a delivery beyond them would exceed the prefetch.
THEOREM SlotWaits == Safety => []SlotWaitIsShort
<1> DEFINE Inv == TypeOK /\ OwnerInv /\ SlotInv
<1>1. Init => Inv
  BY TypeInit, OwnerInvInit, SlotInvInit
<1>2. Inv /\ [Next]_vars => Inv'
  BY TypeNext, OwnerInvNext, SlotInvNext
<1>3. Inv => SlotWaitIsShort
  BY SlotInvImpliesShortWait
<1> QED BY <1>1, <1>2, <1>3, PTL DEF Safety


-----------------------------------------------------------------------------
(* Outputs *)

\* A record of job j that may be read as completed.
Sound(j, record) ==
  record.state = "completed" => record.progress = 100 /\ record.output = HasOutput(j)

\* A conversion is among the first n - 1 steps of j's pipeline.
Produced(j, n) ==
  \E i \in 1..Len(Pipeline(j)) : i < n /\ Pipeline(j)[i].op \in Converters

\* The job a goroutine works on: from the conversion on it has the output, and
\* once every step is behind it the last update has completed it.
TaskSound(j, t) ==
  /\ Sound(j, t.job)
  /\ t.pc \in {"pipeline", "fallback"} /\ Produced(j, t.at) => t.job.output = HasOutput(j)
  /\ t.pc = "pipeline" /\ Message[j].direction \in Directions /\ t.at > Len(Pipeline(j))
       => t.job.state = "completed"
  /\ t.pc = "fallback" => t.at <= Len(Pipeline(j))

OutputInv ==
  /\ \A j \in Jobs : Sound(j, store[j])
  /\ \A r \in Replicas, j \in Jobs : TaskSound(j, task[r][j])

LEMMA IdleSound ==
  ASSUME NEW j \in Jobs
  PROVE  TaskSound(j, Idle) /\ Sound(j, NoRecord)
BY DEF Idle, NoRecord, TaskSound, Sound

LEMMA OutputInvInit == Init => OutputInv
BY IdleSound DEF Init, OutputInv

\* A save of a sound job keeps the store sound; so does a lost one.
LEMMA SaveJobSound ==
  ASSUME TypeOK, OutputInv, NEW r \in Replicas, NEW j \in Jobs, NEW record,
         Sound(j, record), SaveJob(r, j, record)
  PROVE  \A j2 \in Jobs : Sound(j2, store'[j2])
<1>1. CASE store' = store
  BY <1>1 DEF OutputInv
<1>2. CASE store' = [store EXCEPT ![j] = record]
  <2>1. store'[j] = record /\ \A j2 \in Jobs : j2 # j => store'[j2] = store[j2]
    BY <1>2 DEF TypeOK
  <2> QED BY <2>1 DEF OutputInv
<1> QED BY <1>1, <1>2 DEF SaveJob

\* A goroutine's step keeps OutputInv when its own new task and the store are sound.
LEMMA OutputInvLocal ==
  ASSUME TypeOK, OutputInv, NEW r \in Replicas, NEW j \in Jobs,
         \A r2 \in Replicas, j2 \in Jobs :
           r2 # r \/ j2 # j => task'[r2][j2] = task[r2][j2],
         TaskSound(j, task'[r][j]),
         \A j2 \in Jobs : Sound(j2, store'[j2])
  PROVE  OutputInv'
<1>1. ASSUME NEW r2 \in Replicas, NEW j2 \in Jobs PROVE TaskSound(j2, task'[r2][j2])
  <2>1. CASE r2 = r /\ j2 = j
    BY <2>1
  <2>2. CASE r2 # r \/ j2 # j
    BY <2>2 DEF OutputInv
  <2> QED BY <2>1, <2>2
<1> QED BY <1>1 DEF OutputInv, TaskSound, Sound, Produced, HasOutput, Pipeline


\* What a well-formed pipeline says of the step a goroutine is at.
LEMMA StepFacts ==
  ASSUME TypeOK, NEW r \in Replicas, NEW j \in Jobs, NEW ops, AtStep(r, j, ops)
  PROVE  LET n == task[r][j].at
             p == Pipeline(j)
         IN  /\ n \in 1..Len(p) /\ Len(p) \in Nat
             /\ n = Len(p) => p[n] = Update("completed", 100) /\ Produced(j, n)
             /\ p[n].op = "update" /\ p[n].state = "completed" => n = Len(p)
             /\ p[n].op \notin Converters => (Produced(j, n + 1) => Produced(j, n))
             /\ Message[j].direction \in Directions
<1> DEFINE n == task[r][j].at
           p == Pipeline(j)
<1>1. WellFormed(p) /\ n \in 1..Len(p) /\ Message[j].direction \in Directions
  BY AtStepInside
<1>2. Len(p) \in Nat
  BY <1>1 DEF WellFormed
<1>3. ASSUME n = Len(p) PROVE p[n] = Update("completed", 100) /\ Produced(j, n)
  <2>1. PICK i \in 1..(Len(p) - 1) : p[i].op \in Converters
    BY <1>1 DEF WellFormed
  <2>2. i \in 1..Len(p) /\ i < n
    BY <1>2, <1>3
  <2>3. Produced(j, n)
    BY <2>1, <2>2 DEF Produced
  <2> QED BY <1>1, <1>3, <2>3 DEF WellFormed
<1>4. p[n].op = "update" /\ p[n].state = "completed" => n = Len(p)
  BY <1>1 DEF WellFormed, Converters
<1>5. ASSUME p[n].op \notin Converters, Produced(j, n + 1) PROVE Produced(j, n)
  <2>1. PICK i \in 1..Len(p) : i < n + 1 /\ p[i].op \in Converters
    BY <1>5 DEF Produced
  <2>2. i # n
    BY <1>5, <2>1
  <2>3. i < n
    BY <1>1, <1>2, <2>1, <2>2
  <2> QED BY <2>1, <2>3 DEF Produced
<1> QED BY <1>1, <1>2, <1>3, <1>4, <1>5

\* A goroutine that goes on to a step outside executePipeline carries its job.
LEMMA SoundOutsidePipeline ==
  ASSUME NEW j \in Jobs, NEW t, t.pc \notin {"pipeline", "fallback"}, Sound(j, t.job)
  PROVE  TaskSound(j, t)
BY DEF TaskSound

LEMMA OutputInvProcessJob ==
  ASSUME TypeOK, OutputInv, NEW r \in Replicas, NEW j \in Jobs, ProcessJob(r, j)
  PROVE  OutputInv'
<1> DEFINE t == task[r][j]
<1>t. t \in Task /\ t.job \in Records /\ t.at \in Nat \ {0}
  BY DEF TypeOK, Task
<1>s. TaskSound(j, t) /\ Sound(j, t.job)
  BY DEF OutputInv, TaskSound
<1>o. \A r2 \in Replicas, j2 \in Jobs : r2 # r \/ j2 # j => task'[r2][j2] = task[r2][j2]
  BY ProcessJobStep
<1>u. store' = store => \A j2 \in Jobs : Sound(j2, store'[j2])
  BY DEF OutputInv
<1>1. CASE RejectMalformed(r, j)
  <2> DEFINE u == [t EXCEPT !.pc = "settled"]
  <2>1. task' = [task EXCEPT ![r][j] = u] /\ store' = store
    BY <1>1 DEF RejectMalformed, storeVars
  <2>2. u.pc = "settled" /\ u.job = t.job
    BY <1>t DEF Task
  <2> HIDE DEF u
  <2>3. task'[r][j] = u
    BY <2>1 DEF TypeOK
  <2>4. TaskSound(j, u)
    BY <1>s, <2>2, SoundOutsidePipeline
  <2> QED BY <1>o, <1>u, <2>1, <2>3, <2>4, OutputInvLocal
<1>2. CASE PipelineFails(r, j)
  <2> DEFINE u == [t EXCEPT !.pc = "failing"]
  <2>1. task' = [task EXCEPT ![r][j] = u] /\ store' = store
    BY <1>2 DEF PipelineFails, storeVars
  <2>2. u.pc = "failing" /\ u.job = t.job
    BY <1>t DEF Task
  <2> HIDE DEF u
  <2>3. task'[r][j] = u
    BY <2>1 DEF TypeOK
  <2>4. TaskSound(j, u)
    BY <1>s, <2>2, SoundOutsidePipeline
  <2> QED BY <1>o, <1>u, <2>1, <2>3, <2>4, OutputInvLocal
<1>3. CASE Nack(r, j)
  <2> DEFINE u == [t EXCEPT !.pc = "settled"]
  <2>1. task' = [task EXCEPT ![r][j] = u] /\ store' = store
    BY <1>3 DEF Nack, storeVars
  <2>2. u.pc = "settled" /\ u.job = t.job
    BY <1>t DEF Task
  <2> HIDE DEF u
  <2>3. task'[r][j] = u
    BY <2>1 DEF TypeOK
  <2>4. TaskSound(j, u)
    BY <1>s, <2>2, SoundOutsidePipeline
  <2> QED BY <1>o, <1>u, <2>1, <2>3, <2>4, OutputInvLocal
<1>4. CASE Ack(r, j)
  <2> DEFINE u == [t EXCEPT !.pc = "settled"]
  <2>1. task' = [task EXCEPT ![r][j] = u] /\ store' = store
    BY <1>4 DEF Ack, storeVars
  <2>2. u.pc = "settled" /\ u.job = t.job
    BY <1>t DEF Task
  <2> HIDE DEF u
  <2>3. task'[r][j] = u
    BY <2>1 DEF TypeOK
  <2>4. TaskSound(j, u)
    BY <1>s, <2>2, SoundOutsidePipeline
  <2> QED BY <1>o, <1>u, <2>1, <2>3, <2>4, OutputInvLocal
<1>5. CASE ReleaseSlot(r, j)
  <2>1. task'[r][j] = Idle /\ store' = store
    BY <1>5 DEF ReleaseSlot, storeVars, TypeOK
  <2> QED BY <1>o, <1>u, <2>1, IdleSound, OutputInvLocal
<1>6. CASE StartJob(r, j)
  <2> DEFINE u == [pc |-> "pipeline", at |-> 1, attempt |-> 1, job |-> NewJob]
  <2>1. task' = [task EXCEPT ![r][j] = u] /\ SaveJob(r, j, NewJob)
    BY <1>6 DEF StartJob
  <2>2. Sound(j, NewJob)
    BY DEF Sound, NewJob
  <2>3. Message[j].direction \in Directions => Len(Pipeline(j)) \in Nat \ {0}
    BY PipelinesWellFormed DEF Pipeline, WellFormed
  <2>4. ~Produced(j, 1)
    BY DEF Produced
  <2>5. TaskSound(j, u)
    BY <2>2, <2>3, <2>4 DEF TaskSound
  <2> HIDE DEF u
  <2>6. task'[r][j] = u
    BY <2>1 DEF TypeOK
  <2>7. \A j2 \in Jobs : Sound(j2, store'[j2])
    BY <2>1, <2>2, SaveJobSound
  <2> QED BY <1>o, <2>5, <2>6, <2>7, OutputInvLocal
<1>7. CASE UpdateProgress(r, j)
  <2> DEFINE step == Pipeline(j)[t.at]
             job  == [t.job EXCEPT !.state = step.state, !.progress = step.progress]
             u    == [t EXCEPT !.at = t.at + 1, !.job = job]
  <2>1. task' = [task EXCEPT ![r][j] = u] /\ SaveJob(r, j, job)
    BY <1>7 DEF UpdateProgress
  <2>2. t.pc = "pipeline" /\ step.op = "update" /\ AtStep(r, j, {"update"})
    BY <1>7 DEF UpdateProgress, AtStep
  <2>3. job.state = step.state /\ job.progress = step.progress /\ job.output = t.job.output
    BY <1>t DEF Records
  <2> HIDE DEF job
  <2>4. u.pc = "pipeline" /\ u.at = t.at + 1 /\ u.job = job
    BY <1>t, <2>2 DEF Task
  <2> HIDE DEF u
  <2>5. Produced(j, t.at) => job.output = HasOutput(j)
    BY <1>s, <2>2, <2>3 DEF TaskSound
  <2>6. Produced(j, t.at + 1) => Produced(j, t.at)
    BY <2>2, StepFacts DEF Converters
  <2>7. t.at = Len(Pipeline(j)) => job.state = "completed" /\ job.progress = 100
    BY <2>2, <2>3, StepFacts DEF Update
  <2>8. Sound(j, job)
    BY <2>2, <2>3, <2>5, <2>7, StepFacts DEF Sound
  <2>9. u.at > Len(Pipeline(j)) => t.at = Len(Pipeline(j))
    BY <2>2, <2>4, StepFacts
  <2>10. TaskSound(j, u)
    BY <2>4, <2>5, <2>6, <2>7, <2>8, <2>9 DEF TaskSound
  <2>11. task'[r][j] = u
    BY <2>1 DEF TypeOK
  <2>12. \A j2 \in Jobs : Sound(j2, store'[j2])
    BY <2>1, <2>8, SaveJobSound
  <2> QED BY <1>o, <2>10, <2>11, <2>12, OutputInvLocal
<1>8. CASE ProduceOutput(r, j)
  <2> DEFINE job == [t.job EXCEPT !.output = HasOutput(j)]
             u   == [t EXCEPT !.at = t.at + 1, !.job = job]
  <2>1. task' = [task EXCEPT ![r][j] = u] /\ store' = store
    BY <1>8 DEF ProduceOutput, storeVars
  <2>2. t.pc = "pipeline" /\ AtStep(r, j, Converters) /\ Pipeline(j)[t.at].op \in Converters
    BY <1>8 DEF ProduceOutput, AtStep
  <2>3. /\ job.state = t.job.state /\ job.progress = t.job.progress
        /\ job.output = HasOutput(j)
    BY <1>t DEF Records
  <2> HIDE DEF job
  <2>4. u.pc = "pipeline" /\ u.at = t.at + 1 /\ u.job = job
    BY <1>t, <2>2 DEF Task
  <2> HIDE DEF u
  <2>5. Sound(j, job)
    BY <1>s, <2>3 DEF Sound
  <2>6. Update("completed", 100).op \notin Converters
    BY DEF Update, Converters
  <2>7. t.at \in 1..Len(Pipeline(j)) /\ Len(Pipeline(j)) \in Nat /\ t.at # Len(Pipeline(j))
    BY <2>2, <2>6, StepFacts
  <2>8. ~(u.at > Len(Pipeline(j)))
    BY <2>4, <2>7
  <2>9. TaskSound(j, u)
    BY <2>3, <2>4, <2>5, <2>8 DEF TaskSound
  <2>10. task'[r][j] = u
    BY <2>1 DEF TypeOK
  <2> QED BY <1>o, <1>u, <2>1, <2>9, <2>10, OutputInvLocal
<1>9. CASE TryNextEngine(r, j)
  <2> DEFINE u == [t EXCEPT !.pc = "fallback"]
  <2>1. task' = [task EXCEPT ![r][j] = u] /\ store' = store
    BY <1>9 DEF TryNextEngine, storeVars
  <2>2. u.pc = "fallback" /\ u.job = t.job /\ u.at = t.at
    BY <1>t DEF Task
  <2> HIDE DEF u
  <2>3. t.pc = "pipeline" /\ t.at <= Len(Pipeline(j))
    BY <1>9 DEF TryNextEngine, AtStep
  <2>4. TaskSound(j, u)
    BY <1>s, <2>2, <2>3 DEF TaskSound
  <2>5. task'[r][j] = u
    BY <2>1 DEF TypeOK
  <2> QED BY <1>o, <1>u, <2>1, <2>4, <2>5, OutputInvLocal
<1>10. CASE RetryWithFallback(r, j)
  <2> DEFINE job == [t.job EXCEPT !.state = "rendering", !.progress = 40]
             u   == [t EXCEPT !.pc = "pipeline", !.attempt = t.attempt + 1, !.job = job]
  <2>1. task' = [task EXCEPT ![r][j] = u] /\ SaveJob(r, j, job)
    BY <1>10 DEF RetryWithFallback
  <2>2. t.pc = "fallback"
    BY <1>10 DEF RetryWithFallback
  <2>3. job.state = "rendering" /\ job.output = t.job.output
    BY <1>t DEF Records
  <2> HIDE DEF job
  <2>4. u.pc = "pipeline" /\ u.at = t.at /\ u.job = job
    BY <1>t DEF Task
  <2> HIDE DEF u
  <2>5. Sound(j, job)
    BY <2>3 DEF Sound
  <2>6. t.at <= Len(Pipeline(j)) /\ (Produced(j, t.at) => job.output = HasOutput(j))
    BY <1>s, <2>2, <2>3 DEF TaskSound
  <2>7. Message[j].direction \in Directions => Len(Pipeline(j)) \in Nat
    BY PipelinesWellFormed DEF Pipeline, WellFormed
  <2>8. Message[j].direction \in Directions => ~(u.at > Len(Pipeline(j)))
    BY <1>t, <2>4, <2>6, <2>7
  <2>9. TaskSound(j, u)
    BY <2>4, <2>5, <2>6, <2>8 DEF TaskSound
  <2>10. task'[r][j] = u
    BY <2>1 DEF TypeOK
  <2>11. \A j2 \in Jobs : Sound(j2, store'[j2])
    BY <2>1, <2>5, SaveJobSound
  <2> QED BY <1>o, <2>9, <2>10, <2>11, OutputInvLocal
<1>11. CASE RecordFailure(r, j)
  <2> DEFINE job == [t.job EXCEPT !.state = "failed"]
             u   == [t EXCEPT !.pc = "nacking", !.job = job]
  <2>1. task' = [task EXCEPT ![r][j] = u] /\ SaveJob(r, j, job)
    BY <1>11 DEF RecordFailure
  <2>2. job.state = "failed"
    BY <1>t DEF Records
  <2> HIDE DEF job
  <2>3. u.pc = "nacking" /\ u.job = job
    BY <1>t DEF Task
  <2> HIDE DEF u
  <2>4. Sound(j, job)
    BY <2>2 DEF Sound
  <2>5. TaskSound(j, u)
    BY <2>3, <2>4, SoundOutsidePipeline
  <2>6. task'[r][j] = u
    BY <2>1 DEF TypeOK
  <2>7. \A j2 \in Jobs : Sound(j2, store'[j2])
    BY <2>1, <2>4, SaveJobSound
  <2> QED BY <1>o, <2>5, <2>6, <2>7, OutputInvLocal
<1>12. CASE RecordCompletion(r, j)
  <2> DEFINE job == [t.job EXCEPT !.state = "completed"]
             u   == [t EXCEPT !.pc = "acking", !.job = job]
  <2>1. task' = [task EXCEPT ![r][j] = u] /\ SaveJob(r, j, job)
    BY <1>12 DEF RecordCompletion
  <2>2. t.job.state = "completed"
    BY <1>12, <1>s DEF RecordCompletion, TaskSound
  <2>3. job.output = t.job.output /\ job.progress = t.job.progress
    BY <1>t DEF Records
  <2> HIDE DEF job
  <2>4. u.pc = "acking" /\ u.job = job
    BY <1>t DEF Task
  <2> HIDE DEF u
  <2>5. Sound(j, job)
    BY <1>s, <2>2, <2>3 DEF Sound
  <2>6. TaskSound(j, u)
    BY <2>4, <2>5, SoundOutsidePipeline
  <2>7. task'[r][j] = u
    BY <2>1 DEF TypeOK
  <2>8. \A j2 \in Jobs : Sound(j2, store'[j2])
    BY <2>1, <2>5, SaveJobSound
  <2> QED BY <1>o, <2>6, <2>7, <2>8, OutputInvLocal
<1> QED BY <1>1, <1>2, <1>3, <1>4, <1>5, <1>6, <1>7, <1>8,
           <1>9, <1>10, <1>11, <1>12 DEF ProcessJob

\* Every other step leaves the store alone and can only take a delivery, start
\* its goroutine, or lose the goroutines of a process.
LEMMA OutputInvNext ==
  ASSUME TypeOK, OutputInv, [Next]_vars
  PROVE  OutputInv'
<1>1. ASSUME store' = store, task' = task PROVE OutputInv'
  BY <1>1 DEF OutputInv, TaskSound, Sound, Produced, HasOutput, Pipeline
<1>2. ASSUME NEW r \in Replicas, NEW j \in Jobs, Receive(r, j) PROVE OutputInv'
  <2>1. /\ task'[r][j] = [Idle EXCEPT !.pc = "received"] /\ store' = store
        /\ \A r2 \in Replicas, j2 \in Jobs : r2 # r \/ j2 # j => task'[r2][j2] = task[r2][j2]
    BY <1>2 DEF Receive, storeVars, TypeOK
  <2>2. TaskSound(j, [Idle EXCEPT !.pc = "received"])
    BY DEF TaskSound, Sound, Idle, NoRecord
  <2> QED BY <2>1, <2>2, OutputInvLocal DEF OutputInv
<1>3. ASSUME NEW r \in Replicas, NEW j \in Jobs, Spawn(r, j) PROVE OutputInv'
  <2> DEFINE u == [task[r][j] EXCEPT !.pc = "spawned"]
  <2>1. task' = [task EXCEPT ![r][j] = u] /\ store' = store
    BY <1>3 DEF Spawn, storeVars
  <2>2. u.pc = "spawned" /\ u.job = task[r][j].job
    BY DEF TypeOK, Task
  <2> HIDE DEF u
  <2>3. TaskSound(j, u)
    BY <2>2, SoundOutsidePipeline DEF OutputInv, TaskSound
  <2>4. /\ task'[r][j] = u
        /\ \A r2 \in Replicas, j2 \in Jobs : r2 # r \/ j2 # j => task'[r2][j2] = task[r2][j2]
    BY <2>1 DEF TypeOK
  <2> QED BY <2>1, <2>3, <2>4, OutputInvLocal DEF OutputInv
<1>4. ASSUME NEW r \in Replicas, Terminate(r) PROVE OutputInv'
  <2>1. /\ \A j \in Jobs : task'[r][j] = Idle
        /\ \A r2 \in Replicas : r2 # r => task'[r2] = task[r2]
        /\ store' = store
    BY <1>4 DEF Terminate, TypeOK, storeVars
  <2>2. \A r2 \in Replicas, j \in Jobs : TaskSound(j, task'[r2][j])
    BY <2>1, IdleSound DEF OutputInv
  <2> QED BY <2>1, <2>2 DEF OutputInv, TaskSound, Sound, Produced, HasOutput, Pipeline
<1>5. ASSUME NEW j \in Jobs, Publish(j) \/ Expire(j) PROVE OutputInv'
  BY <1>1, <1>5 DEF Publish, Expire, storeVars
<1>6. ASSUME NEW r \in Replicas, NEW j \in Jobs, Deliver(r, j) PROVE OutputInv'
  BY <1>1, <1>6 DEF Deliver, storeVars
<1>7. ASSUME NEW r \in Replicas, ConsumeJobs(r) \/ Disconnect(r) PROVE OutputInv'
  BY <1>1, <1>2, <1>3, <1>7 DEF ConsumeJobs, StopConsuming, ConsumerFails, Disconnect, storeVars
<1>8. ASSUME NEW r \in Replicas, Signal(r) \/ Stop(r) \/ Crash(r) \/ Restart(r)
      PROVE  OutputInv'
  BY <1>1, <1>4, <1>8 DEF Signal, Stop, Shutdown, Exit, Crash, Restart, storeVars
<1>9. CASE UNCHANGED vars
  BY <1>1, <1>9 DEF vars
<1> QED BY <1>5, <1>6, <1>7, <1>8, <1>9, OutputInvProcessJob DEF Next

\* A record that says "completed" has its progress at 100 and the output it was
\* to have, under any faults and however many goroutines still write to it: no
\* pipeline stores "completed" before its conversion, and no writer holds a
\* completed job without the output.
THEOREM CompletedIsSound == Safety => []CompletedHasOutput
<1> DEFINE Inv == TypeOK /\ OutputInv
<1>1. Init => Inv
  BY TypeInit, OutputInvInit
<1>2. Inv /\ [Next]_vars => Inv'
  BY TypeNext, OutputInvNext
<1>3. Inv => CompletedHasOutput
  BY DEF OutputInv, Sound, CompletedHasOutput
<1> QED BY <1>1, <1>2, <1>3, PTL DEF Safety

=============================================================================
