-------------------- MODULE OrchestratorRefinement_proofs --------------------
(***************************************************************************)
(* Proof that the orchestrator implements the life cycle of a job that its *)
(* clients see, JobLifecycle, when its processes may crash and nothing     *)
(* else goes wrong: the initial state is one of the life cycle, and every  *)
(* step is one of its steps or leaves what the client sees alone.          *)
(***************************************************************************)
EXTENDS OrchestratorRecords_proofs

\* Processes may crash and be restarted; no other fault happens.
OnlyCrashes == FaultKinds \subseteq {"crash"}

-----------------------------------------------------------------------------
(* The crashes-only world *)

\* A process serves its queue or it is gone: no half-open channel, no stopped
\* loop, no cancelled context.
Serves(r) ==
  /\ proc[r] \in {"up", "down"}
  /\ ~cancelled[r]
  /\ proc[r] = "up" => chan[r] = "open" /\ loop[r] # "returned"
  /\ proc[r] = "down" => loop[r] = "returned"

\* The record says what its writer last made of the job, and a record is there
\* once a job was begun, and for jobs only.
Follows(r, j) == task[r][j].pc \in Writing => store[j].state = task[r][j].job.state

Begun(j) == Message[j].malformed \/ store[j].state = "none" => store[j] = NoRecord

ServeInv == \A r \in Replicas : Serves(r)

StoreInv ==
  /\ \A r \in Replicas, j \in Jobs : Follows(r, j)
  /\ \A j \in Jobs : Begun(j)

LEMMA NoOtherFault ==
  ASSUME OnlyCrashes, NEW kind, Fault(kind)
  PROVE  kind = "crash"
BY DEF OnlyCrashes, Fault

\* The steps that this world does not have.
LEMMA Disabled ==
  ASSUME OnlyCrashes, ServeInv, NEW r \in Replicas
  PROVE  /\ ~StopConsuming(r) /\ ~ConsumerFails(r) /\ ~Disconnect(r)
         /\ ~Signal(r) /\ ~Shutdown(r) /\ ~Exit(r)
         /\ \A j \in Jobs : ~Expire(j)
<1>1. ~Fault("expiry") /\ ~Fault("disconnect") /\ ~Fault("signal")
  BY NoOtherFault
<1>2. Serves(r)
  BY DEF ServeInv
<1> QED BY <1>1, <1>2
        DEF StopConsuming, ConsumerFails, Disconnect, Signal, Shutdown, Exit, Expire, Serves

\* Every save succeeds.
LEMMA SaveSucceeds ==
  ASSUME OnlyCrashes, TypeOK, ServeInv, NEW r \in Replicas, NEW j \in Jobs, NEW record,
         SaveJob(r, j, record)
  PROVE  store'[j] = record /\ \A j2 \in Jobs : j2 # j => store'[j2] = store[j2]
<1>1. ~cancelled[r] /\ ~Fault("savefail")
  BY NoOtherFault DEF ServeInv, Serves
<1> QED BY <1>1 DEF SaveJob, TypeOK

\* Who works on a job holds its message, and nobody else does either.
LEMMA Holds ==
  ASSUME TypeOK, OwnerInv, SlotInv, ServeInv, NEW r \in Replicas, NEW j \in Jobs,
         task[r][j].pc \notin {"none", "settled"}
  PROVE  /\ j \in unacked[r] /\ msg[j] = "unacked" /\ j \notin inbox[r]
         /\ \A r2 \in Replicas : r2 # r =>
              j \notin unacked[r2] /\ task[r2][j].pc \in {"none", "settled"}
<1>1. ASSUME NEW r2 \in Replicas, task[r2][j].pc \notin {"none", "settled"}
      PROVE  j \in unacked[r2] /\ j \notin inbox[r2]
  <2>1. proc[r2] # "down"
    BY <1>1 DEF SlotInv, SlotInvAt, StartsEmpty
  <2>2. chan[r2] = "open"
    BY <2>1 DEF ServeInv, Serves
  <2> QED BY <1>1, <2>2 DEF SlotInv, SlotInvAt, HoldsItsMessages
<1>2. j \in unacked[r] /\ j \notin inbox[r]
  BY <1>1
<1>3. \A r2 \in Replicas : r2 # r => j \notin unacked[r2]
  BY <1>2 DEF OwnerInv
<1> QED BY <1>1, <1>2, <1>3 DEF OwnerInv

LEMMA ServeInvInit == Init => ServeInv
BY DEF Init, ServeInv, Serves

LEMMA ServeInvNext ==
  ASSUME OnlyCrashes, TypeOK, SlotInv, ServeInv, [Next]_vars
  PROVE  ServeInv'
<1>1. ASSUME UNCHANGED <<proc, cancelled, chan, loop>> PROVE ServeInv'
  BY <1>1 DEF ServeInv, Serves
<1>2. ASSUME NEW j \in Jobs, Publish(j) PROVE ServeInv'
  BY <1>1, <1>2 DEF Publish, procVars
<1>3. ASSUME NEW r \in Replicas, NEW j \in Jobs, Deliver(r, j) \/ ProcessJob(r, j)
      PROVE  ServeInv'
  BY <1>1, <1>3, ProcessJobStep DEF Deliver, procVars
<1>4. ASSUME NEW r \in Replicas, NEW j \in Jobs, Receive(r, j) \/ Spawn(r, j)
      PROVE  ServeInv'
  <2>1. /\ UNCHANGED <<proc, cancelled, chan>>
        /\ loop' = [loop EXCEPT ![r] = "blocked"] \/ loop' = [loop EXCEPT ![r] = "select"]
    BY <1>4 DEF Receive, Spawn, brokerVars
  <2>2. proc[r] # "down"
    <3>1. CASE Receive(r, j)
      BY <3>1 DEF Receive, SlotInv, SlotInvAt, StartsEmpty
    <3>2. CASE Spawn(r, j)
      BY <3>2 DEF Spawn, SlotInv, SlotInvAt, StartsEmpty
    <3> QED BY <1>4, <3>1, <3>2
  <2>3. loop'[r] # "returned" /\ \A r2 \in Replicas : r2 # r => loop'[r2] = loop[r2]
    BY <2>1 DEF TypeOK
  <2> QED BY <2>1, <2>2, <2>3 DEF ServeInv, Serves
<1>5. ASSUME NEW r \in Replicas, Crash(r) PROVE ServeInv'
  <2>1. /\ proc'[r] = "down" /\ ~cancelled'[r] /\ loop'[r] = "returned"
        /\ \A r2 \in Replicas : r2 # r =>
             /\ proc'[r2] = proc[r2] /\ cancelled'[r2] = cancelled[r2]
             /\ loop'[r2] = loop[r2] /\ chan'[r2] = chan[r2]
    BY <1>5 DEF Crash, Terminate, Requeue, TypeOK
  <2> QED BY <2>1 DEF ServeInv, Serves
<1>6. ASSUME NEW r \in Replicas, Restart(r) PROVE ServeInv'
  <2>1. /\ proc'[r] = "up" /\ chan'[r] = "open" /\ loop'[r] = "select"
        /\ \A r2 \in Replicas : r2 # r =>
             proc'[r2] = proc[r2] /\ loop'[r2] = loop[r2] /\ chan'[r2] = chan[r2]
        /\ cancelled' = cancelled
    BY <1>6 DEF Restart, TypeOK
  <2> QED BY <2>1 DEF ServeInv, Serves
<1>7. CASE UNCHANGED vars
  BY <1>1, <1>7 DEF vars
<1>8. CASE Replicas = {}
  BY <1>8 DEF ServeInv
<1>9. CASE Replicas # {}
  BY <1>2, <1>3, <1>4, <1>5, <1>6, <1>7, <1>9, Disabled DEF Next, ConsumeJobs, Stop
<1> QED BY <1>8, <1>9

-----------------------------------------------------------------------------
(* What a goroutine does to its job *)

\* One save of an attempt, from state a to state b.
Progresses(a, b) ==
  \/ a \in InterimStates \union {"queued"} /\ b \in InterimStates \union {"failed"}
  \/ a \in InterimStates /\ b = "completed"
  \/ a = "completed" /\ b = "completed"

StepDrops(r, j) ==
  /\ task[r][j].pc = "spawned" /\ task'[r][j].pc = "settled"
  /\ Message[j].malformed
  /\ msg'[j] = "rejected"
  /\ store'[j] = store[j]

StepBegins(r, j) ==
  /\ task[r][j].pc = "spawned" /\ task'[r][j].pc = "pipeline"
  /\ ~Message[j].malformed
  /\ msg'[j] = msg[j]
  /\ task'[r][j].job.state = "queued" /\ store'[j] = task'[r][j].job

StepWorks(r, j) ==
  /\ task[r][j].pc \in Writing /\ task'[r][j].pc \in Writing
  /\ ~Message[j].malformed
  /\ msg'[j] = msg[j]
  /\ \/ task'[r][j].job.state = task[r][j].job.state /\ store'[j] = store[j]
     \/ /\ Progresses(task[r][j].job.state, task'[r][j].job.state)
        /\ store'[j] = task'[r][j].job

StepSettles(r, j) ==
  /\ task[r][j].pc \in Writing /\ task'[r][j].pc = "settled"
  /\ task[r][j].job.state \in {"completed", "failed"}
  /\ msg'[j] \in {"acked", "rejected"}
  /\ store'[j] = store[j]

StepFrees(r, j) ==
  /\ task[r][j].pc = "settled" /\ task'[r][j].pc = "none"
  /\ msg'[j] = msg[j]
  /\ store'[j] = store[j]

LEMMA SeveralSteps ==
  ASSUME NEW p, WellFormed(p)
  PROVE  Len(p) > 1
<1>1. Len(p) \in Nat \ {0}
  BY DEF WellFormed
<1>2. \E i \in 1..Len(p) - 1 : p[i].op \in Converters
  BY DEF WellFormed
<1>3. 1..Len(p) - 1 # {}
  BY <1>2
<1> QED BY <1>1, <1>3

LEMMA GoroutineSteps ==
  ASSUME OnlyCrashes, TypeOK, OwnerInv, SlotInv, ServeInv, TaskInv, OutputInv,
         NEW r \in Replicas, NEW j \in Jobs, ProcessJob(r, j)
  PROVE  StepDrops(r, j) \/ StepBegins(r, j) \/ StepWorks(r, j)
           \/ StepSettles(r, j) \/ StepFrees(r, j)
<1> DEFINE t == task[r][j]
           u == task'[r][j]
           p == Pipeline(j)
<1>p. TaskPlaced(j, t)
  BY DEF TaskInv
<1>t. t \in Task /\ t.at \in Nat \ {0}
  BY DEF TypeOK, Task
<1>s. ASSUME SavesJob(r, j) PROVE store'[j] = u.job
  BY <1>s, SaveSucceeds DEF SavesJob
<1>k. ASSUME UNCHANGED storeVars PROVE store'[j] = store[j]
  BY <1>k DEF storeVars
<1>b. ASSUME UNCHANGED brokerVars PROVE msg'[j] = msg[j]
  BY <1>b DEF brokerVars
<1>v. ASSUME t.pc \notin {"none", "settled"}, NEW verdict, Settle(r, j, verdict)
      PROVE  msg'[j] = verdict
  <2>1. j \in unacked[r]
    BY <1>v, Holds
  <2> QED BY <1>v, <2>1 DEF Settle, TypeOK
<1>1. CASE RejectMalformed(r, j)
  <2>1. t.pc = "spawned" /\ Message[j].malformed /\ Settle(r, j, "rejected")
    BY <1>1 DEF RejectMalformed
  <2>2. u.pc = "settled" /\ UNCHANGED storeVars
    BY <1>1, MovingSteps DEF Goes, KeepsJob
  <2> QED BY <1>k, <1>v, <2>1, <2>2 DEF StepDrops
<1>2. CASE StartJob(r, j)
  <2>1. t.pc = "spawned" /\ ~Message[j].malformed /\ UNCHANGED brokerVars
    BY <1>2 DEF StartJob
  <2>2. u.pc = "pipeline" /\ u.job.state = "queued" /\ SavesJob(r, j)
    BY <1>2, StartJobGoes DEF Goes, JobGets
  <2> QED BY <1>b, <1>s, <2>1, <2>2 DEF StepBegins
<1>3. CASE UpdateProgress(r, j)
  <2>1. t.pc = "pipeline" /\ UNCHANGED brokerVars /\ AtStep(r, j, {"update"})
    BY <1>3 DEF UpdateProgress, AtStep
  <2>2. u.pc = "pipeline" /\ u.job.state = p[t.at].state /\ SavesJob(r, j)
    BY <1>3, UpdateProgressGoes DEF Goes, JobGets
  <2>3. /\ Forward(p) /\ WellFormed(p) /\ Len(p) \in Nat /\ t.at \in 1..Len(p)
        /\ p[t.at].op = "update"
    BY <2>1, StepForward
  <2>4. Progresses(t.job.state, p[t.at].state)
    <3>1. CASE t.at < Len(p)
      <4>1. p[t.at].state \in InterimStates
        BY <2>3, <3>1 DEF Forward
      <4>2. t.job.state \in InterimStates \union {"queued"}
        BY <1>p, <2>1, <2>3 DEF TaskPlaced
      <4> QED BY <4>1, <4>2 DEF Progresses
    <3>2. CASE t.at = Len(p)
      <4>1. p[t.at].state = "completed"
        BY <2>3, <3>2 DEF WellFormed, Update
      <4>2. t.at \in 2..Len(p)
        BY <2>3, <3>2, SeveralSteps
      <4>3. t.job.state \in InterimStates
        BY <1>p, <2>1, <4>2 DEF TaskPlaced
      <4> QED BY <4>1, <4>3 DEF Progresses
    <3> QED BY <2>3, <3>1, <3>2
  <2>5. ~Message[j].malformed
    BY <1>p, <2>1 DEF TaskPlaced, Writing
  <2> QED BY <1>b, <1>s, <2>1, <2>2, <2>4, <2>5 DEF StepWorks, Writing
<1>4. CASE ProduceOutput(r, j)
  <2>1. t.pc = "pipeline" /\ UNCHANGED brokerVars
    BY <1>4 DEF ProduceOutput, AtStep
  <2>2. u.pc = "pipeline" /\ u.job.state = t.job.state /\ UNCHANGED storeVars
    BY <1>4, ProduceOutputGoes DEF Goes, JobGets
  <2>3. ~Message[j].malformed
    BY <1>p, <2>1 DEF TaskPlaced, Writing
  <2> QED BY <1>b, <1>k, <2>1, <2>2, <2>3 DEF StepWorks, Writing
<1>5. CASE TryNextEngine(r, j) \/ PipelineFails(r, j)
  <2>1. t.pc = "pipeline" /\ UNCHANGED brokerVars
    BY <1>5 DEF TryNextEngine, PipelineFails, AtStep
  <2>2. u.pc \in {"fallback", "failing"} /\ u.job = t.job /\ UNCHANGED storeVars
    BY <1>5, MovingSteps DEF Goes, KeepsJob
  <2>3. ~Message[j].malformed
    BY <1>p, <2>1 DEF TaskPlaced, Writing
  <2> QED BY <1>b, <1>k, <2>1, <2>2, <2>3 DEF StepWorks, Writing
<1>6. CASE RetryWithFallback(r, j)
  <2>1. t.pc = "fallback" /\ UNCHANGED brokerVars
    BY <1>6 DEF RetryWithFallback
  <2>2. u.pc = "pipeline" /\ u.job.state = "rendering" /\ SavesJob(r, j)
    BY <1>6, RetryGoes DEF Goes, JobGets
  <2>3. ~Message[j].malformed /\ t.job.state \in InterimStates
    BY <1>p, <2>1 DEF TaskPlaced, Writing
  <2>4. Progresses(t.job.state, "rendering")
    BY <2>3 DEF Progresses, InterimStates
  <2> QED BY <1>b, <1>s, <2>1, <2>2, <2>3, <2>4 DEF StepWorks, Writing
<1>7. CASE RecordFailure(r, j)
  <2>1. t.pc = "failing" /\ UNCHANGED brokerVars
    BY <1>7 DEF RecordFailure
  <2>2. u.pc = "nacking" /\ u.job.state = "failed" /\ SavesJob(r, j)
    BY <1>7, RecordFailureGoes DEF Goes, JobGets
  <2>3. ~Message[j].malformed /\ t.job.state \in InterimStates \union {"queued"}
    BY <1>p, <2>1 DEF TaskPlaced, Writing
  <2> QED BY <1>b, <1>s, <2>1, <2>2, <2>3 DEF StepWorks, Writing, Progresses
<1>8. CASE RecordCompletion(r, j)
  <2>1. /\ t.pc = "pipeline" /\ UNCHANGED brokerVars
        /\ Message[j].direction \in Directions /\ t.at > Len(p)
    BY <1>8 DEF RecordCompletion
  <2>2. u.pc = "acking" /\ u.job.state = "completed" /\ SavesJob(r, j)
    BY <1>8, RecordCompletionGoes DEF Goes, JobGets
  <2>3. t.job.state = "completed"
    BY <2>1 DEF OutputInv, TaskSound
  <2>4. ~Message[j].malformed
    BY <1>p, <2>1 DEF TaskPlaced, Writing
  <2> QED BY <1>b, <1>s, <2>1, <2>2, <2>3, <2>4 DEF StepWorks, Writing, Progresses
<1>9. CASE Nack(r, j) \/ Ack(r, j)
  <2>1. /\ t.pc \in {"nacking", "acking"}
        /\ Settle(r, j, "rejected") \/ Settle(r, j, "acked")
    BY <1>9 DEF Nack, Ack
  <2>2. u.pc = "settled" /\ UNCHANGED storeVars
    BY <1>9, MovingSteps DEF Goes, KeepsJob
  <2>3. t.job.state \in {"completed", "failed"}
    BY <1>p, <2>1 DEF TaskPlaced
  <2>4. msg'[j] \in {"acked", "rejected"}
    BY <1>v, <2>1
  <2> QED BY <1>k, <2>1, <2>2, <2>3, <2>4 DEF StepSettles, Writing
<1>10. CASE ReleaseSlot(r, j)
  <2>1. t.pc = "settled" /\ UNCHANGED brokerVars
    BY <1>10 DEF ReleaseSlot
  <2>2. u.pc = "none" /\ UNCHANGED storeVars
    BY <1>10, ReleaseSlotGoes DEF Idle
  <2> QED BY <1>b, <1>k, <2>1, <2>2 DEF StepFrees
<1> HIDE DEF t, u, p
<1> QED BY <1>1, <1>2, <1>3, <1>4, <1>5, <1>6, <1>7, <1>8, <1>9, <1>10 DEF ProcessJob

LEMMA StoreInvInit == Init => StoreInv
<1> SUFFICES ASSUME Init PROVE StoreInv
  OBVIOUS
<1>1. /\ \A j \in Jobs : store[j] = NoRecord
      /\ \A r \in Replicas, j \in Jobs : task[r][j].pc = "none"
  BY DEF Init, Idle
<1> QED BY <1>1 DEF StoreInv, Follows, Begun, Writing

\* A goroutine's step is of no concern to the other jobs, and while it has
\* something to do it is the only one at work on its own.
LEMMA GoroutineAlone ==
  ASSUME TypeOK, OwnerInv, SlotInv, ServeInv, NEW r \in Replicas, NEW j \in Jobs,
         ProcessJob(r, j)
  PROVE  /\ \A j2 \in Jobs : j2 # j =>
              /\ msg'[j2] = msg[j2] /\ store'[j2] = store[j2]
              /\ \A r2 \in Replicas : task'[r2][j2] = task[r2][j2]
         /\ \A r2 \in Replicas : r2 # r => task'[r2][j] = task[r2][j]
         /\ task[r][j].pc # "settled" =>
              /\ msg[j] = "unacked"
              /\ \A r2 \in Replicas : r2 # r => task[r2][j].pc \notin Writing
         /\ redelivered' = redelivered
<1>1. task[r][j].pc # "settled" =>
        /\ msg[j] = "unacked"
        /\ \A r2 \in Replicas : r2 # r => task[r2][j].pc \notin Writing
  BY Holds, ProcessJobStep DEF Writing
<1> QED BY <1>1, ProcessJobStep, ProcessJobUntouched DEF Untouched

LEMMA StoreInvProcessJob ==
  ASSUME OnlyCrashes, TypeOK, OwnerInv, SlotInv, ServeInv, TaskInv, OutputInv, StoreInv,
         NEW r \in Replicas, NEW j \in Jobs, ProcessJob(r, j)
  PROVE  StoreInv'
<1> DEFINE t == task[r][j]
           u == task'[r][j]
<1>o. /\ \A j2 \in Jobs : j2 # j =>
           /\ store'[j2] = store[j2]
           /\ \A r2 \in Replicas : task'[r2][j2] = task[r2][j2]
      /\ \A r2 \in Replicas : r2 # r => task'[r2][j] = task[r2][j]
      /\ t.pc # "settled" => \A r2 \in Replicas : r2 # r => task[r2][j].pc \notin Writing
  BY GoroutineAlone
<1>1. CASE u.pc \in Writing
  <2>1. /\ t.pc # "settled" /\ ~Message[j].malformed
        /\ \/ u.job.state = t.job.state /\ store'[j] = store[j] /\ t.pc \in Writing
           \/ u.job.state # "none" /\ store'[j] = u.job
    BY <1>1, GoroutineSteps DEF StepDrops, StepBegins, StepWorks, StepSettles, StepFrees,
                                Writing, Progresses, InterimStates
  <2>2. store'[j].state = u.job.state
    BY <2>1 DEF StoreInv, Follows
  <2>3. store'[j].state = "none" => store'[j] = NoRecord
    BY <2>1 DEF StoreInv, Begun
  <2> QED BY <1>o, <2>1, <2>2, <2>3 DEF StoreInv, Follows, Begun
<1>2. CASE u.pc \notin Writing
  <2>1. store'[j] = store[j]
    BY <1>2, GoroutineSteps DEF StepDrops, StepBegins, StepWorks, StepSettles, StepFrees,
                                Writing
  <2> QED BY <1>2, <1>o, <2>1 DEF StoreInv, Follows, Begun
<1> QED BY <1>1, <1>2

LEMMA StoreInvNext ==
  ASSUME OnlyCrashes, TypeOK, OwnerInv, SlotInv, ServeInv, TaskInv, OutputInv, StoreInv,
         [Next]_vars
  PROVE  StoreInv'
<1>1. ASSUME store' = store,
             \A r \in Replicas, j \in Jobs :
               task'[r][j] = task[r][j] \/ task'[r][j].pc \notin Writing
      PROVE  StoreInv'
  BY <1>1 DEF StoreInv, Follows, Begun
<1>2. ASSUME NEW j \in Jobs, Publish(j) \/ Expire(j) PROVE StoreInv'
  BY <1>1, <1>2 DEF Publish, Expire, storeVars
<1>3. ASSUME NEW r \in Replicas, NEW j \in Jobs, Receive(r, j) \/ Spawn(r, j) PROVE StoreInv'
  BY <1>1, <1>3, ConsumerSteps DEF Goes, Writing, storeVars
<1>4. ASSUME NEW r \in Replicas, Crash(r) \/ Exit(r) PROVE StoreInv'
  <2>1. \A j \in Jobs : task'[r][j].pc \notin Writing
    BY <1>4, OtherSteps DEF Idle, Writing
  <2> QED BY <1>1, <1>4, <2>1, OtherSteps DEF storeVars
<1>5. ASSUME NEW r \in Replicas,
             (\E j \in Jobs : Deliver(r, j)) \/ StopConsuming(r) \/ ConsumerFails(r)
               \/ Disconnect(r) \/ Signal(r) \/ Shutdown(r) \/ Restart(r)
      PROVE  StoreInv'
  BY <1>1, <1>5, OtherSteps DEF storeVars
<1>6. CASE UNCHANGED vars
  BY <1>1, <1>6 DEF vars
<1> QED BY <1>2, <1>3, <1>4, <1>5, <1>6, StoreInvProcessJob DEF Next, ConsumeJobs, Stop

-----------------------------------------------------------------------------
(* The steps of the life cycle *)

CrashInv ==
  /\ TypeOK /\ OwnerInv /\ SlotInv /\ TaskInv /\ RecordInv /\ OutputInv
  /\ ServeInv /\ StoreInv

\* Some goroutine works on j.
Worked(j) == \E r \in Replicas : task[r][j].pc \in Writing

\* The client sees no difference in j, nor does the broker count a redelivery.
LooksTheSame(j) ==
  /\ Phase(j)' = Phase(j)
  /\ Status(j)' = Status(j)
  /\ redelivered'[j] <=> redelivered[j]

LEMMA PhaseIs ==
  ASSUME NEW j \in Jobs, TypeOK
  PROVE  /\ Phase(j) = IF msg[j] = "unpublished" THEN "new"
                       ELSE IF msg[j] \in Settled THEN "settled"
                       ELSE IF Worked(j) THEN "working" ELSE "waiting"
         /\ Phase(j)' = IF msg'[j] = "unpublished" THEN "new"
                        ELSE IF msg'[j] \in Settled THEN "settled"
                        ELSE IF Worked(j)' THEN "working" ELSE "waiting"
BY DEF Phase, Worked, Writing

LEMMA StatusIs ==
  ASSUME NEW j \in Jobs
  PROVE  /\ store[j] = NoRecord => Status(j) = "absent"
         /\ store[j].state # "none" => Status(j) = MapStateToStatus(store[j].state)
         /\ store'[j] = store[j] => Status(j)' = Status(j)
         /\ store'[j].state # "none" => Status(j)' = MapStateToStatus(store'[j].state)
BY DEF Status, NoRecord

LEMMA Stutters ==
  ASSUME \A j \in Jobs : LooksTheSame(j)
  PROVE  UNCHANGED Lifecycle!lifecycleVars
BY DEF LooksTheSame, Lifecycle!lifecycleVars

\* A step that concerns one job changes the life cycle in that place only.
LEMMA OneJobMoves ==
  ASSUME NEW j \in Jobs, \A j2 \in Jobs : j2 # j => LooksTheSame(j2),
         redelivered'[j] <=> redelivered[j],
         \/ LooksTheSame(j)
         \/ Phase(j) = "new" /\ Phase(j)' = "waiting" /\ Status(j)' = Status(j)
         \/ /\ Phase(j) = "waiting" /\ Phase(j)' = "working" /\ Status(j)' = "queued"
            /\ redelivered[j] \/ Status(j) = "absent"
         \/ /\ Phase(j) = "working" /\ Phase(j)' = "working"
            /\ \/ Status(j) = "queued" /\ Status(j)' \in {"processing", "failed"}
               \/ Status(j) = "processing" /\ Status(j)' \in {"completed", "failed"}
         \/ /\ Phase(j) = "working" /\ Phase(j)' = "settled"
            /\ Status(j) \in {"completed", "failed"} /\ Status(j)' = Status(j)
         \/ /\ Phase(j) = "waiting" /\ Phase(j)' = "settled"
            /\ Status(j) = "absent" /\ Status(j)' = Status(j)
  PROVE  \/ LooksTheSame(j) /\ UNCHANGED Lifecycle!lifecycleVars
         \/ Phase(j) = "new" /\ Lifecycle!Accept(j)
         \/ /\ Phase(j) # "new"
            /\ Lifecycle!Begin(j) \/ Lifecycle!Advance(j) \/ Lifecycle!Finish(j)
         \/ Phase(j) = "waiting" /\ Phase(j)' = "settled" /\ Lifecycle!Drop(j)
<1> DEFINE phase   == [i \in Jobs |-> Phase(i)]
           status  == [i \in Jobs |-> Status(i)]
           retried == {i \in Jobs : redelivered[i]}
<1>1. phase' = [phase EXCEPT ![j] = Phase(j)']
  BY DEF LooksTheSame
<1>2. status' = [status EXCEPT ![j] = Status(j)']
  BY DEF LooksTheSame
<1>3. retried' = retried
  BY DEF LooksTheSame
<1>4. phase[j] = Phase(j) /\ status[j] = Status(j) /\ (j \in retried <=> redelivered[j])
  OBVIOUS
<1>5. Status(j)' = Status(j) => status' = status
  BY <1>2
<1>6. Phase(j)' = Phase(j) => phase' = phase
  BY <1>1
<1>7. CASE LooksTheSame(j)
  BY <1>7, Stutters
<1>8. CASE Phase(j) = "new" /\ Phase(j)' = "waiting" /\ Status(j)' = Status(j)
  <2>1. Lifecycle!Accept(j)
    BY <1>1, <1>3, <1>4, <1>5, <1>8 DEF Lifecycle!Accept, Lifecycle!Move
  <2> QED BY <1>8, <2>1
<1>9. CASE /\ Phase(j) = "waiting" /\ Phase(j)' = "working" /\ Status(j)' = "queued"
           /\ redelivered[j] \/ Status(j) = "absent"
  <2>1. Lifecycle!Begin(j)
    BY <1>1, <1>2, <1>3, <1>4, <1>9 DEF Lifecycle!Begin, Lifecycle!Move
  <2> QED BY <1>9, <2>1
<1>10. CASE /\ Phase(j) = "working" /\ Phase(j)' = "working"
            /\ \/ Status(j) = "queued" /\ Status(j)' \in {"processing", "failed"}
               \/ Status(j) = "processing" /\ Status(j)' \in {"completed", "failed"}
  <2>1. Status(j)' \in Lifecycle!Successors(Status(j))
    BY <1>10 DEF Lifecycle!Successors
  <2>2. Lifecycle!Advance(j)
    BY <1>2, <1>3, <1>4, <1>6, <1>10, <2>1 DEF Lifecycle!Advance
  <2> QED BY <1>10, <2>2
<1>11. CASE /\ Phase(j) = "working" /\ Phase(j)' = "settled"
            /\ Status(j) \in {"completed", "failed"} /\ Status(j)' = Status(j)
  <2>1. Lifecycle!Finish(j)
    BY <1>1, <1>3, <1>4, <1>5, <1>11 DEF Lifecycle!Finish, Lifecycle!Move
  <2> QED BY <1>11, <2>1
<1>12. CASE /\ Phase(j) = "waiting" /\ Phase(j)' = "settled"
            /\ Status(j) = "absent" /\ Status(j)' = Status(j)
  <2>1. Lifecycle!Drop(j)
    BY <1>1, <1>3, <1>4, <1>5, <1>12 DEF Lifecycle!Drop, Lifecycle!Move
  <2> QED BY <1>12, <2>1
<1> QED BY <1>7, <1>8, <1>9, <1>10, <1>11, <1>12

\* A goroutine's step is what it says in StepDrops to StepFrees.
LEMMA GoroutineImplements ==
  ASSUME OnlyCrashes, CrashInv, NEW r \in Replicas, NEW j \in Jobs, ProcessJob(r, j)
  PROVE  \/ UNCHANGED Lifecycle!lifecycleVars
         \/ Lifecycle!Begin(j) \/ Lifecycle!Advance(j) \/ Lifecycle!Finish(j)
         \/ Message[j].malformed /\ Lifecycle!Drop(j)
<1> DEFINE t == task[r][j]
           u == task'[r][j]
<1> USE DEF CrashInv
<1>o. /\ \A j2 \in Jobs : j2 # j =>
           /\ msg'[j2] = msg[j2] /\ store'[j2] = store[j2]
           /\ \A r2 \in Replicas : task'[r2][j2] = task[r2][j2]
      /\ \A r2 \in Replicas : r2 # r => task'[r2][j] = task[r2][j]
      /\ t.pc # "settled" =>
           msg[j] = "unacked" /\ \A r2 \in Replicas : r2 # r => task[r2][j].pc \notin Writing
      /\ redelivered' = redelivered
  BY GoroutineAlone
<1>1. \A j2 \in Jobs : j2 # j => LooksTheSame(j2)
  <2> SUFFICES ASSUME NEW j2 \in Jobs, j2 # j PROVE LooksTheSame(j2)
    OBVIOUS
  <2>1. Worked(j2)' <=> Worked(j2)
    BY <1>o DEF Worked
  <2> QED BY <1>o, <2>1, PhaseIs, StatusIs DEF LooksTheSame
<1>2. t.pc # "settled" => /\ Worked(j) <=> t.pc \in Writing
                          /\ Worked(j)' <=> u.pc \in Writing
  BY <1>o DEF Worked
<1>f. t.pc \in Writing => store[j].state = t.job.state
  BY DEF StoreInv, Follows
<1>3. CASE StepDrops(r, j)
  <2>1. Phase(j) = "waiting" /\ Phase(j)' = "settled"
    BY <1>2, <1>3, <1>o, PhaseIs DEF StepDrops, Settled, Writing
  <2>2. Status(j) = "absent" /\ Status(j)' = Status(j)
    BY <1>3, StatusIs DEF StepDrops, StoreInv, Begun
  <2> QED BY <1>1, <1>3, <1>o, <2>1, <2>2, OneJobMoves DEF StepDrops
<1>4. CASE StepBegins(r, j)
  <2>1. Phase(j) = "waiting" /\ Phase(j)' = "working"
    BY <1>2, <1>4, <1>o, PhaseIs DEF StepBegins, Settled, Writing
  <2>2. Status(j)' = "queued"
    BY <1>4, StatusIs DEF StepBegins, MapStateToStatus
  <2>3. redelivered[j] \/ Status(j) = "absent"
    BY <1>4, StatusIs DEF StepBegins, RecordInv, FirstDelivery
  <2> QED BY <1>1, <1>o, <2>1, <2>2, <2>3, OneJobMoves
<1>5. CASE StepWorks(r, j)
  <2>1. Phase(j) = "working" /\ Phase(j)' = "working"
    BY <1>2, <1>5, <1>o, PhaseIs DEF StepWorks, Settled, Writing
  <2>2. CASE store'[j] = store[j]
    BY <1>1, <1>o, <2>1, <2>2, StatusIs, Stutters DEF LooksTheSame
  <2>3. CASE Progresses(t.job.state, u.job.state) /\ store'[j] = u.job
    <3>1. Status(j) = MapStateToStatus(t.job.state) /\ Status(j)' = MapStateToStatus(u.job.state)
      BY <1>5, <1>f, <2>3, StatusIs DEF StepWorks, Progresses, InterimStates
    <3>2. \/ Status(j)' = Status(j)
          \/ Status(j) = "queued" /\ Status(j)' \in {"processing", "failed"}
          \/ Status(j) = "processing" /\ Status(j)' \in {"completed", "failed"}
      BY <2>3, <3>1 DEF Progresses, InterimStates, MapStateToStatus
    <3> QED BY <1>1, <1>o, <2>1, <3>2, OneJobMoves DEF LooksTheSame
  <2> QED BY <1>5, <2>2, <2>3 DEF StepWorks
<1>6. CASE StepSettles(r, j)
  <2>1. Phase(j) = "working" /\ Phase(j)' = "settled"
    BY <1>2, <1>6, <1>o, PhaseIs DEF StepSettles, Settled, Writing
  <2>2. Status(j) \in {"completed", "failed"} /\ Status(j)' = Status(j)
    BY <1>6, <1>f, StatusIs DEF StepSettles, MapStateToStatus
  <2> QED BY <1>1, <1>o, <2>1, <2>2, OneJobMoves
<1>7. CASE StepFrees(r, j)
  <2>1. Worked(j)' <=> Worked(j)
    BY <1>7, <1>o DEF StepFrees, Worked, Writing
  <2>2. LooksTheSame(j)
    BY <1>7, <1>o, <2>1, PhaseIs, StatusIs DEF StepFrees, LooksTheSame
  <2> QED BY <1>1, <2>2, Stutters
<1> QED BY <1>3, <1>4, <1>5, <1>6, <1>7, GoroutineSteps

LEMMA PublishImplements ==
  ASSUME CrashInv, NEW j \in Jobs, Publish(j)
  PROVE  Lifecycle!Accept(j)
<1> USE DEF CrashInv
<1>1. /\ msg[j] = "unpublished" /\ msg'[j] = "ready"
      /\ \A j2 \in Jobs : j2 # j => msg'[j2] = msg[j2]
      /\ UNCHANGED <<redelivered, task, store>>
  BY DEF Publish, TypeOK, storeVars
<1>2. ~Worked(j)
  BY <1>1, Holds DEF Worked, Writing
<1>3. \A j2 \in Jobs : Worked(j2)' <=> Worked(j2)
  BY <1>1 DEF Worked
<1>4. \A j2 \in Jobs : j2 # j => LooksTheSame(j2)
  BY <1>1, <1>3, PhaseIs, StatusIs DEF LooksTheSame
<1>5. Phase(j) = "new" /\ Phase(j)' = "waiting" /\ Status(j)' = Status(j)
  BY <1>1, <1>2, <1>3, PhaseIs, StatusIs DEF Settled
<1> QED BY <1>1, <1>4, <1>5, OneJobMoves DEF LooksTheSame

\* A delivery, its way to a goroutine, and a restart change nothing for a client.
LEMMA DeliveryImplements ==
  ASSUME CrashInv, NEW r \in Replicas, NEW j \in Jobs,
         Deliver(r, j) \/ Receive(r, j) \/ Spawn(r, j) \/ Restart(r)
  PROVE  UNCHANGED Lifecycle!lifecycleVars
<1> USE DEF CrashInv
<1>1. UNCHANGED <<redelivered, store>>
  BY DEF Deliver, Receive, Spawn, Restart, storeVars, brokerVars
<1>2. \A j2 \in Jobs : \/ msg'[j2] = msg[j2]
                       \/ msg[j2] = "ready" /\ msg'[j2] = "unacked"
  BY DEF Deliver, Receive, Spawn, Restart, brokerVars, TypeOK
<1>3. \A r2 \in Replicas, j2 \in Jobs : task'[r2][j2].pc \in Writing <=> task[r2][j2].pc \in Writing
  <2>1. CASE Deliver(r, j) \/ Restart(r)
    BY <2>1, OtherSteps
  <2>2. CASE Receive(r, j)
    <3>1. j \in inbox[r]
      BY <2>2 DEF Receive
    <3>2. task[r][j].pc \notin Writing
      BY <3>1, Holds DEF Writing
    <3> QED BY <2>2, <3>2, ConsumerSteps DEF Goes, Writing
  <2>3. CASE Spawn(r, j)
    BY <2>3, ConsumerSteps DEF Spawn, Goes, Writing
  <2> QED BY <2>1, <2>2, <2>3
<1>4. \A j2 \in Jobs : Worked(j2)' <=> Worked(j2)
  BY <1>3 DEF Worked
<1>5. \A j2 \in Jobs : LooksTheSame(j2)
  BY <1>1, <1>2, <1>4, PhaseIs, StatusIs DEF LooksTheSame, Settled
<1> QED BY <1>5, Stutters

\* The jobs a crashed process had not settled wait again, to be retried.
LEMMA CrashImplements ==
  ASSUME CrashInv, NEW r \in Replicas, Crash(r)
  PROVE  \/ UNCHANGED Lifecycle!lifecycleVars
         \/ \E S \in SUBSET Jobs : Lifecycle!Abandon(S)
<1> USE DEF CrashInv
<1>s. PICK S \in SUBSET Jobs : S = unacked[r]
  BY DEF TypeOK
<1> DEFINE phase   == [i \in Jobs |-> Phase(i)]
           status  == [i \in Jobs |-> Status(i)]
           retried == {i \in Jobs : redelivered[i]}
<1>1. /\ \A j \in Jobs : msg'[j] = IF j \in S THEN "ready" ELSE msg[j]
      /\ \A j \in Jobs : redelivered'[j] <=> j \in S \/ redelivered[j]
      /\ store' = store
  BY <1>s DEF Crash, Terminate, Requeue, storeVars
<1>2. /\ \A j \in Jobs : task'[r][j].pc \notin Writing
      /\ \A r2 \in Replicas : r2 # r => task'[r2] = task[r2]
  BY OtherSteps DEF Idle, Writing
<1>3. S \subseteq Jobs /\ \A j \in S : msg[j] = "unacked"
  BY <1>s DEF OwnerInv
<1>4. \A r2 \in Replicas, j \in Jobs :
        task[r2][j].pc \in Writing => j \in unacked[r2] /\ (j \in S <=> r2 = r)
  BY <1>s, Holds DEF Writing
<1>5. ASSUME NEW j \in S PROVE Phase(j) \in {"waiting", "working"} /\ Phase(j)' = "waiting"
  <2>1. ~Worked(j)'
    BY <1>2, <1>3, <1>4, <1>5 DEF Worked
  <2> QED BY <1>1, <1>3, <2>1, PhaseIs DEF Settled
<1>6. ASSUME NEW j \in Jobs, j \notin S PROVE Phase(j)' = Phase(j)
  <2>1. task[r][j].pc \notin Writing
    BY <1>4, <1>6
  <2>2. Worked(j)' <=> Worked(j)
    BY <1>2, <2>1 DEF Worked
  <2> QED BY <1>1, <1>6, <2>2, PhaseIs
<1>7. \A j \in Jobs : Status(j)' = Status(j)
  BY <1>1, StatusIs
<1>8. CASE S = {}
  <2>1. \A j \in Jobs : LooksTheSame(j)
    BY <1>1, <1>6, <1>7, <1>8 DEF LooksTheSame
  <2> QED BY <2>1, Stutters
<1>9. CASE S # {}
  <2>1. phase' = [i \in Jobs |-> IF i \in S THEN "waiting" ELSE phase[i]]
    BY <1>3, <1>5, <1>6
  <2>2. \A j \in S : phase[j] \in {"waiting", "working"}
    BY <1>3, <1>5
  <2>3. retried' = retried \union S
    BY <1>1, <1>3
  <2>4. status' = status
    BY <1>7
  <2>5. Lifecycle!Abandon(S)
    BY <1>9, <2>1, <2>2, <2>3, <2>4 DEF Lifecycle!Abandon
  <2> QED BY <2>5
<1> QED BY <1>8, <1>9

LEMMA InitImplements == Init => Lifecycle!LifecycleInit
<1> SUFFICES ASSUME Init PROVE Lifecycle!LifecycleInit
  OBVIOUS
<1>1. \A j \in Jobs : Phase(j) = "new" /\ Status(j) = "absent" /\ ~redelivered[j]
  BY DEF Init, Phase, Status
<1> QED BY <1>1 DEF Lifecycle!LifecycleInit

LEMMA NextImplements ==
  ASSUME OnlyCrashes, CrashInv, [Next]_vars
  PROVE  [Lifecycle!LifecycleNext]_(Lifecycle!lifecycleVars)
<1>0. ASSUME NEW j \in Jobs,
             Lifecycle!Accept(j) \/ Lifecycle!Begin(j) \/ Lifecycle!Advance(j)
               \/ Lifecycle!Finish(j) \/ Lifecycle!Drop(j)
      PROVE  Lifecycle!LifecycleNext
  BY <1>0 DEF Lifecycle!LifecycleNext, Lifecycle!Attempt
<1>1. CASE UNCHANGED vars
  <2>1. \A j \in Jobs : LooksTheSame(j)
    BY <1>1 DEF vars, LooksTheSame, Phase, Status
  <2> QED BY <2>1, Stutters
<1>2. CASE \E j \in Jobs : Expire(j)
  BY <1>2, NoOtherFault DEF Expire
<1>3. ASSUME NEW r \in Replicas, Restart(r) PROVE UNCHANGED Lifecycle!lifecycleVars
  <2>1. CASE Jobs = {}
    BY <2>1, Stutters
  <2>2. CASE Jobs # {}
    BY <1>3, <2>2, DeliveryImplements
  <2> QED BY <2>1, <2>2
<1>4. ASSUME NEW r \in Replicas, ConsumeJobs(r) \/ Disconnect(r) \/ Signal(r) \/ Stop(r)
      PROVE  UNCHANGED Lifecycle!lifecycleVars
  BY <1>4, Disabled, DeliveryImplements DEF CrashInv, ConsumeJobs, Stop
<1>5. ASSUME NEW j \in Jobs, Publish(j) PROVE Lifecycle!LifecycleNext
  BY <1>0, <1>5, PublishImplements
<1>6. ASSUME NEW r \in Replicas, NEW j \in Jobs, ProcessJob(r, j)
      PROVE  [Lifecycle!LifecycleNext]_(Lifecycle!lifecycleVars)
  BY <1>0, <1>6, GoroutineImplements
<1>7. ASSUME NEW r \in Replicas, Crash(r)
      PROVE  [Lifecycle!LifecycleNext]_(Lifecycle!lifecycleVars)
  BY <1>7, CrashImplements DEF Lifecycle!LifecycleNext
<1> QED BY <1>1, <1>2, <1>3, <1>4, <1>5, <1>6, <1>7, DeliveryImplements DEF Next

\* When the processes may crash, and nothing else goes wrong, the orchestrator
\* implements the life cycle its clients see, up to the fairness of both: the
\* status of a job changes only as the attempts at it do, from absent to queued
\* to processing to an outcome; only a job whose worker died starts over; and a
\* message is settled only when its outcome is on record, or it is not a job.
THEOREM ImplementsSafety ==
  ASSUME OnlyCrashes
  PROVE  Safety => Lifecycle!LifecycleSafety
<1>1. Init => CrashInv
  BY TypeInit, OwnerInvInit, SlotInvInit, TaskInvInit, RecordInvInit, OutputInvInit,
     ServeInvInit, StoreInvInit DEF CrashInv
<1>2. CrashInv /\ [Next]_vars => CrashInv'
  BY TypeNext, OwnerInvNext, SlotInvNext, TaskInvNext, RecordInvNext, OutputInvNext,
     ServeInvNext, StoreInvNext DEF CrashInv
<1>3. CrashInv /\ [Next]_vars => [Lifecycle!LifecycleNext]_(Lifecycle!lifecycleVars)
  BY NextImplements
<1> QED BY <1>1, <1>2, <1>3, InitImplements, PTL DEF Safety, Lifecycle!LifecycleSafety
=============================================================================
