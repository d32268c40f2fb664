---------------------------- MODULE Orchestrator ----------------------------
(***************************************************************************)
(* The orchestrator: replicas that consume conversion jobs from the        *)
(* RabbitMQ queue wordtex.jobs.conversion, run each job's pipeline in a    *)
(* worker goroutine, and save the job after every step to Redis, where the *)
(* API gateway reads it.                                                   *)
(*                                                                         *)
(* Every replica has one AMQP channel with manual acknowledgement and a    *)
(* prefetch of WorkerConcurrency, a consumer loop (ConsumeJobs) that       *)
(* starts one goroutine per delivery (processJob), a semaphore of          *)
(* WorkerConcurrency worker slots, and a context that is cancelled by a    *)
(* shutdown signal or by the end of the consumer loop.                     *)
(*                                                                         *)
(* The broker and Redis are external: the broker redelivers what a closed  *)
(* channel had not acknowledged, drops what is rejected (the dead-letter   *)
(* exchange the queue names is declared nowhere) or has expired, and Redis *)
(* overwrites.                                                             *)
(***************************************************************************)
EXTENDS Naturals, FiniteSets, Sequences, ConversionPipelines

CONSTANTS
  Replicas,           \* orchestrator processes sharing the queue
  Jobs,               \* job identifiers; each is published at most once
  Message,            \* Message[j]: what the published message of j says
  WorkerConcurrency,  \* worker slots of a replica, and its prefetch count
  FaultKinds,         \* the kinds of fault that may happen
  MaxFaults           \* bound on the number of faults

AllFaults == {"crash", "signal", "disconnect", "savefail", "expiry"}

ASSUME JobsAssumption == IsFiniteSet(Jobs)
ASSUME MessageAssumption == Message \in [Jobs -> ConversionJob]
ASSUME ConcurrencyAssumption == WorkerConcurrency \in Nat \ {0}
ASSUME FaultsAssumption == FaultKinds \subseteq AllFaults /\ MaxFaults \in Nat

VARIABLES
  msg,          \* msg[j]: where the message of job j is
  redelivered,  \* redelivered[j]: the broker's redelivered flag
  unacked,      \* unacked[r]: delivered on r's channel, not yet settled
  inbox,        \* inbox[r]: deliveries the consumer loop has not received
  chan,         \* chan[r]: the AMQP channel, as the broker sees it
  proc,         \* proc[r]: the life of the process
  cancelled,    \* cancelled[r]: the context of main is cancelled
  loop,         \* loop[r]: where the ConsumeJobs loop is
  task,         \* task[r][j]: r's goroutine for job j
  store,        \* store[j]: the record of job j in Redis
  unsaved,      \* the jobs whose latest SaveJob returned an (ignored) error
  faults        \* number of faults so far

brokerVars == <<msg, redelivered, unacked, inbox, chan>>
procVars   == <<proc, cancelled, loop>>
storeVars  == <<store, unsaved>>
vars       == <<msg, redelivered, unacked, inbox, chan, proc, cancelled, loop,
                task, store, unsaved, faults>>

-----------------------------------------------------------------------------
(* Values *)

\* The fields of Job the properties tell apart. output: OutputData is not empty.
Records == [state    : JobStates \union {"none"},
            progress : 0..100,
            output   : BOOLEAN]

NoRecord == [state |-> "none", progress |-> 0, output |-> FALSE]

\* The Job processJob makes of a message.
NewJob == [state |-> "queued", progress |-> 0, output |-> FALSE]

\* Where a worker goroutine is: waiting for a slot, about to start, inside
\* executePipeline, about to retry with another engine, about to save the
\* failure, about to Nack, about to Ack, or settled and about to free its slot.
Pcs == {"none", "received", "spawned", "pipeline", "fallback", "failing",
        "nacking", "acking", "settled"}

Task == [pc : Pcs, at : Nat \ {0}, attempt : Nat \ {0}, job : Records]

Idle == [pc |-> "none", at |-> 1, attempt |-> 1, job |-> NoRecord]

Settled == {"acked", "rejected", "expired"}

TypeOK ==
  /\ msg \in [Jobs -> {"unpublished", "ready", "unacked"} \union Settled]
  /\ redelivered \in [Jobs -> BOOLEAN]
  /\ unacked \in [Replicas -> SUBSET Jobs]
  /\ inbox \in [Replicas -> SUBSET Jobs]
  /\ chan \in [Replicas -> {"open", "closed"}]
  /\ proc \in [Replicas -> {"up", "stopping", "closed", "down"}]
  /\ cancelled \in [Replicas -> BOOLEAN]
  /\ loop \in [Replicas -> {"select", "blocked", "returned"}]
  /\ task \in [Replicas -> [Jobs -> Task]]
  /\ store \in [Jobs -> Records]
  /\ unsaved \in SUBSET Jobs
  /\ faults \in 0..MaxFaults

\* NewOrchestrator and ConsumeJobs have run: the consumer is registered.
Init ==
  /\ msg = [j \in Jobs |-> "unpublished"]
  /\ redelivered = [j \in Jobs |-> FALSE]
  /\ unacked = [r \in Replicas |-> {}]
  /\ inbox = [r \in Replicas |-> {}]
  /\ chan = [r \in Replicas |-> "open"]
  /\ proc = [r \in Replicas |-> "up"]
  /\ cancelled = [r \in Replicas |-> FALSE]
  /\ loop = [r \in Replicas |-> "select"]
  /\ task = [r \in Replicas |-> [j \in Jobs |-> Idle]]
  /\ store = [j \in Jobs |-> NoRecord]
  /\ unsaved = {}
  /\ faults = 0

-----------------------------------------------------------------------------
(* The broker (external), and the faults *)

\* One more fault of a kind; the budget MaxFaults bounds them all.
Fault(kind) ==
  /\ kind \in FaultKinds
  /\ faults < MaxFaults
  /\ faults' = faults + 1

\* The gateway publishes the message of j.
Publish(j) ==
  /\ msg[j] = "unpublished"
  /\ msg' = [msg EXCEPT ![j] = "ready"]
  /\ UNCHANGED <<redelivered, unacked, inbox, chan, procVars, task, storeVars, faults>>

\* Bug: ask for one delivery more than there are slots, to have it at hand.
BugPrefetch == WorkerConcurrency + 1

\* The prefetch count NewOrchestrator asks for.
Prefetch == WorkerConcurrency

\* The broker delivers on an open channel up to the prefetch count.
Deliver(r, j) ==
  /\ msg[j] = "ready"
  /\ chan[r] = "open"
  /\ Cardinality(unacked[r]) < Prefetch
  /\ msg' = [msg EXCEPT ![j] = "unacked"]
  /\ unacked' = [unacked EXCEPT ![r] = @ \union {j}]
  /\ inbox' = [inbox EXCEPT ![r] = @ \union {j}]
  /\ UNCHANGED <<redelivered, chan, procVars, task, storeVars, faults>>

\* A message waits longer than x-message-ttl; nothing is bound to the DLX.
Expire(j) ==
  /\ msg[j] = "ready"
  /\ Fault("expiry")
  /\ msg' = [msg EXCEPT ![j] = "expired"]
  /\ UNCHANGED <<redelivered, unacked, inbox, chan, procVars, task, storeVars>>

\* A channel closes: what it had not acknowledged becomes ready again.
Requeue(r) ==
  /\ msg' = [j \in Jobs |-> IF j \in unacked[r] THEN "ready" ELSE msg[j]]
  /\ redelivered' = [j \in Jobs |-> j \in unacked[r] \/ redelivered[j]]
  /\ unacked' = [unacked EXCEPT ![r] = {}]
  /\ chan' = [chan EXCEPT ![r] = "closed"]

\* The broker loses the connection of r. The process does not know yet.
Disconnect(r) ==
  /\ chan[r] = "open"
  /\ Fault("disconnect")
  /\ Requeue(r)
  /\ UNCHANGED <<inbox, procVars, task, storeVars>>

\* Ack or Nack without requeue. On a closed channel it is an ignored error.
Settle(r, j, verdict) ==
  IF j \in unacked[r]
    THEN /\ msg' = [msg EXCEPT ![j] = verdict]
         /\ unacked' = [unacked EXCEPT ![r] = @ \ {j}]
    ELSE UNCHANGED <<msg, unacked>>

-----------------------------------------------------------------------------
(* The consumer loop, ConsumeJobs *)

\* The goroutines that hold a worker slot of r.
Working(r) == {j \in Jobs : task[r][j].pc \notin {"none", "received"}}

\* The select takes a delivery; the loop then waits for a worker slot.
Receive(r, j) ==
  /\ loop[r] = "select"
  /\ j \in inbox[r]
  /\ inbox' = [inbox EXCEPT ![r] = @ \ {j}]
  /\ loop' = [loop EXCEPT ![r] = "blocked"]
  /\ task' = [task EXCEPT ![r][j] = [Idle EXCEPT !.pc = "received"]]
  /\ UNCHANGED <<msg, redelivered, unacked, chan, proc, cancelled, storeVars, faults>>

\* A slot is free: the goroutine starts and the loop selects again.
Spawn(r, j) ==
  /\ task[r][j].pc = "received"
  /\ Cardinality(Working(r)) < WorkerConcurrency
  /\ loop' = [loop EXCEPT ![r] = "select"]
  /\ task' = [task EXCEPT ![r][j].pc = "spawned"]
  /\ UNCHANGED <<brokerVars, proc, cancelled, storeVars, faults>>

\* The select takes ctx.Done().
StopConsuming(r) ==
  /\ loop[r] = "select"
  /\ cancelled[r]
  /\ loop' = [loop EXCEPT ![r] = "returned"]
  /\ UNCHANGED <<brokerVars, proc, cancelled, task, storeVars, faults>>

\* The select sees the delivery channel closed; main cancels the context
\* and goes on waiting for a signal. Unread deliveries are dropped.
ConsumerFails(r) ==
  /\ loop[r] = "select"
  /\ chan[r] = "closed"
  /\ loop' = [loop EXCEPT ![r] = "returned"]
  /\ cancelled' = [cancelled EXCEPT ![r] = TRUE]
  /\ inbox' = [inbox EXCEPT ![r] = {}]
  /\ UNCHANGED <<msg, redelivered, unacked, chan, proc, task, storeVars, faults>>

-----------------------------------------------------------------------------
(* A worker goroutine, processJob *)

\* SET the whole record. It fails when the context is cancelled or Redis
\* does not answer, and no caller looks at the error.
SaveJob(r, j, record) ==
  \/ /\ ~cancelled[r]
     /\ store' = [store EXCEPT ![j] = record]
     /\ unsaved' = unsaved \ {j}
     /\ UNCHANGED faults
  \/ /\ IF cancelled[r] THEN UNCHANGED faults ELSE Fault("savefail")
     /\ unsaved' = unsaved \union {j}
     /\ UNCHANGED store

\* Bug: a malformed message is acknowledged to get rid of it.
BugRejectMalformed(r, j) ==
  /\ task[r][j].pc = "spawned"
  /\ Message[j].malformed
  /\ Settle(r, j, "acked")
  /\ task' = [task EXCEPT ![r][j].pc = "settled"]
  /\ UNCHANGED <<redelivered, inbox, chan, procVars, storeVars, faults>>

\* A message that does not unmarshal is rejected and leaves no record.
RejectMalformed(r, j) ==
  /\ task[r][j].pc = "spawned"
  /\ Message[j].malformed
  /\ Settle(r, j, "rejected")
  /\ task' = [task EXCEPT ![r][j].pc = "settled"]
  /\ UNCHANGED <<redelivered, inbox, chan, procVars, storeVars, faults>>

\* Bug: the message is acknowledged when the work starts.
BugStartJob(r, j) ==
  /\ task[r][j].pc = "spawned"
  /\ ~Message[j].malformed
  /\ task' = [task EXCEPT ![r][j] =
                [pc |-> "pipeline", at |-> 1, attempt |-> 1, job |-> NewJob]]
  /\ SaveJob(r, j, NewJob)
  /\ Settle(r, j, "acked")
  /\ UNCHANGED <<redelivered, inbox, chan, procVars>>

\* A fresh Job in StateQueued, saved over whatever the store has.
StartJob(r, j) ==
  /\ task[r][j].pc = "spawned"
  /\ ~Message[j].malformed
  /\ task' = [task EXCEPT ![r][j] =
                [pc |-> "pipeline", at |-> 1, attempt |-> 1, job |-> NewJob]]
  /\ SaveJob(r, j, NewJob)
  /\ UNCHANGED <<brokerVars, procVars>>

Pipeline(j) == ExecutePipeline(Message[j].direction)

\* The goroutine is inside executePipeline, before a step of kind op.
AtStep(r, j, ops) ==
  /\ task[r][j].pc = "pipeline"
  /\ task[r][j].at <= Len(Pipeline(j))
  /\ Pipeline(j)[task[r][j].at].op \in ops

\* updateProgress: store the state and the progress of the step.
UpdateProgress(r, j) ==
  LET step == Pipeline(j)[task[r][j].at]
      job  == [task[r][j].job EXCEPT !.state = step.state,
                                     !.progress = step.progress] IN
  /\ AtStep(r, j, {"update"})
  /\ task' = [task EXCEPT ![r][j].at = @ + 1, ![r][j].job = job]
  /\ SaveJob(r, j, job)
  /\ UNCHANGED <<brokerVars, procVars>>

\* Can this attempt produce the output? An engine is killed with the context
\* and only a known one is run; pandoc falls back to the built-in converter,
\* which does not look at the context; the stubs always succeed.
CanProduce(r, j) ==
  task[r][j].at <= Len(Pipeline(j)) /\ Pipeline(j)[task[r][j].at].op = "latex" =>
    /\ ~cancelled[r]
    /\ EngineOrder(Message[j])[task[r][j].attempt] \in Engines

\* The output of a job: round_trip echoes its source, which may be empty; the
\* engines and the converters never return an empty file without an error.
HasOutput(j) ==
  Message[j].direction = "round_trip" => ~Message[j].emptySource

\* Bug: the fallback loop declares a pdfData of its own, which is lost.
BugProduceOutput(r, j) ==
  LET job == [task[r][j].job EXCEPT
                !.output = HasOutput(j) /\ task[r][j].attempt = 1] IN
  /\ AtStep(r, j, Converters)
  /\ CanProduce(r, j)
  /\ task' = [task EXCEPT ![r][j].at = @ + 1, ![r][j].job = job]
  /\ UNCHANGED <<brokerVars, procVars, storeVars, faults>>

\* The conversion succeeds: OutputFilename and OutputData are set.
ProduceOutput(r, j) ==
  LET job == [task[r][j].job EXCEPT !.output = HasOutput(j)] IN
  /\ AtStep(r, j, Converters)
  /\ CanProduce(r, j)
  /\ task' = [task EXCEPT ![r][j].at = @ + 1, ![r][j].job = job]
  /\ UNCHANGED <<brokerVars, procVars, storeVars, faults>>

\* A compilation fails and there is another engine to try.
TryNextEngine(r, j) ==
  /\ AtStep(r, j, {"latex"})
  /\ task[r][j].attempt < Len(EngineOrder(Message[j]))
  /\ task' = [task EXCEPT ![r][j].pc = "fallback"]
  /\ UNCHANGED <<brokerVars, procVars, storeVars, faults>>

\* Bug: a retry starts the job again from the state it was queued in.
BugRetryWithFallback(r, j) ==
  LET job == [task[r][j].job EXCEPT !.state = "queued", !.progress = 0] IN
  /\ task[r][j].pc = "fallback"
  /\ task' = [task EXCEPT ![r][j].pc = "pipeline",
                          ![r][j].attempt = @ + 1,
                          ![r][j].job = job]
  /\ SaveJob(r, j, job)
  /\ UNCHANGED <<brokerVars, procVars>>

\* "Retrying with ...": back to rendering at 40, then the next engine.
RetryWithFallback(r, j) ==
  LET job == [task[r][j].job EXCEPT !.state = "rendering", !.progress = 40] IN
  /\ task[r][j].pc = "fallback"
  /\ task' = [task EXCEPT ![r][j].pc = "pipeline",
                          ![r][j].attempt = @ + 1,
                          ![r][j].job = job]
  /\ SaveJob(r, j, job)
  /\ UNCHANGED <<brokerVars, procVars>>

\* executePipeline returns an error: the last engine or both docx converters
\* failed, or the direction is not one it knows.
PipelineFails(r, j) ==
  /\ \/ /\ AtStep(r, j, {"latex"})
        /\ task[r][j].attempt = Len(EngineOrder(Message[j]))
     \/ AtStep(r, j, {"pandoc"})
     \/ /\ task[r][j].pc = "pipeline"
        /\ Message[j].direction \notin Directions
  /\ task' = [task EXCEPT ![r][j].pc = "failing"]
  /\ UNCHANGED <<brokerVars, procVars, storeVars, faults>>

\* Bug: the failure is only logged.
BugRecordFailure(r, j) ==
  /\ task[r][j].pc = "failing"
  /\ task' = [task EXCEPT ![r][j].pc = "nacking", ![r][j].job.state = "failed"]
  /\ UNCHANGED <<brokerVars, procVars, storeVars, faults>>

\* processJob records the failure ...
RecordFailure(r, j) ==
  LET job == [task[r][j].job EXCEPT !.state = "failed"] IN
  /\ task[r][j].pc = "failing"
  /\ task' = [task EXCEPT ![r][j].pc = "nacking", ![r][j].job = job]
  /\ SaveJob(r, j, job)
  /\ UNCHANGED <<brokerVars, procVars>>

\* Bug: return without settling the message.
BugNack(r, j) ==
  /\ task[r][j].pc = "nacking"
  /\ task' = [task EXCEPT ![r][j].pc = "settled"]
  /\ UNCHANGED <<brokerVars, procVars, storeVars, faults>>

\* ... and rejects the message without requeueing it.
Nack(r, j) ==
  /\ task[r][j].pc = "nacking"
  /\ Settle(r, j, "rejected")
  /\ task' = [task EXCEPT ![r][j].pc = "settled"]
  /\ UNCHANGED <<redelivered, inbox, chan, procVars, storeVars, faults>>

\* executePipeline returns nil: the completed job is saved once more ...
RecordCompletion(r, j) ==
  LET job == [task[r][j].job EXCEPT !.state = "completed"] IN
  /\ task[r][j].pc = "pipeline"
  /\ Message[j].direction \in Directions
  /\ task[r][j].at > Len(Pipeline(j))
  /\ task' = [task EXCEPT ![r][j].pc = "acking", ![r][j].job = job]
  /\ SaveJob(r, j, job)
  /\ UNCHANGED <<brokerVars, procVars>>

\* ... and acknowledged, whether or not it was saved.
Ack(r, j) ==
  /\ task[r][j].pc = "acking"
  /\ Settle(r, j, "acked")
  /\ task' = [task EXCEPT ![r][j].pc = "settled"]
  /\ UNCHANGED <<redelivered, inbox, chan, procVars, storeVars, faults>>

\* Bug: the slot is freed on the path of success only.
BugReleaseSlot(r, j) ==
  /\ task[r][j].pc = "settled"
  /\ task[r][j].job.state = "completed"
  /\ task' = [task EXCEPT ![r][j] = Idle]
  /\ UNCHANGED <<brokerVars, procVars, storeVars, faults>>

\* The deferred receive from o.workers frees the slot after the settlement.
ReleaseSlot(r, j) ==
  /\ task[r][j].pc = "settled"
  /\ task' = [task EXCEPT ![r][j] = Idle]
  /\ UNCHANGED <<brokerVars, procVars, storeVars, faults>>

-----------------------------------------------------------------------------
(* The process, main *)

\* SIGTERM or SIGINT: main cancels the context ...
Signal(r) ==
  /\ proc[r] = "up"
  /\ Fault("signal")
  /\ proc' = [proc EXCEPT ![r] = "stopping"]
  /\ cancelled' = [cancelled EXCEPT ![r] = TRUE]
  /\ UNCHANGED <<brokerVars, loop, task, storeVars>>

\* ... closes the channel and the connection without waiting for workers ...
Shutdown(r) ==
  /\ proc[r] = "stopping"
  /\ proc' = [proc EXCEPT ![r] = "closed"]
  /\ Requeue(r)
  /\ UNCHANGED <<inbox, cancelled, loop, task, storeVars, faults>>

\* The process is gone, and its goroutines with it.
Terminate(r) ==
  /\ proc' = [proc EXCEPT ![r] = "down"]
  /\ cancelled' = [cancelled EXCEPT ![r] = FALSE]
  /\ loop' = [loop EXCEPT ![r] = "returned"]
  /\ inbox' = [inbox EXCEPT ![r] = {}]
  /\ task' = [task EXCEPT ![r] = [j \in Jobs |-> Idle]]
  /\ Requeue(r)
  /\ UNCHANGED storeVars

\* ... and main returns.
Exit(r) ==
  /\ proc[r] = "closed"
  /\ Terminate(r)
  /\ UNCHANGED faults

Crash(r) ==
  /\ proc[r] # "down"
  /\ Fault("crash")
  /\ Terminate(r)

\* The deployment starts a new process: NewOrchestrator, then ConsumeJobs.
Restart(r) ==
  /\ proc[r] = "down"
  /\ proc' = [proc EXCEPT ![r] = "up"]
  /\ chan' = [chan EXCEPT ![r] = "open"]
  /\ loop' = [loop EXCEPT ![r] = "select"]
  /\ UNCHANGED <<msg, redelivered, unacked, inbox, cancelled, task, storeVars, faults>>

-----------------------------------------------------------------------------
(* Specification *)

ProcessJob(r, j) ==
  \/ RejectMalformed(r, j)
  \/ StartJob(r, j)
  \/ UpdateProgress(r, j)
  \/ ProduceOutput(r, j)
  \/ TryNextEngine(r, j)
  \/ RetryWithFallback(r, j)
  \/ PipelineFails(r, j)
  \/ RecordFailure(r, j)
  \/ Nack(r, j)
  \/ RecordCompletion(r, j)
  \/ Ack(r, j)
  \/ ReleaseSlot(r, j)

ConsumeJobs(r) ==
  \/ \E j \in Jobs : Receive(r, j)
  \/ \E j \in Jobs : Spawn(r, j)
  \/ StopConsuming(r)
  \/ ConsumerFails(r)

\* Steps a running process takes by itself once it was told to stop.
Stop(r) == Shutdown(r) \/ Exit(r)

Next ==
  \/ \E j \in Jobs : Publish(j) \/ Expire(j)
  \/ \E r \in Replicas, j \in Jobs : Deliver(r, j) \/ ProcessJob(r, j)
  \/ \E r \in Replicas : ConsumeJobs(r) \/ Disconnect(r)
  \/ \E r \in Replicas : Signal(r) \/ Stop(r) \/ Crash(r) \/ Restart(r)

\* Goroutines are scheduled, the broker delivers to a registered consumer, main
\* returns after a signal, and the deployment restarts a process that ended.
\* Clients need not publish, and no fault has to happen.
Fairness ==
  /\ \A j \in Jobs : WF_vars(\E r \in Replicas : Deliver(r, j))
  /\ \A r \in Replicas, j \in Jobs : WF_vars(ProcessJob(r, j))
  /\ \A r \in Replicas : WF_vars(ConsumeJobs(r))
  /\ \A r \in Replicas : WF_vars(Stop(r))
  /\ \A r \in Replicas : WF_vars(Restart(r))

Safety == Init /\ [][Next]_vars
Spec == Safety /\ Fairness

-----------------------------------------------------------------------------
(* Properties *)

\* A record that says "completed" is downloadable: progress is 100 and the
\* output is there, whichever goroutine of whichever replica wrote last. Only a
\* round trip of an empty file completes with nothing to download, and the
\* gateway then answers 404.
CompletedHasOutput ==
  \A j \in Jobs : store[j].state = "completed" =>
    store[j].progress = 100 /\ store[j].output = HasOutput(j)

\* While the channel is open, the consumer loop waits for a worker slot only
\* behind a goroutine that has already settled its message: the prefetch and
\* the semaphore agree, so no delivery sits in a replica behind a conversion
\* while another replica is idle.
SlotWaitIsShort ==
  \A r \in Replicas :
    /\ chan[r] = "open"
    /\ loop[r] = "blocked"
    /\ Cardinality(Working(r)) = WorkerConcurrency
    => \E j \in Working(r) : task[r][j].pc = "settled"

\* A record agrees with an outcome: it holds it or, after a lost save, at least
\* holds no other.
Agrees(state, outcome, saved) ==
  IF saved THEN state = outcome ELSE state \notin TerminalStates \ {outcome}

\* What became of a message that was delivered at most once can be read off the
\* store: acknowledged means completed, rejected means failed (or not a job at
\* all), and a message that expired in the queue has left no record, so that its
\* job stays unknown. If the last SaveJob was lost the record may still be that
\* of an earlier step, but never that of the other outcome.
SettledIsRecorded ==
  \A j \in Jobs : ~redelivered[j] =>
    CASE msg[j] = "acked"    -> Agrees(store[j].state, "completed", j \notin unsaved)
      [] msg[j] = "rejected" -> IF Message[j].malformed THEN store[j].state = "none"
                                ELSE Agrees(store[j].state, "failed", j \notin unsaved)
      [] msg[j] = "expired"  -> store[j].state = "none"
      [] OTHER               -> TRUE

\* A PDF job is recorded as failed only after every engine was tried on it.
FailedAfterEveryEngine ==
  \A r \in Replicas, j \in Jobs :
    /\ task[r][j].pc \in {"failing", "nacking"}
    /\ ~Message[j].malformed
    /\ Message[j].direction = "latex_to_pdf"
    => Engines \subseteq {EngineOrder(Message[j])[i] : i \in 1..task[r][j].attempt}

\* A record only moves forward: a terminal state stays, and the progress never
\* decreases.
Advances(old, new) ==
  /\ new.progress >= old.progress
  /\ old.state \in TerminalStates => new.state = old.state

\* Only the redelivery of a message (after a crash, a shutdown or a lost
\* connection) makes a job go back: one delivery moves its record only forward.
OnlyRedeliveryRegresses ==
  [][\A j \in Jobs : redelivered'[j] \/ Advances(store[j], store'[j])]_vars

\* Every delivery's goroutine ends and gives its worker slot back, also under
\* faults.
WorkersReturn ==
  \A r \in Replicas, j \in Jobs :
    task[r][j].pc # "none" ~> task[r][j].pc = "none"

\* A replica whose consumer loop has ended while main waits for a signal: it
\* holds no job, takes none, and is not restarted, because it does not exit.
Zombie(r) == proc[r] = "up" /\ loop[r] = "returned"

\* Whatever happens, a waiting message is settled in the end, unless all the
\* replicas have become zombies.
SettledUnlessAllZombies ==
  \A j \in Jobs :
    msg[j] = "ready" ~> (msg[j] \in Settled \/ \A r \in Replicas : Zombie(r))

\* At least once: when the only faults are crashes, every job that was published
\* is recorded as completed or failed for good, because a message is settled
\* only after the outcome was saved.
EventuallyRecorded ==
  \A j \in Jobs :
    [](msg[j] # "unpublished" => <>[](store[j].state \in TerminalStates))

\* "RunStateMachine periodically checks for timed-out or stuck jobs" and is to
\* transition them to the failed state: a job on record does not stay in a
\* state between queued and completed for ever.
StuckJobsFail ==
  \A j \in Jobs :
    store[j].state # "none" ~> store[j].state \in TerminalStates

-----------------------------------------------------------------------------
(* Refinement *)

\* The abstract phase of a job: a worker has begun it once it has saved it.
Phase(j) ==
  IF msg[j] = "unpublished" THEN "new"
  ELSE IF msg[j] \in Settled THEN "settled"
  ELSE IF \E r \in Replicas :
            task[r][j].pc \in {"pipeline", "fallback", "failing", "nacking", "acking"}
         THEN "working"
  ELSE "waiting"

\* What GetJobStatus answers for a job.
Status(j) ==
  IF store[j] = NoRecord THEN "absent" ELSE MapStateToStatus(store[j].state)

Lifecycle == INSTANCE JobLifecycle
  WITH phase   <- [j \in Jobs |-> Phase(j)],
       retried <- {j \in Jobs : redelivered[j]},
       status  <- [j \in Jobs |-> Status(j)]

\* When processes may only crash, the orchestrator implements the life cycle
\* its clients see through the gateway.
ImplementsLifecycle == Lifecycle!LifecycleSpec
=============================================================================
