------------------------- MODULE ConversionService --------------------------
(***************************************************************************)
(* The conversion service end to end: the browser client of WebClient, the *)
(* handlers of the API gateway, and the orchestrator with its queue and    *)
(* its store.                                                              *)
(*                                                                         *)
(* The gateway keeps no state of a job: SubmitConversion publishes the     *)
(* message, GetJobStatus and DownloadResult read the record that the       *)
(* orchestrator last saved. So an action of the client that calls the      *)
(* gateway is joined with what the gateway does to the queue or reads in   *)
(* the store, and every other step is one of the client or one of the      *)
(* orchestrator alone.                                                     *)
(***************************************************************************)
EXTENDS Orchestrator

CONSTANTS
  NoJob,          \* null, for the active job and the two URLs
  MaxOverlap,     \* bound on the requests for one job in flight at once
  NetworkFails    \* whether requests may fail

ASSUME NullAssumption == NoJob \notin Jobs
ASSUME PollAssumption == MaxOverlap \in Nat \ {0}
ASSUME NetworkAssumption == NetworkFails \in BOOLEAN

\* SubmitConversion marshals the message itself, after it has validated the
\* direction.
ASSUME GatewayAssumption ==
  \A j \in Jobs : ~Message[j].malformed /\ Message[j].direction \in Directions

VARIABLES submission, jobs, activeJobId, previewUrl, downloadUrl, requests

clientVars  == <<submission, jobs, activeJobId, previewUrl, downloadUrl, requests>>
serviceVars == <<vars, clientVars>>

JobsOf(directions) == {j \in Jobs : Message[j].direction \in directions}

\* The client, and the service it takes the gateway for.
Client == INSTANCE WebClient
  WITH CompileJobs <- JobsOf({"latex_to_pdf"}),
       PdfJobs     <- JobsOf({"latex_to_pdf", "word_to_pdf"}),
       EmptyJobs   <- {j \in Jobs : ~HasOutput(j)},
       WorkersDie  <- TRUE,
       phase       <- [j \in Jobs |-> Phase(j)],
       retried     <- {j \in Jobs : redelivered[j]},
       status      <- [j \in Jobs |-> Status(j)]

ServiceInit == Init /\ Client!Init

-----------------------------------------------------------------------------
(* The gateway *)

\* SubmitConversion publishes the job: the client's request is accepted.
Submit(j) ==
  /\ Publish(j)
  /\ submission[j] = "posting"
  /\ submission' = [submission EXCEPT ![j] = "accepted"]
  /\ UNCHANGED <<jobs, activeJobId, previewUrl, downloadUrl, requests>>

\* GetJobStatus answers with the status of the record.
GetStatus(j, k) == UNCHANGED vars /\ Client!GetJobStatus(j, k)

\* DownloadResult sends the output of the record, if it says "completed" and has
\* one, and otherwise an error, which the client ignores.
Download(j, k) ==
  /\ requests[j][k].stage = "download"
  /\ IF store[j].state = "completed" /\ store[j].output
       THEN Client!MoveTo(j, k, "show")
       ELSE Client!EndRequest(j, k)
  /\ UNCHANGED <<vars, submission, jobs, activeJobId, previewUrl, downloadUrl>>

-----------------------------------------------------------------------------
(* Specification *)

\* Callbacks of the browser, without the gateway.
Browse(j) ==
  /\ UNCHANGED vars
  /\ Client!Post(j) \/ Client!SubmissionFails(j) \/ Client!OnSuccess(j)
       \/ Client!SetActiveJob(j)

Handle(j, k) == UNCHANGED vars /\ Client!Handle(j, k)

RequestFails(j, k) == UNCHANGED vars /\ Client!RequestFails(j, k)

Poll == UNCHANGED vars /\ Client!Poll

\* The queue, the workers and the processes go on by themselves.
Work ==
  /\ \/ \E j \in Jobs : Expire(j)
     \/ \E r \in Replicas, j \in Jobs : Deliver(r, j) \/ ProcessJob(r, j)
     \/ \E r \in Replicas : ConsumeJobs(r) \/ Disconnect(r)
     \/ \E r \in Replicas : Signal(r) \/ Stop(r) \/ Crash(r) \/ Restart(r)
  /\ UNCHANGED clientVars

ServiceNext ==
  \/ \E j \in Jobs : Submit(j) \/ Browse(j)
  \/ \E j \in Jobs, k \in Client!Slots :
       GetStatus(j, k) \/ Download(j, k) \/ Handle(j, k) \/ RequestFails(j, k)
  \/ Poll
  \/ Work

\* The fairness of the orchestrator and of the client: the timer ticks, callbacks
\* run, every request is answered or fails, the status requests for a job do not
\* fail for ever.
ServiceFairness ==
  /\ Fairness
  /\ WF_serviceVars(Poll)
  /\ \A j \in Jobs :
       /\ WF_serviceVars(Submit(j))
       /\ WF_serviceVars(UNCHANGED vars /\ Client!OnSuccess(j))
       /\ SF_serviceVars(\E k \in Client!Slots : GetStatus(j, k))
       /\ SF_serviceVars(\E k \in Client!Slots : UNCHANGED vars /\ Client!UpdateJob(j, k))
  /\ \A j \in Jobs, k \in Client!Slots :
       /\ WF_serviceVars(GetStatus(j, k) \/ Download(j, k))
       /\ WF_serviceVars(Handle(j, k))

ServiceSafety == ServiceInit /\ [][ServiceNext]_serviceVars
ServiceSpec == ServiceSafety /\ ServiceFairness

-----------------------------------------------------------------------------
(* Properties *)

\* The client is well typed on top of this service: whatever the orchestrator
\* saves, the gateway answers with a status the client knows.
ServiceTypeOK == TypeOK /\ Client!TypeOK

\* Whatever goes wrong (crashes, shutdowns, lost connections, lost saves, expiry,
\* lost requests, late answers), what the browser shows of a job that was
\* delivered at most once is what the orchestrator has on record: an outcome is
\* the outcome, and a PDF in the preview or a file to download is the output of a
\* completed record that has one.
ShownIsRecorded ==
  \A j \in Jobs : ~redelivered[j] =>
    /\ jobs[j] \in TerminalStates => store[j].state = jobs[j]
    /\ j \in {previewUrl, downloadUrl} =>
         store[j].state = "completed" /\ store[j].progress = 100 /\ store[j].output

\* What is shown goes back only if the message was redelivered, as long as no two
\* requests for a job overlap.
ShownAdvances ==
  [][\A j \in Jobs :
       redelivered'[j] \/ Client!Rank(jobs'[j]) >= Client!Rank(jobs[j])]_serviceVars

\* Once its message is settled for good, the browser ends up showing the record of
\* a job that has one, although late answers overwrite newer ones and a job shown
\* as finished is no longer asked for.
ShownConverges ==
  \A j \in Jobs :
    [](/\ Client!Listed(j)
       /\ msg[j] \in Settled /\ ~redelivered[j] /\ store[j] # NoRecord
       => <>[](jobs[j] = Status(j)))

\* Whoever submits a job sees it completed or failed in the end, unless its
\* message expired or was redelivered, a save of it was lost, or no replica
\* consumes any more.
OutcomeIsSeen ==
  \A j \in Jobs :
    Client!Listed(j) ~>
      \/ jobs[j] \in TerminalStates
      \/ msg[j] = "expired" \/ redelivered[j] \/ j \in unsaved
      \/ \A r \in Replicas : Zombie(r)

\* When processes may only crash, the orchestrator behind the gateway is the
\* service the client was written for.
ImplementsClient == Client!Safety
=============================================================================
