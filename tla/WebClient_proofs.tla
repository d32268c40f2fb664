--------------------------- MODULE WebClient_proofs ---------------------------
(***************************************************************************)
(* Proofs about the web client, for any set of jobs, any number of         *)
(* overlapping requests, with or without failures.                         *)
(*                                                                         *)
(* The invariants are shown to survive the steps of any service that does  *)
(* not take an outcome back, of which the abstract one is an instance; the *)
(* proofs about ConversionService put the orchestrator in its place.       *)
(***************************************************************************)
EXTENDS WebClient, TLAPS

-----------------------------------------------------------------------------
(* Type correctness *)

LEMMA TypeInit == Init => TypeOK
BY OverlapAssumption DEF Init, TypeOK, LifecycleInit, Idle, Request, Statuses, Slots

\* A step of the service keeps its part of the state well typed.
LEMMA ServeType ==
  ASSUME TypeOK, NEW j \in Jobs, Serve(j)
  PROVE  TypeOK'
<1>1. UNCHANGED clientVars
  BY DEF Serve
<1>2. status' \in [Jobs -> Statuses \union {"absent"}]
  <2>1. CASE Begin(j)
    BY <2>1 DEF Begin, TypeOK, Statuses
  <2>2. CASE Advance(j)
    <3>1. Successors(status[j]) \subseteq Statuses
      BY DEF Successors, Statuses
    <3> QED BY <2>2, <3>1 DEF Advance, TypeOK
  <2>3. CASE Finish(j)
    BY <2>3 DEF Finish, TypeOK
  <2> QED BY <2>1, <2>2, <2>3 DEF Serve
<1>3. phase' \in [Jobs -> {"new", "waiting", "working", "settled"}]
  BY DEF Serve, Begin, Advance, Finish, Move, TypeOK
<1>4. retried' \in SUBSET Jobs
  BY DEF Serve, Begin, Advance, Finish, TypeOK
<1> QED
  BY <1>1, <1>2, <1>3, <1>4 DEF TypeOK, clientVars, storeVars

LEMMA WorkerDiesType ==
  ASSUME TypeOK, WorkerDies
  PROVE  TypeOK'
<1>1. PICK S \in SUBSET Jobs : Abandon(S)
  BY DEF WorkerDies
<1>2. UNCHANGED <<clientVars, status>>
  BY <1>1 DEF WorkerDies, Abandon
<1>3. phase' \in [Jobs -> {"new", "waiting", "working", "settled"}]
  BY <1>1 DEF Abandon, TypeOK
<1>4. retried' \in SUBSET Jobs
  BY <1>1 DEF Abandon, TypeOK
<1> QED
  BY <1>2, <1>3, <1>4 DEF TypeOK, clientVars, storeVars

\* Submission, and a click on a listed job.
LEMMA SubmissionType ==
  ASSUME TypeOK, NEW j \in Jobs,
         Post(j) \/ SubmitConversion(j) \/ SubmissionFails(j) \/ OnSuccess(j) \/ SetActiveJob(j)
  PROVE  TypeOK'
<1>1. CASE Post(j)
  BY <1>1 DEF Post, TypeOK, lifecycleVars, storeVars
<1>2. CASE SubmitConversion(j)
  BY <1>2 DEF SubmitConversion, Accept, Move, TypeOK, storeVars
<1>3. CASE SubmissionFails(j)
  BY <1>3 DEF SubmissionFails, TypeOK, lifecycleVars, storeVars
<1>4. CASE OnSuccess(j)
  BY <1>4 DEF OnSuccess, TypeOK, Statuses, lifecycleVars
<1>5. CASE SetActiveJob(j)
  BY <1>5 DEF SetActiveJob, TypeOK, lifecycleVars
<1> QED BY <1>1, <1>2, <1>3, <1>4, <1>5

LEMMA FreeSlotIsSlot ==
  ASSUME NEW j \in Jobs, FreeSlots(j) # {}
  PROVE  FreeSlot(j) \in Slots
BY DEF FreeSlot, FreeSlots

LEMMA PollType ==
  ASSUME TypeOK, Poll
  PROVE  TypeOK'
<1>1. requests' \in [Jobs -> [Slots -> Request]]
  <2> DEFINE new(j) == [stage |-> "status", active |-> j = activeJobId, answer |-> "absent"]
  <2>1. ASSUME NEW j \in Jobs PROVE new(j) \in Request
    BY DEF Request
  <2>2. ASSUME NEW j \in Jobs, j \in Pending
        PROVE  [requests[j] EXCEPT ![FreeSlot(j)] = new(j)] \in [Slots -> Request]
    <3>1. requests[j] \in [Slots -> Request]
      BY DEF TypeOK
    <3>2. new(j) \in Request
      BY <2>1
    <3> HIDE DEF new
    <3> QED BY <3>1, <3>2
  <2>3. requests' = [j \in Jobs |-> IF j \in Pending
                       THEN [requests[j] EXCEPT ![FreeSlot(j)] = new(j)] ELSE requests[j]]
    BY DEF Poll
  <2> HIDE DEF new
  <2> QED BY <2>2, <2>3 DEF TypeOK
<1> QED
  BY <1>1 DEF Poll, TypeOK, lifecycleVars, storeVars

\* What the actions on one request do to the requests.
LEMMA MoveToType ==
  ASSUME TypeOK, NEW j \in Jobs, NEW k \in Slots,
         NEW stage \in {"idle", "status", "update", "download", "show"},
         MoveTo(j, k, stage)
  PROVE  requests' \in [Jobs -> [Slots -> Request]]
<1> DEFINE moved == [requests[j][k] EXCEPT !.stage = stage]
<1>1. requests \in [Jobs -> [Slots -> Request]]
  BY DEF TypeOK
<1>2. moved \in Request
  <2>1. requests[j][k] \in Request
    BY <1>1
  <2> QED BY <2>1 DEF Request
<1>3. requests' = [requests EXCEPT ![j][k] = moved]
  BY DEF MoveTo
<1> HIDE DEF moved
<1> QED BY <1>1, <1>2, <1>3

LEMMA EndRequestType ==
  ASSUME TypeOK, NEW j \in Jobs, NEW k \in Slots, EndRequest(j, k)
  PROVE  requests' \in [Jobs -> [Slots -> Request]]
<1>1. Idle \in Request
  BY DEF Idle, Request
<1> QED BY <1>1 DEF EndRequest, TypeOK

LEMMA RequestType ==
  ASSUME TypeOK, NEW j \in Jobs, NEW k \in Slots,
         Answer(j, k) \/ Handle(j, k) \/ RequestFails(j, k)
  PROVE  TypeOK'
<1>0. requests[j][k] \in Request
  BY DEF TypeOK
<1>1. CASE GetJobStatus(j, k)
  <2> DEFINE answered == [requests[j][k] EXCEPT !.stage = "update", !.answer = status[j]]
  <2>1. answered \in Request
    BY <1>0 DEF TypeOK, Request
  <2>2. requests' = [requests EXCEPT ![j][k] = answered]
    BY <1>1 DEF GetJobStatus
  <2>3. requests' \in [Jobs -> [Slots -> Request]]
    <3> HIDE DEF answered
    <3> QED BY <2>1, <2>2 DEF TypeOK
  <2> QED BY <1>1, <2>3 DEF GetJobStatus, TypeOK, lifecycleVars, storeVars
<1>2. CASE DownloadResult(j, k)
  <2>1. requests' \in [Jobs -> [Slots -> Request]]
    BY <1>2, MoveToType, EndRequestType DEF DownloadResult
  <2> QED BY <1>2, <2>1 DEF DownloadResult, TypeOK, lifecycleVars, storeVars
<1>3. CASE IgnoreNotFound(j, k)
  BY <1>3, EndRequestType DEF IgnoreNotFound, TypeOK, lifecycleVars, storeVars
<1>4. CASE UpdateJob(j, k)
  <2>1. requests' \in [Jobs -> [Slots -> Request]]
    BY <1>4, MoveToType, EndRequestType DEF UpdateJob
  <2>2. requests[j][k].answer \in Statuses
    BY <1>0, <1>4 DEF UpdateJob, Request
  <2>3. jobs' \in [Jobs -> Statuses \union {"unlisted"}]
    BY <1>4, <2>2 DEF UpdateJob, TypeOK
  <2> QED BY <1>4, <2>1, <2>3 DEF UpdateJob, TypeOK, lifecycleVars
<1>5. CASE ShowOutput(j, k)
  <2>1. requests' \in [Jobs -> [Slots -> Request]]
    BY <1>5, EndRequestType DEF ShowOutput
  <2> QED BY <1>5, <2>1 DEF ShowOutput, TypeOK, lifecycleVars
<1>6. CASE RequestFails(j, k)
  <2>1. requests' \in [Jobs -> [Slots -> Request]]
    BY <1>6, EndRequestType DEF RequestFails
  <2> QED BY <1>6, <2>1 DEF RequestFails, TypeOK, lifecycleVars, storeVars
<1> QED BY <1>1, <1>2, <1>3, <1>4, <1>5, <1>6 DEF Answer, Handle

LEMMA TypeNext ==
  ASSUME TypeOK, [Next]_vars
  PROVE  TypeOK'
<1>1. ASSUME NEW j \in Jobs,
             Post(j) \/ SubmitConversion(j) \/ SubmissionFails(j) \/ OnSuccess(j)
               \/ SetActiveJob(j) \/ Serve(j)
      PROVE  TypeOK'
  BY <1>1, SubmissionType, ServeType
<1>2. ASSUME NEW j \in Jobs, NEW k \in Slots,
             Answer(j, k) \/ Handle(j, k) \/ RequestFails(j, k)
      PROVE  TypeOK'
  BY <1>2, RequestType
<1>3. CASE Poll
  BY <1>3, PollType
<1>4. CASE WorkerDies
  BY <1>4, WorkerDiesType
<1>5. CASE UNCHANGED vars
  BY <1>5 DEF vars, lifecycleVars, clientVars, storeVars, TypeOK
<1> QED BY <1>1, <1>2, <1>3, <1>4, <1>5 DEF Next

\* The state of the client and of the service behind it is well typed.
THEOREM ClientTypeCorrect == Safety => []TypeOK
<1>1. Init => TypeOK
  BY TypeInit
<1>2. TypeOK /\ [Next]_vars => TypeOK'
  BY TypeNext
<1> QED BY <1>1, <1>2, PTL DEF Safety

-----------------------------------------------------------------------------
(* What is shown is true                                                   *)
(*                                                                         *)
(* TerminalIsTrue and ShownIsComplete are not inductive: an answer that is *)
(* on its way may be "completed", and be shown only later. The invariant   *)
(* says that such an answer is still right when it arrives, because the    *)
(* outcome of a job no worker has left behind never changes.               *)

RequestSound(j, k) ==
  /\ requests[j][k].stage \in {"update", "download", "show"}
       /\ requests[j][k].answer \in TERMINAL_STATES => status[j] = requests[j][k].answer
  /\ requests[j][k].stage \in {"download", "show"} => requests[j][k].answer = "completed"

JobSound(j) ==
  /\ \A k \in Slots : RequestSound(j, k)
  /\ jobs[j] \in TERMINAL_STATES => jobs[j] = status[j]
  /\ j \in {previewUrl, downloadUrl} => status[j] = "completed"

UrlsSound ==
  /\ previewUrl \in PdfJobs \union {NoJob}
  /\ downloadUrl \notin PdfJobs \union EmptyJobs

\* Only an output that there is can be on its way.
OutputsOnly ==
  \A j \in Jobs, k \in Slots : requests[j][k].stage = "show" => j \notin EmptyJobs

ClientInv ==
  /\ UrlsSound
  /\ \A j \in Jobs : j \in retried \/ JobSound(j)

LEMMA ClientInvInit == Init => ClientInv
<1> SUFFICES ASSUME Init PROVE ClientInv
  OBVIOUS
<1>1. UrlsSound
  BY PdfAssumption, EmptyAssumption, NoJobAssumption DEF Init, UrlsSound
<1>2. ASSUME NEW j \in Jobs PROVE JobSound(j)
  BY NoJobAssumption DEF Init, JobSound, RequestSound, Idle, TERMINAL_STATES
<1> QED BY <1>1, <1>2 DEF ClientInv

\* What the client relies on in a step of the service: jobs are never taken back
\* out of retried, and the outcome of a job that is not in it stays.
OutcomeKept ==
  \A j \in Jobs : j \notin retried' =>
    j \notin retried /\ (status[j] \in TERMINAL_STATES => status'[j] = status[j])

\* A step of the abstract service, or none.
LifecycleStep ==
  \/ \E i \in Jobs : Accept(i) \/ Begin(i) \/ Advance(i) \/ Finish(i)
  \/ \E S \in SUBSET Jobs : Abandon(S)
  \/ UNCHANGED lifecycleVars

LEMMA OutcomeStays ==
  ASSUME TypeOK, LifecycleStep
  PROVE  OutcomeKept
<1> SUFFICES ASSUME NEW j \in Jobs, j \notin retried'
             PROVE  j \notin retried /\ (status[j] \in TERMINAL_STATES => status'[j] = status[j])
  BY DEF OutcomeKept
<1>1. ASSUME NEW i \in Jobs, Accept(i) PROVE retried' = retried /\ status' = status
  BY <1>1 DEF Accept
<1>2. ASSUME NEW i \in Jobs, Begin(i), j \notin retried, status[j] \in TERMINAL_STATES
      PROVE  status'[j] = status[j]
  BY <1>2 DEF Begin, TERMINAL_STATES, TypeOK
<1>3. ASSUME NEW i \in Jobs, Advance(i), status[j] \in TERMINAL_STATES
      PROVE  status'[j] = status[j]
  <2>1. Successors(status[j]) = {}
    BY <1>3 DEF Successors, TERMINAL_STATES
  <2>2. i # j
    BY <1>3, <2>1 DEF Advance
  <2> QED BY <1>3, <2>2 DEF Advance, TypeOK
<1>4. ASSUME NEW i \in Jobs, Begin(i) \/ Advance(i) \/ Finish(i) PROVE retried' = retried
  BY <1>4 DEF Begin, Advance, Finish
<1>5. ASSUME NEW i \in Jobs, Finish(i) PROVE status' = status
  BY <1>5 DEF Finish
<1>6. ASSUME NEW S \in SUBSET Jobs, Abandon(S)
      PROVE  j \notin retried /\ status' = status
  BY <1>6 DEF Abandon
<1>7. CASE UNCHANGED lifecycleVars
  BY <1>7 DEF lifecycleVars
<1> QED BY <1>1, <1>2, <1>3, <1>4, <1>5, <1>6, <1>7 DEF LifecycleStep

\* A step that leaves the store alone keeps a job sound, if it keeps the outcome of
\* the job and every request it changes.
LEMMA ServiceSound ==
  ASSUME TypeOK, ClientInv, UNCHANGED storeVars,
         NEW j \in Jobs, j \notin retried', j \notin retried,
         status[j] \in TERMINAL_STATES => status'[j] = status[j],
         \A k \in Slots : requests'[j][k] = requests[j][k] \/ RequestSound(j, k)'
  PROVE  JobSound(j)'
<1>1. JobSound(j)
  BY DEF ClientInv
<1>2. ASSUME NEW k \in Slots PROVE RequestSound(j, k)'
  BY <1>1 DEF JobSound, RequestSound, TERMINAL_STATES
<1>3. (jobs[j] \in TERMINAL_STATES => jobs[j] = status[j])'
  BY <1>1 DEF JobSound, storeVars, TERMINAL_STATES
<1>4. (j \in {previewUrl, downloadUrl} => status[j] = "completed")'
  BY <1>1 DEF JobSound, storeVars, TERMINAL_STATES
<1> QED BY <1>2, <1>3, <1>4 DEF JobSound

\* Steps that leave the store alone and the requests as they are.
LEMMA QuietSound ==
  ASSUME TypeOK, ClientInv, UNCHANGED <<storeVars, requests>>, OutcomeKept
  PROVE  ClientInv'
<1>1. UrlsSound'
  BY DEF ClientInv, UrlsSound, storeVars
<1>2. ASSUME NEW j \in Jobs, j \notin retried' PROVE JobSound(j)'
  BY <1>2, ServiceSound DEF OutcomeKept
<1> QED BY <1>1, <1>2 DEF ClientInv

\* A step on the requests of one job, on the store, or on both, that keeps the
\* service as it is, has only to keep that job sound.
LEMMA ClientSound ==
  ASSUME ClientInv, UNCHANGED lifecycleVars, NEW j \in Jobs, UrlsSound',
         \A i \in Jobs \ {j} : requests'[i] = requests[i] /\ jobs'[i] = jobs[i],
         previewUrl' \in {previewUrl, NoJob, j},
         downloadUrl' \in {downloadUrl, j},
         JobSound(j) => JobSound(j)'
  PROVE  ClientInv'
<1>1. retried' = retried /\ status' = status
  BY DEF lifecycleVars
<1>2. ASSUME NEW i \in Jobs, i \notin retried PROVE JobSound(i)'
  <2>1. JobSound(i)
    BY <1>2 DEF ClientInv
  <2>2. CASE i = j
    BY <2>1, <2>2
  <2>3. CASE i # j
    BY <1>1, <2>1, <2>3, NoJobAssumption DEF JobSound, RequestSound
  <2> QED BY <2>2, <2>3
<1> QED BY <1>1, <1>2 DEF ClientInv

\* The requests of job j after a step on one of them.
LEMMA RequestStep ==
  ASSUME TypeOK, NEW j \in Jobs, NEW k \in Slots, NEW new \in Request,
         requests' = [requests EXCEPT ![j][k] = new]
  PROVE  /\ \A i \in Jobs \ {j} : requests'[i] = requests[i]
         /\ requests'[j][k] = new
         /\ \A l \in Slots \ {k} : requests'[j][l] = requests[j][l]
BY DEF TypeOK

LEMMA SubmissionSound ==
  ASSUME TypeOK, ClientInv, NEW j \in Jobs,
         Post(j) \/ SubmissionFails(j) \/ OnSuccess(j) \/ SetActiveJob(j)
  PROVE  ClientInv'
<1>1. CASE Post(j) \/ SubmissionFails(j)
  <2>1. OutcomeKept
    BY <1>1, OutcomeStays DEF Post, SubmissionFails, LifecycleStep
  <2> QED BY <1>1, <2>1, QuietSound DEF Post, SubmissionFails
<1>4. CASE OnSuccess(j)
  <2>1. UrlsSound'
    BY <1>4 DEF OnSuccess, ClientInv, UrlsSound
  <2>2. JobSound(j) => JobSound(j)'
    BY <1>4, NoJobAssumption
    DEF OnSuccess, JobSound, RequestSound, TypeOK, TERMINAL_STATES, lifecycleVars
  <2> QED BY <1>4, <2>1, <2>2, ClientSound DEF OnSuccess, TypeOK
<1>5. CASE SetActiveJob(j)
  <2>1. UrlsSound' /\ (JobSound(j) => JobSound(j)')
    BY <1>5 DEF SetActiveJob, ClientInv, UrlsSound, JobSound, RequestSound, lifecycleVars
  <2> QED BY <1>5, <2>1, ClientSound DEF SetActiveJob
<1> QED BY <1>1, <1>4, <1>5

\* A new request has no answer yet.
LEMMA PollSound ==
  ASSUME TypeOK, ClientInv, Poll
  PROVE  ClientInv'
<1>1. UrlsSound'
  BY DEF Poll, ClientInv, UrlsSound, storeVars
<1>2. ASSUME NEW j \in Jobs, j \notin retried' PROVE JobSound(j)'
  <2>1. j \notin retried /\ status' = status
    BY <1>2 DEF Poll, lifecycleVars
  <2>2. ASSUME NEW k \in Slots
        PROVE  requests'[j][k] = requests[j][k] \/ RequestSound(j, k)'
    <3> DEFINE new == [stage |-> "status", active |-> j = activeJobId, answer |-> "absent"]
    <3>1. CASE j \in Pending
      <4>1. requests'[j] = [requests[j] EXCEPT ![FreeSlot(j)] = new]
        BY <3>1 DEF Poll
      <4>2. new.stage = "status"
        OBVIOUS
      <4>3. requests[j] \in [Slots -> Request]
        BY DEF TypeOK
      <4>4. requests'[j][k] = new \/ requests'[j][k] = requests[j][k]
        <5> HIDE DEF new
        <5> QED BY <4>1, <4>3
      <4> HIDE DEF new
      <4> QED BY <4>2, <4>4 DEF RequestSound
    <3>2. CASE j \notin Pending
      BY <3>2 DEF Poll
    <3> QED BY <3>1, <3>2
  <2> QED BY <1>2, <2>1, <2>2, ServiceSound DEF Poll
<1> QED BY <1>1, <1>2 DEF ClientInv

\* What the steps on a request do to it.
LEMMA RequestMoves ==
  ASSUME TypeOK, NEW j \in Jobs, NEW k \in Slots,
         Answer(j, k) \/ Handle(j, k) \/ RequestFails(j, k)
  PROVE  \E new \in Request :
           /\ requests' = [requests EXCEPT ![j][k] = new]
           /\ \/ /\ GetJobStatus(j, k)
                 /\ new.stage = "update" /\ new.answer = status[j]
              \/ /\ DownloadResult(j, k) /\ status[j] = "completed" /\ j \notin EmptyJobs
                 /\ new.stage = "show" /\ new.answer = requests[j][k].answer
              \/ /\ UpdateJob(j, k) /\ requests[j][k].answer = "completed"
                 /\ new.stage = "download" /\ new.answer = requests[j][k].answer
              \/ new = Idle
<1> DEFINE old == requests[j][k]
           answered == [old EXCEPT !.stage = "update", !.answer = status[j]]
           moved(stage) == [old EXCEPT !.stage = stage]
<1>0. old \in Request /\ Idle \in Request
  BY DEF TypeOK, Idle, Request
<1>1. answered \in Request /\ answered.stage = "update" /\ answered.answer = status[j]
  BY <1>0 DEF Request, TypeOK
<1>2. ASSUME NEW stage \in {"show", "download"}
      PROVE  /\ moved(stage) \in Request
             /\ moved(stage).stage = stage /\ moved(stage).answer = old.answer
  BY <1>0, <1>2 DEF Request
<1>3. CASE GetJobStatus(j, k)
  <2>1. requests' = [requests EXCEPT ![j][k] = answered]
    BY <1>3 DEF GetJobStatus
  <2> HIDE DEF answered, moved
  <2> QED BY <1>1, <1>3, <2>1
<1>4. CASE DownloadResult(j, k)
  <2>1. \/ /\ status[j] = "completed" /\ j \notin EmptyJobs
           /\ requests' = [requests EXCEPT ![j][k] = moved("show")]
        \/ requests' = [requests EXCEPT ![j][k] = Idle]
    BY <1>4 DEF DownloadResult, MoveTo, EndRequest
  <2> HIDE DEF answered, moved
  <2> QED BY <1>0, <1>2, <1>4, <2>1
<1>5. CASE UpdateJob(j, k)
  <2>1. \/ /\ old.answer = "completed"
           /\ requests' = [requests EXCEPT ![j][k] = moved("download")]
        \/ requests' = [requests EXCEPT ![j][k] = Idle]
    BY <1>5 DEF UpdateJob, MoveTo, EndRequest
  <2> HIDE DEF answered, moved
  <2> QED BY <1>0, <1>2, <1>5, <2>1
<1>6. CASE IgnoreNotFound(j, k) \/ ShowOutput(j, k) \/ RequestFails(j, k)
  BY <1>0, <1>6 DEF IgnoreNotFound, ShowOutput, RequestFails, EndRequest
<1> QED BY <1>3, <1>4, <1>5, <1>6 DEF Answer, Handle

LEMMA RequestInvariant ==
  ASSUME TypeOK, OutputsOnly, ClientInv, NEW j \in Jobs, NEW k \in Slots,
         Answer(j, k) \/ Handle(j, k) \/ RequestFails(j, k)
  PROVE  ClientInv'
<1> DEFINE old == requests[j][k]
<1>1. UNCHANGED lifecycleVars
  BY DEF Answer, Handle, GetJobStatus, DownloadResult, IgnoreNotFound, UpdateJob,
         ShowOutput, RequestFails
<1>2. PICK new \in Request :
        /\ requests' = [requests EXCEPT ![j][k] = new]
        /\ \/ /\ GetJobStatus(j, k)
              /\ new.stage = "update" /\ new.answer = status[j]
           \/ /\ DownloadResult(j, k) /\ status[j] = "completed" /\ j \notin EmptyJobs
              /\ new.stage = "show" /\ new.answer = old.answer
           \/ /\ UpdateJob(j, k) /\ old.answer = "completed"
              /\ new.stage = "download" /\ new.answer = old.answer
           \/ new = Idle
  BY RequestMoves
<1>3. /\ \A i \in Jobs \ {j} : requests'[i] = requests[i]
      /\ requests'[j][k] = new
      /\ \A l \in Slots \ {k} : requests'[j][l] = requests[j][l]
  BY <1>2, RequestStep
<1>4. /\ jobs' = jobs \/ (UpdateJob(j, k) /\ jobs' = [jobs EXCEPT ![j] = old.answer])
      /\ UrlsSound'
      /\ previewUrl' = previewUrl \/ (ShowOutput(j, k) /\ previewUrl' = j)
      /\ downloadUrl' = downloadUrl \/ (ShowOutput(j, k) /\ downloadUrl' = j)
  BY DEF Answer, Handle, GetJobStatus, DownloadResult, IgnoreNotFound, UpdateJob,
         ShowOutput, RequestFails, storeVars, ClientInv, UrlsSound, OutputsOnly
<1>5. ASSUME JobSound(j) PROVE JobSound(j)'
  <2>0. status' = status
    BY <1>1 DEF lifecycleVars
  <2>1. RequestSound(j, k)
    BY <1>5 DEF JobSound
  <2>2. RequestSound(j, k)'
    <3>1. CASE new.stage = "update" /\ new.answer = status[j]
      BY <1>3, <2>0, <3>1 DEF RequestSound
    <3>2. CASE /\ DownloadResult(j, k) /\ status[j] = "completed"
               /\ new.stage = "show" /\ new.answer = old.answer
      <4>1. old.stage = "download"
        BY <3>2 DEF DownloadResult
      <4> QED BY <1>3, <2>0, <2>1, <3>2, <4>1 DEF RequestSound
    <3>3. CASE /\ UpdateJob(j, k) /\ old.answer = "completed"
               /\ new.stage = "download" /\ new.answer = old.answer
      <4>1. old.stage = "update"
        BY <3>3 DEF UpdateJob
      <4> QED BY <1>3, <2>0, <2>1, <3>3, <4>1 DEF RequestSound, TERMINAL_STATES
    <3>4. CASE new = Idle
      BY <1>3, <3>4 DEF RequestSound, Idle
    <3> QED BY <1>2, <3>1, <3>2, <3>3, <3>4
  <2>3. \A l \in Slots : RequestSound(j, l)'
    BY <1>3, <1>5, <2>0, <2>2 DEF JobSound, RequestSound
  <2>4. (jobs[j] \in TERMINAL_STATES => jobs[j] = status[j])'
    <3>1. CASE jobs' = jobs
      BY <1>5, <2>0, <3>1 DEF JobSound
    <3>2. CASE UpdateJob(j, k) /\ jobs' = [jobs EXCEPT ![j] = old.answer]
      <4>1. old.stage = "update" /\ jobs'[j] = old.answer
        BY <3>2 DEF UpdateJob, TypeOK
      <4> QED BY <2>0, <2>1, <4>1 DEF RequestSound
    <3> QED BY <1>4, <3>1, <3>2
  <2>5. (j \in {previewUrl, downloadUrl} => status[j] = "completed")'
    <3>1. CASE ShowOutput(j, k)
      BY <2>0, <2>1, <3>1 DEF ShowOutput, RequestSound, TERMINAL_STATES
    <3>2. CASE ~ ShowOutput(j, k)
      BY <1>4, <1>5, <2>0, <3>2 DEF JobSound
    <3> QED BY <3>1, <3>2
  <2> QED BY <2>3, <2>4, <2>5 DEF JobSound
<1> QED
  BY <1>1, <1>3, <1>4, <1>5, ClientSound DEF TypeOK

\* An output is on its way only after the gateway has found it.
LEMMA OutputsOnlyRequest ==
  ASSUME TypeOK, OutputsOnly, NEW j \in Jobs, NEW k \in Slots,
         Answer(j, k) \/ Handle(j, k) \/ RequestFails(j, k)
  PROVE  OutputsOnly'
<1>1. PICK new \in Request :
        /\ requests' = [requests EXCEPT ![j][k] = new]
        /\ new.stage = "show" => j \notin EmptyJobs
  BY RequestMoves DEF Idle
<1>2. /\ \A i \in Jobs \ {j} : requests'[i] = requests[i]
      /\ requests'[j][k] = new
      /\ \A l \in Slots \ {k} : requests'[j][l] = requests[j][l]
  BY <1>1, RequestStep
<1> QED BY <1>1, <1>2 DEF OutputsOnly

LEMMA OutputsOnlyPoll ==
  ASSUME TypeOK, OutputsOnly, Poll
  PROVE  OutputsOnly'
<1> SUFFICES ASSUME NEW j \in Jobs, NEW k \in Slots, requests'[j][k].stage = "show"
             PROVE  requests'[j][k] = requests[j][k]
  BY DEF OutputsOnly
<1> DEFINE new == [stage |-> "status", active |-> j = activeJobId, answer |-> "absent"]
<1>1. requests'[j] = [requests[j] EXCEPT ![FreeSlot(j)] = new] \/ requests'[j] = requests[j]
  BY DEF Poll
<1>2. new.stage # "show"
  OBVIOUS
<1>3. requests[j] \in [Slots -> Request]
  BY DEF TypeOK
<1> HIDE DEF new
<1> QED BY <1>1, <1>2, <1>3

\* The steps of the client, and what it relies on in those of the service.
ClientStep ==
  \/ \E j \in Jobs : Post(j) \/ SubmissionFails(j) \/ OnSuccess(j) \/ SetActiveJob(j)
  \/ \E j \in Jobs, k \in Slots : Answer(j, k) \/ Handle(j, k) \/ RequestFails(j, k)
  \/ Poll

ServiceStep ==
  /\ UNCHANGED <<storeVars, requests>>
  /\ \A j \in Jobs : submission'[j] = submission[j] \/ submission[j] = "posting"

LEMMA NextSteps ==
  ASSUME TypeOK, [Next]_vars
  PROVE  ClientStep \/ (ServiceStep /\ LifecycleStep)
<1>1. ASSUME NEW j \in Jobs, SubmitConversion(j) PROVE ServiceStep /\ LifecycleStep
  BY <1>1 DEF SubmitConversion, ServiceStep, LifecycleStep, TypeOK
<1>2. ASSUME NEW j \in Jobs, Serve(j) PROVE ServiceStep /\ LifecycleStep
  BY <1>2 DEF Serve, ServiceStep, LifecycleStep, clientVars
<1>3. CASE WorkerDies
  BY <1>3 DEF WorkerDies, ServiceStep, LifecycleStep, clientVars
<1>4. CASE UNCHANGED vars
  BY <1>4 DEF vars, ServiceStep, LifecycleStep, clientVars
<1> QED BY <1>1, <1>2, <1>3, <1>4 DEF Next, ClientStep

LEMMA ClientStepType ==
  ASSUME TypeOK, ClientStep
  PROVE  TypeOK'
<1>1. ASSUME NEW j \in Jobs, Post(j) \/ SubmissionFails(j) \/ OnSuccess(j) \/ SetActiveJob(j)
      PROVE  TypeOK'
  BY <1>1, SubmissionType
<1>2. ASSUME NEW j \in Jobs, NEW k \in Slots,
             Answer(j, k) \/ Handle(j, k) \/ RequestFails(j, k)
      PROVE  TypeOK'
  BY <1>2, RequestType
<1> QED BY <1>1, <1>2, PollType DEF ClientStep

\* The invariants survive every service that keeps the outcomes.
LEMMA SoundOverAnyService ==
  ASSUME TypeOK, OutputsOnly, ClientInv, ClientStep \/ (ServiceStep /\ OutcomeKept)
  PROVE  OutputsOnly' /\ ClientInv'
<1>1. ASSUME requests' = requests PROVE OutputsOnly'
  BY <1>1 DEF OutputsOnly
<1>2. ASSUME NEW j \in Jobs, Post(j) \/ SubmissionFails(j) \/ OnSuccess(j) \/ SetActiveJob(j)
      PROVE  OutputsOnly' /\ ClientInv'
  BY <1>1, <1>2, SubmissionSound DEF Post, SubmissionFails, OnSuccess, SetActiveJob
<1>3. ASSUME NEW j \in Jobs, NEW k \in Slots,
             Answer(j, k) \/ Handle(j, k) \/ RequestFails(j, k)
      PROVE  OutputsOnly' /\ ClientInv'
  BY <1>3, OutputsOnlyRequest, RequestInvariant
<1>4. CASE ServiceStep /\ OutcomeKept
  BY <1>1, <1>4, QuietSound DEF ServiceStep
<1> QED BY <1>2, <1>3, <1>4, OutputsOnlyPoll, PollSound DEF ClientStep

LEMMA ClientInvNext ==
  ASSUME TypeOK, OutputsOnly, ClientInv, [Next]_vars
  PROVE  OutputsOnly' /\ ClientInv'
BY NextSteps, OutcomeStays, SoundOverAnyService

LEMMA OutputsOnlyInit == Init => OutputsOnly
BY DEF Init, OutputsOnly, Idle

\* The invariant behind the next two theorems.
THEOREM ClientInvCorrect == Safety => []ClientInv
<1>1. Init => OutputsOnly /\ ClientInv
  BY OutputsOnlyInit, ClientInvInit
<1>2. TypeOK /\ OutputsOnly /\ ClientInv /\ [Next]_vars => OutputsOnly' /\ ClientInv'
  BY ClientInvNext
<1> QED BY <1>1, <1>2, ClientTypeCorrect, PTL DEF Safety

\* However the requests overlap and fail, a job shown as completed or failed is,
\* unless a worker has left it behind.
THEOREM TerminalSound == Safety => []TerminalIsTrue
<1>1. ClientInv => TerminalIsTrue
  BY DEF ClientInv, JobSound, TerminalIsTrue
<1> QED BY <1>1, ClientInvCorrect, PTL

\* The preview and the download offer outputs of completed jobs, each of the right
\* kind, unless a worker has left the job behind.
THEOREM ShownSound == Safety => []ShownIsComplete
<1>1. TypeOK /\ ClientInv => ShownIsComplete
  BY DEF TypeOK, ClientInv, UrlsSound, JobSound, ShownIsComplete
<1> QED BY <1>1, ClientTypeCorrect, ClientInvCorrect, PTL

-----------------------------------------------------------------------------
(* What is shown goes forward                                              *)
(*                                                                         *)
(* With one request at a time, an answer on its way is not older than what *)
(* the store shows and not newer than what is on record. That needs the    *)
(* requests to be about listed jobs, and a job to be listed once only.     *)

Asked(j) ==
  /\ Listed(j) => submission[j] = "answered"
  /\ \A k \in Slots : requests[j][k].stage # "idle" => Listed(j)

Ordered(j) ==
  /\ Rank(jobs[j]) <= Rank(status[j])
  /\ \A k \in Slots : requests[j][k].stage = "update" =>
       /\ Rank(jobs[j]) <= Rank(requests[j][k].answer)
       /\ Rank(requests[j][k].answer) <= Rank(status[j])

ProgressInv == \A j \in Jobs : Asked(j) /\ (j \in retried \/ Ordered(j))

LEMMA RankType ==
  /\ \A s : Rank(s) \in 0..3
  /\ Rank("unlisted") = 0 /\ Rank("absent") = 1 /\ Rank("queued") = 1
  /\ Rank("processing") = 2 /\ Rank("completed") = 3 /\ Rank("failed") = 3
<1>1. \A s : /\ s = "unlisted" => Rank(s) = 0
             /\ s = "absent" => Rank(s) = 1
             /\ s = "queued" => Rank(s) = 1
             /\ s = "processing" => Rank(s) = 2
             /\ s \notin {"unlisted", "absent", "queued", "processing"} => Rank(s) = 3
  BY DEF Rank
<1>2. \A s : Rank(s) \in {0, 1, 2, 3}
  BY <1>1
<1>3. {0, 1, 2, 3} = 0..3
  OBVIOUS
<1> QED BY <1>1, <1>2, <1>3

\* The order of the statuses.
LEMMA RankOrder ==
  ASSUME NEW a, NEW b,
         \/ a \in {"absent", "queued"} /\ b # "unlisted"
         \/ a = "processing" /\ b \in {"processing", "completed", "failed"}
         \/ a = b
  PROVE  Rank(a) <= Rank(b)
<1>1. CASE a \in {"absent", "queued"} /\ b # "unlisted"
  <2>1. Rank(a) = 1 /\ Rank(b) \in 0..3
    BY <1>1, RankType
  <2>2. Rank(b) # 0
    BY <1>1 DEF Rank
  <2> QED BY <2>1, <2>2
<1>2. CASE a = "processing" /\ b \in {"processing", "completed", "failed"}
  <2>1. Rank(a) = 2 /\ Rank(b) \in {2, 3}
    BY <1>2, RankType
  <2> QED BY <2>1
<1>3. CASE a = b
  BY <1>3, RankType
<1> QED BY <1>1, <1>2, <1>3

\* The service moves a job forward, until a worker leaves it behind.
StatusKept ==
  \A j \in Jobs : j \notin retried' =>
    j \notin retried /\ Rank(status[j]) <= Rank(status'[j])

LEMMA ServiceForward ==
  ASSUME TypeOK, LifecycleStep
  PROVE  StatusKept
<1> SUFFICES ASSUME NEW j \in Jobs, j \notin retried'
             PROVE  j \notin retried /\ Rank(status[j]) <= Rank(status'[j])
  BY DEF StatusKept
<1>0. j \notin retried
  BY OutcomeStays DEF OutcomeKept
<1>e. ASSUME status'[j] = status[j] PROVE Rank(status[j]) <= Rank(status'[j])
  BY <1>e, RankType
<1>1. ASSUME NEW i \in Jobs, Accept(i) \/ Finish(i)
      PROVE  Rank(status[j]) <= Rank(status'[j])
  BY <1>e, <1>1 DEF Accept, Finish
<1>2. ASSUME NEW i \in Jobs, Begin(i) PROVE Rank(status[j]) <= Rank(status'[j])
  <2>1. CASE i = j
    <3>1. status[j] = "absent" /\ status'[j] = "queued"
      BY <1>0, <1>2, <2>1 DEF Begin, TypeOK
    <3> QED BY <3>1, RankOrder
  <2>2. CASE i # j
    BY <1>e, <1>2, <2>2 DEF Begin, TypeOK
  <2> QED BY <2>1, <2>2
<1>3. ASSUME NEW i \in Jobs, Advance(i) PROVE Rank(status[j]) <= Rank(status'[j])
  <2>1. CASE i = j
    <3>1. status'[j] \in Successors(status[j])
      BY <1>3, <2>1 DEF Advance, TypeOK
    <3>2. \/ status[j] = "queued" /\ status'[j] \in {"processing", "failed"}
          \/ status[j] = "processing" /\ status'[j] \in {"completed", "failed"}
      BY <3>1 DEF Successors
    <3> QED BY <3>2, RankOrder
  <2>2. CASE i # j
    BY <1>e, <1>3, <2>2 DEF Advance, TypeOK
  <2> QED BY <2>1, <2>2
<1>4. ASSUME NEW S \in SUBSET Jobs, Abandon(S) PROVE Rank(status[j]) <= Rank(status'[j])
  BY <1>e, <1>4 DEF Abandon
<1>5. CASE UNCHANGED lifecycleVars
  BY <1>e, <1>5 DEF lifecycleVars
<1> QED BY <1>0, <1>1, <1>2, <1>3, <1>4, <1>5 DEF LifecycleStep

LEMMA RankTransitive ==
  ASSUME NEW a, NEW b, NEW c, Rank(a) <= Rank(b), Rank(b) <= Rank(c)
  PROVE  Rank(a) <= Rank(c)
BY RankType

\* What a step shows of j: the store goes forward, and the invariant is kept.
Forward(j) == Asked(j)' /\ (j \in retried' \/ (Ordered(j)' /\ Rank(jobs'[j]) >= Rank(jobs[j])))

\* A step that leaves the store's job alone, and its requests but for a new one or
\* one that ends.
LEMMA QuietForward ==
  ASSUME TypeOK, ProgressInv, NEW j \in Jobs,
         jobs'[j] = jobs[j],
         submission'[j] = submission[j] \/ submission[j] # "answered",
         \A k \in Slots :
           \/ requests'[j][k] = requests[j][k]
           \/ requests'[j][k].stage = "idle"
           \/ requests'[j][k].stage \in {"status", "show"} /\ Listed(j),
         j \notin retried' => j \notin retried /\ Rank(status[j]) <= Rank(status'[j])
  PROVE  Forward(j)
<1>1. Asked(j)'
  BY DEF ProgressInv, Asked, Listed
<1>2. ASSUME j \notin retried' PROVE Ordered(j)' /\ Rank(jobs'[j]) >= Rank(jobs[j])
  <2>1. Ordered(j) /\ Rank(status[j]) <= Rank(status'[j])
    BY <1>2 DEF ProgressInv
  <2>2. Rank(jobs'[j]) <= Rank(status'[j])
    BY <2>1, RankTransitive DEF Ordered
  <2>3. ASSUME NEW k \in Slots, requests'[j][k].stage = "update"
        PROVE  /\ Rank(jobs'[j]) <= Rank(requests'[j][k].answer)
               /\ Rank(requests'[j][k].answer) <= Rank(status'[j])
    <3>1. requests'[j][k] = requests[j][k]
      BY <2>3
    <3> QED BY <2>1, <2>3, <3>1, RankTransitive DEF Ordered
  <2> QED BY <2>2, <2>3, RankType DEF Ordered
<1> QED BY <1>1, <1>2 DEF Forward

LEMMA SubmissionForward ==
  ASSUME TypeOK, ProgressInv, NEW i \in Jobs, NEW j \in Jobs,
         Post(i) \/ SubmissionFails(i) \/ OnSuccess(i) \/ SetActiveJob(i)
  PROVE  Forward(j)
<1>1. retried' = retried /\ status' = status /\ Rank(status[j]) <= Rank(status[j])
  BY RankType DEF Post, SubmissionFails, OnSuccess, SetActiveJob, lifecycleVars
<1>2. requests' = requests
  BY DEF Post, SubmissionFails, OnSuccess, SetActiveJob
<1>3. CASE ~OnSuccess(i) \/ i # j
  <2>1. jobs'[j] = jobs[j]
    BY <1>3 DEF Post, SubmissionFails, OnSuccess, SetActiveJob,
                storeVars, TypeOK
  <2>2. submission'[j] = submission[j] \/ submission[j] # "answered"
    BY DEF Post, SubmissionFails, OnSuccess, SetActiveJob, TypeOK
  <2> QED BY <1>1, <1>2, <2>1, <2>2, QuietForward
<1>4. CASE OnSuccess(i) /\ i = j
  <2>1. /\ submission[j] = "accepted" /\ submission'[j] = "answered"
        /\ jobs'[j] = "queued" /\ status' = status /\ retried' = retried
    BY <1>4 DEF OnSuccess, TypeOK, lifecycleVars
  <2>2. jobs[j] = "unlisted" /\ \A k \in Slots : requests[j][k].stage = "idle"
    BY <2>1 DEF ProgressInv, Asked, Listed
  <2>3. Rank("queued") <= Rank(status[j])
    <3>1. status[j] # "unlisted"
      BY DEF TypeOK, Statuses
    <3>2. Rank(status[j]) \in 1..3
      BY <3>1, RankType DEF Rank
    <3> QED BY <3>2, RankType
  <2>4. Rank("queued") >= Rank("unlisted")
    BY RankType
  <2> QED BY <1>2, <2>1, <2>2, <2>3, <2>4 DEF Forward, Asked, Ordered, Listed
<1> QED BY <1>3, <1>4

LEMMA PollForward ==
  ASSUME TypeOK, ProgressInv, Poll, NEW j \in Jobs
  PROVE  Forward(j)
<1> DEFINE new == [stage |-> "status", active |-> j = activeJobId, answer |-> "absent"]
<1>1. UNCHANGED <<status, retried, jobs, submission>>
  BY DEF Poll, lifecycleVars, storeVars
<1>2. ASSUME NEW k \in Slots
      PROVE  \/ requests'[j][k] = requests[j][k]
             \/ requests'[j][k].stage \in {"status", "show"} /\ Listed(j)
  <2>1. CASE j \in Pending
    <3>1. requests'[j] = [requests[j] EXCEPT ![FreeSlot(j)] = new] /\ Listed(j)
      BY <2>1 DEF Poll, Pending
    <3>2. new.stage = "status" /\ requests[j] \in [Slots -> Request]
      BY DEF TypeOK
    <3> HIDE DEF new
    <3> QED BY <3>1, <3>2
  <2>2. CASE j \notin Pending
    BY <2>2 DEF Poll
  <2> QED BY <2>1, <2>2
<1>3. Rank(status[j]) <= Rank(status[j])
  BY RankType
<1> QED BY <1>1, <1>2, <1>3, QuietForward

\* What the steps on a request do to it and to its job.
LEMMA RequestSteps ==
  ASSUME TypeOK, NEW j \in Jobs, NEW k \in Slots,
         Answer(j, k) \/ Handle(j, k) \/ RequestFails(j, k)
  PROVE  /\ UNCHANGED <<status, retried, submission>>
         /\ \A i \in Jobs \ {j} : requests'[i] = requests[i] /\ jobs'[i] = jobs[i]
         /\ \A l \in Slots \ {k} : requests'[j][l] = requests[j][l]
         /\ requests[j][k].stage # "idle"
         /\ \/ /\ requests'[j][k].stage = "update" /\ requests'[j][k].answer = status[j]
               /\ jobs'[j] = jobs[j]
            \/ /\ requests[j][k].stage = "update" /\ requests[j][k].answer # "absent"
               /\ requests'[j][k].stage \in {"download", "idle"}
               /\ jobs'[j] = requests[j][k].answer
            \/ requests'[j][k].stage \in {"show", "idle"} /\ jobs'[j] = jobs[j]
<1> DEFINE old         == requests[j][k]
           answered    == [old EXCEPT !.stage = "update", !.answer = status[j]]
           moved(stage) == [old EXCEPT !.stage = stage]
<1>0. old \in Request /\ Idle \in Request /\ Idle.stage = "idle"
  BY DEF TypeOK, Idle, Request
<1>1. UNCHANGED <<status, retried, submission>>
  BY DEF Answer, Handle, GetJobStatus, DownloadResult, IgnoreNotFound, UpdateJob,
         ShowOutput, RequestFails, lifecycleVars
<1>2. /\ answered \in Request /\ answered.stage = "update" /\ answered.answer = status[j]
      /\ moved("show") \in Request /\ moved("show").stage = "show"
      /\ moved("download") \in Request /\ moved("download").stage = "download"
  BY <1>0 DEF Request, TypeOK
<1>3. CASE GetJobStatus(j, k)
  <2>1. requests' = [requests EXCEPT ![j][k] = answered] /\ jobs' = jobs
        /\ old.stage = "status"
    BY <1>3 DEF GetJobStatus, storeVars
  <2> HIDE DEF answered, moved
  <2> QED BY <1>1, <1>2, <2>1, RequestStep
<1>4. CASE UpdateJob(j, k)
  <2>1. /\ old.stage = "update" /\ old.answer # "absent"
        /\ jobs' = [jobs EXCEPT ![j] = old.answer]
        /\ \/ requests' = [requests EXCEPT ![j][k] = moved("download")]
           \/ requests' = [requests EXCEPT ![j][k] = Idle]
    BY <1>4 DEF UpdateJob, MoveTo, EndRequest
  <2>2. jobs'[j] = old.answer /\ \A i \in Jobs \ {j} : jobs'[i] = jobs[i]
    BY <2>1 DEF TypeOK
  <2> HIDE DEF answered, moved
  <2> QED BY <1>0, <1>1, <1>2, <2>1, <2>2, RequestStep
<1>5. CASE DownloadResult(j, k) \/ IgnoreNotFound(j, k) \/ ShowOutput(j, k) \/ RequestFails(j, k)
  <2>1. /\ old.stage # "idle" /\ jobs' = jobs
        /\ \/ requests' = [requests EXCEPT ![j][k] = moved("show")]
           \/ requests' = [requests EXCEPT ![j][k] = Idle]
    BY <1>5 DEF DownloadResult, IgnoreNotFound, ShowOutput, RequestFails, MoveTo,
                EndRequest, storeVars
  <2> HIDE DEF answered, moved
  <2> QED BY <1>0, <1>1, <1>2, <2>1, RequestStep
<1> QED BY <1>3, <1>4, <1>5 DEF Answer, Handle

LEMMA RequestForward ==
  ASSUME MaxOverlap = 1, TypeOK, ProgressInv, NEW i \in Jobs, NEW k \in Slots,
         Answer(i, k) \/ Handle(i, k) \/ RequestFails(i, k), NEW j \in Jobs
  PROVE  Forward(j)
<1>0. \A l \in Slots : l = k
  BY DEF Slots
<1>e. \A s : Rank(s) <= Rank(s)
  BY RankType
<1>1. UNCHANGED <<status, retried, submission>>
  BY RequestSteps
<1>2. CASE i # j
  <2>1. requests'[j] = requests[j] /\ jobs'[j] = jobs[j]
    BY <1>2, RequestSteps
  <2> QED BY <1>1, <1>e, <2>1, QuietForward
<1>3. CASE i = j
  <2>0. Asked(j) /\ Listed(j) /\ (j \in retried \/ Ordered(j))
    BY <1>3, RequestSteps DEF ProgressInv, Asked
  <2>1. CASE /\ requests'[j][k].stage = "update" /\ requests'[j][k].answer = status[j]
             /\ jobs'[j] = jobs[j]
    <3>1. Asked(j)'
      BY <1>1, <2>0, <2>1 DEF Asked, Listed
    <3>2. Ordered(j) => Ordered(j)'
      BY <1>0, <1>1, <1>e, <2>1 DEF Ordered
    <3> QED BY <1>1, <1>e, <2>0, <2>1, <3>1, <3>2, RankType DEF Forward
  <2>2. CASE /\ requests[j][k].stage = "update" /\ requests[j][k].answer # "absent"
             /\ requests'[j][k].stage \in {"download", "idle"}
             /\ jobs'[j] = requests[j][k].answer
    <3>1. jobs'[j] # "unlisted"
      <4>1. requests[j][k].answer \in Statuses \union {"absent"}
        BY DEF TypeOK, Request
      <4> QED BY <2>2, <4>1 DEF Statuses
    <3>2. Asked(j)'
      BY <1>1, <2>0, <3>1 DEF Asked, Listed
    <3>3. Ordered(j) => Ordered(j)' /\ Rank(jobs'[j]) >= Rank(jobs[j])
      <4>1. requests'[j][k].stage # "update"
        BY <2>2
      <4>2. Ordered(j) => /\ Rank(jobs[j]) <= Rank(jobs'[j])
                          /\ Rank(jobs'[j]) <= Rank(status'[j])
        BY <1>1, <2>2 DEF Ordered
      <4> QED BY <1>0, <4>1, <4>2, RankType DEF Ordered
    <3> QED BY <1>1, <2>0, <3>2, <3>3 DEF Forward
  <2>3. CASE requests'[j][k].stage \in {"show", "idle"} /\ jobs'[j] = jobs[j]
    <3>1. \A l \in Slots : \/ requests'[j][l].stage = "idle"
                           \/ requests'[j][l].stage \in {"status", "show"} /\ Listed(j)
      BY <1>0, <2>0, <2>3
    <3> QED BY <1>1, <1>e, <2>3, <3>1, QuietForward
  <2> QED BY <1>3, <2>1, <2>2, <2>3, RequestSteps
<1> QED BY <1>2, <1>3

\* A step after which the store shows nothing older than before.
Onward == \A j \in Jobs : j \in retried' \/ Rank(jobs'[j]) >= Rank(jobs[j])

\* The invariant survives every service that moves its jobs forward.
LEMMA ForwardOverAnyService ==
  ASSUME MaxOverlap = 1, TypeOK, ProgressInv, ClientStep \/ (ServiceStep /\ StatusKept)
  PROVE  ProgressInv' /\ Onward
<1> SUFFICES ASSUME NEW j \in Jobs PROVE Forward(j)
  BY DEF Forward, ProgressInv, Onward
<1>1. ASSUME NEW i \in Jobs, Post(i) \/ SubmissionFails(i) \/ OnSuccess(i) \/ SetActiveJob(i)
      PROVE  Forward(j)
  BY <1>1, SubmissionForward
<1>2. ASSUME NEW i \in Jobs, NEW k \in Slots,
             Answer(i, k) \/ Handle(i, k) \/ RequestFails(i, k)
      PROVE  Forward(j)
  BY <1>2, RequestForward
<1>3. CASE ServiceStep /\ StatusKept
  BY <1>3, QuietForward DEF ServiceStep, StatusKept, storeVars
<1> QED BY <1>1, <1>2, <1>3, PollForward DEF ClientStep

LEMMA ProgressInvInit == Init => ProgressInv
<1> SUFFICES ASSUME Init, NEW j \in Jobs PROVE Asked(j) /\ Ordered(j)
  BY DEF ProgressInv
<1>1. /\ jobs[j] = "unlisted" /\ status[j] = "absent"
      /\ \A k \in Slots : requests[j][k].stage = "idle"
  BY DEF Init, LifecycleInit, Idle
<1>2. Rank("unlisted") <= Rank("absent")
  BY RankType
<1> QED BY <1>1, <1>2 DEF Asked, Ordered, Listed

\* While every poll is answered before the next one starts, the status shown for
\* a job goes back only if a worker died: updateJob writes an answer that is at
\* least as new as what the store shows. A second request in flight would break it.
THEOREM AnswersAdvance ==
  ASSUME MaxOverlap = 1
  PROVE  Safety => StatusAdvances
<1>1. Init => ProgressInv
  BY ProgressInvInit
<1>2. TypeOK /\ ProgressInv /\ [Next]_vars => ProgressInv' /\ [Onward]_vars
  BY NextSteps, ServiceForward, ForwardOverAnyService
<1>3. [Onward]_vars => [\A j \in Jobs : j \in retried' \/ Rank(jobs'[j]) >= Rank(jobs[j])]_vars
  BY DEF Onward
<1> QED BY <1>1, <1>2, <1>3, ClientTypeCorrect, PTL DEF Safety, StatusAdvances
=============================================================================
