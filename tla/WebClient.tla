----------------------------- MODULE WebClient ------------------------------
(***************************************************************************)
(* The browser client: the jobs store, the JobPoller that asks for the     *)
(* status of every job that is not finished, and the preview and download  *)
(* URLs of the editor.                                                     *)
(*                                                                         *)
(* The service behind it is the abstract one, JobLifecycle, which the      *)
(* orchestrator implements when its processes may crash; jobs the gateway  *)
(* publishes always parse, so the service drops none.                      *)
(*                                                                         *)
(* JavaScript runs one callback at a time; what interleaves are the        *)
(* callbacks. A poll starts every two seconds whether or not the requests  *)
(* of the one before have been answered, so requests for one job may       *)
(* overlap and their answers may come in any order.                        *)
(***************************************************************************)
EXTENDS Naturals, JobLifecycle

CONSTANTS
  CompileJobs,    \* the LaTeX to PDF jobs
  PdfJobs,        \* the jobs whose output file is a PDF (Word to PDF too)
  EmptyJobs,      \* the jobs that complete with nothing to download
  NoJob,          \* null, for the active job and the two URLs
  MaxOverlap,     \* bound on the requests for one job in flight at once
  NetworkFails,   \* whether requests may fail
  WorkersDie      \* whether workers of the service may die

ASSUME PdfAssumption == CompileJobs \subseteq PdfJobs /\ PdfJobs \subseteq Jobs
ASSUME EmptyAssumption == EmptyJobs \subseteq Jobs \ PdfJobs
ASSUME NoJobAssumption == NoJob \notin Jobs
ASSUME OverlapAssumption == MaxOverlap \in Nat \ {0}
ASSUME FailureAssumption == NetworkFails \in BOOLEAN /\ WorkersDie \in BOOLEAN

VARIABLES
  submission,   \* submission[j]: the request that creates job j
  jobs,         \* jobs[j]: the status the store shows, or "unlisted"
  activeJobId,
  previewUrl,   \* the job whose PDF is in the preview
  downloadUrl,  \* the job whose other output is offered
  requests      \* requests[j][k]: a request for job j and what follows it

storeVars  == <<jobs, activeJobId, previewUrl, downloadUrl>>
clientVars == <<submission, storeVars, requests>>
vars       == <<lifecycleVars, clientVars>>

-----------------------------------------------------------------------------
(* Values *)

Statuses == {"queued", "processing", "completed", "failed"}

TERMINAL_STATES == {"completed", "failed"}

Slots == 1..MaxOverlap

\* A status request, and the download that may follow it: sent ("status"),
\* answered ("update"), output asked for ("download"), output here ("show").
\* active: whether the job was the active one when the poll began.
Request ==
  [stage  : {"idle", "status", "update", "download", "show"},
   active : BOOLEAN,
   answer : Statuses \union {"absent"}]

Idle == [stage |-> "idle", active |-> FALSE, answer |-> "absent"]

TypeOK ==
  /\ phase \in [Jobs -> {"new", "waiting", "working", "settled"}]
  /\ retried \in SUBSET Jobs
  /\ status \in [Jobs -> Statuses \union {"absent"}]
  /\ submission \in [Jobs -> {"unsent", "posting", "accepted", "answered", "failed"}]
  /\ jobs \in [Jobs -> Statuses \union {"unlisted"}]
  /\ activeJobId \in Jobs \union {NoJob}
  /\ previewUrl \in Jobs \union {NoJob}
  /\ downloadUrl \in Jobs \union {NoJob}
  /\ requests \in [Jobs -> [Slots -> Request]]

Init ==
  /\ LifecycleInit
  /\ submission = [j \in Jobs |-> "unsent"]
  /\ jobs = [j \in Jobs |-> "unlisted"]
  /\ activeJobId = NoJob
  /\ previewUrl = NoJob
  /\ downloadUrl = NoJob
  /\ requests = [j \in Jobs |-> [k \in Slots |-> Idle]]

-----------------------------------------------------------------------------
(* Submission *)

\* A compilation (debounced typing, the re-run button) or an upload. Several
\* may be under way: an upload sends a second job for its preview.
Post(j) ==
  /\ submission[j] = "unsent"
  /\ submission' = [submission EXCEPT ![j] = "posting"]
  /\ UNCHANGED <<lifecycleVars, storeVars, requests>>

\* The gateway publishes the job.
SubmitConversion(j) ==
  /\ submission[j] = "posting"
  /\ submission' = [submission EXCEPT ![j] = "accepted"]
  /\ Accept(j)
  /\ UNCHANGED <<storeVars, requests>>

\* The request or its answer is lost; the job may run without being listed.
SubmissionFails(j) ==
  /\ NetworkFails
  /\ submission[j] \in {"posting", "accepted"}
  /\ submission' = [submission EXCEPT ![j] = "failed"]
  /\ UNCHANGED <<lifecycleVars, storeVars, requests>>

\* The answer: list the job, make it active, clear the preview for a compilation.
OnSuccess(j) ==
  /\ submission[j] = "accepted"
  /\ submission' = [submission EXCEPT ![j] = "answered"]
  /\ jobs' = [jobs EXCEPT ![j] = "queued"]
  /\ activeJobId' = j
  /\ previewUrl' = IF j \in CompileJobs THEN NoJob ELSE previewUrl
  /\ UNCHANGED <<lifecycleVars, downloadUrl, requests>>

\* A click on a job in the sidebar or on the dashboard.
SetActiveJob(j) ==
  /\ jobs[j] # "unlisted"
  /\ activeJobId' = j
  /\ UNCHANGED <<lifecycleVars, submission, jobs, previewUrl, downloadUrl, requests>>

-----------------------------------------------------------------------------
(* JobPoller *)

Listed(j) == jobs[j] # "unlisted"

\* Bug: only a job that is known to be running is asked for.
BugPending == {j \in Jobs : jobs[j] = "processing"}

Pending == {j \in Jobs : Listed(j) /\ jobs[j] \notin TERMINAL_STATES}

FreeSlots(j) == {k \in Slots : requests[j][k].stage = "idle"}

FreeSlot(j) == CHOOSE k \in FreeSlots(j) : TRUE

\* One tick: the jobs and the active job are read once, and a request is sent
\* for every job that is not finished.
Poll ==
  /\ Pending # {}
  /\ \A j \in Pending : FreeSlots(j) # {}
  /\ requests' =
       [j \in Jobs |->
         IF j \in Pending
           THEN [requests[j] EXCEPT ![FreeSlot(j)] =
                  [stage |-> "status", active |-> j = activeJobId, answer |-> "absent"]]
           ELSE requests[j]]
  /\ UNCHANGED <<lifecycleVars, submission, storeVars>>

MoveTo(j, k, stage) == requests' = [requests EXCEPT ![j][k].stage = stage]

EndRequest(j, k) == requests' = [requests EXCEPT ![j][k] = Idle]

\* The gateway reads the record of the job.
GetJobStatus(j, k) ==
  /\ requests[j][k].stage = "status"
  /\ requests' = [requests EXCEPT ![j][k].stage = "update",
                                  ![j][k].answer = status[j]]
  /\ UNCHANGED <<lifecycleVars, submission, storeVars>>

\* Bug: a failed request puts the job back into the queued state.
BugRequestFails(j, k) ==
  /\ NetworkFails
  /\ requests[j][k].stage # "idle"
  /\ jobs' = [jobs EXCEPT ![j] = "queued"]
  /\ EndRequest(j, k)
  /\ UNCHANGED <<lifecycleVars, submission, activeJobId, previewUrl, downloadUrl>>

\* A request fails: nothing changes, the next tick asks again.
RequestFails(j, k) ==
  /\ NetworkFails
  /\ requests[j][k].stage # "idle"
  /\ EndRequest(j, k)
  /\ UNCHANGED <<lifecycleVars, submission, storeVars>>

\* Bug: a job without a record is taken for a failed one.
BugIgnoreNotFound(j, k) ==
  /\ requests[j][k].stage = "update"
  /\ requests[j][k].answer = "absent"
  /\ jobs' = [jobs EXCEPT ![j] = "failed"]
  /\ EndRequest(j, k)
  /\ UNCHANGED <<lifecycleVars, submission, activeJobId, previewUrl, downloadUrl>>

\* The job has no record yet: an error like any other.
IgnoreNotFound(j, k) ==
  /\ requests[j][k].stage = "update"
  /\ requests[j][k].answer = "absent"
  /\ EndRequest(j, k)
  /\ UNCHANGED <<lifecycleVars, submission, storeVars>>

\* Bug: an answer without a status is not told from one with a status.
BugUpdateJob(j, k) ==
  /\ requests[j][k].stage = "update"
  /\ jobs' = [jobs EXCEPT ![j] = requests[j][k].answer]
  /\ IF requests[j][k].answer = "completed" /\ requests[j][k].active
       THEN MoveTo(j, k, "download")
       ELSE EndRequest(j, k)
  /\ UNCHANGED <<lifecycleVars, submission, activeJobId, previewUrl, downloadUrl>>

\* The answer is written over what the store shows, however old it is; the
\* output of the job that was active when the poll began is fetched.
UpdateJob(j, k) ==
  /\ requests[j][k].stage = "update"
  /\ requests[j][k].answer # "absent"
  /\ jobs' = [jobs EXCEPT ![j] = requests[j][k].answer]
  /\ IF requests[j][k].answer = "completed" /\ requests[j][k].active
       THEN MoveTo(j, k, "download")
       ELSE EndRequest(j, k)
  /\ UNCHANGED <<lifecycleVars, submission, activeJobId, previewUrl, downloadUrl>>

\* The gateway sends the output of a completed job, if it has one; otherwise an
\* error, which is ignored and never retried.
DownloadResult(j, k) ==
  /\ requests[j][k].stage = "download"
  /\ IF status[j] = "completed" /\ j \notin EmptyJobs
       THEN MoveTo(j, k, "show")
       ELSE EndRequest(j, k)
  /\ UNCHANGED <<lifecycleVars, submission, storeVars>>

\* Bug: the two URLs are mixed up.
BugShowOutput(j, k) ==
  /\ requests[j][k].stage = "show"
  /\ IF j \in PdfJobs
       THEN downloadUrl' = j /\ UNCHANGED previewUrl
       ELSE previewUrl' = j /\ UNCHANGED downloadUrl
  /\ EndRequest(j, k)
  /\ UNCHANGED <<lifecycleVars, submission, jobs, activeJobId>>

\* The output has arrived, whichever job is active by now.
ShowOutput(j, k) ==
  /\ requests[j][k].stage = "show"
  /\ IF j \in PdfJobs
       THEN previewUrl' = j /\ UNCHANGED downloadUrl
       ELSE downloadUrl' = j /\ UNCHANGED previewUrl
  /\ EndRequest(j, k)
  /\ UNCHANGED <<lifecycleVars, submission, jobs, activeJobId>>

-----------------------------------------------------------------------------
(* Specification *)

\* A job of the service makes progress; a worker that dies leaves it to another.
Serve(j) == (Begin(j) \/ Advance(j) \/ Finish(j)) /\ UNCHANGED clientVars

WorkerDies ==
  /\ WorkersDie
  /\ \E S \in SUBSET Jobs : Abandon(S)
  /\ UNCHANGED clientVars

Handle(j, k) ==
  IgnoreNotFound(j, k) \/ UpdateJob(j, k) \/ ShowOutput(j, k)

Answer(j, k) == GetJobStatus(j, k) \/ DownloadResult(j, k)

Next ==
  \/ \E j \in Jobs : Post(j) \/ SubmitConversion(j) \/ SubmissionFails(j)
                     \/ OnSuccess(j) \/ SetActiveJob(j) \/ Serve(j)
  \/ \E j \in Jobs, k \in Slots : Answer(j, k) \/ Handle(j, k) \/ RequestFails(j, k)
  \/ Poll
  \/ WorkerDies

\* The timer ticks, callbacks run, every request is answered or fails, and the
\* status requests for a job do not fail for ever. A user need not do anything.
Fairness ==
  /\ WF_vars(Poll)
  /\ \A j \in Jobs : WF_vars(SubmitConversion(j)) /\ WF_vars(OnSuccess(j))
  /\ \A j \in Jobs : WF_vars(Serve(j))
  /\ \A j \in Jobs, k \in Slots : WF_vars(Answer(j, k)) /\ WF_vars(Handle(j, k))
  /\ \A j \in Jobs : SF_vars(\E k \in Slots : GetJobStatus(j, k))
  /\ \A j \in Jobs : SF_vars(\E k \in Slots : UpdateJob(j, k))

Safety == Init /\ [][Next]_vars
Spec == Safety /\ Fairness

-----------------------------------------------------------------------------
(* Properties *)

\* What the store shows as completed or failed is what the service says, for
\* every job no worker has left behind: neither a lost request, nor a missing
\* record, nor a late answer makes up an outcome.
TerminalIsTrue ==
  \A j \in Jobs : jobs[j] \in TERMINAL_STATES /\ j \notin retried =>
    jobs[j] = status[j]

\* How far a job has come.
Rank(s) == CASE s = "unlisted" -> 0 [] s = "absent" -> 1 [] s = "queued" -> 1
             [] s = "processing" -> 2 [] OTHER -> 3

\* While every poll is answered before the next one starts (MaxOverlap = 1), the
\* status a user sees goes back only if a worker died.
StatusAdvances ==
  [][\A j \in Jobs : j \in retried' \/ Rank(jobs'[j]) >= Rank(jobs[j])]_vars

\* What the preview shows is the PDF of a completed job, and what is offered as a
\* download is the other output of one, unless a worker has left the job behind; a
\* job without output is neither shown nor offered.
ShownIsComplete ==
  /\ previewUrl \in PdfJobs \union {NoJob}
  /\ downloadUrl \notin PdfJobs \union EmptyJobs
  /\ \A j \in {previewUrl, downloadUrl} \ {NoJob} :
       j \in retried \/ status[j] = "completed"

\* "Once the job completes ... a flawlessly rendered PDF is shown": the PDF of the
\* document compiled last, active ever since it was listed, stays in the preview.
LastPdfIsShown ==
  \A j \in PdfJobs :
    [](Listed(j) => activeJobId = j) /\ <>(Listed(j) /\ status[j] = "completed")
      => <>[](previewUrl = j)
=============================================================================
