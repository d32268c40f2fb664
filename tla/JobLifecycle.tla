---------------------------- MODULE JobLifecycle ----------------------------
(***************************************************************************)
(* What the conversion service promises a client that polls the status of  *)
(* its job, when processes may crash but nothing else goes wrong: the job  *)
(* is unknown until a worker picks it up, then queued, processing, and in  *)
(* the end completed or failed for good.                                   *)
(*                                                                         *)
(* One thing makes this weaker than it looks: a job whose worker died      *)
(* before settling it is retried, and a retry starts over with "queued",   *)
(* even when the client has already seen "completed" or "failed".          *)
(***************************************************************************)
CONSTANT Jobs

VARIABLES
  phase,      \* phase[j]: new, waiting for a worker, working, or settled
  retried,    \* the jobs some worker left unsettled when it died
  status      \* status[j]: what the API answers for a job

lifecycleVars == <<phase, retried, status>>

LifecycleInit ==
  /\ phase = [j \in Jobs |-> "new"]
  /\ retried = {}
  /\ status = [j \in Jobs |-> "absent"]

Move(j, from, to) ==
  /\ phase[j] = from
  /\ phase' = [phase EXCEPT ![j] = to]

Accept(j) ==
  /\ Move(j, "new", "waiting")
  /\ UNCHANGED <<retried, status>>

\* The first attempt finds no record; a retry may find that of an earlier one.
Begin(j) ==
  /\ Move(j, "waiting", "working")
  /\ j \in retried \/ status[j] = "absent"
  /\ status' = [status EXCEPT ![j] = "queued"]
  /\ UNCHANGED retried

\* What an attempt may show next.
Successors(s) ==
  CASE s = "queued"     -> {"processing", "failed"}
    [] s = "processing" -> {"completed", "failed"}
    [] OTHER            -> {}

Advance(j) ==
  /\ phase[j] = "working"
  /\ \E s \in Successors(status[j]) : status' = [status EXCEPT ![j] = s]
  /\ UNCHANGED <<phase, retried>>

\* Only a finished attempt is settled, and a settled job never begins again.
Finish(j) ==
  /\ Move(j, "working", "settled")
  /\ status[j] \in {"completed", "failed"}
  /\ UNCHANGED <<retried, status>>

\* A message that describes no job is dropped without a trace.
Drop(j) ==
  /\ Move(j, "waiting", "settled")
  /\ status[j] = "absent"
  /\ UNCHANGED <<retried, status>>

\* A worker dies: what it had begun, or was about to begin, waits again.
Abandon(S) ==
  /\ S # {}
  /\ \A j \in S : phase[j] \in {"waiting", "working"}
  /\ phase' = [j \in Jobs |-> IF j \in S THEN "waiting" ELSE phase[j]]
  /\ retried' = retried \union S
  /\ UNCHANGED status

Attempt(j) == Begin(j) \/ Advance(j) \/ Finish(j) \/ Drop(j)

LifecycleNext ==
  \/ \E j \in Jobs : Accept(j) \/ Attempt(j)
  \/ \E S \in SUBSET Jobs : Abandon(S)

LifecycleSafety == LifecycleInit /\ [][LifecycleNext]_lifecycleVars

LifecycleSpec ==
  /\ LifecycleSafety
  /\ \A j \in Jobs : WF_lifecycleVars(Attempt(j))
=============================================================================
