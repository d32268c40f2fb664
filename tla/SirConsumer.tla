---------------------------- MODULE SirConsumer ----------------------------
(***************************************************************************)
(* The queue consumer of sir-core (service.rs, main.rs): processes that    *)
(* share the queue wordtex.sir.jobs, each handling its deliveries one by   *)
(* one.  No prefetch is set, so the broker pushes what is ready to any     *)
(* consumer, and the deliveries wait in the process.                       *)
(*                                                                         *)
(* The broker and the supervisor are external: the broker hands out ready  *)
(* messages in the order they were published, and puts back what a closed  *)
(* channel had not acknowledged; the supervisor restarts a process that    *)
(* exited.                                                                 *)
(***************************************************************************)
EXTENDS Integers, Sequences, FiniteSets

CONSTANTS
  Workers,    \* processes of the service
  Jobs,       \* job numbers, in the order of publication
  Outcome,    \* Outcome[j]: what process_job makes of job j
  MaxFaults   \* bound on the number of faults

ASSUME JobsAssumption == Jobs \subseteq Nat /\ IsFiniteSet(Jobs)
ASSUME OutcomeAssumption == Outcome \in [Jobs -> {"ok", "error", "panic"}]
ASSUME FaultsAssumption == MaxFaults \in Nat

VARIABLES
  brokerUp,   \* the broker accepts connections
  place,      \* place[j]: where the broker has the message of job j
  unacked,    \* unacked[w]: delivered on w's channel, not settled
  channel,    \* channel[w]: w's channel is open
  mode,       \* mode[w]: the life of the process
  buffer,     \* buffer[w]: deliveries the consumer stream holds
  current,    \* current[w]: the delivery in process_job, or none
  transformed, \* jobs process_job has returned Ok for
  faults      \* number of faults so far

vars == <<brokerUp, place, unacked, channel, mode, buffer, current, transformed, faults>>

Alive == {"starting", "consuming", "standalone"}

TypeOK ==
  /\ brokerUp \in BOOLEAN
  /\ place \in [Jobs -> {"unpublished", "ready", "unacked", "acked"}]
  /\ unacked \in [Workers -> SUBSET Jobs]
  /\ channel \in [Workers -> BOOLEAN]
  /\ mode \in [Workers -> Alive \cup {"exited"}]
  /\ buffer \in [Workers -> Seq(Jobs)]
  /\ current \in [Workers -> SUBSET Jobs]
  /\ transformed \in SUBSET Jobs
  /\ faults \in 0..MaxFaults

Init ==
  /\ brokerUp \in BOOLEAN
  /\ place = [j \in Jobs |-> "unpublished"]
  /\ unacked = [w \in Workers |-> {}]
  /\ channel = [w \in Workers |-> FALSE]
  /\ mode = [w \in Workers |-> "starting"]
  /\ buffer = [w \in Workers |-> <<>>]
  /\ current = [w \in Workers |-> {}]
  /\ transformed = {}
  /\ faults = 0

-----------------------------------------------------------------------------
(* The broker and whoever publishes; nothing in the repository does.       *)

StartBroker == /\ ~brokerUp
               /\ brokerUp' = TRUE
               /\ UNCHANGED <<place, unacked, channel, mode, buffer, current, transformed, faults>>

Publish(j) ==
  /\ brokerUp
  /\ place[j] = "unpublished"
  /\ \A i \in Jobs : i < j => place[i] # "unpublished"
  /\ place' = [place EXCEPT ![j] = "ready"]
  /\ UNCHANGED <<brokerUp, unacked, channel, mode, buffer, current, transformed, faults>>

IsNextReady(j) == place[j] = "ready" /\ \A i \in Jobs : i < j => place[i] # "ready"

Deliver(w, j) ==
  /\ channel[w]
  /\ IsNextReady(j)
  /\ place' = [place EXCEPT ![j] = "unacked"]
  /\ unacked' = [unacked EXCEPT ![w] = @ \cup {j}]
  /\ buffer' = [buffer EXCEPT ![w] = Append(@, j)]
  /\ UNCHANGED <<brokerUp, channel, mode, current, transformed, faults>>

(* The channel of w closes: what it had not settled is ready again. *)
Requeued(w) == [j \in Jobs |-> IF j \in unacked[w] THEN "ready" ELSE place[j]]
CloseChannel(w) ==
  /\ place' = Requeued(w)
  /\ unacked' = [unacked EXCEPT ![w] = {}]
  /\ channel' = [channel EXCEPT ![w] = FALSE]

\* Bug: a process that ends leaves what it held to nobody.
BugExit(w) ==
  /\ channel' = [channel EXCEPT ![w] = FALSE]
  /\ mode' = [mode EXCEPT ![w] = "exited"]
  /\ buffer' = [buffer EXCEPT ![w] = <<>>]
  /\ current' = [current EXCEPT ![w] = {}]
  /\ UNCHANGED <<place, unacked>>

(* The process ends, and with it its channel and its deliveries. *)
Exit(w) ==
  /\ CloseChannel(w)
  /\ mode' = [mode EXCEPT ![w] = "exited"]
  /\ buffer' = [buffer EXCEPT ![w] = <<>>]
  /\ current' = [current EXCEPT ![w] = {}]

Restart(w) == /\ mode[w] = "exited"
              /\ mode' = [mode EXCEPT ![w] = "starting"]
              /\ UNCHANGED <<brokerUp, place, unacked, channel, buffer, current, transformed, faults>>

-----------------------------------------------------------------------------
(* consume_jobs.                                                           *)

(* A first connection that fails is never tried again: the process waits   *)
(* for a shutdown signal.                                                  *)
Connect(w) ==
  /\ mode[w] = "starting"
  /\ mode' = [mode EXCEPT ![w] = IF brokerUp THEN "consuming" ELSE "standalone"]
  /\ channel' = [channel EXCEPT ![w] = brokerUp]
  /\ UNCHANGED <<brokerUp, place, unacked, buffer, current, transformed, faults>>

\* Bug: the next delivery is taken while one is in process_job.
BugTake(w) ==
  /\ mode[w] = "consuming"
  /\ buffer[w] # <<>>
  /\ current' = [current EXCEPT ![w] = {Head(buffer[w])}]
  /\ buffer' = [buffer EXCEPT ![w] = Tail(@)]
  /\ UNCHANGED <<brokerUp, place, unacked, channel, mode, transformed, faults>>

Take(w) ==
  /\ mode[w] = "consuming"
  /\ current[w] = {}
  /\ buffer[w] # <<>>
  /\ current' = [current EXCEPT ![w] = {Head(buffer[w])}]
  /\ buffer' = [buffer EXCEPT ![w] = Tail(@)]
  /\ UNCHANGED <<brokerUp, place, unacked, channel, mode, transformed, faults>>

(* An acknowledgement or rejection reaches the broker on an open channel;  *)
(* on a closed one its error is logged and dropped.                        *)
Settle(w, j, to) ==
  IF channel[w]
  THEN /\ place' = [place EXCEPT ![j] = to]
       /\ unacked' = [unacked EXCEPT ![w] = @ \ {j}]
  ELSE UNCHANGED <<place, unacked>>

\* Bug: the future of the acknowledgement is not awaited, so none is sent.
BugComplete(w, j) ==
  /\ current[w] = {j} /\ Outcome[j] = "ok"
  /\ transformed' = transformed \cup {j}
  /\ current' = [current EXCEPT ![w] = {}]
  /\ UNCHANGED <<brokerUp, place, unacked, channel, mode, buffer, faults>>

Complete(w, j) ==
  /\ current[w] = {j} /\ Outcome[j] = "ok"
  /\ transformed' = transformed \cup {j}
  /\ Settle(w, j, "acked")
  /\ current' = [current EXCEPT ![w] = {}]
  /\ UNCHANGED <<brokerUp, channel, mode, buffer, faults>>

\* Bug: an error is rejected without requeue, to a queue that dead-letters to nowhere.
BugRejectDropped(w, j) ==
  /\ current[w] = {j} /\ Outcome[j] = "error"
  /\ Settle(w, j, "dropped")
  /\ current' = [current EXCEPT ![w] = {}]
  /\ UNCHANGED <<brokerUp, channel, mode, buffer, transformed, faults>>
\* Bug: a job that fails is acknowledged to get rid of it.
BugRejectAcked(w, j) ==
  /\ current[w] = {j} /\ Outcome[j] = "error"
  /\ Settle(w, j, "acked")
  /\ current' = [current EXCEPT ![w] = {}]
  /\ UNCHANGED <<brokerUp, channel, mode, buffer, transformed, faults>>

(* Every error is put back on the queue, the hopeless ones included. *)
Reject(w, j) ==
  /\ current[w] = {j} /\ Outcome[j] = "error"
  /\ Settle(w, j, "ready")
  /\ current' = [current EXCEPT ![w] = {}]
  /\ UNCHANGED <<brokerUp, channel, mode, buffer, transformed, faults>>

(* A panic in a transform ends the consumer task, and main with it. *)
Panic(w, j) ==
  /\ current[w] = {j} /\ Outcome[j] = "panic"
  /\ Exit(w)
  /\ UNCHANGED <<brokerUp, transformed, faults>>

\* Bug: the process connects again and keeps the deliveries of the old channel.
BugEndStream(w) ==
  /\ mode[w] = "consuming" /\ ~channel[w] /\ current[w] = {}
  /\ channel' = [channel EXCEPT ![w] = TRUE]
  /\ UNCHANGED <<brokerUp, place, unacked, mode, buffer, current, transformed, faults>>

(* The stream of a closed channel ends; consume_jobs and main return. *)
EndStream(w) ==
  /\ mode[w] = "consuming" /\ ~channel[w] /\ current[w] = {}
  /\ Exit(w)
  /\ UNCHANGED <<brokerUp, transformed, faults>>

-----------------------------------------------------------------------------
(* Faults: the connection is lost, or the process is killed or told to     *)
(* stop (the HTTP server ends on SIGTERM, and main with it, mid-job).      *)

Fault == faults < MaxFaults /\ faults' = faults + 1

Disconnect(w) ==
  /\ Fault
  /\ channel[w]
  /\ CloseChannel(w)
  /\ UNCHANGED <<brokerUp, mode, buffer, current, transformed>>

Crash(w) ==
  /\ Fault
  /\ mode[w] \in Alive
  /\ Exit(w)
  /\ UNCHANGED <<brokerUp, transformed>>

-----------------------------------------------------------------------------
Handle(w, j) == Complete(w, j) \/ Reject(w, j) \/ Panic(w, j)
Step(w) == \/ Connect(w) \/ Take(w) \/ EndStream(w) \/ Disconnect(w) \/ Crash(w) \/ Restart(w)
           \/ \E j \in Jobs : Deliver(w, j) \/ Handle(w, j)
Next == \/ StartBroker
        \/ \E j \in Jobs : Publish(j)
        \/ \E w \in Workers : Step(w)

Spec == Init /\ [][Next]_vars

(* The runtime polls every task that can go on, the supervisor restarts    *)
(* what exited, the broker comes up.  Without a prefetch limit it pushes   *)
(* what is ready without waiting for what it pushed before: a job that is  *)
(* next again and again is delivered, though others are put back before it *)
(* between.  Nothing is assumed of publishers and faults.                  *)
Fairness ==
  /\ WF_vars(StartBroker)
  /\ \A j \in Jobs : SF_vars(\E w \in Workers : Deliver(w, j))
  /\ \A w \in Workers : /\ WF_vars(Connect(w)) /\ WF_vars(Take(w)) /\ WF_vars(EndStream(w))
                        /\ WF_vars(Restart(w)) /\ WF_vars(\E j \in Jobs : Handle(w, j))
FairSpec == Spec /\ Fairness

-----------------------------------------------------------------------------
(* What may never happen.                                                  *)

(* No published job is lost or duplicated in the broker: it is ready, or   *)
(* unacknowledged on exactly one channel, which is open, or acknowledged.  *)
NoJobLost ==
  \A j \in Jobs :
    LET holders == {w \in Workers : j \in unacked[w]} IN
    /\ (place[j] = "unacked") <=> (holders # {})
    /\ \A w \in holders : channel[w] /\ \A v \in holders : v = w

(* Only a job that was transformed leaves the queue for good. *)
OnlyTransformedIsAcked == \A j \in Jobs : place[j] = "acked" => j \in transformed

(* What an open channel has not settled is what its process still holds,   *)
(* each delivery once: nothing delivered is forgotten, nothing settled is  *)
(* settled again.                                                          *)
Held(w) == {buffer[w][k] : k \in DOMAIN buffer[w]} \cup current[w]
UnackedIsHeld ==
  \A w \in Workers : channel[w] =>
    /\ unacked[w] = Held(w)
    /\ Len(buffer[w]) + Cardinality(current[w]) = Cardinality(unacked[w])

(* Two processes transform a job at once only after one of them lost its   *)
(* channel, and its acknowledgement with it.                               *)
OneLiveTransformer ==
  \A v, w \in Workers : v # w /\ channel[v] /\ channel[w] => current[v] \cap current[w] = {}

-----------------------------------------------------------------------------
(* What must happen.  Processes whose first connection failed stay         *)
(* useless: progress needs one that is not standalone.                     *)

AllStandalone == \A w \in Workers : mode[w] = "standalone"
Panicking == {j \in Jobs : Outcome[j] = "panic"}

(* With at most one job that panics, every good job published before it    *)
(* is transformed and acknowledged, whatever is redelivered in between.    *)
EarlierJobsServed ==
  \A j \in Jobs :
    Outcome[j] = "ok" /\ Cardinality(Panicking) <= 1 /\ (\A p \in Panicking : j < p)
    => (place[j] = "ready" ~> (place[j] = "acked" \/ AllStandalone))
=============================================================================
