--------------------------- MODULE MCSirConsumer ---------------------------
(***************************************************************************)
(* Instances of the sir-core consumer for TLC.                             *)
(***************************************************************************)
EXTENDS SirConsumer, TLC

CONSTANTS w1, w2

MCWorkers == {w1, w2}

\* A malformed job, a good one behind it, and one that panics after both.
MCJobs == 1..3
MCOutcome == 1 :> "error" @@ 2 :> "ok" @@ 3 :> "panic"
=============================================================================
