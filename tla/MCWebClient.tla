---------------------------- MODULE MCWebClient -----------------------------
(***************************************************************************)
(* Instances of the web client for TLC.                                    *)
(***************************************************************************)
EXTENDS WebClient, TLC

CONSTANTS j1, j2

MCTwoJobs == {j1, j2}

MCNoJobs == {}

\* The compilation for the preview of an upload; the other job is for download.
MCOnePdf == {j1}
MCTwoPdfs == {j1, j2}
=============================================================================
