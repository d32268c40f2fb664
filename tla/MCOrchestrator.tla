--------------------------- MODULE MCOrchestrator ---------------------------
(***************************************************************************)
(* Instances of the orchestrator for TLC: the messages of the runs.        *)
(***************************************************************************)
EXTENDS Orchestrator, TLC

CONSTANTS r1, r2, j1, j2, j3, j4, j5, j6, j7, j8

\* A well-formed message with a request for the default engine.
Plain(direction) ==
  [malformed |-> FALSE, direction |-> direction, pdfEngine |-> "xelatex",
   pdfPrimitive |-> FALSE, fontPackage |-> FALSE, emptySource |-> FALSE]

\* One job of each of the two directions that run external programs.
MCTwoJobs == {j1, j2}
MCTwoMessages ==
  j1 :> [Plain("latex_to_pdf") EXCEPT !.pdfEngine = ""] @@
  j2 :> Plain("latex_to_word")

\* One PDF job: the pipeline with the most steps, the fallback engines included.
MCPdfJob == {j1}
MCPdfMessage == j1 :> [Plain("latex_to_pdf") EXCEPT !.pdfEngine = ""]

\* The same job as a conversion to Word, a shorter pipeline that may also fail.
MCWordMessage == j1 :> Plain("latex_to_word")

\* Jobs that differ in nothing, as many as it takes to fill slots and prefetch.
MCThreeJobs == {j1, j2, j3}
MCThreeMessages == [j \in MCThreeJobs |-> Plain("latex_to_word")]

\* One message of every kind the pipeline tells apart; of the PDF jobs one asks
\* for an engine that is not tried a second time.
MCAllJobs == {j1, j2, j3, j4, j5, j6, j7, j8}
MCAllMessages ==
  j1 :> [Plain("latex_to_pdf") EXCEPT !.pdfEngine = "unsupported"] @@
  j2 :> Plain("latex_to_word") @@
  j3 :> Plain("word_to_latex") @@
  j4 :> Plain("word_to_pdf") @@
  j5 :> [Plain("round_trip") EXCEPT !.emptySource = TRUE] @@
  j6 :> Plain("unknown") @@
  j7 :> [Plain("unknown") EXCEPT !.malformed = TRUE] @@
  j8 :> Plain("latex_to_pdf")

MCOneReplica == {r1}
MCTwoReplicas == {r1, r2}

Symmetry == Permutations(Replicas)
=============================================================================
