------------------------ MODULE ConversionPipelines -------------------------
(***************************************************************************)
(* The static part of the conversion service: the states of a job, the     *)
(* five conversion pipelines as the sequences of steps the orchestrator    *)
(* goes through, the PDF engines in the order they are tried, and the      *)
(* status names the API shows.                                             *)
(*                                                                         *)
(* A pipeline of the Go code is straight-line code between updateProgress  *)
(* calls, so it is written here as a sequence of steps: "update" steps     *)
(* store a state and a progress, every other step produces the output.     *)
(***************************************************************************)
EXTENDS Naturals, Sequences

\* JobState (StateCancelled is declared by the code and never assigned).
JobStates == {"queued", "parsing", "transforming", "rendering",
              "post_processing", "completed", "failed", "cancelled"}

TerminalStates == {"completed", "failed"}

\* The directions SubmitConversion accepts and executePipeline knows.
Directions == {"latex_to_word", "word_to_latex", "latex_to_pdf",
               "word_to_pdf", "round_trip"}

-----------------------------------------------------------------------------
(* Pipelines *)

\* A call of updateProgress: the state and the progress it stores.
Update(state, progress) ==
  [op |-> "update", state |-> state, progress |-> progress]

\* The call that produces the output, named for how it does so.
Produce(converter) == [op |-> converter, state |-> "none", progress |-> 0]

Converters == {"pandoc", "latex", "stub", "echo"}

\* Bug: the last two updates are swapped.
BugLatexToWordPipeline ==
  << Update("parsing", 10), Update("rendering", 30), Produce("pandoc"),
     Update("completed", 100), Update("post_processing", 90) >>

LatexToWordPipeline ==
  << Update("parsing", 10), Update("rendering", 30), Produce("pandoc"),
     Update("post_processing", 90), Update("completed", 100) >>

WordToLatexPipeline ==
  << Update("parsing", 10), Update("transforming", 40), Update("rendering", 70),
     Produce("stub"), Update("post_processing", 90), Update("completed", 100) >>

\* Bug: a state of its own for the compilation that JobState does not declare.
BugLatexToPdfPipeline ==
  << Update("parsing", 10), Update("compiling", 30), Produce("latex"),
     Update("post_processing", 90), Update("completed", 100) >>

LatexToPdfPipeline ==
  << Update("parsing", 10), Update("rendering", 30), Produce("latex"),
     Update("post_processing", 90), Update("completed", 100) >>

\* Bug: completion is reported before the output is there.
BugWordToPdfPipeline ==
  << Update("parsing", 10), Update("rendering", 40), Update("completed", 100),
     Produce("stub") >>

WordToPdfPipeline ==
  << Update("parsing", 10), Update("rendering", 40), Produce("stub"),
     Update("completed", 100) >>

RoundTripPipeline ==
  << Update("parsing", 10), Update("transforming", 30), Update("rendering", 60),
     Produce("echo"), Update("post_processing", 80), Update("completed", 100) >>

PipelineOf ==
  [latex_to_word |-> LatexToWordPipeline,
   word_to_latex |-> WordToLatexPipeline,
   latex_to_pdf  |-> LatexToPdfPipeline,
   word_to_pdf   |-> WordToPdfPipeline,
   round_trip    |-> RoundTripPipeline]

\* A direction executePipeline does not know has no step: it is an error.
ExecutePipeline(direction) ==
  IF direction \in Directions THEN PipelineOf[direction] ELSE << >>

-----------------------------------------------------------------------------
(* PDF engines *)

Engines == {"pdflatex", "xelatex", "lualatex"}

\* Bug: an engine is listed twice, and another one not at all.
BugFallbacks == << "pdflatex", "xelatex", "pdflatex" >>

\* The order of the fallback loop of latexToPdfPipeline.
Fallbacks == << "pdflatex", "xelatex", "lualatex" >>

\* What a published message says of a job: whether it parses at all, the
\* direction, the requested PDF engine ("" when none), whether the source has
\* a pdfTeX primitive or loads a font package or class, and whether it is empty.
ConversionJob ==
  [malformed    : BOOLEAN,
   direction    : Directions \union {"unknown"},
   pdfEngine    : Engines \union {"", "unsupported"},
   pdfPrimitive : BOOLEAN,
   fontPackage  : BOOLEAN,
   emptySource  : BOOLEAN]

\* A pdfTeX primitive wins over a package that requires xelatex.
DetectLatexEngine(msg) ==
  IF ~msg.pdfPrimitive /\ msg.fontPackage THEN "xelatex" ELSE "pdflatex"

FirstEngine(msg) ==
  IF msg.pdfEngine = "" THEN DetectLatexEngine(msg) ELSE msg.pdfEngine

\* A turn of the fallback loop: the engine that was tried first is skipped.
ThenFallback(order, fb) == IF fb = Head(order) THEN order ELSE Append(order, fb)

\* The engines one job may be compiled with, in order: the loop's three turns.
EngineOrder(msg) ==
  ThenFallback(ThenFallback(ThenFallback(<< FirstEngine(msg) >>,
    Fallbacks[1]), Fallbacks[2]), Fallbacks[3])

-----------------------------------------------------------------------------
(* The API's view of a job *)

Statuses == {"queued", "processing", "completed", "failed", "cancelled"}

\* Bug: the state of the job is the status of the answer.
BugMapStateToStatus(state) == state

MapStateToStatus(state) ==
  IF state \in {"queued", "completed", "failed", "cancelled"}
    THEN state ELSE "processing"
=============================================================================
