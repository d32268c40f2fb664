------------------------ MODULE MCConversionService -------------------------
(***************************************************************************)
(* Instances of the whole service for TLC.                                 *)
(***************************************************************************)
EXTENDS ConversionService, TLC

CONSTANTS r1, j1

\* A message with a request for the default engine.
Plain(direction) ==
  [malformed |-> FALSE, direction |-> direction, pdfEngine |-> "xelatex",
   pdfPrimitive |-> FALSE, fontPackage |-> FALSE, emptySource |-> FALSE]

MCOneReplica == {r1}

\* A conversion to Word, the shortest pipeline that may fail.
MCOneJob == {j1}
MCWordMessage == j1 :> Plain("latex_to_word")
=============================================================================
