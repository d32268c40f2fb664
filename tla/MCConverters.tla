---------------------------- MODULE MCConverters ----------------------------
(***************************************************************************)
(* Instances of the conversions for TLC: every task at once, with one      *)
(* piece more for those whose interesting inputs are longer.               *)
(***************************************************************************)
EXTENDS Converters

MCTasks     == PieceTasks \cup {"omml", "edits", "bytes"}
MCLongTasks == {"scripts", "grouping", "bytes"}

MCOriginal == <<"paragraph", "paragraph", "paragraph">>
=============================================================================
