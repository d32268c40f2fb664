------------------------------ MODULE SirModel ------------------------------
(***************************************************************************)
(* The semantic intermediate representation of sir-core and the text it is *)
(* read from.  LaTeX is a sequence of tokens; "nl" ends a line, "sp" is a  *)
(* blank, a command that takes a braced argument is one token with its     *)
(* brace.  A block or an inline keeps the fields the transforms read; an   *)
(* Option is a sequence of at most one element.                            *)
(***************************************************************************)
EXTENDS Integers, Sequences, SequencesExt, FiniteSetsExt

None    == <<>>
Some(x) == <<x>>

Block(kind, attr, text, inline, kids, label) ==
  [kind |-> kind, attr |-> attr, text |-> text, inline |-> inline, kids |-> kids, label |-> label]
Heading(depth, star, inline, label) == Block("heading", <<depth, star>>, <<>>, inline, <<>>, label)
Paragraph(inline)                   == Block("paragraph", <<>>, <<>>, inline, <<>>, None)
MathBlock(env, source, label)       == Block("math", env, source, <<>>, <<>>, label)
RawLatex(source)                    == Block("raw", <<>>, source, <<>>, <<>>, None)

Inline(type, attr, text, kids) == [type |-> type, attr |-> attr, text |-> text, kids |-> kids]
Text(text)          == Inline("text", "", text, <<>>)
Styled(style, kids) == Inline("styled", style, <<>>, kids)
InlineMath(text)    == Inline("math", "", text, <<>>)
LineBreak           == Inline("break", "", <<>>, <<>>)
NonBreakingSpace    == Inline("nbsp", "", <<>>, <<>>)
CrossRef(command, label) == Inline("ref", command, label, <<>>)
Citation(keys)           == Inline("cite", "", <<>>, keys)

EmptyPreamble == [class |-> <<"article">>, options |-> <<>>, packages |-> <<>>, commands |-> <<>>,
                  environments |-> <<>>, raws |-> <<>>]

(* A step at which the program panics leaves no document. *)
Panic == Block("panic", <<>>, <<>>, <<>>, <<>>, None)

-----------------------------------------------------------------------------
(* The alphabet.  A word is one character; "eacute" is one of two bytes.   *)

WordTokens == {"v", "w", "eacute"}
IsWord(t)  == t \in WordTokens
Wide       == {"eacute"}

HeadingCommands == <<"\\chapter*{", "\\chapter{", "\\section*{", "\\section{", "\\subsection*{",
  "\\subsection{", "\\subsubsection*{", "\\subsubsection{", "\\paragraph*{", "\\paragraph{",
  "\\subparagraph*{", "\\subparagraph{">>
StyleCommands == {"\\textbf{", "\\textit{", "\\emph{", "\\textsc{"}
RefCommands   == {"\\ref{", "\\eqref{", "\\autoref{", "\\cite{"}
Openers == {"{", "\\begin{", "\\end{", "\\label{", "\\caption{", "\\includegraphics{", "\\foo{"}
           \cup Range(HeadingCommands) \cup StyleCommands \cup RefCommands

-----------------------------------------------------------------------------
(* Strings as the standard library treats them.                            *)

Blank(t) == t \in {"sp", "nl"}
Trim(text) ==
  LET ink == {k \in DOMAIN text : ~Blank(text[k])} IN
  IF ink = {} THEN <<>> ELSE SubSeq(text, Min(ink), Max(ink))

(* The first position at which t stands, or one past the end. *)
Find(text, t) ==
  LET at == {k \in DOMAIN text : text[k] = t} IN IF at = {} THEN Len(text) + 1 ELSE Min(at)
From(text, i) == IF i > Len(text) THEN <<>> ELSE SubSeq(text, i, Len(text))
Upto(text, t) == SubSeq(text, 1, Find(text, t) - 1)

(* Positions of a piece in a text. *)
Occurrences(piece, text) ==
  {k \in DOMAIN text : k + Len(piece) <= Len(text) + 1
                        /\ SubSeq(text, k, k + Len(piece) - 1) = piece}
HasPiece(text, piece) == Occurrences(piece, text) # {}

Map(seq, Op(_)) == [k \in DOMAIN seq |-> Op(seq[k])]
JoinWith(pieces, sep) ==
  FlattenSeq([k \in DOMAIN pieces |-> IF k = 1 THEN pieces[k] ELSE sep \o pieces[k]])

(* The brace that closes the one opened at position i, or 0. *)
Opened(text, i, k) == Cardinality({m \in i..k : text[m] \in Openers})
Closed(text, i, k) == Cardinality({m \in i..k : text[m] = "}"})
MatchingBrace(text, i) ==
  LET at == {k \in i..Len(text) : text[k] = "}" /\ Opened(text, i, k) = Closed(text, i, k)} IN
  IF at = {} THEN 0 ELSE Min(at)

(* extract_brace_groups: the texts of the groups at the top level. *)
BraceGroups(text) ==
  LET Step(s, t) ==
        CASE t \in Openers /\ s.depth = 0 -> [s EXCEPT !.depth = 1, !.open = TRUE, !.current = <<>>]
          [] t \in Openers -> [s EXCEPT !.depth = @ + 1, !.current = Append(@, t)]
          [] t = "}" /\ s.depth = 1 /\ s.open ->
               [s EXCEPT !.depth = 0, !.open = FALSE, !.groups = Append(@, s.current)]
          [] t = "}" -> [s EXCEPT !.depth = @ - 1, !.current = Append(@, t)]
          [] OTHER -> IF s.open THEN [s EXCEPT !.current = Append(@, t)] ELSE s
  IN FoldLeft(Step, [groups |-> <<>>, depth |-> 0, current |-> <<>>, open |-> FALSE], text).groups
=============================================================================
