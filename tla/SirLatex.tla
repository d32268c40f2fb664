------------------------------ MODULE SirLatex ------------------------------
(***************************************************************************)
(* LaTeX to the intermediate representation and back: latex_to_sir.rs and  *)
(* sir_to_latex.rs of sir-core.  The parser works on lines: a heading or   *)
(* an environment is one only where a line starts with it.                 *)
(***************************************************************************)
EXTENDS SirModel

(* str::lines: a last line without text does not count. *)
RECURSIVE Lines(_), SplitAt(_, _)
Lines(text) ==
  IF text = <<>> THEN <<>> ELSE <<Upto(text, "nl")>> \o Lines(From(text, Find(text, "nl") + 1))
(* str::split on one token. *)
SplitAt(text, t) ==
  IF Find(text, t) > Len(text) THEN <<text>>
  ELSE <<Upto(text, t)>> \o SplitAt(From(text, Find(text, t) + 1), t)

MathEnvs    == {"equation", "equation*", "align", "align*", "split", "flalign*"}
TheoremEnvs == {"theorem", "lemma", "proof"}
CodeEnvs    == {"verbatim", "lstlisting", "minted"}
Lists       == {"itemize", "enumerate"}
Figures     == {"figure", "figure*"}
Tables      == {"table", "table*"}

BeginOf(env) == <<"\\begin{">> \o env \o <<"}">>
EndOf(env)   == <<"\\end{">> \o env \o <<"}">>
StartsWith(line, tokens) == line # <<>> /\ line[1] \in tokens

-----------------------------------------------------------------------------
(* Inline content.                                                         *)

StyleOf(command) == CASE command = "\\textbf{" -> "bold" [] command = "\\textsc{" -> "smallcaps"
                      [] OTHER -> "italic"

(* extract_command_content: without its closing brace a command takes all  *)
(* the text that is left.                                                  *)
CommandContent(text, i) ==
  LET brace == MatchingBrace(text, i) IN
  IF brace = 0 THEN [content |-> From(text, i + 1), next |-> Len(text) + 1]
  ELSE [content |-> SubSeq(text, i + 1, brace - 1), next |-> brace + 1]

RECURSIVE ScanInline(_, _, _, _)
ParseInline(text) == ScanInline(text, 1, <<>>, <<>>)

Reference(command, content) ==
  IF command = "\\cite{" THEN Citation(Map(SplitAt(content, ","), Trim)) ELSE CrossRef(command, content)

(* Plain text gathers in current until an element interrupts it. *)
ScanInline(text, i, current, out) ==
  LET flushed == IF current = <<>> THEN out ELSE Append(out, Text(current))
      arg     == CommandContent(text, i)
      dollar  == i + Find(From(text, i + 1), "$")
      Element(element, next) == ScanInline(text, next, <<>>, Append(flushed, element))
  IN CASE i > Len(text)                -> flushed
       [] text[i] \in StyleCommands    -> Element(Styled(StyleOf(text[i]), ParseInline(arg.content)), arg.next)
       [] text[i] \in RefCommands      -> Element(Reference(text[i], arg.content), arg.next)
       [] text[i] = "\\\\"             -> Element(LineBreak, i + 1)
       [] text[i] = "$"                -> Element(InlineMath(SubSeq(text, i + 1, dollar - 1)), dollar + 1)
       [] text[i] = "~"                -> Element(NonBreakingSpace, i + 1)
       [] OTHER                        -> ScanInline(text, i + 1, Append(current, text[i]), out)

-----------------------------------------------------------------------------
(* Headings and labels.                                                    *)

LabelIn(text) ==
  LET after == From(text, Find(text, "\\label{") + 1) IN
  IF Find(after, "}") > Len(after) THEN None ELSE Some(Upto(after, "}"))
LabelOfContent(content) ==
  LET lines == SelectSeq(Lines(content), LAMBDA line : LabelIn(line) # None) IN
  IF lines = <<>> THEN None ELSE LabelIn(Head(lines))

(* The closing brace is counted in characters and used as an offset in     *)
(* bytes: every wide character of the title cuts one byte off its end, and *)
(* a cut inside a character panics.                                        *)
RECURSIVE WithoutBytes(_, _)
WithoutBytes(title, n) ==
  CASE n = 0 -> Some(title)
    [] Last(title) \in Wide -> IF n = 1 THEN None ELSE WithoutBytes(Front(title), n - 2)
    [] OTHER -> WithoutBytes(Front(title), n - 1)

TryHeading(line) ==
  LET command == {k \in DOMAIN HeadingCommands : StartsWith(line, {HeadingCommands[k]})}
      k       == CHOOSE c \in command : TRUE
      brace   == MatchingBrace(line, 1)
      whole   == SubSeq(line, 2, brace - 1)
      title   == WithoutBytes(whole, Cardinality({m \in DOMAIN whole : whole[m] \in Wide}))
  IN IF command = {} \/ brace = 0 THEN None
     ELSE IF title = None THEN Some(Panic)
     ELSE Some(Heading((k - 1) \div 2, k % 2 = 1, <<Text(title[1])>>, LabelIn(From(line, brace))))

-----------------------------------------------------------------------------
(* Environments.                                                           *)

EnvName(line) ==
  LET after == From(line, Find(line, "\\begin{") + 1) IN
  IF Find(after, "}") > Len(after) THEN <<>> ELSE Upto(after, "}")

(* The line of the matching \end, or one past the last; the search begins  *)
(* on the line after \begin.                                               *)
EndLine(lines, start, env) ==
  LET Begins(k) == HasPiece(lines[k], BeginOf(env))
      Ends(k)   == HasPiece(lines[k], EndOf(env))
      Before(k) == (start + 1)..k
      Balanced(k) == 1 + Cardinality({m \in Before(k) : Begins(m)}) = Cardinality({m \in Before(k) : Ends(m)})
      at == {k \in (start + 1)..Len(lines) : Ends(k) /\ Balanced(k)}
  IN IF at = {} THEN Len(lines) + 1 ELSE Min(at)

(* parse_figure_content: of each kind the last line counts, and of         *)
(* everything else nothing is kept.                                        *)
Figure(content) ==
  LET Groups(token) == Map(SelectSeq(Map(Lines(content), Trim), LAMBDA l : StartsWith(l, {token})), BraceGroups)
      Found(token)  == SelectSeq(Groups(token), LAMBDA groups : groups # <<>>)
      caption == Found("\\caption{")
      label   == Found("\\label{")
      image   == Found("\\includegraphics{")
  IN Block("figure", IF image = <<>> THEN <<"missing.png">> ELSE Last(Last(image)), <<>>,
           IF caption = <<>> THEN None ELSE Some(Text(Head(Last(caption)))), <<>>,
           IF label = <<>> THEN None ELSE Some(Head(Last(label))))

(* parse_list: lines are joined by a blank into items; text before the     *)
(* first \item makes an item of its own and an item without text none.     *)
Item(text) == Paragraph(ParseInline(Trim(text)))
\* Bug: the item in hand at the end of the list is not kept.
BugListEnd(env, content) ==
  LET Step(s, raw) ==
        LET line == Trim(raw) IN
        IF StartsWith(line, {"\\item"})
        THEN [items   |-> IF s.current = <<>> THEN s.items ELSE Append(s.items, Item(s.current)),
              current |-> Trim(Tail(line))]
        ELSE [s EXCEPT !.current = @ \o <<"sp">> \o line]
      end == FoldLeft(Step, [items |-> <<>>, current |-> <<>>], Lines(content))
  IN Block("list", env, <<>>, <<>>, end.items, None)
\* Bug: the item keeps its \item.
BugListMarker(env, content) ==
  LET Step(s, raw) ==
        LET line == Trim(raw) IN
        IF StartsWith(line, {"\\item"})
        THEN [items   |-> IF s.current = <<>> THEN s.items ELSE Append(s.items, Item(s.current)),
              current |-> line]
        ELSE [s EXCEPT !.current = @ \o <<"sp">> \o line]
      end == FoldLeft(Step, [items |-> <<>>, current |-> <<>>], Lines(content))
  IN Block("list", env, <<>>, <<>>,
           IF end.current = <<>> THEN end.items ELSE Append(end.items, Item(end.current)), None)
List(env, content) ==
  LET Step(s, raw) ==
        LET line == Trim(raw) IN
        IF StartsWith(line, {"\\item"})
        THEN [items   |-> IF s.current = <<>> THEN s.items ELSE Append(s.items, Item(s.current)),
              current |-> Trim(Tail(line))]
        ELSE [s EXCEPT !.current = @ \o <<"sp">> \o line]
      end == FoldLeft(Step, [items |-> <<>>, current |-> <<>>], Lines(content))
  IN Block("list", env, <<>>, <<>>,
           IF end.current = <<>> THEN end.items ELSE Append(end.items, Item(end.current)), None)

MathKind(env) == IF env = "flalign*" THEN "flalign" ELSE env
Language(line) ==
  LET groups == BraceGroups(line) IN IF Len(groups) > 1 THEN groups[2] ELSE groups[1]

RECURSIVE ParseBody(_), BodyFrom(_, _, _, _)
EnvironmentBlock(name, header, content) ==
  LET env == IF Len(name) = 1 THEN name[1] ELSE "" IN
  CASE env \in MathEnvs    -> MathBlock(MathKind(env), content, LabelOfContent(content))
    [] env \in Figures     -> Figure(content)
    [] env \in Tables      -> RawLatex(content)
    [] env \in Lists       -> List(env, content)
    [] env \in TheoremEnvs -> Block("theorem", env, <<>>, <<>>, ParseBody(content), LabelOfContent(content))
    [] env \in CodeEnvs    -> Block("code", IF env = "minted" THEN Some(Language(header)) ELSE None,
                                    content, <<>>, <<>>, None)
    [] env = "abstract"    -> Paragraph(<<Text(content)>>)
    [] OTHER               -> RawLatex(BeginOf(name) \o <<"nl">> \o content \o <<"nl">> \o EndOf(name))

-----------------------------------------------------------------------------
(* The body: a blank line, a heading or an environment ends a paragraph.   *)

ParseBody(text) == BodyFrom(Lines(text), 1, <<>>, <<>>)

BodyFrom(lines, i, paragraph, blocks) ==
  LET flushed == IF paragraph = <<>> THEN blocks
                 ELSE Append(blocks, Paragraph(ParseInline(Trim(paragraph))))
      line    == Trim(lines[i])
      heading == TryHeading(line)
      name    == EnvName(line)
      end     == EndLine(lines, i, name)
      content == JoinWith(SubSeq(lines, i + 1, end - 1), <<"nl">>)
  IN IF i > Len(lines) THEN flushed
     ELSE CASE line = <<>>      -> BodyFrom(lines, i + 1, <<>>, flushed)
            [] heading # None   -> BodyFrom(lines, i + 1, <<>>, Append(flushed, heading[1]))
            [] StartsWith(line, {"\\begin{"}) ->
                 BodyFrom(lines, end + 1, <<>>, Append(flushed, EnvironmentBlock(name, lines[i], content)))
            [] OTHER            -> BodyFrom(lines, i + 1, paragraph \o line \o <<"nl">>, blocks)

-----------------------------------------------------------------------------
(* The preamble, line by line; of several packages in a line the first.    *)

Between(line, open, close) ==
  IF Find(line, open) < Find(line, close) /\ Find(line, close) <= Len(line)
  THEN Some(Trim(SubSeq(line, Find(line, open) + 1, Find(line, close) - 1))) ELSE None
Options(line) ==
  LET options == Between(line, "[", "]") IN IF options = None THEN <<>> ELSE Map(SplitAt(options[1], ","), Trim)

DefiningCommands == {"\\newcommand", "\\renewcommand", "\\DeclareMathOperator"}
DefiningEnvs     == {"\\newenvironment", "\\newtheorem"}
PreambleLine(p, raw) ==
  LET line == Trim(raw)
      name == Between(line, "{", "}")
      groups == Len(BraceGroups(line))
  IN CASE line = <<>> \/ StartsWith(line, {"%"}) -> p
       [] StartsWith(line, {"\\documentclass"})  ->
            [p EXCEPT !.class   = IF name = None THEN @ ELSE name[1],
                      !.options = IF Between(line, "[", "]") = None THEN @ ELSE Options(line)]
       [] StartsWith(line, {"\\usepackage"})     ->
            IF name = None THEN p
            ELSE [p EXCEPT !.packages = Append(@, [name |-> name[1], options |-> Options(line)])]
       [] StartsWith(line, DefiningCommands) /\ groups >= 2 -> [p EXCEPT !.commands = Append(@, line)]
       [] StartsWith(line, DefiningEnvs) /\ groups >= 3     -> [p EXCEPT !.environments = Append(@, line)]
       [] OTHER                                  -> [p EXCEPT !.raws = Append(@, raw)]
ParsePreamble(text) == FoldLeft(PreambleLine, EmptyPreamble, Lines(text))

(* A bracket that closes before it opens is sliced from the wrong end.     *)
Crossed(line, open, close) == Find(line, close) < Find(line, open) /\ Find(line, open) <= Len(line)
PreamblePanics(text) ==
  \E k \in DOMAIN Lines(text) :
    LET line == Trim(Lines(text)[k]) IN
    /\ StartsWith(line, {"\\documentclass", "\\usepackage"})
    /\ Crossed(line, "[", "]") \/ Crossed(line, "{", "}")

(* split_document cuts at the first \begin{document} and the last          *)
(* \end{document}, wherever that one stands.                               *)
Document == <<"document">>
LatexToSir(source) ==
  LET begins == Occurrences(BeginOf(Document), source)
      ends   == Occurrences(EndOf(Document), source)
      from   == Min(begins) + 3
      end    == IF ends = {} THEN Len(source) + 1 ELSE Max(ends)
      preamble == SubSeq(source, 1, from - 4)
  IN CASE begins = {} -> [preamble |-> EmptyPreamble, body |-> ParseBody(source)]
       [] end < from \/ PreamblePanics(preamble) -> [preamble |-> EmptyPreamble, body |-> <<Panic>>]
       [] OTHER -> [preamble |-> ParsePreamble(preamble), body |-> ParseBody(SubSeq(source, from, end - 1))]

-----------------------------------------------------------------------------
(* Emission.                                                               *)

Line(text) == text \o <<"nl">>
LabelLine(label) == IF label = None THEN <<>> ELSE Line(<<"\\label{">> \o label[1] \o <<"}">>)

RECURSIVE EmitInline(_)
EmitElement(e) ==
  CASE e.type = "text"   -> e.text
    [] e.type = "styled" -> <<CASE e.attr = "bold" -> "\\textbf{" [] e.attr = "italic" -> "\\emph{"
                                [] OTHER -> "\\textsc{">> \o EmitInline(e.kids) \o <<"}">>
    [] e.type = "math"   -> <<"$">> \o e.text \o <<"$">>
    [] e.type = "ref"    -> <<e.attr>> \o e.text \o <<"}">>
    [] e.type = "cite"   -> <<"\\cite{">> \o JoinWith(e.kids, <<",", "sp">>) \o <<"}">>
    [] e.type = "break"  -> <<"\\\\">>
    [] OTHER             -> <<"~">>
EmitInline(inline) == FlattenSeq(Map(inline, EmitElement))

EmitHeading(b) ==
  LET command == HeadingCommands[2 * b.attr[1] + (IF b.attr[2] THEN 1 ELSE 2)] IN
  <<command>> \o EmitInline(b.inline) \o <<"}">>
  \o (IF b.label = None THEN <<"nl">> ELSE LabelLine(b.label))

(* The source of a formula holds its \label line already. *)
EmitMath(b) ==
  Line(BeginOf(<<b.attr>>)) \o Line(b.text) \o LabelLine(b.label) \o Line(EndOf(<<b.attr>>))

\* Bug: the label of a figure is not written.
BugEmitFigure(b) ==
  Line(BeginOf(<<"figure">>) \o <<"[", "htbp", "]">>) \o Line(<<"\\centering">>)
  \o Line(<<"\\includegraphics{">> \o b.attr \o <<"}">>)
  \o (IF b.inline = None THEN <<>> ELSE Line(<<"\\caption{">> \o EmitInline(b.inline) \o <<"}">>))
  \o Line(EndOf(<<"figure">>))
EmitFigure(b) ==
  Line(BeginOf(<<"figure">>) \o <<"[", "htbp", "]">>) \o Line(<<"\\centering">>)
  \o Line(<<"\\includegraphics{">> \o b.attr \o <<"}">>)
  \o (IF b.inline = None THEN <<>> ELSE Line(<<"\\caption{">> \o EmitInline(b.inline) \o <<"}">>))
  \o LabelLine(b.label) \o Line(EndOf(<<"figure">>))

EmitCode(b) ==
  LET env == <<IF b.attr = None THEN "verbatim" ELSE "minted">> IN
  Line(BeginOf(env) \o (IF b.attr = None THEN <<>> ELSE <<"{">> \o b.attr[1] \o <<"}">>))
  \o Line(b.text) \o Line(EndOf(env))

RECURSIVE EmitBlock(_)
EmitList(b) ==
  Line(BeginOf(<<b.attr>>)) \o FlattenSeq(Map(b.kids, LAMBDA item : <<"\\item", "sp">> \o EmitBlock(item)))
  \o Line(EndOf(<<b.attr>>))
EmitTheorem(b) ==
  Line(BeginOf(<<b.attr>>)) \o LabelLine(b.label) \o FlattenSeq(Map(b.kids, EmitBlock))
  \o Line(EndOf(<<b.attr>>))

EmitBlock(b) ==
  CASE b.kind = "heading"   -> EmitHeading(b)
    [] b.kind = "paragraph" -> Line(EmitInline(b.inline))
    [] b.kind = "math"      -> EmitMath(b)
    [] b.kind = "figure"    -> EmitFigure(b)
    [] b.kind = "list"      -> EmitList(b)
    [] b.kind = "theorem"   -> EmitTheorem(b)
    [] b.kind = "code"      -> EmitCode(b)
    [] b.kind = "raw"       -> Line(b.text)

\* Bug: no commas between the options.
BugBracketed(options) == IF options = <<>> THEN <<>> ELSE <<"[">> \o JoinWith(options, <<>>) \o <<"]">>
Bracketed(options) == IF options = <<>> THEN <<>> ELSE <<"[">> \o JoinWith(options, <<",", "sp">>) \o <<"]">>
EmitPreamble(p) ==
  LET Package(k) == Line(<<"\\usepackage">> \o Bracketed(k.options) \o <<"{">> \o k.name \o <<"}">>)
      Verbatim(lines) == FlattenSeq(Map(lines, Line))
  IN Line(<<"\\documentclass">> \o Bracketed(p.options) \o <<"{">> \o p.class \o <<"}">>)
     \o FlattenSeq(Map(p.packages, Package)) \o <<"nl">>
     \o Verbatim(p.commands) \o Verbatim(p.environments) \o Verbatim(p.raws) \o <<"nl">>

SirToLatex(doc) ==
  EmitPreamble(doc.preamble) \o Line(BeginOf(Document)) \o <<"nl">>
  \o FlattenSeq(Map(doc.body, LAMBDA b : EmitBlock(b) \o <<"nl">>))
  \o <<"nl">> \o Line(EndOf(Document))
=============================================================================
