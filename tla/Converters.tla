----------------------------- MODULE Converters -----------------------------
(***************************************************************************)
(* The inputs of the pure conversions and what the conversions promise of  *)
(* them.  A task is one kind of input; a behaviour picks a task and grows  *)
(* one input for it, piece by piece, so that every input of up to          *)
(* MaxPieces pieces is a state (one piece more for the tasks in LongTasks).*)
(* The properties compare what the converters of math-pipeline (Math) and  *)
(* sir-core (Sir) make of the input with the input, and the makings of     *)
(* successive conversions with each other.  The tasks "edits" and "bytes", *)
(* with their actions and properties, are those of SirChanges.             *)
(***************************************************************************)
EXTENDS SirChanges, TLC

Math == INSTANCE MathConverters
Sir  == INSTANCE SirOoxml

FormulaTasks  == {"scripts", "grouping", "commands", "fences", "tables"}
DocumentTasks == {"blocks", "environments", "headers", "inline"}

-----------------------------------------------------------------------------
(* Inputs.  Of formulas the pieces are tokens or small groups of tokens,   *)
(* of documents lines, or tokens of one paragraph.                         *)

Opening(env) == <<"\\begin{", env, "}", "nl">>
Closing(env) == <<"\\end{", env, "}", "nl">>
LineOf(token) == <<token, "nl">>

Pieces ==
  [scripts |-> {<<"a">>, <<"1">>, <<"^">>, <<"_">>, <<"{">>, <<"}">>, <<"\\alpha", "sp">>},
   grouping |-> {<<"a">>, <<"\\alpha", "sp">>, <<"{">>, <<"}">>, <<"^">>},
   commands |-> {<<"a">>, <<"\\frac", "sp">>, <<"\\sqrt">>, <<"\\sqrt", "[", "1", "]">>, <<"[">>, <<"]">>, <<"{">>, <<"}">>,
                 <<"\\hat">>, <<"\\lim">>, <<"\\overset", "sp">>, <<"^">>},
   fences |-> {<<"a">>, <<"\\left", "(">>, <<"\\right", ")">>, <<"\\left", ".">>, <<"\\">>,
               <<"{">>, <<"}">>, <<"^">>, <<"\\mathbb">>, <<"R">>},
   tables |-> {<<"a">>, <<"1">>, <<"&">>, <<"\\", "\\">>, <<"\\begin", "{", "matrix", "}">>,
               <<"\\end", "{", "matrix", "}">>, <<"\\begin", "{", "cases", "}">>,
               <<"\\end", "{", "cases", "}">>},
   blocks |-> {LineOf("w"), <<"nl">>, <<"\\section{", "w", "}", "nl">>,
               <<"\\chapter*{", "v", "}", "\\label{", "l", "}", "nl">>, <<"\\label{", "l", "}", "nl">>,
               <<"w", "$", "v", "$", "nl">>, Opening("theorem"), Closing("theorem"),
               Opening("equation"), Closing("equation")},
   environments |-> {LineOf("w"), <<"\\item", "v", "nl">>, <<"\\item", "$", "v", "$", "nl">>,
                     <<"\\caption{", "w", "}", "nl">>, <<"\\label{", "l", "}", "nl">>, Opening("itemize"), Closing("itemize"),
                     <<"\\begin{", "minted", "}", "{", "l", "}", "nl">>, Closing("minted"),
                     Opening("figure"), Closing("figure"), Opening("foo"), Closing("foo"),
                     Opening("abstract"), Closing("abstract"), Opening("table"), Closing("table")},
   headers |-> {<<"\\begin{", "theorem", "}", "[", "v", "]", "nl">>,
                <<"\\begin{", "theorem", "}", "\\label{", "l", "}", "nl">>,
                <<"v", "\\end{", "theorem", "}", "w", "nl">>, Closing("theorem"),
                <<"\\begin{", "foo", "}", "{", "w", "}", "nl">>, Closing("foo"),
                <<"\\begin{", "foo", "}", "v", "\\end{", "foo", "}", "nl">>,
                Opening("figure"), Closing("figure"), <<"\\caption{", "w", "}", "\\label{", "l", "}", "nl">>,
                <<"\\label{", "l", "}", "nl">>, <<"\\label{", "m", "}", "nl">>},
   inline |-> {<<"w">>, LineOf("v"), <<"eacute">>, <<"\\textbf{">>, <<"\\textit{">>, <<"{">>, <<"}">>,
               <<"$">>, <<"\\cite{", "l", ",">>, <<"\\ref{">>, <<"~">>, <<"\\\\">>, <<"\\section{">>},
   preamble |-> {<<"\\documentclass", "[", "w", ",", "v", "]", "{", "v", "}", "nl">>,
                 <<"\\usepackage", "{", "w", "}", "nl">>, <<"\\usepackage", "[", "l", "]", "{", "v", "}", "nl">>,
                 <<"\\usepackage", "[", "{", "v", ",", "w", "}", "]", "{", "v", "}", "nl">>,
                 <<"\\usepackage", "]", "{", "w", "}", "[", "nl">>,
                 <<"\\newcommand", "{", "w", "}", "{", "v", "}", "nl">>,
                 <<"\\newcommand", "{", "w", "}", "{", "nl">>, <<"}", "nl">>,
                 <<"\\newtheorem", "{", "w", "}", "{", "v", "}", "nl">>, <<"%", "w", "nl">>, <<"sp", "v", "nl">>,
                 Opening("document"), Closing("document")}]

PieceTasks == DOMAIN Pieces

(* Formulas as Word writes them: a run, or the last one or two parts as    *)
(* the elements of a new one.                                              *)
Part(tag, kids) == Math!Elem(tag, kids)
Wrapped(last) ==
  {Math!Node("rad", "hide", <<>>, <<Part("deg", <<>>), Part("e", <<last>>)>>),
   Math!Node("acc", "", <<>>, <<Part("e", <<last>>)>>),
   Math!Node("d", "", <<"(", ")">>, <<Part("e", <<last>>)>>),
   Part("borderBox", <<Part("e", <<last>>)>>)}
Joined(first, last) ==
  {Part("f", <<Part("num", <<first>>), Part("den", <<last>>)>>),
   Part("sSup", <<Part("e", <<first>>), Part("sup", <<last>>)>>),
   Math!Node("rad", "show", <<>>, <<Part("deg", <<first>>), Part("e", <<last>>)>>),
   Math!Node("nary", "", <<>>, <<Part("sub", <<first>>), Part("e", <<last>>)>>),
   Math!Node("nary", "", <<"int">>, <<Part("sub", <<first>>), Part("sup", <<last>>)>>),
   Math!Node("d", "", <<"(", ")">>, <<Part("e", <<first>>), Part("e", <<last>>)>>),
   Part("limLow", <<Part("e", <<first>>), Part("lim", <<last>>)>>),
   Part("m", <<Part("mr", <<Part("e", <<first>>), Part("e", <<last>>)>>)>>)}
Runs == {Math!Node("r", "i", <<"a">>, <<>>), Math!Node("r", "none", <<"1">>, <<>>),
         Math!Node("r", "none", <<"b">>, <<>>), Math!Node("r", "nor", <<"c">>, <<>>)}

AddPiece == /\ task \in PieceTasks
            /\ \E piece \in Pieces[task] : Grown(input \o piece)

AddRun == /\ task = "omml"
          /\ \E run \in Runs : Grown(Append(input, run))
Wrap   == /\ task = "omml" /\ Len(input) >= 1
          /\ \E node \in Wrapped(input[Len(input)]) : Grown(Append(SubSeq(input, 1, Len(input) - 1), node))
Join   == /\ task = "omml" /\ Len(input) >= 2
          /\ \E node \in Joined(input[Len(input) - 1], input[Len(input)]) :
                Grown(Append(SubSeq(input, 1, Len(input) - 2), node))

Next == AddPiece \/ AddRun \/ Wrap \/ Join \/ ChangesNext
Spec == Init /\ [][Next]_vars

-----------------------------------------------------------------------------
(* Formulas.                                                               *)

IsFormula == task \in FormulaTasks
Tree      == Math!LatexToMathml(input)
Printed   == Math!MathmlToLatex(Tree)

(* The formula after some rounds of printing and parsing. *)
RECURSIVE Rounds(_, _)
Rounds(math, n) == IF n = 0 THEN math ELSE Math!LatexToMathml(Math!MathmlToLatex(Rounds(math, n - 1)))
Again == Rounds(Tree, 1)

(* A formula is complete when every command and script found its operands, *)
(* and plain when its XML is well-formed and no delimiter of the syntax    *)
(* was taken for a symbol.                                                 *)
Syntax == {"{", "}", "^", "_", "&", "[", "]", "\\"}
RECURSIVE Complete(_)
Complete(forest) ==
  \A k \in DOMAIN forest :
    LET node == forest[k] IN
    /\ node.tag \in DOMAIN Math!ArityOf =>
         /\ Len(node.kids) = Math!ArityOf[node.tag]
         /\ Math!Shape(Math!Kid(node, 1)) # <<>>
    /\ node.tag \in Math!LeafTags => node.text # <<>>
    /\ Complete(node.kids)
TokensOf(math) == Math!Texts(<<math>>)
HasToken(math, set) == \E k \in DOMAIN TokensOf(math) : TokensOf(math)[k] \in set
Clean(math) == /\ Math!WellFormed(<<math>>)
               /\ ~Math!Panics(<<math>>)
               /\ Complete(<<math>>)
               /\ ~HasToken(math, Syntax)

Balanced == LET opened(k) == Cardinality({m \in 1..k : input[m] = "{"})
                closed(k) == Cardinality({m \in 1..k : input[m] = "}"})
            IN /\ \A k \in DOMAIN input : closed(k) <= opened(k)
               /\ closed(Len(input)) = opened(Len(input))

Unblanked(tokens) == SelectSeq(tokens, LAMBDA c : c \notin Math!Blanks)

(* Printing and parsing a complete formula without a table settles: what   *)
(* the second round prints, the third prints again.  One round is not      *)
(* enough, 1{1}^a is printed 11^{a}, which groups differently.             *)
FormulaSettles ==
  IsFormula /\ Clean(Tree) /\ ~Math!HasTag(<<Tree>>, {"mtable"}) /\ ~HasToken(Tree, {"RR"})
  => LET PrintedAfter(n) == Unblanked(Math!MathmlToLatex(Rounds(Tree, n)))
     IN Clean(Again) /\ PrintedAfter(3) = PrintedAfter(1)

(* The formula with no rows directly inside a root with a degree. *)
RECURSIVE Unrowed(_), Spliced(_)
Unrowed(forest) ==
  Math!Map(forest, LAMBDA node :
    [node EXCEPT !.kids = IF node.tag = "mroot" THEN Spliced(Unrowed(@)) ELSE Unrowed(@)])
Spliced(forest) ==
  Math!FlattenSeq(Math!Map(forest, LAMBDA node :
    IF node.tag \in Math!Transparent THEN Spliced(node.kids) ELSE <<node>>))

(* A complete formula keeps its structure in Word's notation, but for a    *)
(* root with a degree: radicand and degree come back without a row around  *)
(* them, so that of several parts the second becomes the degree.           *)
WordKeepsFormula ==
  IsFormula /\ Clean(Tree)
  => Math!Shape(<<Math!OmmlToMathml(Math!MathmlToOmml(Tree))>>) = Math!Shape(Unrowed(<<Tree>>))

Spelled(tokens) == Math!FlattenSeq(Math!Map(tokens, LAMBDA c : IF c \in DOMAIN Math!Named THEN Math!Named[c] ELSE <<c>>))
Operands(tokens) == SelectSeq(Spelled(tokens), LAMBDA c : c \in Math!Letters \cup Math!Digits \/ Math!IsSymbol(c))

(* Letters, digits and symbols of a formula come back from MathML all and  *)
(* in their order.                                                         *)
OperandsComeBack ==
  IsFormula /\ Clean(Tree) /\ Balanced => Operands(Printed) = Operands(input)

(* validate_roundtrip calls two formulas equivalent only if they are one   *)
(* formula: parsed again, the recovered text has the structure of the      *)
(* input.                                                                  *)
EquivalentIsSameFormula ==
  IsFormula /\ Clean(Tree) /\ Balanced /\ Math!ValidateRoundtrip(input).isEquivalent
  => Math!Shape(<<Again>>) = Math!Shape(<<Tree>>)

FromWord == Math!OmmlToAll(Part("oMath", input))
Count(tokens, c) == Cardinality({k \in DOMAIN tokens : tokens[k] = c})
RunTexts(forest) == Math!Texts(forest)

(* A formula of Word keeps every letter and digit in MathML and in LaTeX,  *)
(* and, rows inside roots aside, in OOXML again the structure it had.      *)
WordFormulaComesBack ==
  task = "omml" =>
    /\ Math!Shape(<<Math!OmmlToMathml(Math!MathmlToOmml(FromWord.mathml))>>)
         = Math!Shape(Unrowed(<<FromWord.mathml>>))
    /\ \A c \in {"a", "b", "c", "1"} :
         /\ Count(TokensOf(FromWord.mathml), c) = Count(RunTexts(input), c)
         /\ Count(FromWord.latex, c) = Count(RunTexts(input), c)

-----------------------------------------------------------------------------
(* Documents.                                                              *)

IsDocument == task \in DocumentTasks
Body       == Sir!ParseBody(input)
Emitted(body) == Sir!FlattenSeq(Sir!Map(body, LAMBDA b : Sir!EmitBlock(b) \o <<"nl">>))
HasKind(body, kind) == \E k \in DOMAIN body : body[k].kind = kind

(* A document is laid out when environments nest, braces and dollars       *)
(* match, and a heading has its line to itself and its label, with a title *)
(* in ASCII.                                                               *)
Nesting ==
  LET Step(open, k) ==
        CASE input[k] = "\\begin{" -> Append(open, input[k + 1])
          [] input[k] = "\\end{"   -> IF open # <<>> /\ Sir!Last(open) = input[k + 1]
                                      THEN Sir!Front(open) ELSE Append(open, "unmatched")
          [] OTHER                 -> open
  IN Sir!FoldLeft(Step, <<>>, [k \in DOMAIN input |-> k])
Braces ==
  Sir!FoldLeft(LAMBDA depth, t : CASE depth < 0 -> depth [] t \in Sir!Openers -> depth + 1
                                   [] t = "}" -> depth - 1 [] OTHER -> depth, 0, input)
TitleStands(line) ==
  LET brace == Sir!MatchingBrace(line, 1) IN
  Sir!TryHeading(line) # Sir!None =>
    /\ \A k \in 1..brace : line[k] \notin Sir!Wide
    /\ LET after == Sir!From(line, brace + 1) IN
       after # <<>> => after[1] = "\\label{" /\ Sir!Find(after, "}") = Len(after)
InputLines == Sir!Map(Sir!Lines(input), Sir!Trim)
LaidOut ==
  /\ Nesting = <<>> /\ Braces = 0 /\ Count(input, "$") % 2 = 0
  /\ \A lines \in {InputLines} : \A k \in DOMAIN lines : TitleStands(lines[k])

Words(tokens) == SelectSeq(tokens, Sir!IsWord)

(* The words on the lines of the input without a \begin or an \end. *)
IsMarker(t)   == t \in {"\\begin{", "\\end{"}
IsPlain(line) == \A k \in DOMAIN line : ~IsMarker(line[k])
PlainWords    == Words(Sir!FlattenSeq(SelectSeq(InputLines, IsPlain)))

(* What is left of the whole when some of it is taken out. *)
RECURSIVE IsLeftOf(_, _)
IsLeftOf(part, whole) ==
  part # <<>> =>
    LET k == Sir!Find(whole, Head(part)) IN
    k <= Len(whole) /\ IsLeftOf(Tail(part), Sir!From(whole, k + 1))

(* Read as SIR and written as LaTeX, a document without figures has every  *)
(* word in its place that does not share its line with the \begin or the   *)
(* \end of an environment, and no word that it had not.  What does share   *)
(* its line, the name of a theorem or the text behind an \end, is dropped  *)
(* if the environment is read as one.                                      *)
LatexTripKeepsWords ==
  IsDocument /\ LaidOut /\ ~HasKind(Body, "figure") /\ Count(input, "figure") = 0
  => \A written \in {Words(Emitted(Body))} :
       IsLeftOf(PlainWords, written) /\ IsLeftOf(written, Words(input))

LabelsOf(tokens) == {tokens[k + 1] : k \in {m \in DOMAIN tokens : tokens[m] = "\\label{"}}

(* Is line k of the lines inside a figure, and does a line of the same     *)
(* figure below it give the figure another label?                          *)
LinesWith(lines, piece, k) == Cardinality({m \in 1..k : Sir!HasPiece(lines[m], piece)})
InFigure(lines, k) ==
  \E env \in Sir!Figures :
    LinesWith(lines, Sir!BeginOf(<<env>>), k) > LinesWith(lines, Sir!EndOf(<<env>>), k)
IsLabelLine(line) == Sir!StartsWith(line, {"\\label{"})
Overridden(lines, k) ==
  \E m \in (k + 1)..Len(lines) : IsLabelLine(lines[m]) /\ \A n \in k..m : InFigure(lines, n)

(* The labels that are read: in a figure the first of the last line that   *)
(* starts with one, elsewhere all that do not share their line with a      *)
(* \begin or an \end.                                                      *)
LabelsRead(lines, k) ==
  IF ~IsPlain(lines[k]) THEN {}
  ELSE IF ~InFigure(lines, k) THEN LabelsOf(lines[k])
  ELSE IF IsLabelLine(lines[k]) /\ ~Overridden(lines, k) THEN {lines[k][2]} ELSE {}

Labelled == Sir!MathEnvs \cup Sir!TheoremEnvs
Opened(envs) == Cardinality({k \in DOMAIN input : input[k] = "\\begin{" /\ input[k + 1] \in envs})

(* If every \begin and every \end has a line of its own or shares it with  *)
(* text only, a trip keeps all labels that are read and makes up none.  Of *)
(* each formula and each theorem the label stands in the text already and  *)
(* may be written once more, so that is all a trip may add.                *)
LatexTripKeepsLabels ==
  IsDocument /\ LaidOut =>
    \A lines \in {InputLines}, written \in {Emitted(Body)} :
      (\A k \in DOMAIN lines : Len(SelectSeq(lines[k], IsMarker)) <= 1) =>
        /\ LabelsOf(written) \subseteq LabelsOf(input)
        /\ \A k \in DOMAIN lines : LabelsRead(lines, k) \subseteq LabelsOf(written)
        /\ Count(written, "\\label{") <= Count(input, "\\label{") + Opened(Labelled)

(* The structure of a document, its labels and blanks aside. *)
RECURSIVE Visible(_), Skeleton(_)
Visible(tokens) ==
  CASE tokens = <<>> -> <<>>
    [] tokens[1] = "\\label{"   -> Visible(Sir!From(tokens, Sir!Find(tokens, "}") + 1))
    [] Sir!Blank(tokens[1])     -> Visible(Tail(tokens))
    [] OTHER                    -> <<tokens[1]>> \o Visible(Tail(tokens))
SkeletonOf(b) == [kind |-> b.kind, attr |-> b.attr, text |-> Visible(b.text),
                  inline |-> Visible(Sir!EmitInline(b.inline)), kids |-> Skeleton(b.kids)]
Skeleton(body) ==
  SelectSeq(Sir!Map(body, SkeletonOf), LAMBDA b : b.kind # "paragraph" \/ b.inline # <<>>)

Unwrapped == Count(input, "table") + Count(input, "abstract")
SameSkeleton(body) == Skeleton(Sir!ParseBody(Emitted(body))) = Skeleton(body)

(* One trip through SIR settles the structure of a document: what the      *)
(* first trip made, the second leaves.  Tables and abstracts lose their    *)
(* environment in a trip, so one within the other takes a trip more.       *)
LatexTripSettles ==
  IsDocument /\ LaidOut /\ Unwrapped <= 2 => SameSkeleton(Sir!ParseBody(Emitted(Body)))

BracedOptions(doc) ==
  \E k \in DOMAIN doc.preamble.packages :
    LET options == doc.preamble.packages[k].options IN
    \E n \in DOMAIN options : Count(options[n], "{") > 0

(* The preamble is read back as it was written.  A package with braces in  *)
(* its options is the exception: its name is taken from the first brace of *)
(* the line, and if a comma stands there, the options are written with a   *)
(* blank after it; what was read from that comes back.                     *)
PreambleComesBack ==
  task = "preamble" =>
    \A doc \in {Sir!LatexToSir(input)} : ~HasKind(doc.body, "panic") =>
      \A again \in {Sir!LatexToSir(Sir!SirToLatex(doc))} :
        /\ ~BracedOptions(doc) => again.preamble = doc.preamble
        /\ Sir!LatexToSir(Sir!SirToLatex(again)).preamble = again.preamble

RECURSIVE Prose(_)
Prose(inline) ==
  LET Of(e) == CASE e.type \in {"text", "math"} -> Words(e.text)
                 [] e.type = "styled" -> Prose(e.kids)
                 [] OTHER -> <<>>
  IN Sir!FlattenSeq(Sir!Map(inline, Of))
RECURSIVE WordsOf(_)
WordsOf(body) == Sir!FlattenSeq(Sir!Map(body, LAMBDA b : Words(b.text) \o Prose(b.inline) \o WordsOf(b.kids)))
Xml     == Sir!SirToOoxml([body |-> Body])
Trip(body) == Sir!OoxmlToSir(Sir!SirToOoxml([body |-> body])).body
BackIn  == Trip(Body)
Mixed(p) == Cardinality({p.items[k].type = "math" : k \in DOMAIN p.items}) = 2
HasReference == \E k \in DOMAIN input : input[k] \in Sir!RefCommands

(* Through Word and back, a document whose paragraphs hold either text or  *)
(* one formula keeps every word of its prose and code; figures and         *)
(* references keep none.                                                   *)
WordTripKeepsWords ==
  IsDocument /\ LaidOut /\ ~HasReference /\ Count(input, "figure") = 0 /\ (\A k \in DOMAIN Xml : ~Mixed(Xml[k]))
  => WordsOf(BackIn) = WordsOf(Body)

(* And a second trip through Word changes nothing any more, unless a       *)
(* formula stands where it is not read as what it was written from (one in *)
(* a list becomes one in a paragraph, and that a displayed one); then a    *)
(* third trip changes nothing.                                             *)
WordTripSettles ==
  IsDocument /\ ~HasKind(Body, "panic") =>
    \A first \in {BackIn} : \A second \in {Trip(first)} :
      \/ second = first
      \/ Trip(second) = second /\ \E k \in DOMAIN Xml : ~Sir!FormulaStands(Xml[k])

(* round_trip_latex keeps the words of a document. *)
RoundTripKeepsWords ==
  IsDocument /\ LaidOut /\ ~HasReference /\ Count(input, "figure") = 0
  => Words(Sir!RoundTripLatex(input)) = Words(input)
=============================================================================
