--------------------------- MODULE MathConverters ---------------------------
(***************************************************************************)
(* The other three converters of the math-pipeline and the pipeline that   *)
(* chains the four: mathml_to_latex, mathml_to_omml, omml_to_mathml.       *)
(***************************************************************************)
EXTENDS LatexMath

Braced(t) == <<"{">> \o t \o <<"}">>
Join(pieces, sep) ==
  FlattenSeq([k \in DOMAIN pieces |-> IF k = 1 THEN pieces[1] ELSE sep \o pieces[k]])

-----------------------------------------------------------------------------
(* MathML to LaTeX.                                                        *)

(* unicode_to_latex: a symbol with a known name is written as its command  *)
(* and a space, every other text as it stands.                             *)
Commands == [t \in {"alpha", "beta", "leq", "sum", "int", "langle", "rangle", "arrow"} |->
   CASE t = "alpha" -> "\\alpha" [] t = "beta" -> "\\beta" [] t = "leq" -> "\\leq"
     [] t = "sum" -> "\\sum" [] t = "int" -> "\\int" [] t = "langle" -> "\\langle"
     [] t = "rangle" -> "\\rangle" [] OTHER -> "\\rightarrow"]
UnicodeToLatex(text) ==
  IF Len(text) = 1 /\ text[1] \in DOMAIN Commands THEN <<Commands[text[1]], "sp">>
  ELSE IF text = <<"RR">> THEN <<"\\mathbb", "{", "R", "}">> ELSE text

(* wrap_if_needed: braces around a base of several characters, unless it   *)
(* starts with a backslash or a brace.                                     *)
WrapIfNeeded(t) ==
  IF (Len(t) > 1 \/ (Len(t) = 1 /\ t[1] \in Wide)) /\ ~IsCommand(t[1]) /\ t[1] # "{"
  THEN Braced(t) ELSE t

Variants == [v \in {"double-struck", "script", "normal", "bold"} |->
   CASE v = "double-struck" -> "\\mathbb" [] v = "script" -> "\\mathcal"
     [] v = "normal" -> "\\mathrm" [] OTHER -> "\\mathbf"]
Overs  == [t \in {"^", "macron", "arrow", "brace"} |->
   CASE t = "^" -> "\\hat" [] t = "macron" -> "\\bar" [] t = "arrow" -> "\\vec" [] OTHER -> "\\overbrace"]

RECURSIVE ToLatex(_), ChildrenToLatex(_)
ChildrenToLatex(forest) == FlattenSeq(Map(forest, ToLatex))
KidToLatex(node, k) == ChildrenToLatex(Kid(node, k))

\* Bug: the braces of the format string are doubled.
BugLeafToLatex(node) ==
  CASE node.tag = "mi" /\ node.attr \in DOMAIN Variants -> <<Variants[node.attr]>> \o Braced(Braced(node.text))
    [] node.tag = "mn"    -> IF node.text = <<>> THEN <<"0">> ELSE node.text
    [] node.tag = "mtext" -> <<"\\text">> \o Braced(node.text)
    [] OTHER              -> UnicodeToLatex(node.text)
LeafToLatex(node) ==
  CASE node.tag = "mi" /\ node.attr \in DOMAIN Variants -> <<Variants[node.attr]>> \o Braced(node.text)
    [] node.tag = "mn"    -> IF node.text = <<>> THEN <<"0">> ELSE node.text
    [] node.tag = "mtext" -> <<"\\text">> \o Braced(node.text)
    [] OTHER              -> UnicodeToLatex(node.text)

\* Bug: numerator and denominator change places.
BugFractionToLatex(node) == <<"\\frac">> \o Braced(KidToLatex(node, 2)) \o Braced(KidToLatex(node, 1))
FractionToLatex(node) == <<"\\frac">> \o Braced(KidToLatex(node, 1)) \o Braced(KidToLatex(node, 2))
RootToLatex(node) ==
  IF node.tag = "msqrt" THEN <<"\\sqrt">> \o Braced(ChildrenToLatex(node.kids))
  ELSE <<"\\sqrt", "[">> \o KidToLatex(node, 2) \o <<"]">> \o Braced(KidToLatex(node, 1))

ScriptToLatex(node) ==
  LET base == WrapIfNeeded(KidToLatex(node, 1))
      sub  == <<"_">> \o Braced(KidToLatex(node, 2))
      sup(k) == <<"^">> \o Braced(KidToLatex(node, k))
  IN CASE node.tag = "msup" -> base \o sup(2)
       [] node.tag = "msub" -> base \o sub
       [] node.tag = "msubsup" -> base \o sub \o sup(3)
       [] OTHER -> KidToLatex(node, 1) \o sub \o sup(3)

(* mover and munder: an accent is recognised by the text of the second     *)
(* child, a row having none.                                               *)
OverUnderToLatex(node) ==
  LET base == Braced(KidToLatex(node, 1))
      mark == IF Len(node.kids) < 2 THEN <<>> ELSE node.kids[2].text
      known == Len(mark) = 1 /\ mark[1] \in (IF node.tag = "mover" THEN DOMAIN Overs ELSE {"_"})
  IN IF known THEN <<IF node.tag = "mover" THEN Overs[mark[1]] ELSE "\\underline">> \o base
     ELSE <<IF node.tag = "mover" THEN "\\overset" ELSE "\\underset">>
          \o Braced(KidToLatex(node, 2)) \o base \o <<"sp">>

TableToLatex(node) ==
  LET CellToLatex(cell) == ChildrenToLatex(cell.kids)
      RowToLatex(row) == Join(Map(row.kids, CellToLatex), <<"sp", "&", "sp">>)
  IN Join(Map(node.kids, RowToLatex), <<"sp", "\\", "\\", "nl">>)

EnclosedToLatex(node) ==
  LET content == ChildrenToLatex(node.kids) IN
  CASE node.tag = "mphantom" -> <<"\\phantom">> \o Braced(content)
    [] node.attr = "box"     -> <<"\\boxed">> \o Braced(content)
    [] OTHER                 -> <<"\\cancel">> \o Braced(content)

SpaceToLatex(node) == IF node.attr = "1em" THEN <<"\\quad", "sp">> ELSE <<"\\", ",", "sp">>

ToLatex(node) ==
  CASE node.tag \in LeafTags -> LeafToLatex(node)
    [] node.tag = "mfrac"    -> FractionToLatex(node)
    [] node.tag \in {"msqrt", "mroot"} -> RootToLatex(node)
    [] node.tag \in {"msup", "msub", "msubsup", "munderover"} -> ScriptToLatex(node)
    [] node.tag \in {"mover", "munder"} -> OverUnderToLatex(node)
    [] node.tag = "mtable"   -> TableToLatex(node)
    [] node.tag \in {"mphantom", "menclose"} -> EnclosedToLatex(node)
    [] node.tag = "mspace"   -> SpaceToLatex(node)
    [] OTHER                 -> ChildrenToLatex(node.kids)

ParseError == <<"\\text", "{", "[", "word", "]", "}">>
MathmlToLatex(math) == IF WellFormed(<<math>>) THEN ToLatex(math) ELSE ParseError

-----------------------------------------------------------------------------
(* MathML to OMML.                                                         *)

RECURSIVE ToOmml(_), ChildrenToOmml(_)
ChildrenToOmml(forest) == FlattenSeq(Map(forest, ToOmml))
Part(tag, node, k) == Elem(tag, ChildrenToOmml(Kid(node, k)))
Content(node) == Elem("e", ChildrenToOmml(node.kids))

(* A run carries a style for identifiers, and a mark for text. *)
Run(node) ==
  CASE node.tag = "mi" -> Node("r", IF node.attr = "" THEN "i" ELSE node.attr, node.text, <<>>)
    [] node.tag = "mn" -> Node("r", "none", IF node.text = <<>> THEN <<"0">> ELSE node.text, <<>>)
    [] node.tag = "mo" -> Node("r", "none", node.text, <<>>)
    [] OTHER           -> Node("r", "nor", node.text, <<>>)

RadicalToOmml(node) ==
  IF node.tag = "msqrt" THEN Node("rad", "hide", <<>>, <<Elem("deg", <<>>), Content(node)>>)
  ELSE Node("rad", "show", <<>>, <<Part("deg", node, 2), Part("e", node, 1)>>)

ScriptToOmml(node) ==
  CASE node.tag = "msup" -> Elem("sSup", <<Part("e", node, 1), Part("sup", node, 2)>>)
    [] node.tag = "msub" -> Elem("sSub", <<Part("e", node, 1), Part("sub", node, 2)>>)
    [] OTHER -> Elem("sSubSup", <<Part("e", node, 1), Part("sub", node, 2), Part("sup", node, 3)>>)

\* Bug: the limit of a mover goes below.
BugLimitToOmml(node) ==
  LET Mark(k) == IF k <= Len(node.kids) THEN node.kids[k].text ELSE <<>> IN
  CASE node.tag = "mover" /\ node.attr = "accent" ->
         Node("acc", "", Mark(2), <<Part("e", node, 1)>>)
    [] node.tag \in {"mover", "munder"} -> Elem("limLow", <<Part("e", node, 1), Part("lim", node, 2)>>)
    [] OTHER -> Node("nary", "", Mark(1), <<Part("sub", node, 2), Part("sup", node, 3), Elem("e", <<>>)>>)
(* An over- or underscript is a limit unless it says it is an accent; the  *)
(* operator of munderover becomes the character of an n-ary, with an empty *)
(* body.                                                                   *)
LimitToOmml(node) ==
  LET Mark(k) == IF k <= Len(node.kids) THEN node.kids[k].text ELSE <<>> IN
  CASE node.tag = "mover" /\ node.attr = "accent" ->
         Node("acc", "", Mark(2), <<Part("e", node, 1)>>)
    [] node.tag = "mover"  -> Elem("limUpp", <<Part("e", node, 1), Part("lim", node, 2)>>)
    [] node.tag = "munder" -> Elem("limLow", <<Part("e", node, 1), Part("lim", node, 2)>>)
    [] OTHER -> Node("nary", "", Mark(1), <<Part("sub", node, 2), Part("sup", node, 3), Elem("e", <<>>)>>)

TableToOmml(node) ==
  Elem("m", Map(node.kids, LAMBDA row : Elem("mr", Map(row.kids, Content))))

ToOmml(node) ==
  CASE node.tag \in LeafTags          -> <<Run(node)>>
    [] node.tag = "mfrac"             -> <<Elem("f", <<Part("num", node, 1), Part("den", node, 2)>>)>>
    [] node.tag \in {"msqrt", "mroot"} -> <<RadicalToOmml(node)>>
    [] node.tag \in {"msup", "msub", "msubsup"} -> <<ScriptToOmml(node)>>
    [] node.tag \in {"mover", "munder", "munderover"} -> <<LimitToOmml(node)>>
    [] node.tag = "mtable"            -> <<TableToOmml(node)>>
    [] node.tag = "mspace"            -> <<>>
    [] node.tag = "mphantom"          -> <<Elem("phant", <<Content(node)>>)>>
    [] node.tag = "menclose"          -> <<Elem("borderBox", <<Content(node)>>)>>
    [] OTHER                          -> ChildrenToOmml(node.kids)

OmmlParseError == <<Node("r", "none", <<"word">>, <<>>)>>
MathmlToOmml(math) ==
  Elem("oMath", IF WellFormed(<<math>>) THEN ToOmml(math) ELSE OmmlParseError)

-----------------------------------------------------------------------------
(* OMML to MathML.                                                         *)

RECURSIVE FromOmml(_), ChildrenFromOmml(_)
ChildrenFromOmml(forest) == FlattenSeq(Map(forest, FromOmml))

(* The first child of that tag, converted. *)
Found(node, tag) ==
  LET of == SelectSeq(node.kids, LAMBDA kid : kid.tag = tag) IN
  IF of = <<>> THEN <<>> ELSE ChildrenFromOmml(Head(of).kids)
Has(node, tag) == \E k \in DOMAIN node.kids : node.kids[k].tag = tag
RowOf(node, tag) == Row(Found(node, tag))

(* A run without a style: only digits (or nothing) make a number, a single *)
(* letter an identifier, everything else an operator.                      *)
PlainRun(text) ==
  CASE \A k \in DOMAIN text : text[k] \in Digits \cup {"0", "."} -> Leaf("mn", text)
    [] Len(text) = 1 /\ text[1] \in Letters -> Leaf("mi", text)
    [] OTHER -> Leaf("mo", text)
RunToMathml(r) ==
  CASE r.attr = "none" -> PlainRun(r.text)
    [] r.attr = "nor"  -> Leaf("mtext", r.text)
    [] r.attr = "i"    -> Leaf("mi", r.text)
    [] OTHER           -> Node("mi", r.attr, r.text, <<>>)

\* Bug: the degree comes first, as it does in OMML.
BugRadicalToMathml(rad) ==
  IF rad.attr = "hide" THEN Elem("msqrt", Found(rad, "e"))
  ELSE Elem("mroot", Found(rad, "deg") \o Found(rad, "e"))
RadicalToMathml(rad) ==
  IF rad.attr = "hide" THEN Elem("msqrt", Found(rad, "e"))
  ELSE Elem("mroot", Found(rad, "e") \o Found(rad, "deg"))

ScriptToMathml(s) ==
  CASE s.tag = "sSup" -> Elem("msup", <<RowOf(s, "e"), RowOf(s, "sup")>>)
    [] s.tag = "sSub" -> Elem("msub", <<RowOf(s, "e"), RowOf(s, "sub")>>)
    [] OTHER -> Elem("msubsup", <<RowOf(s, "e"), RowOf(s, "sub"), RowOf(s, "sup")>>)

NaryToMathml(nary) ==
  LET chr == Leaf("mo", IF nary.text = <<>> THEN <<"sum">> ELSE nary.text)
      op  == CASE Has(nary, "sub") /\ Has(nary, "sup") ->
                    Elem("munderover", <<chr, RowOf(nary, "sub"), RowOf(nary, "sup")>>)
               [] Has(nary, "sub") -> Elem("munder", <<chr, RowOf(nary, "sub")>>)
               [] Has(nary, "sup") -> Elem("mover", <<chr, RowOf(nary, "sup")>>)
               [] OTHER -> chr
  IN <<op>> \o Found(nary, "e")

AccentToMathml(acc) ==
  Node("mover", "accent", <<>>,
       <<RowOf(acc, "e"), Leaf("mo", IF acc.text = <<>> THEN <<"^">> ELSE acc.text)>>)

(* d: the delimiters and, between several elements, commas. *)
DelimiterToMathml(d) ==
  LET es == SelectSeq(d.kids, LAMBDA kid : kid.tag = "e") IN
  Row(<<Leaf("mo", <<d.text[1]>>)>>
      \o Join(Map(es, LAMBDA e : ChildrenFromOmml(e.kids)), <<Leaf("mo", <<",">>)>>)
      \o <<Leaf("mo", <<d.text[2]>>)>>)

MatrixToMathml(m) ==
  LET CellOf(e) == Elem("mtd", ChildrenFromOmml(e.kids)) IN
  Elem("mtable", Map(m.kids, LAMBDA mr : Elem("mtr", Map(mr.kids, CellOf))))

LimitToMathml(lim) ==
  Elem(IF lim.tag = "limLow" THEN "munder" ELSE "mover", <<RowOf(lim, "e"), RowOf(lim, "lim")>>)

FromOmml(node) ==
  CASE node.tag = "r"    -> <<RunToMathml(node)>>
    [] node.tag = "f"    -> <<Elem("mfrac", <<RowOf(node, "num"), RowOf(node, "den")>>)>>
    [] node.tag = "rad"  -> <<RadicalToMathml(node)>>
    [] node.tag \in {"sSup", "sSub", "sSubSup"} -> <<ScriptToMathml(node)>>
    [] node.tag = "nary" -> NaryToMathml(node)
    [] node.tag = "acc"  -> <<AccentToMathml(node)>>
    [] node.tag = "d"    -> <<DelimiterToMathml(node)>>
    [] node.tag = "m"    -> <<MatrixToMathml(node)>>
    [] node.tag \in {"limLow", "limUpp"} -> <<LimitToMathml(node)>>
    [] node.tag = "borderBox" -> <<Node("menclose", "box", <<>>, Found(node, "e"))>>
    [] node.tag = "phant"     -> <<Elem("mphantom", Found(node, "e"))>>
    [] OTHER             -> ChildrenFromOmml(node.kids)

OmmlToMathml(omml) == Elem("math", FromOmml(omml))

-----------------------------------------------------------------------------
(* pipeline.rs.                                                            *)

LatexToAll(s) ==
  LET math == LatexToMathml(s) IN [latex |-> s, mathml |-> math, omml |-> MathmlToOmml(math)]
OmmlToAll(omml) ==
  LET math == OmmlToMathml(omml) IN [latex |-> MathmlToLatex(math), mathml |-> math, omml |-> omml]
MathmlToAll(math) ==
  [latex |-> MathmlToLatex(math), mathml |-> math, omml |-> MathmlToOmml(math)]

NormalizeLatex(t) == SelectSeq(t, LAMBDA c : c \notin {"sp", "\\left", "\\right", "{", "}"})
ValidateRoundtrip(s) ==
  LET math == LatexToMathml(s)
      recovered == MathmlToLatex(math)
  IN [mathml |-> math, recovered |-> recovered,
      isEquivalent |-> NormalizeLatex(s) = NormalizeLatex(recovered)]
=============================================================================
