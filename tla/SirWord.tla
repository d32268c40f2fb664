------------------------------- MODULE SirWord ------------------------------
(***************************************************************************)
(* One level of a document as OOXML and back: sir_to_ooxml.rs and          *)
(* ooxml_to_sir.rs without what contains other blocks or runs.  The body   *)
(* of document.xml is a sequence of paragraphs with the style name, the    *)
(* runs and the formulas that ooxml_to_sir looks at; a field (REF) leaves  *)
(* one run behind, its other runs carry no text and are dropped when read. *)
(*                                                                         *)
(* What a writer makes of nested content is a parameter: Inner(inline), of *)
(* the content of a styled run, and Other(b), of the blocks that are       *)
(* neither heading nor paragraph nor formula.  SirOoxml ties the knot.     *)
(***************************************************************************)
EXTENDS SirModel

P(style, items) == [style |-> style, items |-> items]
Run(props, text) == [type |-> "run", props |-> props, text |-> text]
BreakRun         == [type |-> "br", props |-> {}, text |-> <<>>]
OMath(text)      == [type |-> "math", props |-> {}, text |-> text]

-----------------------------------------------------------------------------
(* SIR to OOXML.                                                           *)

(* flatten_inline_text: references and line breaks have no text. *)
TextOf(Inner(_), e) ==
  CASE e.type \in {"text", "math"} -> e.text
    [] e.type = "styled" -> Inner(e.kids)
    [] e.type = "nbsp"   -> <<"sp">>
    [] OTHER             -> <<>>
FlattenWith(Inner(_), inline) == FlattenSeq(Map(inline, LAMBDA e : TextOf(Inner, e)))

(* emit_inline_run: a citation is written as the program would debug it. *)
InlineRunWith(Inner(_), e) ==
  CASE e.type = "text"   -> Run({}, e.text)
    [] e.type = "styled" -> Run({e.attr}, FlattenWith(Inner, e.kids))
    [] e.type = "math"   -> OMath(e.text)
    [] e.type = "nbsp"   -> Run({}, <<"sp">>)
    [] e.type = "break"  -> BreakRun
    [] e.type = "ref"    -> Run({}, <<"[">> \o e.text \o <<"]">>)
    [] e.type = "cite"   -> Run({}, <<"Citation">> \o FlattenSeq(e.kids))
InlineRunsWith(Inner(_), inline) == Map(inline, LAMBDA e : InlineRunWith(Inner, e))

\* Bug: every heading goes one level down.
BugHeadingStyle(depth) ==
  CASE depth <= 0 -> "Heading1" [] depth = 1 -> "Heading2" [] depth = 2 -> "Heading3"
    [] depth = 3 -> "Heading4" [] OTHER -> "Heading5"
HeadingStyle(depth) ==
  CASE depth <= 1 -> "Heading1" [] depth = 2 -> "Heading2" [] depth = 3 -> "Heading3"
    [] depth = 4 -> "Heading4" [] OTHER -> "Heading5"

(* emit_block_xml *)
BlockWith(Inner(_), Other(_), b) ==
  CASE b.kind = "heading"   -> <<P(Some(HeadingStyle(b.attr[1])), InlineRunsWith(Inner, b.inline))>>
    [] b.kind = "paragraph" -> <<P(None, InlineRunsWith(Inner, b.inline))>>
    [] b.kind = "math"      -> <<P(None, <<OMath(b.text)>>)>>
    [] OTHER                -> Other(b)

SirToOoxmlWith(Inner(_), Other(_), doc) ==
  FlattenSeq(Map(doc.body, LAMBDA b : BlockWith(Inner, Other, b)))

-----------------------------------------------------------------------------
(* OOXML to SIR.                                                           *)

(* parse_run: a run without text is dropped, one with a break is only the  *)
(* break.  Of the properties those with a value (w:val, w:ascii) are       *)
(* looked up without their namespace and never found.                      *)
Readable == {"bold", "italic", "smallcaps"}
RunContent(item) ==
  LET styles == item.props \cap Readable IN
  IF styles = {} THEN Text(item.text)
                 ELSE Styled(CHOOSE style \in styles : TRUE, <<Text(item.text)>>)
ParseItem(item) ==
  CASE item.type = "br"                       -> <<LineBreak>>
    [] item.type # "br" /\ item.text = <<>>   -> <<>>
    [] item.type = "math" /\ item.text # <<>> -> <<InlineMath(item.text)>>
    [] item.type = "run" /\ item.text # <<>>  -> <<RunContent(item)>>

Content(p) == FlattenSeq(Map(p.items, ParseItem))
HasMath(p) == \E k \in DOMAIN p.items : p.items[k].type = "math"
Formulas(content) ==
  FlattenSeq(Map(content, LAMBDA e : IF e.type = "math" THEN <<e.text>> ELSE <<>>))
Equation(content) == MathBlock("equation", JoinWith(Formulas(content), <<"nl">>), None)

(* The styles that make a heading, with its depth. *)
DepthOf    == [Heading1 |-> 1, Heading2 |-> 2, Heading3 |-> 3]
IsTitle(p) == p.style # None /\ p.style[1] \in DOMAIN DepthOf

\* Bug: a paragraph with a style nobody knows is skipped.
BugParagraphToSir(p) ==
  LET content == Content(p) IN
  IF content = <<>> \/ (p.style # None /\ ~IsTitle(p)) THEN <<>>
  ELSE <<CASE IsTitle(p)                    -> Heading(DepthOf[p.style[1]], FALSE, content, None)
           [] p.style = None /\ HasMath(p)  -> Equation(content)
           [] p.style = None /\ ~HasMath(p) -> Paragraph(content)>>
(* parse_paragraph: a formula in a paragraph without a style makes it a    *)
(* displayed formula, of which only the formulas are kept.  Read but never *)
(* written by sir_to_ooxml, and left out here: tables, hyperlinks, heading *)
(* styles in small letters, and the style of a document's title, which no  *)
(* parser sets.                                                            *)
ParagraphToSir(p) ==
  LET content == Content(p) IN
  IF content = <<>> THEN <<>>
  ELSE <<CASE IsTitle(p)                   -> Heading(DepthOf[p.style[1]], FALSE, content, None)
           [] p.style = None /\ HasMath(p) -> Equation(content)
           [] OTHER                        -> Paragraph(content)>>

OoxmlToSir(xml) ==
  [preamble |-> EmptyPreamble, body |-> FlattenSeq(Map(xml, ParagraphToSir))]

-----------------------------------------------------------------------------
(* Read again after a trip, the paragraph is the block it was: its formula *)
(* has a text and is alone in deciding what the paragraph is, or stands in *)
(* a heading.                                                              *)
FormulaStands(p) ==
  HasMath(p) => IF p.style = None
                THEN \E k \in DOMAIN p.items : p.items[k].type = "math" /\ p.items[k].text # <<>>
                ELSE IsTitle(p)
=============================================================================
