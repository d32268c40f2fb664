------------------------------ MODULE SirOoxml ------------------------------
(***************************************************************************)
(* The intermediate representation to OOXML, blocks that contain others    *)
(* included (sir_to_ooxml.rs), and the round trip of transform/mod.rs.     *)
(***************************************************************************)
EXTENDS SirLatex, SirWord

(* flatten_inline_text and emit_inline_run *)
RECURSIVE Flatten(_)
Flatten(inline) == FlattenWith(Flatten, inline)

InlineRuns(inline) == InlineRunsWith(Flatten, inline)

(* emit_block_xml: the blocks that contain others, and the rest. *)
RECURSIVE BlockToOoxml(_)
ContainerToOoxml(b) ==
  CASE b.kind = "list"    -> Map(b.kids, LAMBDA item : P(Some("ListParagraph"), InlineRuns(item.inline)))
    [] b.kind = "code"    -> Map(Lines(b.text), LAMBDA line : P(Some("Code"), <<Run({"rFonts"}, line)>>))
    [] b.kind = "theorem" -> <<P(Some("TheoremHeader"), <<Run({"bold"}, <<b.attr, ".">>)>>)>>
                             \o FlattenSeq(Map(b.kids, BlockToOoxml))
    [] b.kind = "raw"     -> <<P(None, <<Run({"vanish"}, b.text)>>)>>
    [] OTHER              -> <<P(None, <<Run({}, <<"[Unsupported]">>)>>)>>
BlockToOoxml(b) == BlockWith(Flatten, ContainerToOoxml, b)

SirToOoxml(doc) == SirToOoxmlWith(Flatten, ContainerToOoxml, doc)

(* round_trip_latex. *)
RoundTripLatex(source) == SirToLatex(OoxmlToSir(SirToOoxml(LatexToSir(source))))
=============================================================================
