------------------------------ MODULE MathTree ------------------------------
(***************************************************************************)
(* The formulas the math-pipeline exchanges, as data.  LaTeX is a sequence *)
(* of tokens; MathML and OMML are trees of nodes with a tag, at most one   *)
(* attribute that matters, a text (tokens too) and children.  The code     *)
(* passes strings around and parses them again at every stage, so a tree   *)
(* here is what roxmltree sees of the string; a tree with a "stray" node   *)
(* stands for a string that is not well-formed XML.                        *)
(***************************************************************************)
EXTENDS Naturals, Sequences, SequencesExt

Node(tag, attr, text, kids) == [tag |-> tag, attr |-> attr, text |-> text, kids |-> kids]
Leaf(tag, text) == Node(tag, "", text, <<>>)
Elem(tag, kids) == Node(tag, "", <<>>, kids)
Row(kids)       == Elem("mrow", kids)

Map(seq, Op(_)) == FoldLeft(LAMBDA done, x : Append(done, Op(x)), <<>>, seq)

(* The k-th child as a forest: the code's children.get(k) with its default. *)
Kid(node, k) == IF k <= Len(node.kids) THEN <<node.kids[k]>> ELSE <<>>

-----------------------------------------------------------------------------
(* The alphabet.  A one-letter token is one ASCII character; a token that  *)
(* starts with a backslash is a command; the names of the symbols ("alpha" *)
(* for the Greek letter) are single characters outside ASCII.              *)

Letters    == {"a", "b", "c", "f", "i", "l", "m", "n", "s"}
Digits     == {"1", "2", "3"}
Operators  == {"(", ")", "[", "]", "+", "-", "=", "<", ",", "|", "/"}
Delimiters == {"(", ")", "[", "]", "|"}
Blanks     == {"sp", "nl"}
EnvNames   == {"matrix", "pmatrix", "cases", "aligned", "gathered", "array", "split", "word"}

(* symbols.rs: the symbols a command name stands for, and those of them    *)
(* mathml_to_latex knows the way back of.                                  *)
Greek     == [c \in {"\\alpha", "\\beta"} |-> IF c = "\\alpha" THEN "alpha" ELSE "beta"]
Relations == [c \in {"\\leq", "\\aleph"} |-> IF c = "\\leq" THEN "leq" ELSE "aleph"]
Large     == [c \in {"\\sum", "\\int"} |-> IF c = "\\sum" THEN "sum" ELSE "int"]
Fences    == [c \in {"\\langle", "\\rangle"} |-> IF c = "\\langle" THEN "langle" ELSE "rangle"]
Named     == [c \in {"\\lim", "\\sin"} |->
                IF c = "\\lim" THEN <<"l", "i", "m">> ELSE <<"s", "i", "n">>]

SymbolOf == Greek @@ Relations
IsSymbol(c) == c \in DOMAIN SymbolOf

(* Characters of more than one byte.  The parser advances one byte per     *)
(* character, so one that is consumed as a character leaves the position   *)
(* inside it and the next look at the input panics.                        *)
Accents == [c \in {"\\hat", "\\bar", "\\vec", "\\overbrace"} |->
              CASE c = "\\hat" -> "^" [] c = "\\bar" -> "macron"
                [] c = "\\vec" -> "arrow" [] OTHER -> "brace"]
Wide == {"alpha", "beta", "leq", "aleph", "sum", "int", "langle", "rangle",
         "macron", "arrow", "brace", "RR", "eacute"}

IsWide(c) == c \in Wide

-----------------------------------------------------------------------------
RECURSIVE Texts(_)
(* The texts of a forest, left to right. *)
Texts(forest) == FlattenSeq(Map(forest, LAMBDA node : node.text \o Texts(node.kids)))

RECURSIVE HasTag(_, _)
HasTag(forest, tags) ==
  \E k \in DOMAIN forest : forest[k].tag \in tags \/ HasTag(forest[k].kids, tags)

(* What roxmltree accepts: no unbalanced cell markup, no raw "<" or "&".   *)
WellFormed(forest) ==
  /\ ~HasTag(forest, {"stray"})
  /\ \A k \in DOMAIN Texts(forest) : Texts(forest)[k] \notin {"<", "&"}

(* A look at the input from inside a character. *)
Panics(forest) == HasTag(forest, {"panic"})

-----------------------------------------------------------------------------
(* The structure of a formula without what carries no meaning: rows are    *)
(* spliced into their parents, an operand that is missing is an empty one, *)
(* and a leaf is its text, whatever its tag.                               *)

ArityOf == [mfrac |-> 2, msup |-> 2, msub |-> 2, msubsup |-> 3, mroot |-> 2,
            mover |-> 2, munder |-> 2, munderover |-> 3]
Transparent == {"math", "mrow", "mstyle"}
LeafTags    == {"mi", "mn", "mo", "mtext"}

RECURSIVE Shape(_)
ShapeOf(node) ==
  IF node.tag \in Transparent THEN Shape(node.kids)
  ELSE IF node.tag \in LeafTags
       THEN Map(node.text, LAMBDA c : [tag |-> "leaf", text |-> c, args |-> <<>>])
  ELSE IF node.tag \in DOMAIN ArityOf
       THEN <<[tag |-> node.tag, text |-> "",
               args |-> [k \in 1..ArityOf[node.tag] |-> Shape(Kid(node, k))]]>>
       ELSE <<[tag |-> node.tag, text |-> "", args |-> <<Shape(node.kids)>>]>>
Shape(forest) == FlattenSeq(Map(forest, ShapeOf))
=============================================================================
