--------------------------- MODULE SirWord_proofs ---------------------------
(***************************************************************************)
(* What Word can hold comes back from it as it was, for documents of any   *)
(* size: a writer and a reader of one paragraph that undo each other, and  *)
(* FlattenSeq, which joins what they make.  From that: what one trip       *)
(* through Word made, the next ones leave alone.                           *)
(***************************************************************************)
EXTENDS SirWord, SequenceTheorems, WellFoundedInduction, TLAPS

LEMMA LeastNumber ==
  ASSUME NEW T, T \subseteq Nat, T # {}
  PROVE  \E n \in T : \A m \in T : n <= m
<1> DEFINE R == OpToRel(<, Nat)
<1>1. R = {ss \in Nat \X Nat : ss[1] < ss[2]}
  BY DEF OpToRel
<1>2. IsWellFoundedOn(R, Nat)
  BY NatLessThanWellFounded
<1> HIDE DEF R
<1>3. PICK x \in T : \A y \in T : <<y, x>> \notin R
  BY <1>2, WFMin
<1>4. ASSUME NEW y \in T PROVE x <= y
  <2>1. x \in Nat /\ y \in Nat
    OBVIOUS
  <2>2. ~(y < x)
    BY <2>1, <1>1, <1>3
  <2> QED BY <2>1, <2>2
<1> QED BY <1>4

\* A loop of L turns: what holds before the first turn, and after every turn
\* before which it held, holds at the end.
LEMMA LoopInduction ==
  ASSUME NEW L \in Nat, NEW T, 0 \in T, \A n \in 1..L : n - 1 \in T => n \in T
  PROVE  0..L \subseteq T
<1> SUFFICES ASSUME ~(0..L \subseteq T) PROVE FALSE
  OBVIOUS
<1>1. (0..L) \ T \subseteq Nat /\ (0..L) \ T # {}
  OBVIOUS
<1>2. PICK n \in (0..L) \ T : \A m \in (0..L) \ T : n <= m
  BY <1>1, LeastNumber
<1>3. n \in 1..L /\ n - 1 \in 0..L /\ ~(n <= n - 1)
  BY <1>2
<1> QED BY <1>2, <1>3

-----------------------------------------------------------------------------
(* FlattenSeq: the values of its loop, and what is in the result           *)

\* The loop that joins the sequences of seqs, which are over E.
Joins(E, seqs, f) ==
  /\ f \in [1..Len(seqs) -> Seq(E)]
  /\ f[1] = seqs[1]
  /\ \A n \in 2..Len(seqs) : f[n] = f[n - 1] \o seqs[n]
  /\ FlattenSeq(seqs) = f[Len(seqs)]

\* The loop has its values,
LEMMA FlattenLoop ==
  ASSUME NEW E, NEW seqs \in Seq(Seq(E)), seqs # <<>>
  PROVE  \E f : Joins(E, seqs, f)
<1> DEFINE L == Len(seqs)
           Turn(f, n) == IF n = 1 THEN seqs[n] ELSE f[n - 1] \o seqs[n]
           Turns(f, m) == f = [n \in 1..m |-> Turn(f, n)]
           T == {m \in 0..L : \E f : Turns(f, m)}
           join == CHOOSE f : Turns(f, L)
<1>1. L \in Nat /\ L # 0
  OBVIOUS
<1>2. 0 \in T
  <2> DEFINE f == [n \in 1..0 |-> <<>>]
  <2>1. Turns(f, 0)
    OBVIOUS
  <2> HIDE DEF Turns, f
  <2> QED BY <1>1, <2>1
<1>3. ASSUME NEW m \in 1..L, m - 1 \in T PROVE m \in T
  <2>1. PICK f : Turns(f, m - 1)
    BY <1>3
  <2> DEFINE g == [n \in 1..m |-> IF n = m THEN Turn(f, m) ELSE f[n]]
  <2>2. \A n \in 1..(m - 1) : f[n] = Turn(f, n)
    BY <2>1
  <2>3. \A n \in 1..m : g[n] = Turn(g, n)
    <3> SUFFICES ASSUME NEW n \in 1..m PROVE g[n] = Turn(g, n)
      OBVIOUS
    <3>1. n # 1 => n - 1 \in 1..(m - 1) /\ g[n - 1] = f[n - 1]
      OBVIOUS
    <3>2. g[n] = Turn(f, n)
      BY <2>2
    <3> QED BY <3>1, <3>2
  <2>4. Turns(g, m)
    BY <2>3
  <2> HIDE DEF Turns, g
  <2> QED BY <2>4
<1>4. Turns(join, L)
  <2> HIDE DEF Turns, T, L
  <2>1. \A m \in 1..L : m - 1 \in T => m \in T
    BY <1>3
  <2>2. 0..L \subseteq T
    BY <1>1, <1>2, <2>1, LoopInduction
  <2>3. L \in T
    BY <1>1, <2>2
  <2>4. \E f : Turns(f, L)
    BY <2>3 DEF T
  <2> QED BY <2>4
<1>5. FlattenSeq(seqs) = join[L]
  BY <1>1 DEF FlattenSeq
<1> HIDE DEF join
<1>6. /\ join = [n \in 1..L |-> join[n]]
      /\ \A n \in 1..L : join[n] = Turn(join, n)
  <2> HIDE DEF L, Turn
  <2> QED BY <1>4
<1>7. \A n \in 1..L : join[n] \in Seq(E)
  <2> DEFINE U == {n \in 0..L : n # 0 => join[n] \in Seq(E)}
  <2>1. 0 \in U
    BY <1>1
  <2>2. ASSUME NEW n \in 1..L, n - 1 \in U PROVE n \in U
    <3>1. seqs[n] \in Seq(E) /\ n \in 0..L
      OBVIOUS
    <3>2. n # 1 => join[n - 1] \in Seq(E)
      BY <2>2
    <3>3. Turn(join, n) \in Seq(E)
      BY <3>1, <3>2
    <3> QED BY <1>6, <3>1, <3>3
  <2> HIDE DEF U
  <2>3. \A n \in 1..L : n - 1 \in U => n \in U
    BY <2>2
  <2>4. 0..L \subseteq U
    BY <1>1, <2>1, <2>3, LoopInduction
  <2> QED BY <2>4 DEF U
<1>8. join[1] = seqs[1] /\ \A n \in 2..L : join[n] = join[n - 1] \o seqs[n]
  <2> HIDE DEF L
  <2>1. 1 \in 1..L /\ \A n \in 2..L : n \in 1..L /\ n # 1
    BY <1>1
  <2> QED BY <1>6, <2>1
<1>9. join \in [1..L -> Seq(E)]
  <2> HIDE DEF L
  <2> QED BY <1>6, <1>7
<1>10. Joins(E, seqs, join)
  BY <1>5, <1>8, <1>9 DEF Joins
<1> QED BY <1>10

LEMMA FlattenEmpty ==
  FlattenSeq(<<>>) = <<>>
BY DEF FlattenSeq

\* so what is joined out of sequences over E is one over E,
LEMMA FlattenType ==
  ASSUME NEW E, NEW seqs \in Seq(Seq(E))
  PROVE  FlattenSeq(seqs) \in Seq(E)
<1>1. CASE seqs = <<>>
  <2>1. <<>> \in Seq(E)
    BY EmptySeq
  <2> QED BY <1>1, <2>1, FlattenEmpty
<1>2. CASE seqs # <<>>
  <2>1. PICK f : Joins(E, seqs, f)
    BY <1>2, FlattenLoop
  <2> QED BY <1>2, <2>1 DEF Joins
<1> QED BY <1>1, <1>2

\* and has every element of each of them.
LEMMA FlattenParts ==
  ASSUME NEW E, NEW seqs \in Seq(Seq(E)), NEW k \in 1..Len(seqs), NEW i \in 1..Len(seqs[k])
  PROVE  \E j \in 1..Len(FlattenSeq(seqs)) : FlattenSeq(seqs)[j] = seqs[k][i]
<1>1. PICK f : Joins(E, seqs, f)
  BY FlattenLoop
<1> DEFINE L == Len(seqs)
           Found(n) == \E j \in 1..Len(f[n]) : f[n][j] = seqs[k][i]
           T == {n \in 0..L : n >= k => Found(n)}
<1>2. L \in Nat /\ seqs[k] \in Seq(E)
  OBVIOUS
<1>3. 0 \in T
  BY <1>2
<1>4. ASSUME NEW n \in 1..L, n - 1 \in T PROVE n \in T
  <2>1. CASE n < k
    BY <1>2, <2>1
  <2>2. CASE n = k /\ n = 1
    BY <1>1, <2>2 DEF Joins
  <2>3. CASE n = k /\ n # 1
    <3>1. n - 1 \in 1..L /\ n \in 2..L
      BY <1>2, <2>3
    <3>2. f[n - 1] \in Seq(E) /\ f[n] = f[n - 1] \o seqs[k]
      BY <1>1, <2>3, <3>1 DEF Joins
    <3>3. /\ Len(f[n - 1]) + i \in 1..Len(f[n])
          /\ f[n][Len(f[n - 1]) + i] = seqs[k][i]
      <4> DEFINE a == f[n - 1]
                 b == seqs[k]
      <4>1. a \in Seq(E) /\ b \in Seq(E) /\ f[n] = a \o b /\ i \in 1..Len(b)
        BY <1>2, <3>2
      <4> HIDE DEF a, b
      <4>2. Len(a) + i \in 1..Len(a \o b) /\ (a \o b)[Len(a) + i] = b[i]
        BY <4>1, ConcatProperties
      <4> QED BY <4>1, <4>2 DEF a, b
    <3> QED BY <3>3
  <2>4. CASE n > k
    <3>1. n - 1 \in 1..L /\ n \in 2..L /\ n - 1 >= k
      BY <1>2, <2>4
    <3>2. f[n - 1] \in Seq(E) /\ f[n] = f[n - 1] \o seqs[n]
      BY <1>1, <3>1 DEF Joins
    <3>3. seqs[n] \in Seq(E)
      OBVIOUS
    <3>4. PICK j \in 1..Len(f[n - 1]) : f[n - 1][j] = seqs[k][i]
      BY <1>4, <3>1
    <3>5. j \in 1..Len(f[n]) /\ f[n][j] = f[n - 1][j]
      <4> DEFINE a == f[n - 1]
                 b == seqs[n]
      <4>1. a \in Seq(E) /\ b \in Seq(E) /\ f[n] = a \o b /\ j \in 1..Len(a)
        BY <3>2, <3>3
      <4> HIDE DEF a, b
      <4>2. j \in 1..Len(a \o b) /\ (a \o b)[j] = a[j]
        BY <4>1, ConcatProperties
      <4> QED BY <4>1, <4>2 DEF a
    <3> QED BY <3>4, <3>5
  <2> QED BY <2>1, <2>2, <2>3, <2>4
<1>5. 0..L \subseteq T
  <2> HIDE DEF T, L
  <2>1. \A n \in 1..L : n - 1 \in T => n \in T
    BY <1>4
  <2> QED BY <1>2, <1>3, <2>1, LoopInduction
<1>6. Found(L)
  <2>1. L >= k
    BY <1>2
  <2>2. L \in T
    <3> HIDE DEF T, L
    <3> QED BY <1>2, <1>5
  <2> HIDE DEF L, Found
  <2> QED BY <2>1, <2>2
<1> QED BY <1>1, <1>6 DEF Joins

LEMMA FlattenFirst ==
  ASSUME NEW E, NEW seqs \in Seq(Seq(E)), NEW k \in 1..Len(seqs), seqs[k] # <<>>
  PROVE  \E j \in 1..Len(FlattenSeq(seqs)) : FlattenSeq(seqs)[j] = seqs[k][1]
<1>1. \A i \in 1..Len(seqs[k]) : \E j \in 1..Len(FlattenSeq(seqs)) : FlattenSeq(seqs)[j] = seqs[k][i]
  BY FlattenParts
<1>2. seqs[k] \in Seq(E)
  OBVIOUS
<1>3. 1 \in 1..Len(seqs[k])
  BY <1>2
<1> QED BY <1>1, <1>3

\* What is joined out of single elements is the sequence of them.
LEMMA FlattenSingletons ==
  ASSUME NEW E, NEW x \in Seq(E), NEW seqs, seqs = [k \in 1..Len(x) |-> <<x[k]>>]
  PROVE  FlattenSeq(seqs) = x
<1>1. seqs \in Seq(Seq(E)) /\ Len(seqs) = Len(x)
  OBVIOUS
<1>2. CASE x = <<>>
  BY <1>1, <1>2, FlattenEmpty
<1>3. CASE x # <<>>
  <2>1. seqs # <<>>
    BY <1>1, <1>3
  <2>2. PICK f : Joins(E, seqs, f)
    BY <1>1, <2>1, FlattenLoop
  <2> DEFINE L == Len(x)
             T == {n \in 0..L : n # 0 => Len(f[n]) = n /\ \A k \in 1..n : f[n][k] = x[k]}
  <2>3. L \in Nat /\ L # 0
    BY <1>3
  <2>4. 0 \in T
    BY <2>3
  <2>5. ASSUME NEW n \in 1..L, n - 1 \in T PROVE n \in T
    <3>1. CASE n = 1
      <4>1. f[1] = <<x[1]>>
        BY <1>1, <2>2, <3>1 DEF Joins
      <4> QED BY <2>3, <3>1, <4>1
    <3>2. CASE n # 1
      <4>1. n \in 2..L /\ n - 1 \in 1..L /\ n \in 0..L /\ x[n] \in E
        BY <3>2
      <4>2. f[n - 1] \in Seq(E) /\ f[n] = f[n - 1] \o <<x[n]>>
        BY <1>1, <2>2, <4>1 DEF Joins
      <4>3. Len(f[n - 1]) = n - 1 /\ \A k \in 1..(n - 1) : f[n - 1][k] = x[k]
        BY <2>5, <4>1
      <4>4. f[n] = Append(f[n - 1], x[n])
        BY <4>1, <4>2, AppendIsConcat
      <4>5. Len(f[n]) = n /\ f[n][n] = x[n] /\ \A k \in 1..(n - 1) : f[n][k] = x[k]
        <5> DEFINE a == f[n - 1]
                   b == x[n]
        <5>1. a \in Seq(E) /\ b \in E /\ f[n] = Append(a, b) /\ Len(a) = n - 1 /\ n \in Nat
          BY <4>1, <4>2, <4>3, <4>4
        <5>2. \A k \in 1..(n - 1) : a[k] = x[k]
          BY <4>3
        <5> HIDE DEF a, b, L, T
        <5>3. /\ Len(Append(a, b)) = n /\ Append(a, b)[n] = b
              /\ \A k \in 1..(n - 1) : Append(a, b)[k] = a[k]
          BY <5>1, AppendProperties
        <5> QED BY <5>1, <5>2, <5>3 DEF b
      <4> QED BY <4>1, <4>5
    <3> QED BY <3>1, <3>2
  <2>6. 0..L \subseteq T
    <3> HIDE DEF T, L
    <3>1. \A n \in 1..L : n - 1 \in T => n \in T
      BY <2>5
    <3> QED BY <2>3, <2>4, <3>1, LoopInduction
  <2>7. /\ f[L] \in Seq(E) /\ FlattenSeq(seqs) = f[L]
        /\ Len(f[L]) = L /\ \A k \in 1..L : f[L][k] = x[k]
    BY <1>1, <2>2, <2>3, <2>6 DEF Joins
  <2> QED BY <2>7, SeqEqual
<1> QED BY <1>2, <1>3

LEMMA FlattenOne ==
  ASSUME NEW E, NEW s \in Seq(E)
  PROVE  FlattenSeq(<<s>>) = s
<1>1. <<s>> \in Seq(Seq(E)) /\ <<s>> # <<>> /\ Len(<<s>>) = 1 /\ <<s>>[1] = s
  OBVIOUS
<1>2. PICK f : Joins(E, <<s>>, f)
  BY <1>1, FlattenLoop
<1> QED BY <1>1, <1>2 DEF Joins

-----------------------------------------------------------------------------
(* What Word can hold                                                      *)

\* All strings: the provers do not know that the ones named here are strings.
Strings == STRING \cup Readable \cup {"nl"}

Texts == Seq(Strings)
Ink   == Texts \ {<<>>}

\* Inline content that is read from a document.xml.
WordText    == {Text(t) : t \in Ink} \cup {LineBreak}
               \cup {Styled(style, <<Text(t)>>) : style \in Readable, t \in Ink}
WordFormula == {InlineMath(t) : t \in Ink}
WordInline  == WordText \cup WordFormula

\* Content that makes a block, and the blocks.
Contents(set) == Seq(set) \ {<<>>}
HeadingsOf(depth) == {Heading(depth, FALSE, c, None) : c \in Contents(WordInline)}
Headings      == UNION {HeadingsOf(depth) : depth \in 1..3}
Displayed(texts) == {MathBlock("equation", t, None) : t \in texts}

\* The blocks that a trip leaves alone, and those that any document.xml is
\* read as: among them are formulas in paragraphs, and formulas without text.
WordBlocks == Headings \cup {Paragraph(c) : c \in Contents(WordText)} \cup Displayed(Ink)
ReadBlocks == Headings \cup {Paragraph(c) : c \in Contents(WordInline)} \cup Displayed(Texts)

\* The paragraphs of a document.xml, with the styles that sir_to_ooxml gives
\* them and with at most one property of a run, as it writes them.
Properties == {{}} \cup {{name} : name \in Strings}
Items      == [type : {"run", "br", "math"}, props : Properties, text : Texts]
StyleNames == {"Heading1", "Heading2", "Heading3", "Heading4", "Heading5",
               "ListParagraph", "Code", "TheoremHeader"}
Styles     == {None} \cup {Some(name) : name \in StyleNames}
Paras      == [style : Styles, items : Seq(Items)]

\* The branches of parse_run.
LEMMA ParseCases ==
  ASSUME NEW item
  PROVE  /\ item.type = "br" => ParseItem(item) = <<LineBreak>>
         /\ item.type # "br" /\ item.text = <<>> => ParseItem(item) = <<>>
         /\ item.type = "math" /\ item.text # <<>> => ParseItem(item) = <<InlineMath(item.text)>>
         /\ item.type = "run" /\ item.text # <<>> => ParseItem(item) = <<RunContent(item)>>
BY DEF ParseItem

\* An item is read as nothing or as one inline, a formula only if it is one.
LEMMA ItemIsInline ==
  ASSUME NEW item \in Items
  PROVE  /\ ParseItem(item) \in Seq(WordInline)
         /\ item.type # "math" => ParseItem(item) \in Seq(WordText)
         /\ item.type = "math" /\ item.text # <<>> => ParseItem(item) = <<InlineMath(item.text)>>
<1>1. item.text \in Texts /\ item.type \in {"run", "br", "math"}
  BY DEF Items
<1>2. CASE item.type = "br"
  <2>1. ParseItem(item) = <<LineBreak>>
    BY <1>2, ParseCases
  <2>2. LineBreak \in WordText /\ LineBreak \in WordInline
    BY DEF WordText, WordInline
  <2> QED BY <1>2, <2>1, <2>2
<1>3. CASE item.type # "br" /\ item.text = <<>>
  <2>1. ParseItem(item) = <<>>
    BY <1>3, ParseCases
  <2> QED BY <1>3, <2>1, EmptySeq
<1>4. CASE item.type = "math" /\ item.text # <<>>
  <2>1. ParseItem(item) = <<InlineMath(item.text)>>
    BY <1>4, ParseCases
  <2>2. InlineMath(item.text) \in WordInline
    BY <1>1, <1>4 DEF WordInline, WordFormula, Ink
  <2> QED BY <1>4, <2>1, <2>2
<1>5. CASE item.type = "run" /\ item.text # <<>> /\ item.props \cap Readable # {}
  <2> DEFINE style == CHOOSE style \in item.props \cap Readable : TRUE
  <2>1. ParseItem(item) = <<Styled(style, <<Text(item.text)>>)>>
    BY <1>5, ParseCases DEF RunContent
  <2>2. style \in Readable
    BY <1>5
  <2> HIDE DEF style
  <2>3. Styled(style, <<Text(item.text)>>) \in WordText
    BY <1>1, <1>5, <2>2 DEF WordText, Ink
  <2> QED BY <1>5, <2>1, <2>3 DEF WordInline
<1>6. CASE item.type = "run" /\ item.text # <<>> /\ item.props \cap Readable = {}
  <2>1. ParseItem(item) = <<Text(item.text)>>
    BY <1>6, ParseCases DEF RunContent
  <2>2. Text(item.text) \in WordText
    BY <1>1, <1>6 DEF WordText, Ink
  <2> QED BY <1>6, <2>1, <2>2 DEF WordInline
<1> QED BY <1>1, <1>2, <1>3, <1>4, <1>5, <1>6

\* The formulas are told from the rest by their type.
LEMMA FormulaType ==
  ASSUME NEW e \in WordInline
  PROVE  /\ e \in WordText => e.type # "math"
         /\ e \in WordFormula => e.type = "math" /\ e.text \in Ink
<1>1. LineBreak.type # "math"
  BY DEF LineBreak, Inline
<1>2. \A t : Text(t).type # "math" /\ InlineMath(t).type = "math" /\ InlineMath(t).text = t
  BY DEF Text, InlineMath, Inline
<1>3. \A style, kids : Styled(style, kids).type # "math"
  BY DEF Styled, Inline
<1>4. ASSUME e \in WordText PROVE e.type # "math"
  <2>1. e = LineBreak \/ (\E t : e = Text(t)) \/ (\E style, kids : e = Styled(style, kids))
    <3>1. CASE e \in {Text(t) : t \in Ink}
      BY <3>1
    <3>2. CASE e = LineBreak
      BY <3>2
    <3>3. CASE e \in {Styled(style, <<Text(t)>>) : style \in Readable, t \in Ink}
      <4>1. PICK style \in Readable, t \in Ink : e = Styled(style, <<Text(t)>>)
        BY <3>3
      <4> QED BY <4>1
    <3> QED BY <1>4, <3>1, <3>2, <3>3 DEF WordText
  <2> QED BY <1>1, <1>2, <1>3, <2>1
<1>5. ASSUME e \in WordFormula PROVE e.type = "math" /\ e.text \in Ink
  <2>1. PICK t \in Ink : e = InlineMath(t)
    BY <1>5 DEF WordFormula
  <2> QED BY <1>2, <2>1
<1> QED BY <1>4, <1>5

\* What is read is written as an item that is read as the same.
LEMMA InlineComesBack ==
  ASSUME NEW Inner(_), NEW e \in WordInline
  PROVE  /\ InlineRunWith(Inner, e) \in Items
         /\ ParseItem(InlineRunWith(Inner, e)) = <<e>>
         /\ InlineRunWith(Inner, e).type = "math" <=> e \in WordFormula
         /\ e \in WordFormula => InlineRunWith(Inner, e).text # <<>>
<1> DEFINE item == InlineRunWith(Inner, e)
<1>1. CASE e = LineBreak
  <2>1. item = BreakRun
    BY <1>1 DEF InlineRunWith, LineBreak, Inline
  <2>2. item \in Items
    BY <2>1 DEF BreakRun, Items, Properties, Texts
  <2>3. ParseItem(item) = <<e>> /\ item.type # "math"
    BY <1>1, <2>1, ParseCases DEF BreakRun
  <2>4. e \notin WordFormula
    BY <1>1 DEF LineBreak, WordFormula, InlineMath, Inline
  <2> QED BY <2>2, <2>3, <2>4
<1>2. ASSUME NEW t \in Ink, e = Text(t)
      PROVE  item \in Items /\ ParseItem(item) = <<e>> /\ item.type # "math" /\ e \notin WordFormula
  <2>1. item = Run({}, t)
    BY <1>2 DEF InlineRunWith, Text, Inline
  <2>2. item \in Items
    BY <2>1 DEF Run, Items, Properties, Ink
  <2>3. item.type = "run" /\ item.text = t /\ item.props = {} /\ t # <<>>
    BY <2>1 DEF Run, Ink
  <2>4. ParseItem(item) = <<Text(t)>>
    <3> HIDE DEF item
    <3> QED BY <2>3, ParseCases DEF RunContent
  <2>5. e \notin WordFormula
    BY <1>2 DEF Text, WordFormula, InlineMath, Inline
  <2> QED BY <1>2, <2>2, <2>3, <2>4, <2>5
<1>3. ASSUME NEW t \in Ink, NEW style \in Readable, e = Styled(style, <<Text(t)>>)
      PROVE  item \in Items /\ ParseItem(item) = <<e>> /\ item.type # "math" /\ e \notin WordFormula
  <2>1. FlattenWith(Inner, <<Text(t)>>) = t
    <3>1. TextOf(Inner, Text(t)) = t
      BY DEF TextOf, Text, Inline
    <3>2. Map(<<Text(t)>>, LAMBDA x : TextOf(Inner, x)) = <<t>>
      BY <3>1 DEF Map
    <3>3. t \in Seq(Strings)
      BY DEF Ink, Texts
    <3> QED BY <3>2, <3>3, FlattenOne DEF FlattenWith
  <2>2. item = Run({style}, t)
    BY <1>3, <2>1 DEF InlineRunWith, Styled, Inline
  <2>3. item \in Items
    <3> HIDE DEF item
    <3>1. style \in Strings
      BY DEF Strings
    <3>2. {style} \in Properties /\ t \in Texts
      BY <3>1 DEF Properties, Ink
    <3> QED BY <2>2, <3>2 DEF Run, Items
  <2>4. item.type = "run" /\ item.text = t /\ item.props = {style} /\ t # <<>>
    BY <2>2 DEF Run, Ink
  <2>5. item.props \cap Readable = {style}
    BY <2>4
  <2>6. ParseItem(item) = <<Styled(style, <<Text(t)>>)>>
    <3> HIDE DEF item
    <3>1. RunContent(item) = Styled(style, <<Text(t)>>)
      BY <2>4, <2>5 DEF RunContent
    <3> QED BY <2>4, <3>1, ParseCases
  <2>7. e \notin WordFormula
    BY <1>3 DEF Styled, WordFormula, InlineMath, Inline
  <2> QED BY <1>3, <2>3, <2>4, <2>6, <2>7
<1>4. ASSUME NEW t \in Ink, e = InlineMath(t)
      PROVE  /\ item \in Items /\ ParseItem(item) = <<e>> /\ item.type = "math"
             /\ e \in WordFormula /\ item.text # <<>>
  <2>1. item = OMath(t)
    BY <1>4 DEF InlineRunWith, InlineMath, Inline
  <2>2. item \in Items /\ item.type = "math" /\ item.text = t /\ t # <<>>
    BY <2>1 DEF OMath, Items, Properties, Ink
  <2>3. ParseItem(item) = <<InlineMath(t)>>
    <3> HIDE DEF item
    <3> QED BY <2>2, ParseCases
  <2> QED BY <1>4, <2>2, <2>3 DEF WordFormula
<1>5. CASE e \in WordText /\ e # LineBreak
  <2>1. \/ \E t \in Ink : e = Text(t)
        \/ \E style \in Readable, t \in Ink : e = Styled(style, <<Text(t)>>)
    BY <1>5 DEF WordText
  <2> HIDE DEF item
  <2>2. item \in Items /\ ParseItem(item) = <<e>> /\ item.type # "math" /\ e \notin WordFormula
    BY <1>2, <1>3, <2>1
  <2> QED BY <2>2 DEF item
<1>6. CASE e \in WordFormula
  <2>1. \E t \in Ink : e = InlineMath(t)
    BY <1>6 DEF WordFormula
  <2> HIDE DEF item
  <2>2. /\ item \in Items /\ ParseItem(item) = <<e>> /\ item.type = "math"
        /\ e \in WordFormula /\ item.text # <<>>
    BY <1>4, <2>1
  <2> QED BY <2>2 DEF item
<1> QED BY <1>1, <1>5, <1>6 DEF WordInline

-----------------------------------------------------------------------------
(* Paragraphs                                                              *)

\* The content that is read from a paragraph.
LEMMA ContentType ==
  ASSUME NEW p \in Paras
  PROVE  /\ Content(p) \in Seq(WordInline)
         /\ ~HasMath(p) => Content(p) \in Seq(WordText)
         /\ \A k \in 1..Len(p.items) :
              p.items[k].type = "math" /\ p.items[k].text # <<>>
              => \E j \in 1..Len(Content(p)) : Content(p)[j] \in WordFormula
<1> DEFINE read == Map(p.items, ParseItem)
<1>1. p.items \in Seq(Items)
  BY DEF Paras
<1>2. /\ DOMAIN read = 1..Len(p.items) /\ Len(read) = Len(p.items)
      /\ read = [k \in 1..Len(p.items) |-> ParseItem(p.items[k])]
  BY <1>1 DEF Map
<1>3. Len(p.items) \in Nat /\ read = [k \in 1..Len(p.items) |-> read[k]]
  BY <1>1, <1>2
<1>4. Content(p) = FlattenSeq(read)
  BY DEF Content
<1> HIDE DEF read
<1>5. \A k \in 1..Len(p.items) : p.items[k] \in Items /\ read[k] = ParseItem(p.items[k])
  BY <1>1, <1>2
<1>6. read \in Seq(Seq(WordInline))
  <2>1. \A k \in 1..Len(p.items) : read[k] \in Seq(WordInline)
    BY <1>5, ItemIsInline
  <2> QED BY <1>2, <1>3, <2>1, IsASeq
<1>7. Content(p) \in Seq(WordInline)
  BY <1>4, <1>6, FlattenType
<1>8. ASSUME ~HasMath(p) PROVE Content(p) \in Seq(WordText)
  <2>1. \A k \in 1..Len(p.items) : p.items[k].type # "math"
    BY <1>1, <1>8 DEF HasMath
  <2>2. \A k \in 1..Len(p.items) : read[k] \in Seq(WordText)
    BY <1>5, <2>1, ItemIsInline
  <2>3. read \in Seq(Seq(WordText))
    BY <1>2, <1>3, <2>2, IsASeq
  <2> QED BY <1>4, <2>3, FlattenType
<1>9. ASSUME NEW k \in 1..Len(p.items), p.items[k].type = "math", p.items[k].text # <<>>
      PROVE  \E j \in 1..Len(Content(p)) : Content(p)[j] \in WordFormula
  <2> DEFINE t == p.items[k].text
  <2>1. read[k] = <<InlineMath(t)>> /\ t \in Ink
    BY <1>5, <1>9, ItemIsInline DEF Items, Ink
  <2>2. InlineMath(t) \in WordFormula
    BY <2>1 DEF WordFormula
  <2>3. k \in 1..Len(read) /\ read[k][1] = InlineMath(t)
    BY <1>2, <2>1
  <2>4. \E j \in 1..Len(FlattenSeq(read)) : FlattenSeq(read)[j] = read[k][1]
    <3>1. read \in Seq(Seq(WordInline)) /\ k \in 1..Len(read) /\ read[k] # <<>>
      BY <1>6, <2>1, <2>3
    <3> QED BY <3>1, FlattenFirst
  <2> QED BY <1>4, <2>2, <2>3, <2>4
<1> QED BY <1>7, <1>8, <1>9

\* Content that was read is written as a paragraph of the same content.
LEMMA ContentComesBack ==
  ASSUME NEW Inner(_), NEW style \in Styles,
         NEW c \in Seq(WordInline)
  PROVE  LET p == P(style, InlineRunsWith(Inner, c)) IN
         /\ p \in Paras /\ p.style = style
         /\ Content(p) = c
         /\ HasMath(p) => \E k \in DOMAIN p.items : p.items[k].type = "math" /\ p.items[k].text # <<>>
         /\ c \in Seq(WordText) => ~HasMath(p)
<1> DEFINE items == InlineRunsWith(Inner, c)
           p == P(style, items)
<1>1. p.style = style /\ p.items = items /\ p = [style |-> style, items |-> items]
  BY DEF P
<1>2. items = [k \in 1..Len(c) |-> InlineRunWith(Inner, c[k])]
  BY DEF InlineRunsWith, Map
<1> HIDE DEF items
<1>3. \A k \in 1..Len(c) : c[k] \in WordInline /\ items[k] = InlineRunWith(Inner, c[k])
  BY <1>2
<1>4. items \in Seq(Items) /\ Len(items) = Len(c) /\ DOMAIN items = 1..Len(c)
  <2>1. \A k \in 1..Len(c) : items[k] \in Items
    BY <1>3, InlineComesBack
  <2>2. Len(c) \in Nat
    OBVIOUS
  <2> QED BY <1>2, <2>1, <2>2, IsASeq
<1>5. p \in Paras
  BY <1>1, <1>4 DEF Paras
<1>6. Content(p) = c
  <2> DEFINE read == Map(items, ParseItem)
  <2>1. read = [k \in 1..Len(c) |-> ParseItem(items[k])]
    BY <1>4 DEF Map
  <2>2. \A k \in 1..Len(c) : ParseItem(items[k]) = <<c[k]>>
    BY <1>3, InlineComesBack
  <2>3. read = [k \in 1..Len(c) |-> <<c[k]>>]
    BY <2>1, <2>2
  <2>4. Content(p) = FlattenSeq(read)
    BY <1>1 DEF Content
  <2> HIDE DEF read, p
  <2> QED BY <2>3, <2>4, FlattenSingletons
<1>7. ASSUME NEW k \in DOMAIN p.items, p.items[k].type = "math"
      PROVE  c[k] \in WordFormula /\ p.items[k].text # <<>>
  <2> HIDE DEF p
  <2>1. k \in 1..Len(c) /\ items[k].type = "math"
    BY <1>1, <1>4, <1>7
  <2> QED BY <1>1, <1>3, <2>1, InlineComesBack
<1>8. HasMath(p) => \E k \in DOMAIN p.items : p.items[k].type = "math" /\ p.items[k].text # <<>>
  <2> HIDE DEF p
  <2> QED BY <1>7 DEF HasMath
<1>9. ASSUME c \in Seq(WordText) PROVE ~HasMath(p)
  <2>1. \A e \in WordText : e \notin WordFormula
    BY FormulaType DEF WordInline
  <2>2. \A k \in 1..Len(c) : c[k] \in WordText
    BY <1>9
  <2> HIDE DEF p
  <2>3. DOMAIN p.items = 1..Len(c)
    BY <1>1, <1>4
  <2> QED BY <1>7, <2>1, <2>2, <2>3 DEF HasMath
<1> HIDE DEF p
<1>10. /\ p \in Paras /\ p.style = style /\ Content(p) = c
       /\ HasMath(p) => \E k \in DOMAIN p.items : p.items[k].type = "math" /\ p.items[k].text # <<>>
       /\ c \in Seq(WordText) => ~HasMath(p)
  BY <1>1, <1>5, <1>6, <1>8, <1>9
<1> QED BY <1>10 DEF p, items

\* The formulas of a paragraph together are a text, and one with ink if there
\* is a formula.
LEMMA FormulasJoin ==
  ASSUME NEW c \in Seq(WordInline)
  PROVE  /\ JoinWith(Formulas(c), <<"nl">>) \in Texts
         /\ (\E k \in 1..Len(c) : c[k] \in WordFormula) => JoinWith(Formulas(c), <<"nl">>) \in Ink
<1> DEFINE parts == Map(c, LAMBDA e : IF e.type = "math" THEN <<e.text>> ELSE <<>>)
           found == Formulas(c)
           lines == [k \in DOMAIN found |-> IF k = 1 THEN found[k] ELSE <<"nl">> \o found[k]]
<1>1. parts = [k \in 1..Len(c) |-> IF c[k].type = "math" THEN <<c[k].text>> ELSE <<>>]
  BY DEF Map
<1>2. found = FlattenSeq(parts) /\ JoinWith(found, <<"nl">>) = FlattenSeq(lines)
  BY DEF Formulas, JoinWith
<1>3. /\ \A e \in WordInline : e.type = "math" => e.text \in Ink
      /\ \A e \in WordFormula : e.type = "math"
  BY FormulaType DEF WordInline
<1> HIDE DEF parts
<1>4. Len(c) \in Nat /\ \A k \in 1..Len(c) : c[k] \in WordInline
  OBVIOUS
<1>5. \A k \in 1..Len(c) : parts[k] \in Seq(Ink)
  BY <1>1, <1>3, <1>4
<1>6. parts \in Seq(Seq(Ink)) /\ Len(parts) = Len(c)
  BY <1>1, <1>4, <1>5, IsASeq
<1> HIDE DEF found
<1>7. found \in Seq(Ink)
  BY <1>2, <1>6, FlattenType
<1>8. \A k \in 1..Len(found) : lines[k] \in Texts
  <2>1. \A k \in 1..Len(found) : found[k] \in Seq(Strings)
    BY <1>7 DEF Ink, Texts
  <2>2. <<"nl">> \in Seq(Strings)
    <3>1. "nl" \in Strings
      BY DEF Strings
    <3> QED BY <3>1
  <2>3. ASSUME NEW k \in 1..Len(found) PROVE <<"nl">> \o found[k] \in Seq(Strings)
    BY <2>1, <2>2, ConcatProperties
  <2>4. ASSUME NEW k \in 1..Len(found) PROVE lines[k] \in Texts
    <3>1. lines[k] = IF k = 1 THEN found[k] ELSE <<"nl">> \o found[k]
      BY <1>7
    <3> HIDE DEF lines
    <3> QED BY <2>1, <2>3, <3>1 DEF Texts
  <2> QED BY <2>4
<1>9. lines \in Seq(Seq(Strings)) /\ Len(lines) = Len(found)
  <2>1. lines = [k \in 1..Len(found) |-> lines[k]] /\ Len(found) \in Nat
    BY <1>7
  <2> HIDE DEF lines
  <2> QED BY <1>8, <2>1, IsASeq DEF Texts
<1>10. FlattenSeq(lines) \in Texts
  <2> HIDE DEF lines
  <2> QED BY <1>9, FlattenType DEF Texts
<1>11. ASSUME NEW k \in 1..Len(c), c[k] \in WordFormula PROVE FlattenSeq(lines) # <<>>
  <2>1. k \in 1..Len(parts) /\ parts[k] = <<c[k].text>>
    BY <1>1, <1>3, <1>4, <1>6, <1>11
  <2>2. parts[k] # <<>>
    BY <2>1
  <2> HIDE DEF lines
  <2>3. \E j \in 1..Len(found) : found[j] = parts[k][1]
    <3>1. parts \in Seq(Seq(Ink)) /\ k \in 1..Len(parts)
      BY <1>6, <2>1
    <3>2. \E j \in 1..Len(FlattenSeq(parts)) : FlattenSeq(parts)[j] = parts[k][1]
      BY <2>2, <3>1, FlattenFirst
    <3> QED BY <1>2, <3>2
  <2>4. 1 \in 1..Len(found)
    BY <1>7, <2>3
  <2>5. lines[1] = found[1] /\ found[1] \in Ink /\ 1 \in 1..Len(lines)
    BY <1>7, <1>9, <2>4 DEF lines
  <2>6. lines[1] # <<>>
    BY <2>5 DEF Ink
  <2>7. \E j \in 1..Len(FlattenSeq(lines)) : FlattenSeq(lines)[j] = lines[1][1]
    <3>1. lines \in Seq(Seq(Strings)) /\ 1 \in 1..Len(lines)
      BY <1>9, <2>5
    <3> QED BY <2>6, <3>1, FlattenFirst
  <2> QED BY <2>7
<1> HIDE DEF lines
<1> QED BY <1>2, <1>10, <1>11 DEF Ink, found

\* A displayed formula is written as a paragraph of its own.
LEMMA DisplayedComesBack ==
  ASSUME NEW t \in Texts
  PROVE  LET p == P(None, <<OMath(t)>>) IN
         /\ p \in Paras
         /\ FormulaStands(p) \/ Content(p) = <<>>
         /\ t # <<>> => ParagraphToSir(p) = <<MathBlock("equation", t, None)>>
<1> DEFINE item == OMath(t)
           p == P(None, <<item>>)
           e == InlineMath(t)
<1>1. item \in Items /\ item.type = "math" /\ item.text = t
  BY DEF OMath, Items, Properties
<1>2. p.style = None /\ p.items = <<item>> /\ p = [style |-> None, items |-> <<item>>]
  BY DEF P
<1>3. e.type = "math" /\ e.text = t
  BY DEF InlineMath, Inline
<1> HIDE DEF item, p, e
<1>4. <<item>> \in Seq(Items) /\ DOMAIN <<item>> = {1} /\ <<item>>[1] = item
  BY <1>1
<1>5. p \in Paras
  BY <1>2, <1>4 DEF Paras, Styles
<1>6. HasMath(p)
  BY <1>1, <1>2, <1>4 DEF HasMath
<1>7. Content(p) = FlattenSeq(<<ParseItem(item)>>)
  <2>1. Map(<<item>>, ParseItem) = <<ParseItem(item)>>
    BY DEF Map
  <2> QED BY <1>2, <2>1 DEF Content
<1>8. Content(p) = ParseItem(item)
  BY <1>1, <1>7, ItemIsInline, FlattenOne
<1>9. CASE t = <<>>
  <2>1. Content(p) = <<>>
    BY <1>1, <1>8, <1>9, ParseCases
  <2> QED BY <1>5, <1>9, <2>1 DEF p, item
<1>10. CASE t # <<>>
  <2>1. Content(p) = <<e>>
    BY <1>1, <1>8, <1>10, ParseCases DEF e
  <2>2. FormulaStands(p)
    BY <1>1, <1>2, <1>4, <1>10 DEF FormulaStands
  <2>3. Formulas(<<e>>) = <<t>>
    <3>1. Map(<<e>>, LAMBDA x : IF x.type = "math" THEN <<x.text>> ELSE <<>>) = <<<<t>>>>
      BY <1>3 DEF Map
    <3>2. FlattenSeq(<<<<t>>>>) = <<t>>
      <4>1. <<t>> \in Seq(Texts)
        OBVIOUS
      <4> QED BY <4>1, FlattenOne
    <3> QED BY <3>1, <3>2 DEF Formulas
  <2>4. JoinWith(<<t>>, <<"nl">>) = t
    <3>1. [k \in DOMAIN <<t>> |-> IF k = 1 THEN <<t>>[k] ELSE <<"nl">> \o <<t>>[k]] = <<t>>
      OBVIOUS
    <3> QED BY <3>1, FlattenOne DEF JoinWith, Texts
  <2>5. ~IsTitle(p)
    BY <1>2 DEF IsTitle
  <2>6. ParagraphToSir(p) = <<Equation(<<e>>)>>
    BY <1>2, <1>6, <2>1, <2>5 DEF ParagraphToSir
  <2>7. Equation(<<e>>) = MathBlock("equation", t, None)
    BY <2>3, <2>4 DEF Equation
  <2> QED BY <1>5, <2>2, <2>6, <2>7 DEF p, item
<1> QED BY <1>9, <1>10

-----------------------------------------------------------------------------
(* Blocks                                                                  *)

\* A paragraph is read as nothing or as one block, and as one that Word can
\* hold if its formulas stand.
LEMMA ParagraphIsBlock ==
  ASSUME NEW p \in Paras
  PROVE  /\ ParagraphToSir(p) \in Seq(ReadBlocks)
         /\ FormulaStands(p) \/ Content(p) = <<>> => ParagraphToSir(p) \in Seq(WordBlocks)
<1> DEFINE c == Content(p)
<1>1. /\ c \in Seq(WordInline)
      /\ ~HasMath(p) => c \in Seq(WordText)
      /\ \A k \in 1..Len(p.items) : p.items[k].type = "math" /\ p.items[k].text # <<>>
                                    => \E j \in 1..Len(c) : c[j] \in WordFormula
  BY ContentType
<1>2. p.items \in Seq(Items) /\ DOMAIN p.items = 1..Len(p.items)
  BY DEF Paras
<1> HIDE DEF c
<1>3. CASE c = <<>>
  <2>1. ParagraphToSir(p) = <<>>
    BY <1>3 DEF ParagraphToSir, c
  <2> QED BY <2>1, EmptySeq
<1>4. CASE c # <<>> /\ IsTitle(p)
  <2> DEFINE b == Heading(DepthOf[p.style[1]], FALSE, c, None)
  <2>1. ParagraphToSir(p) = <<b>>
    <3>1. ~(p.style = None /\ HasMath(p))
      BY <1>4 DEF IsTitle
    <3> QED BY <1>4, <3>1 DEF ParagraphToSir, c
  <2>2. DepthOf[p.style[1]] \in 1..3
    BY <1>4 DEF IsTitle, DepthOf
  <2>3. b \in Headings
    <3>1. c \in Contents(WordInline)
      BY <1>1, <1>4 DEF Contents
    <3>2. b \in HeadingsOf(DepthOf[p.style[1]])
      BY <3>1 DEF HeadingsOf
    <3> HIDE DEF b
    <3> QED BY <2>2, <3>2 DEF Headings
  <2> HIDE DEF b
  <2> QED BY <2>1, <2>3 DEF ReadBlocks, WordBlocks
<1>5. CASE c # <<>> /\ p.style = None /\ HasMath(p)
  <2> DEFINE t == JoinWith(Formulas(c), <<"nl">>)
  <2>1. ~IsTitle(p)
    BY <1>5 DEF IsTitle
  <2>2. ParagraphToSir(p) = <<MathBlock("equation", t, None)>>
    BY <1>5, <2>1 DEF ParagraphToSir, Equation, c
  <2>3. t \in Texts
    <3>1. c \in Seq(WordInline)
      BY <1>1
    <3> QED BY <3>1, FormulasJoin
  <2>4. FormulaStands(p) => t \in Ink
    <3>1. FormulaStands(p) => \E j \in 1..Len(c) : c[j] \in WordFormula
      BY <1>1, <1>2, <1>5 DEF FormulaStands
    <3>2. c \in Seq(WordInline)
      BY <1>1
    <3>3. (\E k \in 1..Len(c) : c[k] \in WordFormula) => t \in Ink
      BY <3>2, FormulasJoin
    <3> HIDE DEF t
    <3> QED BY <3>1, <3>3
  <2> HIDE DEF t
  <2>5. MathBlock("equation", t, None) \in ReadBlocks
    BY <2>3 DEF ReadBlocks, Displayed
  <2>6. FormulaStands(p) => MathBlock("equation", t, None) \in WordBlocks
    BY <2>4 DEF WordBlocks, Displayed
  <2>7. FormulaStands(p) \/ c = <<>> => FormulaStands(p)
    BY <1>5
  <2> QED BY <2>2, <2>5, <2>6, <2>7 DEF c
<1>6. CASE c # <<>> /\ ~IsTitle(p) /\ (p.style # None \/ ~HasMath(p))
  <2>1. ParagraphToSir(p) = <<Paragraph(c)>>
    BY <1>6 DEF ParagraphToSir, c
  <2>2. Paragraph(c) \in ReadBlocks
    <3>1. c \in Contents(WordInline)
      BY <1>1, <1>6 DEF Contents
    <3> QED BY <3>1 DEF ReadBlocks
  <2>3. ASSUME FormulaStands(p) PROVE Paragraph(c) \in WordBlocks
    <3>1. ~HasMath(p)
      BY <1>6, <2>3 DEF FormulaStands
    <3>2. c \in Contents(WordText)
      <4>1. c \in Seq(WordText)
        BY <1>1, <3>1
      <4> QED BY <1>6, <4>1 DEF Contents
    <3> QED BY <3>2 DEF WordBlocks
  <2>4. FormulaStands(p) \/ c = <<>> => FormulaStands(p)
    BY <1>6
  <2> QED BY <2>1, <2>2, <2>3, <2>4 DEF c
<1> QED BY <1>3, <1>4, <1>5, <1>6

\* What a block is written as.
Written(Inner(_), b) ==
  CASE b.kind = "heading"   -> P(Some(HeadingStyle(b.attr[1])), InlineRunsWith(Inner, b.inline))
    [] b.kind = "paragraph" -> P(None, InlineRunsWith(Inner, b.inline))
    [] b.kind = "math"      -> P(None, <<OMath(b.text)>>)

\* The blocks by their kind, with what they are written as.
LEMMA HeadingWritten ==
  ASSUME NEW Inner(_), NEW Other(_), NEW b \in Headings
  PROVE  \E depth \in 1..3, c \in Contents(WordInline) :
           /\ b = Heading(depth, FALSE, c, None)
           /\ BlockWith(Inner, Other, b) = <<Written(Inner, b)>>
           /\ Written(Inner, b) = P(Some(HeadingStyle(depth)), InlineRunsWith(Inner, c))
<1>1. PICK depth \in 1..3, c \in Contents(WordInline) : b = Heading(depth, FALSE, c, None)
  <2>1. PICK depth \in 1..3 : b \in HeadingsOf(depth)
    BY DEF Headings
  <2> QED BY <2>1 DEF HeadingsOf
<1>2. b.kind = "heading" /\ b.attr[1] = depth /\ b.inline = c
  BY <1>1 DEF Heading, Block
<1>3. Written(Inner, b) = P(Some(HeadingStyle(depth)), InlineRunsWith(Inner, c))
  BY <1>2 DEF Written
<1>4. BlockWith(Inner, Other, b) = <<P(Some(HeadingStyle(depth)), InlineRunsWith(Inner, c))>>
  BY <1>2 DEF BlockWith
<1> QED BY <1>1, <1>3, <1>4

LEMMA ParagraphWritten ==
  ASSUME NEW Inner(_), NEW Other(_), NEW c
  PROVE  LET b == Paragraph(c) IN
         /\ BlockWith(Inner, Other, b) = <<Written(Inner, b)>>
         /\ Written(Inner, b) = P(None, InlineRunsWith(Inner, c))
<1> DEFINE b == Paragraph(c)
<1>1. b.kind = "paragraph" /\ b.inline = c
  BY DEF Paragraph, Block
<1> HIDE DEF b
<1>2. Written(Inner, b) = P(None, InlineRunsWith(Inner, c))
  BY <1>1 DEF Written
<1>3. BlockWith(Inner, Other, b) = <<P(None, InlineRunsWith(Inner, c))>>
  BY <1>1 DEF BlockWith
<1> QED BY <1>2, <1>3 DEF b

LEMMA DisplayedWritten ==
  ASSUME NEW Inner(_), NEW Other(_), NEW t
  PROVE  LET b == MathBlock("equation", t, None) IN
         /\ BlockWith(Inner, Other, b) = <<Written(Inner, b)>>
         /\ Written(Inner, b) = P(None, <<OMath(t)>>)
<1> DEFINE b == MathBlock("equation", t, None)
<1>1. b.kind = "math" /\ b.text = t
  BY DEF MathBlock, Block
<1> HIDE DEF b
<1>2. Written(Inner, b) = P(None, <<OMath(t)>>)
  BY <1>1 DEF Written
<1>3. BlockWith(Inner, Other, b) = <<P(None, <<OMath(t)>>)>>
  BY <1>1 DEF BlockWith
<1> QED BY <1>2, <1>3 DEF b

\* A block that Word can hold is read back from what it is written as,
LEMMA WordBlockComesBack ==
  ASSUME NEW Inner(_), NEW Other(_), NEW b \in WordBlocks
  PROVE  /\ BlockWith(Inner, Other, b) = <<Written(Inner, b)>>
         /\ Written(Inner, b) \in Paras
         /\ ParagraphToSir(Written(Inner, b)) = <<b>>
<1> DEFINE p == Written(Inner, b)
<1>1. CASE b \in Headings
  <2>1. PICK depth \in 1..3, c \in Contents(WordInline) :
           /\ b = Heading(depth, FALSE, c, None)
           /\ BlockWith(Inner, Other, b) = <<p>>
           /\ p = P(Some(HeadingStyle(depth)), InlineRunsWith(Inner, c))
    BY <1>1, HeadingWritten
  <2>2. HeadingStyle(depth) \in DOMAIN DepthOf /\ DepthOf[HeadingStyle(depth)] = depth
    <3>1. depth = 1 \/ depth = 2 \/ depth = 3
      OBVIOUS
    <3> QED BY <3>1 DEF HeadingStyle, DepthOf
  <2> HIDE DEF p
  <2>3. c \in Seq(WordInline) /\ c # <<>>
    BY DEF Contents
  <2>4. Some(HeadingStyle(depth)) \in Styles
    BY <2>2 DEF Styles, StyleNames, DepthOf
  <2>5. p \in Paras /\ p.style = Some(HeadingStyle(depth)) /\ Content(p) = c
    BY <2>1, <2>3, <2>4, ContentComesBack
  <2>6. IsTitle(p) /\ DepthOf[p.style[1]] = depth /\ ~(p.style = None /\ HasMath(p))
    BY <2>2, <2>5 DEF IsTitle, Some, None
  <2>7. ParagraphToSir(p) = <<Heading(depth, FALSE, c, None)>>
    BY <2>3, <2>5, <2>6 DEF ParagraphToSir
  <2> QED BY <2>1, <2>5, <2>7 DEF p
<1>2. CASE b \in {Paragraph(c) : c \in Contents(WordText)}
  <2>1. PICK c \in Contents(WordText) : b = Paragraph(c)
    BY <1>2
  <2>2. BlockWith(Inner, Other, b) = <<p>> /\ p = P(None, InlineRunsWith(Inner, c))
    BY <2>1, ParagraphWritten
  <2> HIDE DEF p
  <2>3. c \in Seq(WordText) /\ c \in Seq(WordInline) /\ c # <<>>
    BY DEF Contents, WordInline
  <2>4. p \in Paras /\ p.style = None /\ Content(p) = c /\ ~HasMath(p)
    <3>1. None \in Styles
      BY DEF Styles
    <3> QED BY <2>2, <2>3, <3>1, ContentComesBack
  <2>5. ParagraphToSir(p) = <<Paragraph(c)>>
    <3>1. ~IsTitle(p)
      BY <2>4 DEF IsTitle
    <3> QED BY <2>3, <2>4, <3>1 DEF ParagraphToSir
  <2> QED BY <2>1, <2>2, <2>4, <2>5 DEF p
<1>3. CASE b \in Displayed(Ink)
  <2>1. PICK t \in Ink : b = MathBlock("equation", t, None)
    BY <1>3 DEF Displayed
  <2>2. BlockWith(Inner, Other, b) = <<p>> /\ p = P(None, <<OMath(t)>>)
    BY <2>1, DisplayedWritten
  <2> HIDE DEF p
  <2>3. t \in Texts /\ t # <<>>
    BY DEF Ink
  <2>4. p \in Paras /\ ParagraphToSir(p) = <<MathBlock("equation", t, None)>>
    BY <2>2, <2>3, DisplayedComesBack
  <2> QED BY <2>1, <2>2, <2>4 DEF p
<1> QED BY <1>1, <1>2, <1>3 DEF WordBlocks

\* and a block that was read is written as a paragraph whose formulas stand,
\* or which holds nothing.
LEMMA ReadBlockStands ==
  ASSUME NEW Inner(_), NEW Other(_), NEW b \in ReadBlocks
  PROVE  /\ BlockWith(Inner, Other, b) = <<Written(Inner, b)>>
         /\ Written(Inner, b) \in Paras
         /\ FormulaStands(Written(Inner, b)) \/ Content(Written(Inner, b)) = <<>>
<1> DEFINE p == Written(Inner, b)
<1>1. CASE b \in Headings
  <2>1. PICK depth \in 1..3, c \in Contents(WordInline) :
           /\ b = Heading(depth, FALSE, c, None)
           /\ BlockWith(Inner, Other, b) = <<p>>
           /\ p = P(Some(HeadingStyle(depth)), InlineRunsWith(Inner, c))
    BY <1>1, HeadingWritten
  <2>2. HeadingStyle(depth) \in DOMAIN DepthOf
    <3>1. depth = 1 \/ depth = 2 \/ depth = 3
      OBVIOUS
    <3> QED BY <3>1 DEF HeadingStyle, DepthOf
  <2> HIDE DEF p
  <2>3. c \in Seq(WordInline)
    BY DEF Contents
  <2>4. Some(HeadingStyle(depth)) \in Styles
    BY <2>2 DEF Styles, StyleNames, DepthOf
  <2>5. p \in Paras /\ p.style = Some(HeadingStyle(depth))
    BY <2>1, <2>3, <2>4, ContentComesBack
  <2>6. FormulaStands(p)
    <3>1. IsTitle(p) /\ p.style # None
      BY <2>2, <2>5 DEF IsTitle, Some, None
    <3> QED BY <3>1 DEF FormulaStands
  <2> QED BY <2>1, <2>5, <2>6 DEF p
<1>2. CASE b \in {Paragraph(c) : c \in Contents(WordInline)}
  <2>1. PICK c \in Contents(WordInline) : b = Paragraph(c)
    BY <1>2
  <2>2. BlockWith(Inner, Other, b) = <<p>> /\ p = P(None, InlineRunsWith(Inner, c))
    BY <2>1, ParagraphWritten
  <2> HIDE DEF p
  <2>3. c \in Seq(WordInline)
    BY DEF Contents
  <2>4. /\ p \in Paras /\ p.style = None
        /\ HasMath(p) => \E k \in DOMAIN p.items : p.items[k].type = "math" /\ p.items[k].text # <<>>
    <3>1. None \in Styles
      BY DEF Styles
    <3> QED BY <2>2, <2>3, <3>1, ContentComesBack
  <2>5. FormulaStands(p)
    BY <2>4 DEF FormulaStands
  <2> QED BY <2>2, <2>4, <2>5 DEF p
<1>3. CASE b \in Displayed(Texts)
  <2>1. PICK t \in Texts : b = MathBlock("equation", t, None)
    BY <1>3 DEF Displayed
  <2>2. BlockWith(Inner, Other, b) = <<p>> /\ p = P(None, <<OMath(t)>>)
    BY <2>1, DisplayedWritten
  <2> HIDE DEF p
  <2>3. p \in Paras /\ (FormulaStands(p) \/ Content(p) = <<>>)
    BY <2>2, DisplayedComesBack
  <2> QED BY <2>2, <2>3 DEF p
<1> QED BY <1>1, <1>2, <1>3 DEF ReadBlocks

-----------------------------------------------------------------------------
(* Documents                                                               *)

\* A document of blocks that each become one paragraph becomes those paragraphs.
LEMMA EachWritten ==
  ASSUME NEW Inner(_), NEW Other(_), NEW doc, NEW B, doc.body \in Seq(B),
         \A b \in B : /\ BlockWith(Inner, Other, b) = <<Written(Inner, b)>>
                      /\ Written(Inner, b) \in Paras
  PROVE  LET xml == SirToOoxmlWith(Inner, Other, doc) IN
         /\ xml \in Seq(Paras) /\ Len(xml) = Len(doc.body)
         /\ \A k \in 1..Len(doc.body) : xml[k] = Written(Inner, doc.body[k])
<1> DEFINE body == doc.body
           xml == SirToOoxmlWith(Inner, Other, doc)
           paragraphs == [k \in 1..Len(body) |-> Written(Inner, body[k])]
           parts == Map(body, LAMBDA b : BlockWith(Inner, Other, b))
<1>1. parts = [k \in 1..Len(body) |-> BlockWith(Inner, Other, body[k])] /\ xml = FlattenSeq(parts)
  BY DEF Map, SirToOoxmlWith
<1>2. \A k \in 1..Len(body) : /\ body[k] \in B
                              /\ BlockWith(Inner, Other, body[k]) = <<paragraphs[k]>>
                              /\ paragraphs[k] \in Paras /\ paragraphs[k] = Written(Inner, body[k])
  OBVIOUS
<1>3. Len(body) \in Nat /\ paragraphs = [k \in 1..Len(body) |-> paragraphs[k]]
  OBVIOUS
<1> HIDE DEF parts, xml, paragraphs
<1>4. paragraphs \in Seq(Paras) /\ Len(paragraphs) = Len(body)
  <2>1. Len(body) \in Nat /\ \A k \in 1..Len(body) : paragraphs[k] \in Paras
    BY <1>2, <1>3
  <2> HIDE DEF body
  <2> QED BY <1>3, <2>1, IsASeq
<1>5. parts = [k \in 1..Len(paragraphs) |-> <<paragraphs[k]>>]
  BY <1>1, <1>2, <1>4
<1>6. xml = paragraphs
  BY <1>1, <1>4, <1>5, FlattenSingletons
<1> QED BY <1>2, <1>4, <1>6 DEF xml

\* A document of headings of the first three levels, paragraphs of text and
\* displayed formulas comes back from Word as it was, whatever the writer does
\* with other blocks and with styles within styles.
THEOREM WordBlocksComeBack ==
  ASSUME NEW Inner(_), NEW Other(_), NEW doc, doc.body \in Seq(WordBlocks)
  PROVE  OoxmlToSir(SirToOoxmlWith(Inner, Other, doc)).body = doc.body
<1> DEFINE body == doc.body
           xml == SirToOoxmlWith(Inner, Other, doc)
           parts == Map(xml, ParagraphToSir)
<1>1. /\ xml \in Seq(Paras) /\ Len(xml) = Len(body)
      /\ \A k \in 1..Len(body) : xml[k] = Written(Inner, body[k])
  <2>1. \A b \in WordBlocks : /\ BlockWith(Inner, Other, b) = <<Written(Inner, b)>>
                              /\ Written(Inner, b) \in Paras
    BY WordBlockComesBack
  <2> QED BY <2>1, EachWritten
<1> HIDE DEF xml
<1>2. parts = [k \in 1..Len(body) |-> ParagraphToSir(xml[k])]
  BY <1>1 DEF Map
<1>3. OoxmlToSir(xml).body = FlattenSeq(parts)
  BY DEF OoxmlToSir
<1>4. \A k \in 1..Len(body) : ParagraphToSir(xml[k]) = <<body[k]>>
  <2>1. \A k \in 1..Len(body) : body[k] \in WordBlocks
    OBVIOUS
  <2> QED BY <1>1, <2>1, WordBlockComesBack
<1> HIDE DEF parts
<1>5. parts = [k \in 1..Len(body) |-> <<body[k]>>]
  BY <1>2, <1>4
<1>6. FlattenSeq(parts) = body
  BY <1>5, FlattenSingletons
<1> QED BY <1>3, <1>6 DEF xml

\* The blocks that are read from a document.xml.
LEMMA ReadType ==
  ASSUME NEW xml \in Seq(Paras)
  PROVE  /\ OoxmlToSir(xml).body \in Seq(ReadBlocks)
         /\ (\A k \in 1..Len(xml) : FormulaStands(xml[k]) \/ Content(xml[k]) = <<>>)
            => OoxmlToSir(xml).body \in Seq(WordBlocks)
<1> DEFINE parts == Map(xml, ParagraphToSir)
<1>1. parts = [k \in 1..Len(xml) |-> ParagraphToSir(xml[k])]
  BY DEF Map
<1>2. OoxmlToSir(xml).body = FlattenSeq(parts)
  BY DEF OoxmlToSir
<1>3. Len(xml) \in Nat /\ \A k \in 1..Len(xml) : xml[k] \in Paras
  OBVIOUS
<1> HIDE DEF parts
<1>4. parts = [k \in 1..Len(xml) |-> parts[k]] /\ \A k \in 1..Len(xml) : parts[k] = ParagraphToSir(xml[k])
  BY <1>1
<1>5. FlattenSeq(parts) \in Seq(ReadBlocks)
  <2>1. \A k \in 1..Len(xml) : parts[k] \in Seq(ReadBlocks)
    BY <1>3, <1>4, ParagraphIsBlock
  <2>2. parts \in Seq(Seq(ReadBlocks))
    BY <1>3, <1>4, <2>1, IsASeq
  <2> QED BY <2>2, FlattenType
<1>6. ASSUME \A k \in 1..Len(xml) : FormulaStands(xml[k]) \/ Content(xml[k]) = <<>>
      PROVE  FlattenSeq(parts) \in Seq(WordBlocks)
  <2>1. \A k \in 1..Len(xml) : parts[k] \in Seq(WordBlocks)
    BY <1>3, <1>4, <1>6, ParagraphIsBlock
  <2>2. parts \in Seq(Seq(WordBlocks))
    BY <1>3, <1>4, <2>1, IsASeq
  <2> QED BY <2>2, FlattenType
<1> QED BY <1>2, <1>5, <1>6

\* Whatever document.xml was read, if each formula of it stands where it is
\* read as what it was written from, then another trip through Word changes
\* nothing: as much as WordTripSettles says of one trip.
THEOREM SecondTripSettles ==
  ASSUME NEW Inner(_), NEW Other(_), NEW xml \in Seq(Paras),
         \A k \in DOMAIN xml : FormulaStands(xml[k])
  PROVE  LET read == OoxmlToSir(xml) IN
         OoxmlToSir(SirToOoxmlWith(Inner, Other, read)).body = read.body
<1>1. \A k \in 1..Len(xml) : FormulaStands(xml[k])
  OBVIOUS
<1>2. OoxmlToSir(xml).body \in Seq(WordBlocks)
  BY <1>1, ReadType
<1> QED BY <1>2, WordBlocksComeBack

\* And without any condition, after one trip more: what a second trip made, a
\* third leaves alone.
THEOREM ThirdTripSettles ==
  ASSUME NEW Inner(_), NEW Other(_), NEW xml \in Seq(Paras)
  PROVE  LET Trip(doc) == OoxmlToSir(SirToOoxmlWith(Inner, Other, doc))
             second == Trip(OoxmlToSir(xml))
         IN  Trip(second).body = second.body
<1> DEFINE read == OoxmlToSir(xml)
           again == SirToOoxmlWith(Inner, Other, read)
<1>1. read.body \in Seq(ReadBlocks)
  BY ReadType
<1> HIDE DEF read
<1>2. /\ again \in Seq(Paras) /\ Len(again) = Len(read.body)
      /\ \A k \in 1..Len(read.body) : again[k] = Written(Inner, read.body[k])
  <2>1. \A b \in ReadBlocks : /\ BlockWith(Inner, Other, b) = <<Written(Inner, b)>>
                              /\ Written(Inner, b) \in Paras
    BY ReadBlockStands
  <2> QED BY <1>1, <2>1, EachWritten
<1> HIDE DEF again
<1>3. \A k \in 1..Len(again) : FormulaStands(again[k]) \/ Content(again[k]) = <<>>
  <2>1. \A k \in 1..Len(read.body) : read.body[k] \in ReadBlocks
    BY <1>1
  <2> QED BY <1>2, <2>1, ReadBlockStands
<1>4. OoxmlToSir(again).body \in Seq(WordBlocks)
  BY <1>2, <1>3, ReadType
<1>5. OoxmlToSir(SirToOoxmlWith(Inner, Other, OoxmlToSir(again))).body = OoxmlToSir(again).body
  BY <1>4, WordBlocksComeBack
<1> QED BY <1>5 DEF again, read
=============================================================================
