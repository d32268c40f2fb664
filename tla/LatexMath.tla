----------------------------- MODULE LatexMath -----------------------------
(***************************************************************************)
(* latex_to_mathml of the math-pipeline: the recursive descent parser over *)
(* a LaTeX formula s.  Every parsing operator takes the position it starts *)
(* at and returns what it built and the position it stopped at, as the     *)
(* code's methods do through self.pos.  What one call of the code returns  *)
(* as a string is a forest here: it may hold no node (the code's empty     *)
(* string) or several, and the callers treat it as one part all the same.  *)
(***************************************************************************)
EXTENDS MathTree

Parsed(out, pos) == [out |-> out, pos |-> pos]

-----------------------------------------------------------------------------
(* Reading the input.                                                      *)

At(s, i) == IF i <= Len(s) THEN s[i] ELSE "eof"
Expect(s, i, c) == IF At(s, i) = c THEN i + 1 ELSE i

(* The first position from i on whose token is not in the set. *)
After(s, i, set) ==
  CHOOSE k \in i..(Len(s) + 1) : /\ At(s, k) \notin set
                                 /\ \A m \in i..(k - 1) : s[m] \in set
SkipWhitespace(s, i) == After(s, i, Blanks)

(* The first position from i on at which t stands, or the end of the input. *)
Find(s, i, t) ==
  CHOOSE k \in i..(Len(s) + 1) : /\ k = Len(s) + 1 \/ s[k] = t
                                 /\ \A m \in i..(k - 1) : s[m] # t

ReadUntil(s, i, end) == Parsed(SubSeq(s, i, Find(s, i, end) - 1), Find(s, i, end))

Alphabetic  == Letters \cup EnvNames
IsCommand(c) == c \in {"\\frac", "\\sqrt", "\\text", "\\mathrm", "\\mathbf", "\\mathbb",
   "\\mathcal", "\\left", "\\right", "\\begin", "\\end", "\\quad", "\\thinspace", "\\overset",
   "\\underset", "\\underline", "\\phantom", "\\color", "\\boxed", "\\cancel", "\\foo", "\\"}
   \cup DOMAIN SymbolOf \cup DOMAIN Large \cup DOMAIN Named \cup DOMAIN Accents \cup DOMAIN Fences

(* read_alpha: letters that follow a command name directly belong to it,   *)
(* and make it a command nobody knows.                                     *)
CommandEnd(s, i) == After(s, i + 1, Alphabetic)
CommandName(s, i) == IF CommandEnd(s, i) = i + 1 THEN s[i] ELSE "glued"

(* A character consumed by advancing one byte. *)
Char(tag, c) == IF IsWide(c) THEN Leaf("panic", <<c>>) ELSE Leaf(tag, <<c>>)
RawLeaf(tag, attr, text) ==
  IF \E k \in DOMAIN text : IsWide(text[k]) THEN <<Leaf("panic", text)>>
  ELSE <<Node(tag, attr, text, <<>>)>>

ParseNumber(s, i) ==
  LET j == After(s, i, Digits \cup {"."}) IN Parsed(<<Leaf("mn", SubSeq(s, i, j - 1))>>, j)

(* read_delimiter.  The invisible delimiter "." is written as an operator  *)
(* without text, and so is \{, of which only the backslash is read here.   *)
ReadDelimiter(s, i) ==
  LET j    == SkipWhitespace(s, i)
      name == CommandName(s, j)
  IN CASE j > Len(s)           -> Parsed(<<Leaf("mo", <<>>)>>, j)
       [] s[j] = "."           -> Parsed(<<Leaf("mo", <<>>)>>, j + 1)
       [] ~IsCommand(s[j])     -> Parsed(<<Char("mo", s[j])>>, j + 1)
       [] name \in DOMAIN Fences -> Parsed(<<Leaf("mo", <<Fences[name]>>)>>, j + 1)
       [] name = "\\"          -> Parsed(<<Leaf("mo", <<>>)>>, j + 1)
       [] OTHER                -> Parsed(<<Leaf("mo", <<"word">>)>>, CommandEnd(s, j))

(* parse_group_raw: the text up to the brace that closes the group, or one *)
(* character.  Of a command that is its backslash; the letters of its name *)
(* the code reads next, one by one, and they are left out here: a formula  *)
(* with a backslash for a symbol is in no property's precondition.         *)
Depth(s, i, k) == Cardinality({m \in i..k : s[m] = "{"}) - Cardinality({m \in i..k : s[m] = "}"})
ParseGroupRaw(s, i) ==
  LET j == SkipWhitespace(s, i)
      Closes(k) == k = Len(s) + 1 \/ Depth(s, j, k) = 0
      close == CHOOSE k \in j..(Len(s) + 1) : Closes(k) /\ \A m \in j..(k - 1) : ~Closes(m)
  IN IF At(s, j) = "{" THEN Parsed(SubSeq(s, j + 1, close - 1), Expect(s, close, "}"))
     ELSE IF j <= Len(s) THEN Parsed(IF IsCommand(s[j]) THEN <<"\\">> ELSE <<s[j]>>, j + 1)
     ELSE Parsed(<<>>, j)

(* parse_until_end: up to the first \end{env}, whatever is nested inside. *)
ParseUntilEnd(s, i, env) ==
  LET marker == <<"\\end", "{">> \o env \o <<"}">>
      Ends(k) == \/ k = Len(s) + 1
                 \/ k + Len(marker) <= Len(s) + 1 /\ IsPrefix(marker, SubSeq(s, k, Len(s)))
      end == CHOOSE k \in i..(Len(s) + 1) : Ends(k) /\ \A m \in i..(k - 1) : ~Ends(m)
  IN Parsed(SubSeq(s, i, end - 1), IF end > Len(s) THEN end ELSE end + Len(marker))

(* str::split and str::splitn(2): the pieces between the separators.  A    *)
(* row break is two backslashes.                                           *)
IsRowBreak(s, i) == At(s, i) = "\\" /\ At(s, i + 1) = "\\"
RECURSIVE Split(_, _), SplitRows(_)
Split(s, sep) ==
  LET k == Find(s, 1, sep) IN
  IF k > Len(s) THEN <<s>> ELSE <<SubSeq(s, 1, k - 1)>> \o Split(SubSeq(s, k + 1, Len(s)), sep)
SplitRows(s) ==
  LET breaks == {k \in DOMAIN s : IsRowBreak(s, k)}
      k == CHOOSE k \in breaks : \A m \in breaks : k <= m
  IN IF breaks = {} THEN <<s>> ELSE <<SubSeq(s, 1, k - 1)>> \o SplitRows(SubSeq(s, k + 2, Len(s)))
SplitOnce(s, sep) ==
  LET k == Find(s, 1, sep) IN
  IF k > Len(s) THEN <<s>> ELSE <<SubSeq(s, 1, k - 1), SubSeq(s, k + 1, Len(s))>>

-----------------------------------------------------------------------------
(* The methods of the parser call each other through one recursive         *)
(* operator: Call picks the method by its name.  An expression carries the *)
(* parts it has so far.                                                    *)
RECURSIVE Call(_, _, _, _)
Continue(s, i, parts) == Call("expression", s, i, parts)
Expression(s, i)      == Continue(s, i, <<>>)
SingleToken(s, i)     == Call("single_token", s, i, <<>>)
Group(s, i)           == Call("group", s, i, <<>>)
Command(s, i)         == Call("command", s, i, <<>>)

ParseAll(s) == Expression(s, 1).out

ParseSingleToken(s, i) ==
  LET j == SkipWhitespace(s, i) IN
  CASE j > Len(s)       -> Parsed(<<>>, j)
    [] s[j] = "{"       -> LET r == Expression(s, j + 1)
                           IN Parsed(<<Row(r.out)>>, Expect(s, r.pos, "}"))
    [] IsCommand(s[j])  -> Command(s, j)
    [] s[j] \in Digits  -> ParseNumber(s, j)
    [] OTHER            -> Parsed(<<Char("mi", s[j])>>, j + 1)

(* parse_group: a braced group, or else a single token. *)
ParseGroup(s, i) ==
  LET j == SkipWhitespace(s, i)
      r == Expression(s, j + 1)
  IN IF At(s, j) = "{" THEN Parsed(<<Row(r.out)>>, Expect(s, r.pos, "}"))
     ELSE SingleToken(s, j)

(* Commands with one or two arguments that become the children of a node. *)
OneGroup(s, j, Build(_)) == LET r == Group(s, j) IN Parsed(<<Build(r.out)>>, r.pos)
TwoGroups(s, j, Build(_, _)) ==
  LET r == Group(s, j)
      q == Group(s, r.pos)
  IN Parsed(<<Build(r.out, q.out)>>, q.pos)
RawGroup(s, j, tag, attr) ==
  LET r == ParseGroupRaw(s, j) IN Parsed(RawLeaf(tag, attr, r.out), r.pos)

Fraction(s, j) == TwoGroups(s, j, LAMBDA num, den : Elem("mfrac", num \o den))

Root(s, j) ==
  LET d == ReadUntil(s, j + 1, "]")
      c == Group(s, Expect(s, d.pos, "]"))
  IN IF At(s, j) = "[" THEN Parsed(<<Elem("mroot", c.out \o RawLeaf("mn", "", d.out))>>, c.pos)
     ELSE OneGroup(s, j, LAMBDA c1 : Elem("msqrt", c1))

LargeOperator(c) == <<Leaf("mo", IF c \in DOMAIN Large THEN <<Large[c]>> ELSE Named[c])>>

Accent(s, j, c) ==
  IF c = "\\underline"
  THEN OneGroup(s, j, LAMBDA b : Elem("munder", b \o <<Leaf("mo", <<"_">>)>>))
  ELSE OneGroup(s, j, LAMBDA b : Elem("mover", b \o <<Leaf("mo", <<Accents[c]>>)>>))

ConvertMathbb(text) == [k \in DOMAIN text |-> IF text[k] = "R" THEN "RR" ELSE text[k]]

Font(s, j, c) ==
  CASE c = "\\text"    -> RawGroup(s, j, "mtext", "")
    [] c = "\\mathrm"  -> RawGroup(s, j, "mo", "")
    [] c = "\\mathcal" -> RawGroup(s, j, "mi", "script")
    [] c = "\\mathbf"  -> OneGroup(s, j, LAMBDA b : Node("mrow", "bold", <<>>, b))
    [] c = "\\mathbb"  -> LET r == ParseGroupRaw(s, j)
                          IN Parsed(IF \E k \in DOMAIN r.out : IsWide(r.out[k]) THEN <<Leaf("panic", <<>>)>>
                                    ELSE <<Node("mi", "double-struck", ConvertMathbb(r.out), <<>>)>>, r.pos)

(* \left reads the rest of the group: the \right inside it is consumed by  *)
(* the expression as a command of its own that leaves an empty part, and   *)
(* the opening delimiter is written at both ends.                          *)
LeftRight(s, j) ==
  LET d   == ReadDelimiter(s, j)
      r   == Expression(s, d.pos)
      end == IF At(s, r.pos) = "\\right" THEN ReadDelimiter(s, r.pos + 1).pos ELSE r.pos
  IN Parsed(<<Row(d.out \o r.out \o d.out)>>, end)
Right(s, j) ==
  LET d == ReadDelimiter(s, j) IN Parsed(IF Panics(d.out) THEN d.out ELSE <<>>, d.pos)

Stacked(s, j, c) ==
  IF c = "\\overset" THEN TwoGroups(s, j, LAMBDA over, base : Elem("mover", base \o over))
  ELSE TwoGroups(s, j, LAMBDA under, base : Elem("munder", base \o under))

Enclosed(s, j, c) ==
  CASE c = "\\phantom" -> OneGroup(s, j, LAMBDA b : Elem("mphantom", b))
    [] c = "\\boxed"   -> OneGroup(s, j, LAMBDA b : Node("menclose", "box", <<>>, b))
    [] c = "\\cancel"  -> OneGroup(s, j, LAMBDA b : Node("menclose", "updiagonalstrike", <<>>, b))
    [] c = "\\color"   -> LET r == ParseGroupRaw(s, j)
                          IN OneGroup(s, r.pos, LAMBDA b : Elem("mstyle", b))

Space(c) == <<Node("mspace", IF c = "\\quad" THEN "1em" ELSE "0.167em", <<>>, <<>>)>>

(* The rows and cells of an environment, split without regard to nesting. *)
Cell(s) == Elem("mtd", ParseAll(s))
Rows(body, CellsOf(_)) ==
  Map(SplitRows(body), LAMBDA row : Elem("mtr", Map(CellsOf(row), Cell)))
Table(body) == Elem("mtable", Rows(body, LAMBDA row : Split(row, "&")))
CasesRow(row) == LET p == SplitOnce(row, "&") IN IF Len(p) = 2 THEN p ELSE Append(p, <<>>)

Matrix(env, body) ==
  IF env = <<"pmatrix">>
  THEN <<Row(<<Leaf("mo", <<"(">>), Table(body), Leaf("mo", <<")">>)>>)>>
  ELSE <<Table(body)>>
CasesEnv(body)    == <<Row(<<Leaf("mo", <<"{">>), Elem("mtable", Rows(body, CasesRow))>>)>>
GatheredEnv(body) == <<Elem("mtable", Rows(body, LAMBDA row : <<row>>))>>

ParseEnvironment(s, i, env) ==
  LET spec == ReadUntil(s, i + 1, "}")
      from == IF env = <<"array">> /\ At(s, i) = "{" THEN Expect(s, spec.pos, "}") ELSE i
      r    == ParseUntilEnd(s, from, env)
      body == r.out
  IN Parsed(CASE \E k \in DOMAIN body : IsWide(body[k]) -> <<Leaf("panic", <<>>)>>
              [] env \in {<<"matrix">>, <<"pmatrix">>}  -> Matrix(env, body)
              [] env = <<"cases">>                      -> CasesEnv(body)
              [] env \in {<<"aligned">>, <<"array">>}   -> <<Table(body)>>
              [] env = <<"gathered">>                   -> GatheredEnv(body)
              [] OTHER                                  -> ParseAll(body),
            r.pos)

Begin(s, j) == LET r == ParseGroupRaw(s, j) IN ParseEnvironment(s, r.pos, r.out)

ParseCommand(s, i) ==
  LET c == CommandName(s, i)
      j == CommandEnd(s, i)
      Constant(out) == Parsed(out, j)
  IN CASE c = "\\frac"                         -> Fraction(s, j)
       [] c = "\\sqrt"                         -> Root(s, j)
       [] c \in DOMAIN Large \cup DOMAIN Named -> Constant(LargeOperator(c))
       [] c \in DOMAIN Accents \cup {"\\underline"} -> Accent(s, j, c)
       [] c \in {"\\text", "\\mathrm", "\\mathbf", "\\mathbb", "\\mathcal"} -> Font(s, j, c)
       [] c = "\\left"                         -> LeftRight(s, j)
       [] c = "\\right"                        -> Right(s, j)
       [] c \in DOMAIN Fences                  -> Constant(<<Leaf("mo", <<Fences[c]>>)>>)
       [] c = "\\begin"                        -> Begin(s, j)
       [] c \in {"\\quad", "\\thinspace"}      -> Constant(Space(c))
       [] c \in {"\\overset", "\\underset"}    -> Stacked(s, j, c)
       [] c \in {"\\phantom", "\\color", "\\boxed", "\\cancel"} -> Enclosed(s, j, c)
       [] IsSymbol(c)                          -> Constant(<<Leaf("mo", <<SymbolOf[c]>>)>>)
       [] OTHER                                -> Constant(<<Leaf("mo", SubSeq(s, i, j - 1))>>)

(* A script takes the last part as its base, whatever that part is. *)
Script(s, j, parts, mark) ==
  LET base  == IF parts = <<>> THEN <<>> ELSE Last(parts)
      first == SingleToken(s, j + 1)
      k     == SkipWhitespace(s, first.pos)
      sup   == SingleToken(s, k + 1)
      Push(out) == Append(IF parts = <<>> THEN <<>> ELSE Front(parts), <<out>>)
  IN CASE mark = "^"        -> Continue(s, first.pos, Push(Elem("msup", base \o first.out)))
       [] At(s, k) = "^"    -> Continue(s, sup.pos, Push(Elem("msubsup", base \o first.out \o sup.out)))
       [] OTHER             -> Continue(s, k, Push(Elem("msub", base \o first.out)))

ParseExpression(s, i, parts) ==
  LET j == SkipWhitespace(s, i)
      Push(r) == Continue(s, r.pos, Append(parts, r.out))
  IN CASE At(s, j) \in {"eof", "}"} -> Parsed(FlattenSeq(parts), j)
       [] s[j] = "&"                -> Push(Parsed(<<Leaf("stray", <<>>)>>, j + 1))
       [] IsRowBreak(s, j)          -> Push(Parsed(<<Leaf("stray", <<>>)>>, j + 2))
       [] IsCommand(s[j])           -> Push(Command(s, j))
       [] s[j] = "{"                -> Push(SingleToken(s, j))
       [] s[j] \in {"^", "_"}       -> Script(s, j, parts, s[j])
       [] s[j] \in Operators        -> Push(Parsed(<<Leaf("mo", <<s[j]>>)>>, j + 1))
       [] s[j] \in Digits \cup {"."} -> Push(ParseNumber(s, j))
       [] OTHER                     -> Push(Parsed(<<Char("mi", s[j])>>, j + 1))

Call(method, s, i, parts) ==
  CASE method = "expression"   -> ParseExpression(s, i, parts)
    [] method = "single_token" -> ParseSingleToken(s, i)
    [] method = "group"        -> ParseGroup(s, i)
    [] method = "command"      -> ParseCommand(s, i)

(* latex_to_mathml, display = false. *)
LatexToMathml(s) == Elem("math", ParseAll(s))
=============================================================================
