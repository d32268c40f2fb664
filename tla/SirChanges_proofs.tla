------------------------- MODULE SirChanges_proofs -------------------------
(***************************************************************************)
(* What the diff and the selective update do, for all documents, and the   *)
(* base64 code, for all sequences of bytes.  The loops of the code are     *)
(* recursive functions here, so their facts are proved by induction on the *)
(* turns: a set of numbers has a least member.                             *)
(*                                                                         *)
(* The last part: whatever edits are made to a parsed document, the change *)
(* detection and the selective update keep their promises; whatever bytes  *)
(* are encoded, they come back.                                            *)
(***************************************************************************)
EXTENDS SirChanges, FiniteSetTheorems, SequenceTheorems, WellFoundedInduction, TLAPS

-----------------------------------------------------------------------------
(* Induction                                                               *)

LEMMA LeastNumber ==
  ASSUME NEW T, T \subseteq Nat, T # {}
  PROVE  \E n \in T : \A m \in T : n <= m
<1> DEFINE R == OpToRel(<, Nat)
<1>1. R = {ss \in Nat \X Nat : ss[1] < ss[2]}
  BY DEF OpToRel
<1>2. IsWellFoundedOn(R, Nat)
  BY NatLessThanWellFounded
<1> HIDE DEF R
<1>3. PICK x \in T : \A y \in T : <<y, x>> \notin R
  BY <1>2, WFMin
<1>4. ASSUME NEW y \in T PROVE x <= y
  <2>1. x \in Nat /\ y \in Nat
    OBVIOUS
  <2>2. ~(y < x)
    BY <2>1, <1>1, <1>3
  <2> QED BY <2>1, <2>2
<1> QED BY <1>4

\* A loop of L turns: what holds before the first turn, and after every turn
\* before which it held, holds at the end.
LEMMA LoopInduction ==
  ASSUME NEW L \in Nat, NEW T, 0 \in T, \A n \in 1..L : n - 1 \in T => n \in T
  PROVE  0..L \subseteq T
<1> SUFFICES ASSUME ~(0..L \subseteq T) PROVE FALSE
  OBVIOUS
<1>1. (0..L) \ T \subseteq Nat /\ (0..L) \ T # {}
  OBVIOUS
<1>2. PICK n \in (0..L) \ T : \A m \in (0..L) \ T : n <= m
  BY <1>1, LeastNumber
<1>3. n \in 1..L /\ n - 1 \in 0..L /\ ~(n <= n - 1)
  BY <1>2
<1> QED BY <1>2, <1>3

-----------------------------------------------------------------------------
(* Without                                                                 *)

\* One turn of the loop over the blocks of doc.
KeptAfter(doc, ids, kept, n) ==
  IF doc[n].id \in ids THEN kept ELSE Append(kept, doc[n])

\* The values of the loop over a document with blocks in B, turn after turn.
Loop(B, doc, ids, kept) ==
  /\ kept \in [0..Len(doc) -> Seq(B)]
  /\ kept[0] = <<>>
  /\ \A n \in 1..Len(doc) : kept[n] = KeptAfter(doc, ids, kept[n - 1], n)
  /\ Without(doc, ids) = kept[Len(doc)]

LEMMA WithoutLoop ==
  ASSUME NEW B, NEW doc \in Seq(B), NEW ids
  PROVE  \E kept : Loop(B, doc, ids, kept)
<1> DEFINE L == Len(doc)
           Turns(f, m) ==
             f = [n \in 0..m |-> IF n = 0 THEN <<>>
                                 ELSE IF doc[n].id \in ids THEN f[n - 1]
                                 ELSE Append(f[n - 1], doc[n])]
           T == {m \in 0..L : \E f : Turns(f, m)}
           kept == CHOOSE f : Turns(f, L)
<1>1. L \in Nat
  OBVIOUS
<1>2. 0 \in T
  <2> DEFINE f == [n \in 0..0 |-> <<>>]
  <2>1. Turns(f, 0)
    OBVIOUS
  <2> HIDE DEF Turns, f
  <2> QED BY <1>1, <2>1
<1>3. ASSUME NEW m \in 1..L, m - 1 \in T PROVE m \in T
  <2>1. PICK f : Turns(f, m - 1)
    BY <1>3
  <2> DEFINE g == [n \in 0..m |-> IF n = m THEN KeptAfter(doc, ids, f[m - 1], m) ELSE f[n]]
  <2>2. \A n \in 0..(m - 1) : f[n] = IF n = 0 THEN <<>> ELSE KeptAfter(doc, ids, f[n - 1], n)
    BY <2>1 DEF KeptAfter
  <2>3. \A n \in 0..m : g[n] = IF n = 0 THEN <<>> ELSE KeptAfter(doc, ids, g[n - 1], n)
    <3> SUFFICES ASSUME NEW n \in 0..m
                 PROVE  g[n] = IF n = 0 THEN <<>> ELSE KeptAfter(doc, ids, g[n - 1], n)
      OBVIOUS
    <3>1. CASE n = m
      BY <3>1
    <3>2. CASE n # m
      <4>1. n \in 0..(m - 1) /\ g[n] = f[n] /\ (n # 0 => g[n - 1] = f[n - 1])
        BY <3>2
      <4> QED BY <4>1, <2>2
    <3> QED BY <3>1, <3>2
  <2>4. Turns(g, m)
    BY <2>3 DEF KeptAfter
  <2> HIDE DEF Turns, g
  <2> QED BY <2>4
<1>4. Turns(kept, L)
  <2> HIDE DEF Turns, T, L
  <2>1. \A m \in 1..L : m - 1 \in T => m \in T
    BY <1>3
  <2>2. 0..L \subseteq T
    BY <1>1, <1>2, <2>1, LoopInduction
  <2>3. \E f : Turns(f, L)
    BY <1>1, <2>2 DEF T
  <2> QED BY <2>3
<1>5. Without(doc, ids) = kept[L]
  BY DEF Without
<1> HIDE DEF kept
<1>6. /\ kept = [n \in 0..L |-> kept[n]]
      /\ kept[0] = <<>>
      /\ \A n \in 1..L : kept[n] = KeptAfter(doc, ids, kept[n - 1], n)
  <2>1. kept = [n \in 0..L |-> IF n = 0 THEN <<>> ELSE KeptAfter(doc, ids, kept[n - 1], n)]
    BY <1>4 DEF KeptAfter
  <2> HIDE DEF L
  <2>2. \A n \in 0..L : kept[n] = IF n = 0 THEN <<>> ELSE KeptAfter(doc, ids, kept[n - 1], n)
    BY <2>1
  <2> QED BY <1>1, <2>1, <2>2
<1>7. \A n \in 0..L : kept[n] \in Seq(B)
  <2> DEFINE U == {n \in 0..L : kept[n] \in Seq(B)}
  <2>1. 0 \in U
    BY <1>1, <1>6
  <2>2. ASSUME NEW n \in 1..L, n - 1 \in U PROVE n \in U
    <3>1. kept[n - 1] \in Seq(B) /\ doc[n] \in B /\ n \in 0..L
      BY <2>2
    <3>2. KeptAfter(doc, ids, kept[n - 1], n) \in Seq(B)
      BY <3>1 DEF KeptAfter
    <3> QED BY <1>6, <3>1, <3>2
  <2> HIDE DEF U
  <2>3. \A n \in 1..L : n - 1 \in U => n \in U
    BY <2>2
  <2>4. 0..L \subseteq U
    BY <1>1, <2>1, <2>3, LoopInduction
  <2> QED BY <2>4 DEF U
<1> QED BY <1>5, <1>6, <1>7 DEF Loop

LEMMA LoopType ==
  ASSUME NEW B, NEW doc \in Seq(B), NEW ids, NEW kept, Loop(B, doc, ids, kept), NEW n \in 0..Len(doc)
  PROVE  kept[n] \in Seq(B)
BY DEF Loop

\* After n turns kept holds the blocks of doc at the places p: those among the
\* first n, once each, whose identity is not in ids.
Picks(p, doc, ids, kept, n) ==
  /\ Len(kept) = Len(p)
  /\ \A i \in 1..Len(p) : p[i] \in 1..n /\ kept[i] = doc[p[i]] /\ doc[p[i]].id \notin ids
  /\ \A i, j \in 1..Len(p) : p[i] = p[j] => i = j
  /\ \A k \in 1..n : doc[k].id \notin ids => \E i \in 1..Len(p) : p[i] = k

LEMMA PicksDrop ==
  ASSUME NEW doc, NEW ids, NEW kept, NEW p \in Seq(Nat), NEW n \in Nat \ {0},
         doc[n].id \in ids, Picks(p, doc, ids, kept, n - 1)
  PROVE  Picks(p, doc, ids, kept, n)
<1>1. ASSUME NEW k \in 1..n, doc[k].id \notin ids PROVE k \in 1..(n - 1)
  BY <1>1
<1>2. \A i \in 1..Len(p) : p[i] \in 1..n
  BY DEF Picks
<1> QED BY <1>1, <1>2 DEF Picks

LEMMA PicksTake ==
  ASSUME NEW B, NEW doc, NEW ids, NEW kept \in Seq(B), NEW p \in Seq(Nat), NEW n \in Nat \ {0},
         doc[n] \in B, doc[n].id \notin ids, Picks(p, doc, ids, kept, n - 1)
  PROVE  Picks(Append(p, n), doc, ids, Append(kept, doc[n]), n)
<1> DEFINE q == Append(p, n)
           l == Append(kept, doc[n])
<1>1. /\ Len(q) = Len(p) + 1 /\ q[Len(p) + 1] = n
      /\ \A i \in 1..Len(p) : q[i] = p[i]
  BY AppendProperties
<1>2. /\ Len(l) = Len(kept) + 1 /\ l[Len(kept) + 1] = doc[n]
      /\ \A i \in 1..Len(kept) : l[i] = kept[i]
  BY AppendProperties
<1>3. Len(p) \in Nat /\ Len(kept) = Len(p)
  BY DEF Picks
<1> HIDE DEF q, l
<1>4. \A i \in 1..Len(q) : i \in 1..Len(p) \/ i = Len(p) + 1
  BY <1>1, <1>3
<1>5. \A i \in 1..Len(p) : /\ p[i] \in 1..(n - 1) /\ p[i] \in 1..n /\ p[i] # n
                          /\ kept[i] = doc[p[i]] /\ doc[p[i]].id \notin ids
  BY DEF Picks
<1>6. \A i \in 1..Len(q) : q[i] \in 1..n /\ l[i] = doc[q[i]] /\ doc[q[i]].id \notin ids
  BY <1>1, <1>2, <1>3, <1>4, <1>5
<1>7. \A i, j \in 1..Len(q) : q[i] = q[j] => i = j
  BY <1>1, <1>4, <1>5 DEF Picks
<1>8. ASSUME NEW k \in 1..n, doc[k].id \notin ids PROVE \E i \in 1..Len(q) : q[i] = k
  <2>1. CASE k = n
    BY <1>1, <1>3, <2>1
  <2>2. CASE k # n
    <3>1. k \in 1..(n - 1)
      BY <2>2
    <3>2. PICK i \in 1..Len(p) : p[i] = k
      BY <1>8, <3>1 DEF Picks
    <3> QED BY <1>1, <1>3, <3>2
  <2> QED BY <2>1, <2>2
<1>9. Len(l) = Len(q)
  BY <1>1, <1>2, <1>3
<1> QED BY <1>6, <1>7, <1>8, <1>9 DEF Picks, q, l

\* Of two documents with the same identities in the same places, the same places
\* are kept.
LEMMA WithoutPicks ==
  ASSUME NEW B, NEW a \in Seq(B), NEW C, NEW b \in Seq(C), NEW ids,
         Len(a) = Len(b), \A k \in 1..Len(a) : a[k].id = b[k].id
  PROVE  \E p \in Seq(Nat) : /\ Picks(p, a, ids, Without(a, ids), Len(a))
                            /\ Picks(p, b, ids, Without(b, ids), Len(b))
<1>f. PICK f : Loop(B, a, ids, f)
  BY WithoutLoop
<1>g. PICK g : Loop(C, b, ids, g)
  BY WithoutLoop
<1>1. /\ f \in [0..Len(a) -> Seq(B)]
      /\ f[0] = <<>>
      /\ \A n \in 1..Len(a) : f[n] = KeptAfter(a, ids, f[n - 1], n)
      /\ Without(a, ids) = f[Len(a)]
  BY <1>f DEF Loop
<1>2. /\ g \in [0..Len(b) -> Seq(C)]
      /\ g[0] = <<>>
      /\ \A n \in 1..Len(b) : g[n] = KeptAfter(b, ids, g[n - 1], n)
      /\ Without(b, ids) = g[Len(b)]
  BY <1>g DEF Loop
<1> DEFINE Both(n) == \E p \in Seq(Nat) : Picks(p, a, ids, f[n], n) /\ Picks(p, b, ids, g[n], n)
           U == {n \in 0..Len(a) : Both(n)}
<1>3. 0 \in U
  <2>1. Picks(<<>>, a, ids, f[0], 0) /\ Picks(<<>>, b, ids, g[0], 0)
    BY <1>1, <1>2 DEF Picks
  <2>2. <<>> \in Seq(Nat)
    OBVIOUS
  <2>3. Both(0)
    BY <2>1, <2>2
  <2> HIDE DEF Both
  <2> QED BY <2>3
<1>4. ASSUME NEW n \in 1..Len(a), n - 1 \in U PROVE n \in U
  <2>1. PICK p \in Seq(Nat) : Picks(p, a, ids, f[n - 1], n - 1) /\ Picks(p, b, ids, g[n - 1], n - 1)
    BY <1>4
  <2>2. n - 1 \in 0..Len(a) /\ n \in 0..Len(a) /\ n \in Nat \ {0} /\ n \in 1..Len(b)
    OBVIOUS
  <2>3. /\ f[n] = KeptAfter(a, ids, f[n - 1], n) /\ g[n] = KeptAfter(b, ids, g[n - 1], n)
        /\ f[n - 1] \in Seq(B) /\ g[n - 1] \in Seq(C)
    BY <1>1, <1>2, <2>2
  <2>4. a[n].id = b[n].id /\ a[n] \in B /\ b[n] \in C
    BY <2>2
  <2>5. CASE a[n].id \in ids
    <3>1. f[n] = f[n - 1] /\ g[n] = g[n - 1]
      BY <2>3, <2>4, <2>5 DEF KeptAfter
    <3>2. Picks(p, a, ids, f[n], n) /\ Picks(p, b, ids, g[n], n)
      BY <2>1, <2>2, <2>4, <2>5, <3>1, PicksDrop
    <3> QED BY <2>2, <3>2
  <2>6. CASE a[n].id \notin ids
    <3>1. f[n] = Append(f[n - 1], a[n]) /\ g[n] = Append(g[n - 1], b[n])
      BY <2>3, <2>4, <2>6 DEF KeptAfter
    <3>2. Picks(Append(p, n), a, ids, f[n], n)
      BY <2>1, <2>2, <2>3, <2>4, <2>6, <3>1, PicksTake
    <3>3. Picks(Append(p, n), b, ids, g[n], n)
      BY <2>1, <2>2, <2>3, <2>4, <2>6, <3>1, PicksTake
    <3>4. Append(p, n) \in Seq(Nat)
      OBVIOUS
    <3> QED BY <2>2, <3>2, <3>3, <3>4
  <2> QED BY <2>5, <2>6
<1>5. Both(Len(a))
  <2> HIDE DEF U
  <2>1. \A n \in 1..Len(a) : n - 1 \in U => n \in U
    BY <1>4
  <2>2. Len(a) \in Nat
    OBVIOUS
  <2>3. 0..Len(a) \subseteq U
    BY <1>3, <2>1, <2>2, LoopInduction
  <2> QED BY <2>2, <2>3 DEF U
<1> QED BY <1>1, <1>2, <1>5

LEMMA AppendToConcat ==
  ASSUME NEW B, NEW s \in Seq(B), NEW t \in Seq(B), NEW e \in B
  PROVE  s \o Append(t, e) = Append(s \o t, e)
OBVIOUS

LEMMA WithoutConcat ==
  ASSUME NEW B, NEW a \in Seq(B), NEW b \in Seq(B), NEW ids
  PROVE  Without(a \o b, ids) = Without(a, ids) \o Without(b, ids)
<1> DEFINE c == a \o b
<1>1. /\ c \in Seq(B) /\ Len(c) = Len(a) + Len(b)
      /\ \A n \in 1..Len(a) : c[n] = a[n]
      /\ \A n \in 1..Len(b) : c[Len(a) + n] = b[n]
  BY ConcatProperties
<1> HIDE DEF c
<1>f. PICK f : Loop(B, a, ids, f)
  BY WithoutLoop
<1>g. PICK g : Loop(B, b, ids, g)
  BY WithoutLoop
<1>h. PICK h : Loop(B, c, ids, h)
  BY WithoutLoop, <1>1
<1> DEFINE U == {n \in 0..Len(a) : h[n] = f[n]}
           V == {n \in 0..Len(b) : h[Len(a) + n] = f[Len(a)] \o g[n]}
<1>2. Len(a) \in Nat /\ Len(b) \in Nat
  OBVIOUS
<1>3. 0 \in U
  BY <1>f, <1>h DEF Loop
<1>4. ASSUME NEW n \in 1..Len(a), n - 1 \in U PROVE n \in U
  <2>1. n \in 1..Len(c) /\ c[n] = a[n]
    BY <1>1, <1>2
  <2>2. h[n - 1] = f[n - 1]
    BY <1>4
  <2>3. h[n] = KeptAfter(c, ids, h[n - 1], n) /\ f[n] = KeptAfter(a, ids, f[n - 1], n)
    BY <1>f, <1>h, <2>1 DEF Loop
  <2>4. h[n] = f[n]
    BY <2>1, <2>2, <2>3 DEF KeptAfter
  <2> QED BY <2>4
<1>5. h[Len(a)] = f[Len(a)]
  <2> HIDE DEF U
  <2>1. \A n \in 1..Len(a) : n - 1 \in U => n \in U
    BY <1>4
  <2>2. 0..Len(a) \subseteq U
    BY <1>2, <1>3, <2>1, LoopInduction
  <2> QED BY <1>2, <2>2 DEF U
<1>6. /\ f[Len(a)] \in Seq(B)
      /\ \A n \in 0..Len(b) : g[n] \in Seq(B)
  <2>1. Len(a) \in 0..Len(a)
    BY <1>2
  <2> QED BY <1>f, <1>g, <2>1, LoopType
<1>7. 0 \in V
  BY <1>2, <1>5, <1>6, <1>g, ConcatEmptySeq DEF Loop
<1>8. ASSUME NEW n \in 1..Len(b), n - 1 \in V PROVE n \in V
  <2>v. ASSUME h[Len(a) + n] = f[Len(a)] \o g[n] PROVE n \in V
    <3>1. n \in 0..Len(b)
      BY <1>2
    <3> QED BY <2>v, <3>1
  <2>1. Len(a) + n \in 1..Len(c) /\ c[Len(a) + n] = b[n] /\ b[n] \in B
    BY <1>1, <1>2
  <2>2. /\ h[Len(a) + n] = KeptAfter(c, ids, h[Len(a) + n - 1], Len(a) + n)
        /\ g[n] = KeptAfter(b, ids, g[n - 1], n)
    BY <1>g, <1>h, <2>1 DEF Loop
  <2>3. h[Len(a) + n - 1] = f[Len(a)] \o g[n - 1] /\ g[n - 1] \in Seq(B)
    <3>1. h[Len(a) + (n - 1)] = f[Len(a)] \o g[n - 1] /\ n - 1 \in 0..Len(b)
      BY <1>8
    <3>2. Len(a) + n - 1 = Len(a) + (n - 1)
      BY <1>2
    <3> QED BY <1>6, <3>1, <3>2
  <2>4. f[Len(a)] \o Append(g[n - 1], b[n]) = Append(f[Len(a)] \o g[n - 1], b[n])
    <3> DEFINE s == f[Len(a)]
               t == g[n - 1]
               e == b[n]
    <3>1. s \in Seq(B) /\ t \in Seq(B) /\ e \in B
      BY <1>6, <2>1, <2>3
    <3> HIDE DEF s, t, e
    <3>2. s \o Append(t, e) = Append(s \o t, e)
      BY <3>1, AppendToConcat
    <3> QED BY <3>2 DEF s, t, e
  <2>5. CASE b[n].id \in ids
    <3>1. h[Len(a) + n] = f[Len(a)] \o g[n - 1] /\ g[n] = g[n - 1]
      BY <2>1, <2>2, <2>3, <2>5 DEF KeptAfter
    <3>2. h[Len(a) + n] = f[Len(a)] \o g[n]
      BY <3>1
    <3> QED BY <2>v, <3>2
  <2>6. CASE b[n].id \notin ids
    <3>1. /\ h[Len(a) + n] = Append(f[Len(a)] \o g[n - 1], b[n])
          /\ g[n] = Append(g[n - 1], b[n])
      BY <2>1, <2>2, <2>3, <2>6 DEF KeptAfter
    <3>2. h[Len(a) + n] = f[Len(a)] \o g[n]
      BY <2>4, <3>1
    <3> QED BY <2>v, <3>2
  <2> QED BY <2>5, <2>6
<1>9. h[Len(a) + Len(b)] = f[Len(a)] \o g[Len(b)]
  <2> HIDE DEF V
  <2>1. \A n \in 1..Len(b) : n - 1 \in V => n \in V
    BY <1>8
  <2>2. 0..Len(b) \subseteq V
    BY <1>2, <1>7, <2>1, LoopInduction
  <2>3. Len(b) \in V
    BY <1>2, <2>2
  <2> QED BY <2>3 DEF V
<1> QED BY <1>1, <1>9, <1>f, <1>g, <1>h DEF Loop, c

LEMMA WithoutNothing ==
  ASSUME NEW B, NEW doc \in Seq(B), NEW ids, \A k \in 1..Len(doc) : doc[k].id \notin ids
  PROVE  Without(doc, ids) = doc
<1>f. PICK f : Loop(B, doc, ids, f)
  BY WithoutLoop
<1> DEFINE U == {n \in 0..Len(doc) : Len(f[n]) = n /\ \A k \in 1..n : f[n][k] = doc[k]}
<1>1. Len(doc) \in Nat
  OBVIOUS
<1>2. 0 \in U
  BY <1>1, <1>f DEF Loop
<1>3. ASSUME NEW n \in 1..Len(doc), n - 1 \in U PROVE n \in U
  <2>1. n - 1 \in 0..Len(doc) /\ doc[n] \in B /\ f[n - 1] \in Seq(B)
    BY <1>f DEF Loop
  <2>2. f[n] = Append(f[n - 1], doc[n])
    BY <1>f DEF Loop, KeptAfter
  <2>3. Len(f[n - 1]) = n - 1 /\ \A k \in 1..(n - 1) : f[n - 1][k] = doc[k]
    BY <1>3
  <2>4. Len(f[n]) = n /\ \A k \in 1..n : f[n][k] = doc[k]
    BY <2>1, <2>2, <2>3, AppendProperties
  <2> QED BY <2>4
<1>4. Len(doc) \in U
  <2> HIDE DEF U
  <2>1. \A n \in 1..Len(doc) : n - 1 \in U => n \in U
    BY <1>3
  <2>2. 0..Len(doc) \subseteq U
    BY <1>1, <1>2, <2>1, LoopInduction
  <2> QED BY <1>1, <2>2
<1>5. Without(doc, ids) = f[Len(doc)] /\ f[Len(doc)] \in Seq(B)
  BY <1>1, <1>f DEF Loop
<1> QED BY <1>4, <1>5, SeqEqual

-----------------------------------------------------------------------------
(* Documents: sequences of blocks, no two of which have the same identity  *)

Blocks(I, K) == [id : I, kind : K]
Documents(I, K) ==
  {doc \in Seq(Blocks(I, K)) : \A i, k \in 1..Len(doc) : doc[i].id = doc[k].id => i = k}

LEMMA DocumentType ==
  ASSUME NEW I, NEW K, NEW doc \in Documents(I, K)
  PROVE  /\ doc \in Seq(Blocks(I, K)) /\ Len(doc) \in Nat /\ DOMAIN doc = 1..Len(doc)
         /\ \A k \in 1..Len(doc) : doc[k] \in Blocks(I, K) /\ doc[k].id \in Ids(doc)
         /\ \A i, k \in 1..Len(doc) : doc[i].id = doc[k].id => i = k
         /\ \A id \in Ids(doc) : \E k \in 1..Len(doc) : doc[k].id = id
<1>1. doc \in Seq(Blocks(I, K))
  BY DEF Documents
<1>2. Len(doc) \in Nat /\ DOMAIN doc = 1..Len(doc)
  BY <1>1
<1>3. \A k \in 1..Len(doc) : doc[k] \in Blocks(I, K)
  BY <1>1, ElementOfSeq
<1>4. \A i, k \in 1..Len(doc) : doc[i].id = doc[k].id => i = k
  BY DEF Documents
<1>5. \A id : id \in Ids(doc) <=> \E k \in 1..Len(doc) : doc[k].id = id
  BY <1>2 DEF Ids
<1> QED BY <1>1, <1>2, <1>3, <1>4, <1>5

LEMMA BlockWithId ==
  ASSUME NEW I, NEW K, NEW doc \in Documents(I, K), NEW id \in Ids(doc)
  PROVE  \E k \in 1..Len(doc) : doc[k].id = id
BY DocumentType

LEMMA BlockEqual ==
  ASSUME NEW I, NEW K, NEW x \in Blocks(I, K), NEW y \in Blocks(I, K),
         x.id = y.id, x.kind = y.kind
  PROVE  x = y
BY DEF Blocks

LEMMA IdsOfType ==
  ASSUME NEW I, NEW K, NEW doc \in Documents(I, K)
  PROVE  /\ IdsOf(doc) \in Seq(I) /\ Len(IdsOf(doc)) = Len(doc)
         /\ \A k \in 1..Len(doc) : IdsOf(doc)[k] = doc[k].id
<1>1. Len(doc) \in Nat /\ DOMAIN doc = 1..Len(doc)
  BY DocumentType
<1>2. \A k \in 1..Len(doc) : doc[k].id \in I
  BY DocumentType DEF Blocks
<1>3. IdsOf(doc) \in [1..Len(doc) -> I] /\ \A k \in 1..Len(doc) : IdsOf(doc)[k] = doc[k].id
  BY <1>1, <1>2 DEF IdsOf
<1> QED BY <1>1, <1>3

LEMMA DocumentSize ==
  ASSUME NEW I, NEW K, NEW doc \in Documents(I, K)
  PROVE  IsFiniteSet(Ids(doc)) /\ Cardinality(Ids(doc)) = Len(doc)
<1> DEFINE f == [k \in 1..Len(doc) |-> doc[k].id]
<1>1. f \in Surjection(1..Len(doc), Ids(doc)) /\ f \in Injection(1..Len(doc), Ids(doc))
  <2>1. f \in [1..Len(doc) -> Ids(doc)]
    BY DocumentType
  <2>2. \A id \in Ids(doc) : \E k \in 1..Len(doc) : f[k] = id
    BY DocumentType
  <2>3. \A k, l \in 1..Len(doc) : f[k] = f[l] => k = l
    BY DocumentType
  <2> HIDE DEF f
  <2>4. f \in Surjection(1..Len(doc), Ids(doc))
    BY <2>1, <2>2 DEF Surjection
  <2>5. f \in Injection(1..Len(doc), Ids(doc))
    <3>1. DOMAIN f = 1..Len(doc)
      BY <2>1
    <3>2. IsInjective(f)
      BY <2>3, <3>1 DEF IsInjective
    <3> QED BY <2>1, <3>2 DEF Injection
  <2> QED BY <2>4, <2>5
<1>2. IsFiniteSet(1..Len(doc)) /\ Cardinality(1..Len(doc)) = Len(doc)
  <2> DEFINE n == Len(doc)
  <2>1. n \in Nat
    BY DocumentType
  <2> HIDE DEF n
  <2>2. IsFiniteSet(1..n) /\ Cardinality(1..n) = n
    <3>1. 1 \in Int /\ n \in Int
      BY ONLY <2>1
    <3>2. IsFiniteSet(1..n) /\ Cardinality(1..n) = IF 1 > n THEN 0 ELSE n - 1 + 1
      BY ONLY <3>1, FS_Interval
    <3> QED BY ONLY <2>1, <3>2
  <2> QED BY <2>2 DEF n
<1> QED BY <1>1, <1>2, FS_Surjection

LEMMA KindOfBlock ==
  ASSUME NEW I, NEW K, NEW doc \in Documents(I, K), NEW k \in 1..Len(doc)
  PROVE  KindOf(doc, doc[k].id) = doc[k].kind
<1> DEFINE c == CHOOSE i \in DOMAIN doc : doc[i].id = doc[k].id
<1>1. k \in DOMAIN doc
  BY DocumentType
<1>2. c \in DOMAIN doc /\ doc[c].id = doc[k].id
  BY <1>1
<1>3. c = k
  BY <1>2, DocumentType
<1> QED BY <1>3 DEF KindOf

LEMMA WithoutDocument ==
  ASSUME NEW I, NEW K, NEW doc \in Documents(I, K), NEW ids
  PROVE  /\ Without(doc, ids) \in Documents(I, K)
         /\ Ids(Without(doc, ids)) = Ids(doc) \ ids
         /\ \A i \in 1..Len(Without(doc, ids)) :
              \E k \in 1..Len(doc) : Without(doc, ids)[i] = doc[k] /\ doc[k].id \notin ids
         /\ \A k \in 1..Len(doc) : doc[k].id \notin ids =>
              \E i \in 1..Len(Without(doc, ids)) : Without(doc, ids)[i] = doc[k]
<1> DEFINE B == Blocks(I, K)
           w == Without(doc, ids)
<1>1. doc \in Seq(B) /\ DOMAIN doc = 1..Len(doc) /\ Len(doc) \in Nat
  BY DocumentType
<1>2. w \in Seq(B)
  <2>1. PICK f : Loop(B, doc, ids, f)
    BY <1>1, WithoutLoop
  <2> QED BY <1>1, <2>1 DEF Loop
<1>3. PICK p \in Seq(Nat) : Picks(p, doc, ids, w, Len(doc))
  BY <1>1, WithoutPicks
<1> HIDE DEF w, B
<1>4. Len(w) = Len(p) /\ DOMAIN w = 1..Len(w) /\ Len(w) \in Nat
  BY <1>2, <1>3 DEF Picks
<1>5. \A i \in 1..Len(w) : p[i] \in 1..Len(doc) /\ w[i] = doc[p[i]] /\ doc[p[i]].id \notin ids
  BY <1>3, <1>4 DEF Picks
<1>6. \A k \in 1..Len(doc) : doc[k].id \notin ids => \E i \in 1..Len(w) : w[i] = doc[k]
  BY <1>3, <1>4 DEF Picks
<1>7. \A i, j \in 1..Len(w) : w[i].id = w[j].id => i = j
  <2>1. \A k, l \in 1..Len(doc) : doc[k].id = doc[l].id => k = l
    BY DocumentType
  <2>2. \A i, j \in 1..Len(w) : p[i] = p[j] => i = j
    BY <1>3, <1>4 DEF Picks
  <2>3. ASSUME NEW i \in 1..Len(w), NEW j \in 1..Len(w), w[i].id = w[j].id PROVE i = j
    <3>1. doc[p[i]].id = doc[p[j]].id /\ p[i] \in 1..Len(doc) /\ p[j] \in 1..Len(doc)
      BY <1>5, <2>3
    <3>2. p[i] = p[j]
      BY <2>1, <3>1
    <3> QED BY <2>2, <3>2
  <2> QED BY <2>3
<1>8. w \in Documents(I, K)
  BY <1>2, <1>7 DEF Documents, B
<1>9. Ids(w) = Ids(doc) \ ids
  <2>1. ASSUME NEW id \in Ids(w) PROVE id \in Ids(doc) /\ id \notin ids
    <3>1. PICK i \in 1..Len(w) : w[i].id = id
      BY <1>4 DEF Ids
    <3> QED BY <1>1, <1>5, <3>1 DEF Ids
  <2>2. ASSUME NEW id \in Ids(doc), id \notin ids PROVE id \in Ids(w)
    <3>1. PICK k \in 1..Len(doc) : doc[k].id = id
      BY <1>1 DEF Ids
    <3>2. PICK i \in 1..Len(w) : w[i] = doc[k]
      BY <1>6, <2>2, <3>1
    <3> QED BY <1>4, <3>1, <3>2 DEF Ids
  <2> QED BY <2>1, <2>2
<1> QED BY <1>5, <1>6, <1>8, <1>9 DEF w

-----------------------------------------------------------------------------
(* Diff and selective update *)

\* For any two documents, the anchors of one that the other contradicts or lacks
\* are the blocks the report calls modified or removed, and the numbers of
\* unchanged, modified and removed (added) blocks add up to the document's
\* (diff_documents, AnchorStore::diff_against).
THEOREM DetectionAgrees ==
  ASSUME NEW I, NEW K, NEW old \in Documents(I, K), NEW new \in Documents(I, K)
  PROVE  LET report == DiffDocuments(old, new) IN
         /\ DiffAgainst(AnchorsOf(old), AnchorsOf(new)) = report.modified \cup Ids(report.removed)
         /\ Len(old) = report.unchanged + Cardinality(report.modified) + Len(report.removed)
         /\ Len(new) = report.unchanged + Cardinality(report.modified) + Len(report.added)
<1> DEFINE both == Ids(old) \cap Ids(new)
           same == {id \in both : KindOf(old, id) = KindOf(new, id)}
           changed == {id \in both : KindOf(old, id) # KindOf(new, id)}
           removed == Without(old, Ids(new))
           added == Without(new, Ids(old))
<1>1. /\ removed \in Documents(I, K) /\ Ids(removed) = Ids(old) \ Ids(new)
      /\ added \in Documents(I, K) /\ Ids(added) = Ids(new) \ Ids(old)
  BY WithoutDocument
<1> HIDE DEF removed, added
<1>2. /\ IsFiniteSet(Ids(old)) /\ Cardinality(Ids(old)) = Len(old)
      /\ IsFiniteSet(Ids(new)) /\ Cardinality(Ids(new)) = Len(new)
      /\ IsFiniteSet(Ids(removed)) /\ Cardinality(Ids(removed)) = Len(removed)
      /\ IsFiniteSet(Ids(added)) /\ Cardinality(Ids(added)) = Len(added)
  BY <1>1, DocumentSize
<1>3. DiffAgainst(AnchorsOf(old), AnchorsOf(new)) = changed \cup Ids(removed)
  BY <1>1 DEF DiffAgainst, AnchorsOf
<1>4. same \cap changed = {} /\ same \cup changed = both
  OBVIOUS
<1> HIDE DEF same, changed
<1>5. IsFiniteSet(same) /\ IsFiniteSet(changed)
  BY <1>2, <1>4, FS_Subset
<1>6. Cardinality(both) = Cardinality(same) + Cardinality(changed)
  <2>1. Cardinality(same \cup changed) = Cardinality(same) + Cardinality(changed) - Cardinality({})
    BY <1>4, <1>5, FS_Union
  <2>2. Cardinality({}) = 0
    BY FS_EmptySet
  <2>3. Cardinality(same) \in Nat /\ Cardinality(changed) \in Nat
    BY <1>5, FS_CardinalityType
  <2> HIDE DEF both
  <2> QED BY <1>4, <2>1, <2>2, <2>3
<1>7. ASSUME NEW A, NEW C, IsFiniteSet(A), IsFiniteSet(C)
      PROVE  Cardinality(A) = Cardinality(A \cap C) + Cardinality(A \ C)
  <2>1. Cardinality(A \ C) = Cardinality(A) - Cardinality(A \cap C)
    BY <1>7, FS_Difference
  <2>2. Cardinality(A) \in Nat /\ Cardinality(A \cap C) \in Nat
    BY <1>7, FS_CardinalityType, FS_Intersection
  <2> QED BY <2>1, <2>2
<1>8. /\ Cardinality(Ids(old)) = Cardinality(both) + Cardinality(Ids(removed))
      /\ Cardinality(Ids(new)) = Cardinality(both) + Cardinality(Ids(added))
  <2>1. Ids(new) \cap Ids(old) = both
    OBVIOUS
  <2> QED BY <1>1, <1>2, <1>7, <2>1
<1>9. /\ Len(old) = Cardinality(same) + Cardinality(changed) + Len(removed)
      /\ Len(new) = Cardinality(same) + Cardinality(changed) + Len(added)
  BY <1>2, <1>6, <1>8
<1> QED BY <1>3, <1>9 DEF DiffDocuments, same, changed, removed, added

\* The blocks of the old document with the kinds they have in the new one.
LEMMA ReplacedBlocks ==
  ASSUME NEW I, NEW K, NEW old \in Documents(I, K), NEW new \in Documents(I, K)
  PROVE  LET R == Replaced(old, new, DiffDocuments(old, new)) IN
         /\ R \in Documents(I, K) /\ Len(R) = Len(old)
         /\ \A k \in 1..Len(old) : R[k].id = old[k].id
         /\ \A k \in 1..Len(old), m \in 1..Len(new) : old[k].id = new[m].id => R[k] = new[m]
<1> DEFINE report == DiffDocuments(old, new)
           R == Replaced(old, new, report)
           Block == Blocks(I, K)
<1>1. /\ Len(old) \in Nat /\ DOMAIN old = 1..Len(old)
      /\ \A k \in 1..Len(old) : old[k] \in Block /\ old[k].id \in Ids(old)
      /\ \A m \in 1..Len(new) : new[m] \in Block /\ new[m].id \in Ids(new)
      /\ \A i, k \in 1..Len(old) : old[i].id = old[k].id => i = k
      /\ \A id \in Ids(new) : \E m \in 1..Len(new) : new[m].id = id
  <2>1. /\ Len(old) \in Nat /\ DOMAIN old = 1..Len(old)
        /\ \A k \in 1..Len(old) : old[k] \in Blocks(I, K) /\ old[k].id \in Ids(old)
        /\ \A i, k \in 1..Len(old) : old[i].id = old[k].id => i = k
    BY DocumentType
  <2>2. /\ \A m \in 1..Len(new) : new[m] \in Blocks(I, K) /\ new[m].id \in Ids(new)
        /\ \A id \in Ids(new) : \E m \in 1..Len(new) : new[m].id = id
    BY DocumentType
  <2> QED BY <2>1, <2>2
<1>2. \A id : id \in report.modified <=>
              /\ id \in Ids(old) /\ id \in Ids(new) /\ KindOf(old, id) # KindOf(new, id)
  BY DEF DiffDocuments
<1> HIDE DEF report
<1>3. \A k \in 1..Len(old) :
        /\ old[k].id \in report.modified =>
             R[k] = [old[k] EXCEPT !.kind = KindOf(new, old[k].id)]
        /\ old[k].id \notin report.modified => R[k] = old[k]
  BY <1>1 DEF Replaced
<1>4. \A k \in 1..Len(old), m \in 1..Len(new) :
        old[k].id = new[m].id => KindOf(old, old[k].id) = old[k].kind /\ KindOf(new, old[k].id) = new[m].kind
  BY KindOfBlock
<1>5. /\ DOMAIN R = 1..Len(old)
      /\ R = [k \in 1..Len(old) |-> R[k]]
  BY <1>1 DEF Replaced
<1> HIDE DEF R
<1>6. ASSUME NEW k \in 1..Len(old)
      PROVE  /\ R[k] \in Block /\ R[k].id = old[k].id
             /\ \A m \in 1..Len(new) : old[k].id = new[m].id => R[k] = new[m]
  <2>1. CASE old[k].id \in report.modified
    <3>1. PICK m \in 1..Len(new) : new[m].id = old[k].id
      BY <1>1, <1>2, <2>1
    <3>2. KindOf(new, old[k].id) = new[m].kind /\ new[m].kind \in K
      BY <1>1, <1>4, <3>1 DEF Blocks
    <3>3. R[k] = [old[k] EXCEPT !.kind = KindOf(new, old[k].id)] /\ old[k] \in Block
      BY <1>1, <1>3, <2>1
    <3>4. R[k] \in Block /\ R[k].id = old[k].id /\ R[k].kind = KindOf(new, old[k].id)
      BY <3>2, <3>3 DEF Blocks
    <3>5. ASSUME NEW l \in 1..Len(new), old[k].id = new[l].id PROVE R[k] = new[l]
      <4>1. KindOf(new, old[k].id) = new[l].kind /\ new[l] \in Block
        BY <1>1, <1>4, <3>5
      <4> QED BY <3>4, <3>5, <4>1, BlockEqual
    <3> QED BY <3>4, <3>5
  <2>2. CASE old[k].id \notin report.modified
    <3>1. R[k] = old[k] /\ old[k] \in Block
      BY <1>1, <1>3, <2>2
    <3>2. ASSUME NEW l \in 1..Len(new), old[k].id = new[l].id PROVE R[k] = new[l]
      <4>1. /\ KindOf(old, old[k].id) = old[k].kind /\ KindOf(new, old[k].id) = new[l].kind
            /\ new[l] \in Block /\ new[l].id \in Ids(new) /\ old[k].id \in Ids(old)
        BY <1>1, <1>4, <3>2
      <4>2. KindOf(old, old[k].id) = KindOf(new, old[k].id)
        BY <1>2, <2>2, <3>2, <4>1
      <4> QED BY <3>1, <3>2, <4>1, <4>2, BlockEqual
    <3> QED BY <3>1, <3>2
  <2> QED BY <2>1, <2>2
<1>7. R \in Seq(Block) /\ Len(R) = Len(old)
  <2>1. R \in [1..Len(old) -> Block]
    BY <1>5, <1>6
  <2>2. Len(old) \in Nat
    BY <1>1
  <2> HIDE DEF Block
  <2> QED BY <2>1, <2>2
<1>8. R \in Documents(I, K)
  BY <1>1, <1>6, <1>7 DEF Documents
<1> QED BY <1>6, <1>7, <1>8 DEF R, report

\* For any two documents, applying the report of their differences to the old one
\* makes the blocks of the new one, no more and no fewer; and if the blocks in
\* common kept their order and the added ones follow them, it makes the new
\* document (apply_selective_update: replace in place, append, then drop).
THEOREM UpdateMakesNew ==
  ASSUME NEW I, NEW K, NEW old \in Documents(I, K), NEW new \in Documents(I, K)
  PROVE  LET report == DiffDocuments(old, new)
             updated == ApplySelectiveUpdate(old, new, report)
         IN /\ Len(updated) = Len(new)
            /\ BlocksOf(updated) = BlocksOf(new)
            /\ IdsOf(new) = IdsOf(Common(old, new)) \o IdsOf(report.added) => updated = new
<1> DEFINE report == DiffDocuments(old, new)
           R == Replaced(old, new, report)
           gone == Ids(old) \ Ids(new)
           w == Without(R, gone)
           added == Without(new, Ids(old))
           updated == w \o added
           Block == Blocks(I, K)
<1>1. /\ R \in Documents(I, K) /\ Len(R) = Len(old)
      /\ \A k \in 1..Len(old) : R[k].id = old[k].id
      /\ \A k \in 1..Len(old), m \in 1..Len(new) : old[k].id = new[m].id => R[k] = new[m]
  BY ReplacedBlocks
<1>2. report.added = added /\ Ids(report.removed) = gone
  BY WithoutDocument DEF DiffDocuments
<1>3. ApplySelectiveUpdate(old, new, report) = Without(R \o added, gone)
  BY <1>2 DEF ApplySelectiveUpdate
<1> HIDE DEF report, R
<1>4. /\ Len(old) \in Nat /\ old \in Seq(Block) /\ R \in Seq(Block)
      /\ new \in Seq(Block) /\ Len(new) \in Nat /\ DOMAIN new = 1..Len(new)
      /\ \A i, k \in 1..Len(new) : new[i].id = new[k].id => i = k
      /\ \A k \in 1..Len(old) : old[k].id \in Ids(old)
      /\ \A m \in 1..Len(new) : new[m].id \in Ids(new)
      /\ \A id \in Ids(old) : \E k \in 1..Len(old) : old[k].id = id
      /\ \A id \in Ids(new) : \E m \in 1..Len(new) : new[m].id = id
  BY <1>1, DocumentType
<1>5. /\ w \in Documents(I, K) /\ Ids(w) = Ids(R) \ gone
      /\ \A i \in 1..Len(w) : \E k \in 1..Len(R) : w[i] = R[k] /\ R[k].id \notin gone
  <2>1. R \in Documents(I, K)
    BY <1>1
  <2> HIDE DEF gone, R
  <2>2. /\ Without(R, gone) \in Documents(I, K)
        /\ Ids(Without(R, gone)) = Ids(R) \ gone
    BY <2>1, WithoutDocument
  <2>3. \A i \in 1..Len(Without(R, gone)) :
          \E k \in 1..Len(R) : Without(R, gone)[i] = R[k] /\ R[k].id \notin gone
    BY <2>1, WithoutDocument
  <2> QED BY <2>2, <2>3 DEF w
<1>6. /\ added \in Documents(I, K) /\ Ids(added) = Ids(new) \ Ids(old)
      /\ \A i \in 1..Len(added) : \E m \in 1..Len(new) : added[i] = new[m]
  BY WithoutDocument
<1> HIDE DEF w, added
<1>7. /\ w \in Seq(Block) /\ Len(w) \in Nat /\ added \in Seq(Block) /\ Len(added) \in Nat
      /\ \A i, k \in 1..Len(w) : w[i].id = w[k].id => i = k
      /\ \A i, k \in 1..Len(added) : added[i].id = added[k].id => i = k
      /\ \A k \in 1..Len(w) : w[k].id \in Ids(w)
      /\ \A k \in 1..Len(added) : added[k].id \in Ids(added)
  BY <1>5, <1>6, DocumentType
<1>8. Ids(R) = Ids(old)
  <2>1. DOMAIN R = 1..Len(old) /\ DOMAIN old = 1..Len(old)
    BY <1>1, <1>4
  <2> QED BY <1>1, <2>1 DEF Ids
<1>9. ApplySelectiveUpdate(old, new, report) = updated
  <2>1. \A k \in 1..Len(added) : added[k].id \notin gone
    BY <1>6, <1>7
  <2>2. Without(added, gone) = added
    BY <1>7, <2>1, WithoutNothing
  <2>3. Without(R \o added, gone) = Without(R, gone) \o Without(added, gone)
    <3>1. R \in Seq(Block) /\ added \in Seq(Block)
      BY <1>4, <1>7
    <3> QED BY <3>1, WithoutConcat
  <2> QED BY <1>3, <2>2, <2>3 DEF w
<1>10. /\ updated \in Seq(Block) /\ Len(updated) = Len(w) + Len(added)
       /\ DOMAIN updated = 1..Len(updated)
       /\ \A k \in 1..Len(updated) :
            updated[k] = IF k <= Len(w) THEN w[k] ELSE added[k - Len(w)]
  BY <1>7, ConcatProperties
<1> HIDE DEF updated
<1>11. ASSUME NEW k \in 1..Len(updated) PROVE \E m \in 1..Len(new) : updated[k] = new[m]
  <2>1. CASE k <= Len(w)
    <3>1. k \in 1..Len(w) /\ updated[k] = w[k]
      BY <1>7, <1>10, <2>1
    <3>2. PICK l \in 1..Len(old) : w[k] = R[l] /\ R[l].id \notin gone
      BY <1>1, <1>5, <3>1
    <3>3. PICK m \in 1..Len(new) : new[m].id = old[l].id
      BY <1>1, <1>4, <3>2
    <3> QED BY <1>1, <3>1, <3>2, <3>3
  <2>2. CASE ~(k <= Len(w))
    <3>1. k - Len(w) \in 1..Len(added) /\ updated[k] = added[k - Len(w)]
      <4>1. k - Len(w) \in 1..Len(added)
        BY <1>7, <1>10, <2>2
      <4> QED BY <1>10, <2>2, <4>1
    <3> QED BY <1>6, <3>1
  <2> QED BY <2>1, <2>2
<1>12. updated \in Documents(I, K)
  <2>1. ASSUME NEW i \in 1..Len(updated), NEW k \in 1..Len(updated),
               updated[i].id = updated[k].id, i <= k
        PROVE  i = k
    <3>1. CASE k <= Len(w)
      BY <1>7, <1>10, <2>1, <3>1, SMTT(30)
    <3>2. CASE ~(i <= Len(w))
      <4>1. /\ i - Len(w) \in 1..Len(added) /\ updated[i] = added[i - Len(w)]
            /\ k - Len(w) \in 1..Len(added) /\ updated[k] = added[k - Len(w)]
        BY <1>7, <1>10, <2>1, <3>2
      <4>2. i - Len(w) = k - Len(w)
        BY <1>7, <2>1, <4>1
      <4> QED BY <1>7, <4>2
    <3>3. CASE i <= Len(w) /\ ~(k <= Len(w))
      <4>1. /\ i \in 1..Len(w) /\ updated[i] = w[i]
            /\ k - Len(w) \in 1..Len(added) /\ updated[k] = added[k - Len(w)]
        BY <1>7, <1>10, <2>1, <3>3
      <4>2. w[i].id \in Ids(old) /\ added[k - Len(w)].id \notin Ids(old)
        BY <1>5, <1>6, <1>7, <1>8, <4>1
      <4> QED BY <2>1, <4>1, <4>2
    <3> QED BY <1>7, <1>10, <2>1, <3>1, <3>2, <3>3
  <2>2. \A i, k \in 1..Len(updated) : updated[i].id = updated[k].id => i = k
    <3>1. \A i, k \in 1..Len(updated) : i <= k \/ k <= i
      BY <1>7, <1>10
    <3> QED BY <2>1, <3>1
  <2> QED BY <1>10, <2>2 DEF Documents
<1>13. ASSUME NEW m \in 1..Len(new) PROVE \E k \in 1..Len(updated) : updated[k] = new[m]
  <2>1. \E k \in 1..Len(updated) : updated[k].id = new[m].id
    <3>1. CASE new[m].id \in Ids(old)
      <4>1. new[m].id \in Ids(w)
        BY <1>4, <1>5, <1>8, <3>1
      <4>2. PICK k \in 1..Len(w) : w[k].id = new[m].id
        BY <1>5, <4>1, BlockWithId
      <4>3. k \in 1..Len(updated) /\ updated[k] = w[k]
        BY <1>7, <1>10
      <4> QED BY <4>2, <4>3
    <3>2. CASE new[m].id \notin Ids(old)
      <4>1. new[m].id \in Ids(added)
        BY <1>4, <1>6, <3>2
      <4>2. PICK k \in 1..Len(added) : added[k].id = new[m].id
        BY <1>6, <4>1, BlockWithId
      <4>3. Len(w) + k \in 1..Len(updated) /\ updated[Len(w) + k] = added[k]
        <5>1. /\ Len(w) + k \in 1..Len(updated) /\ ~(Len(w) + k <= Len(w))
              /\ (Len(w) + k) - Len(w) = k
          BY <1>7, <1>10
        <5> QED BY <1>10, <5>1
      <4> QED BY <4>2, <4>3
    <3> QED BY <3>1, <3>2
  <2>2. PICK k \in 1..Len(updated) : updated[k].id = new[m].id
    BY <2>1
  <2>3. PICK l \in 1..Len(new) : updated[k] = new[l]
    BY <1>11
  <2>4. l = m
    BY <1>4, <2>2, <2>3
  <2> QED BY <2>3, <2>4
<1>14. BlocksOf(updated) = BlocksOf(new)
  <2>1. DOMAIN updated = 1..Len(updated) /\ DOMAIN new = 1..Len(new)
    BY <1>4, <1>10
  <2>2. \A e : (\E k \in DOMAIN updated : updated[k] = e) <=> \E k \in DOMAIN new : new[k] = e
    BY <1>11, <1>13, <2>1
  <2> QED BY <2>2 DEF BlocksOf
<1>15. Len(updated) = Len(new)
  <2>1. Ids(updated) = Ids(new)
    <3>1. DOMAIN updated = 1..Len(updated) /\ DOMAIN new = 1..Len(new)
      BY <1>4, <1>10
    <3>2. \A id : (\E k \in DOMAIN updated : updated[k].id = id) <=> \E k \in DOMAIN new : new[k].id = id
      <4>1. ASSUME NEW id, NEW k \in DOMAIN updated, updated[k].id = id
            PROVE  \E m \in DOMAIN new : new[m].id = id
        BY <1>11, <3>1, <4>1
      <4>2. ASSUME NEW id, NEW m \in DOMAIN new, new[m].id = id
            PROVE  \E k \in DOMAIN updated : updated[k].id = id
        BY <1>13, <3>1, <4>2
      <4> QED BY <4>1, <4>2
    <3> QED BY <3>2 DEF Ids
  <2>2. Cardinality(Ids(updated)) = Len(updated) /\ Cardinality(Ids(new)) = Len(new)
    BY <1>12, DocumentSize
  <2> QED BY <2>1, <2>2
<1>16. ASSUME IdsOf(new) = IdsOf(Common(old, new)) \o IdsOf(added) PROVE updated = new
  <2> DEFINE c == Without(old, gone)
  <2>1. Common(old, new) = c
    BY DEF Common
  <2>2. PICK p \in Seq(Nat) : Picks(p, R, gone, w, Len(R)) /\ Picks(p, old, gone, c, Len(old))
    BY <1>1, <1>4, WithoutPicks DEF w
  <2>3. /\ c \in Documents(I, K)
    BY WithoutDocument
  <2> HIDE DEF c
  <2>4. c \in Seq(Block) /\ Len(c) = Len(w) /\ \A i \in 1..Len(w) : c[i].id = w[i].id
    <3>1. c \in Seq(Block) /\ Len(c) = Len(w) /\ Len(w) = Len(p)
      BY <2>2, <2>3, DocumentType DEF Picks
    <3> QED BY <1>1, <2>2, <3>1 DEF Picks
  <2>5. ASSUME NEW k \in 1..Len(new) PROVE updated[k].id = new[k].id
    <3>1. /\ IdsOf(c) \in Seq(I) /\ Len(IdsOf(c)) = Len(w)
          /\ \A i \in 1..Len(w) : IdsOf(c)[i] = c[i].id
      BY <2>3, <2>4, IdsOfType
    <3>2. /\ IdsOf(added) \in Seq(I) /\ Len(IdsOf(added)) = Len(added)
          /\ \A i \in 1..Len(added) : IdsOf(added)[i] = added[i].id
      BY <1>6, IdsOfType
    <3>3. IdsOf(new)[k] = new[k].id
      BY <1>4 DEF IdsOf
    <3>4. k \in 1..(Len(w) + Len(added))
      BY <1>10, <1>15
    <3>5. IdsOf(new)[k] = IF k <= Len(w) THEN IdsOf(c)[k] ELSE IdsOf(added)[k - Len(w)]
      BY <1>16, <2>1, <3>1, <3>2, <3>4, ConcatProperties
    <3>6. CASE k <= Len(w)
      BY <1>7, <1>10, <1>15, <2>4, <3>1, <3>3, <3>5, <3>6
    <3>7. CASE ~(k <= Len(w))
      <4>1. k - Len(w) \in 1..Len(added)
        BY <1>7, <3>4, <3>7
      <4> QED BY <1>10, <1>15, <3>2, <3>3, <3>5, <3>7, <4>1
    <3> QED BY <3>6, <3>7
  <2>6. ASSUME NEW k \in 1..Len(new) PROVE updated[k] = new[k]
    <3>1. PICK l \in 1..Len(new) : updated[k] = new[l]
      BY <1>11, <1>15
    <3>2. l = k
      BY <1>4, <2>5, <3>1
    <3> QED BY <3>1, <3>2
  <2>7. updated \in Seq(Block) /\ new \in Seq(Block)
    BY <1>4, <1>10
  <2> QED BY <1>15, <2>6, <2>7, SeqEqual
<1> QED BY <1>2, <1>9, <1>14, <1>15, <1>16 DEF report

-----------------------------------------------------------------------------
(* Base64, for all sequences of bytes: a group of three bytes is the       *)
(* number its four characters write down, the padding says how many bytes  *)
(* of the last group there were, and the decoder puts the groups together  *)
(* in their order.                                                         *)

-----------------------------------------------------------------------------
(* Groups                                                                  *)

\* A group of three bytes is the number its four digits make, and its bytes are
\* found in that number again; digits past the last byte are zero.
SextetsOf(t, a, b, c) ==
  /\ t \in Nat
  /\ Sextet(t, 1) \in 0..63 /\ Sextet(t, 2) \in 0..63
  /\ Sextet(t, 3) \in 0..63 /\ Sextet(t, 4) \in 0..63
  /\ (Sextet(t, 1) * 262144) + (Sextet(t, 2) * 4096) + (Sextet(t, 3) * 64) + Sextet(t, 4) = t
  /\ Octet(t, 1) = a /\ Octet(t, 2) = b /\ Octet(t, 3) = c
  /\ c = 0 => Sextet(t, 4) = 0
  /\ b = 0 /\ c = 0 => Sextet(t, 3) = 0

Triple(t, a, b, c) ==
  /\ a \in 0..255 /\ b \in 0..255 /\ c \in 0..255
  /\ t = (a * 65536) + (b * 256) + c

LEMMA Sextets ==
  ASSUME NEW t, NEW a, NEW b, NEW c, Triple(t, a, b, c)
  PROVE  SextetsOf(t, a, b, c)
<1>0. a \in 0..255 /\ b \in 0..255 /\ c \in 0..255 /\ t = (a * 65536) + (b * 256) + c
  BY DEF Triple
<1>1. /\ t \in Nat /\ t < 16777216 /\ a \in Int /\ b \in Int /\ c \in Int
      /\ a \in 0..255 /\ b \in 0..255 /\ c \in 0..255 /\ t = (a * 65536) + (b * 256) + c
  BY <1>0
<1>2. /\ Sextet(t, 1) = (t \div 262144) % 64 /\ Sextet(t, 2) = (t \div 4096) % 64
      /\ Sextet(t, 3) = (t \div 64) % 64 /\ Sextet(t, 4) = (t \div 1) % 64
  BY DEF Sextet
<1>3. /\ Octet(t, 1) = (t \div 65536) % 256 /\ Octet(t, 2) = (t \div 256) % 256
      /\ Octet(t, 3) = (t \div 1) % 256
  BY DEF Octet
<1>4. (t \div 65536) % 256 = a
  BY <1>1
<1>5. (t \div 256) % 256 = b
  <2>1. t = 256 * (a * 256 + b) + c
    BY <1>1
  <2>2. t \div 256 = a * 256 + b
    BY <1>1, <2>1
  <2> QED BY <1>1, <2>2
<1>6. (t \div 1) % 256 = c
  BY <1>1
<1>7. /\ (t \div 262144) % 64 \in 0..63 /\ (t \div 4096) % 64 \in 0..63
      /\ (t \div 64) % 64 \in 0..63 /\ (t \div 1) % 64 \in 0..63
  BY <1>1
<1>8. (((t \div 262144) % 64) * 262144) + (((t \div 4096) % 64) * 4096)
        + (((t \div 64) % 64) * 64) + ((t \div 1) % 64) = t
  <2>1. t \in Nat /\ t < 16777216
    BY <1>1
  <2> QED BY ONLY <2>1, SMTT(30)
<1>9. ASSUME c = 0 PROVE (t \div 1) % 64 = 0
  <2>1. t = 64 * (a * 1024 + b * 4)
    BY <1>1, <1>9
  <2> QED BY <1>1, <2>1
<1>10. ASSUME b = 0, c = 0 PROVE (t \div 64) % 64 = 0
  <2>1. t = 64 * (64 * (a * 16))
    BY <1>1, <1>10
  <2>2. t \div 64 = 64 * (a * 16)
    BY <1>1, <2>1
  <2> QED BY <1>1, <2>2
<1>11. /\ Sextet(t, 1) \in 0..63 /\ Sextet(t, 2) \in 0..63
       /\ Sextet(t, 3) \in 0..63 /\ Sextet(t, 4) \in 0..63
  BY ONLY <1>2, <1>7
<1>12. (Sextet(t, 1) * 262144) + (Sextet(t, 2) * 4096) + (Sextet(t, 3) * 64) + Sextet(t, 4) = t
  BY ONLY <1>2, <1>8
<1>13. Octet(t, 1) = a /\ Octet(t, 2) = b /\ Octet(t, 3) = c
  BY ONLY <1>3, <1>4, <1>5, <1>6
<1>14. /\ c = 0 => Sextet(t, 4) = 0
       /\ b = 0 /\ c = 0 => Sextet(t, 3) = 0
  BY ONLY <1>2, <1>9, <1>10
<1>15. t \in Nat
  BY <1>1
<1> QED BY ONLY <1>11, <1>12, <1>13, <1>14, <1>15 DEF SextetsOf

LEMMA PackedGroup ==
  ASSUME NEW bytes \in Seq(0..255), NEW g \in Nat \ {0}
  PROVE  /\ \A k \in Nat \ {0} : At(bytes, k) \in 0..255
         /\ At(bytes, 3 * g - 2) \in 0..255 /\ At(bytes, 3 * g - 1) \in 0..255
         /\ At(bytes, 3 * g) \in 0..255
<1>1. ASSUME NEW k \in Nat \ {0} PROVE At(bytes, k) \in 0..255
  <2>1. CASE k <= Len(bytes)
    <3>1. k \in 1..Len(bytes)
      BY <2>1
    <3>2. bytes[k] \in 0..255
      BY <3>1, ElementOfSeq
    <3> QED BY <2>1, <3>2 DEF At
  <2>2. CASE ~(k <= Len(bytes))
    BY <2>2 DEF At
  <2> QED BY <2>1, <2>2
<1>2. 3 * g - 2 \in Nat \ {0} /\ 3 * g - 1 \in Nat \ {0} /\ 3 * g \in Nat \ {0}
  OBVIOUS
<1> QED BY <1>1, <1>2

\* The number of groups of the bytes, and of the code.
Groups(bytes) == (Len(bytes) + 2) \div 3

LEMMA GroupsOf ==
  ASSUME NEW bytes \in Seq(0..255)
  PROVE  /\ Groups(bytes) \in Nat
         /\ Len(bytes) <= 3 * Groups(bytes) /\ 3 * Groups(bytes) <= Len(bytes) + 2
         /\ (4 * Groups(bytes) + 2) \div 4 = Groups(bytes)
         /\ (4 * Groups(bytes)) % 4 = 0
<1>1. Len(bytes) \in Nat
  OBVIOUS
<1>2. ASSUME NEW n \in Nat PROVE /\ (n + 2) \div 3 \in Nat
                                 /\ n <= 3 * ((n + 2) \div 3) /\ 3 * ((n + 2) \div 3) <= n + 2
  OBVIOUS
<1>3. ASSUME NEW n \in Nat PROVE (4 * n + 2) \div 4 = n /\ (4 * n) % 4 = 0
  OBVIOUS
<1> QED BY <1>1, <1>2, <1>3 DEF Groups

LEMMA GroupInside ==
  ASSUME NEW bytes \in Seq(0..255), NEW g \in 1..Groups(bytes)
  PROVE  g \in Nat \ {0} /\ Groups(bytes) \in Nat /\ g <= Groups(bytes) /\ Len(bytes) \in Nat
<1>1. Groups(bytes) \in Nat
  BY GroupsOf
<1>2. Len(bytes) \in Nat
  OBVIOUS
<1> QED BY <1>1, <1>2

\* The four characters of a group.
LEMMA EncodedGroup ==
  ASSUME NEW bytes \in Seq(0..255), NEW g \in 1..Groups(bytes)
  PROVE  LET code == Base64Encode(bytes)
             t == Packed(bytes, g)
         IN /\ code[4 * g - 3] = Sextet(t, 1)
            /\ code[4 * g - 2] = Sextet(t, 2)
            /\ code[4 * g - 1] = IF Len(bytes) >= 3 * g - 1 THEN Sextet(t, 3) ELSE Pad
            /\ code[4 * g] = IF Len(bytes) >= 3 * g THEN Sextet(t, 4) ELSE Pad
<1>1. g \in Nat \ {0} /\ Groups(bytes) \in Nat /\ g <= Groups(bytes) /\ Len(bytes) \in Nat
  BY GroupInside
<1>2. /\ 4 * g - 3 \in 1..(4 * Groups(bytes)) /\ 4 * g - 2 \in 1..(4 * Groups(bytes))
      /\ 4 * g - 1 \in 1..(4 * Groups(bytes)) /\ 4 * g \in 1..(4 * Groups(bytes))
  BY <1>1
<1>3. /\ ((4 * g - 3 - 1) \div 4) + 1 = g /\ ((4 * g - 3 - 1) % 4) + 1 = 1
      /\ ((4 * g - 2 - 1) \div 4) + 1 = g /\ ((4 * g - 2 - 1) % 4) + 1 = 2
      /\ ((4 * g - 1 - 1) \div 4) + 1 = g /\ ((4 * g - 1 - 1) % 4) + 1 = 3
      /\ ((4 * g - 1) \div 4) + 1 = g /\ ((4 * g - 1) % 4) + 1 = 4
  BY <1>1
<1> DEFINE code == Base64Encode(bytes)
           Character(h, d) == IF d <= 2 \/ Len(bytes) >= 3 * (h - 1) + d - 1
                              THEN Sextet(Packed(bytes, h), d) ELSE Pad
<1>4. \A k \in 1..(4 * Groups(bytes)) :
        code[k] = Character(((k - 1) \div 4) + 1, ((k - 1) % 4) + 1)
  BY DEF Base64Encode, Groups
<1>5. /\ Character(g, 1) = Sextet(Packed(bytes, g), 1)
      /\ Character(g, 2) = Sextet(Packed(bytes, g), 2)
      /\ Character(g, 3) = IF Len(bytes) >= 3 * g - 1 THEN Sextet(Packed(bytes, g), 3) ELSE Pad
      /\ Character(g, 4) = IF Len(bytes) >= 3 * g THEN Sextet(Packed(bytes, g), 4) ELSE Pad
  <2>1. 3 * (g - 1) + 3 - 1 = 3 * g - 1 /\ 3 * (g - 1) + 4 - 1 = 3 * g
    BY <1>1
  <2> QED BY <2>1
<1> HIDE DEF code, Character
<1>6. code[4 * g - 3] = Character(g, 1)
  BY <1>2, <1>3, <1>4
<1>7. code[4 * g - 2] = Character(g, 2)
  BY <1>2, <1>3, <1>4
<1>8. code[4 * g - 1] = Character(g, 3)
  BY <1>2, <1>3, <1>4
<1>9. code[4 * g] = Character(g, 4)
  BY <1>2, <1>3, <1>4
<1> QED BY <1>5, <1>6, <1>7, <1>8, <1>9 DEF code

LEMMA SextetType ==
  ASSUME NEW bytes \in Seq(0..255), NEW g \in Nat \ {0}, NEW d \in 1..4
  PROVE  Sextet(Packed(bytes, g), d) \in 0..63
<1> DEFINE a == At(bytes, 3 * g - 2)
           b == At(bytes, 3 * g - 1)
           c == At(bytes, 3 * g)
           t == Packed(bytes, g)
<1>1. a \in 0..255 /\ b \in 0..255 /\ c \in 0..255
  BY PackedGroup
<1>2. t = (a * 65536) + (b * 256) + c
  BY DEF Packed
<1> HIDE DEF a, b, c, t
<1>3. /\ Sextet(t, 1) \in 0..63 /\ Sextet(t, 2) \in 0..63
      /\ Sextet(t, 3) \in 0..63 /\ Sextet(t, 4) \in 0..63
  <2>1. Triple(t, a, b, c)
    BY <1>1, <1>2 DEF Triple
  <2>2. SextetsOf(t, a, b, c)
    BY <2>1, Sextets
  <2> QED BY <2>2 DEF SextetsOf
<1>4. d = 1 \/ d = 2 \/ d = 3 \/ d = 4
  OBVIOUS
<1> QED BY <1>3, <1>4 DEF t

\* The code is a sequence of characters, in groups of four.
LEMMA EncodedType ==
  ASSUME NEW bytes \in Seq(0..255)
  PROVE  /\ Base64Encode(bytes) \in Seq(0..Pad)
         /\ Len(Base64Encode(bytes)) = 4 * Groups(bytes)
<1> DEFINE code == Base64Encode(bytes)
           n == 4 * Groups(bytes)
<1>1. n \in Nat
  BY GroupsOf
<1>2. \A g, d : \A x : x = (IF d <= 2 \/ Len(bytes) >= 3 * (g - 1) + d - 1
                          THEN Sextet(Packed(bytes, g), d) ELSE Pad)
                     => x = Sextet(Packed(bytes, g), d) \/ x = Pad
  OBVIOUS
<1>3. \A k \in 1..n : \/ code[k] = Sextet(Packed(bytes, ((k - 1) \div 4) + 1), ((k - 1) % 4) + 1)
                      \/ code[k] = Pad
  BY <1>2 DEF Base64Encode, Groups
<1>4. ASSUME NEW k \in 1..n PROVE code[k] \in 0..Pad
  <2>1. k - 1 \in Nat
    OBVIOUS
  <2>2. ((k - 1) \div 4) + 1 \in Nat \ {0} /\ ((k - 1) % 4) + 1 \in 1..4
    BY <2>1
  <2>3. Sextet(Packed(bytes, ((k - 1) \div 4) + 1), ((k - 1) % 4) + 1) \in 0..63
    BY <2>2, SextetType
  <2> QED BY <1>3, <2>3 DEF Pad
<1>5. code = [k \in 1..n |-> code[k]]
  BY DEF Base64Encode, Groups
<1> HIDE DEF code, n
<1>6. code \in [1..n -> 0..Pad]
  BY <1>4, <1>5
<1>7. code \in Seq(0..Pad) /\ Len(code) = n
  <2> DEFINE S == 0..Pad
  <2>1. code \in [1..n -> S]
    BY <1>6
  <2> HIDE DEF S
  <2>2. code \in Seq(S) /\ Len(code) = n
    BY <1>1, <2>1
  <2> QED BY <2>2 DEF S
<1> QED BY <1>7 DEF code, n

\* What the decoder makes of a group of the code: the bytes of the group.
LEMMA DecodedGroup ==
  ASSUME NEW bytes \in Seq(0..255), NEW g \in 1..Groups(bytes)
  PROVE  Unpacked(Base64Encode(bytes), g) =
           <<At(bytes, 3 * g - 2)>>
             \o (IF Len(bytes) >= 3 * g - 1 THEN <<At(bytes, 3 * g - 1)>> ELSE <<>>)
             \o (IF Len(bytes) >= 3 * g THEN <<At(bytes, 3 * g)>> ELSE <<>>)
<1> DEFINE a == At(bytes, 3 * g - 2)
           b == At(bytes, 3 * g - 1)
           c == At(bytes, 3 * g)
           t == Packed(bytes, g)
           code == Base64Encode(bytes)
<1>1. g \in Nat \ {0} /\ Groups(bytes) \in Nat /\ g <= Groups(bytes) /\ Len(bytes) \in Nat
  BY GroupInside
<1>2. a \in 0..255 /\ b \in 0..255 /\ c \in 0..255
  BY <1>1, PackedGroup
<1>3. t = (a * 65536) + (b * 256) + c
  BY DEF Packed
<1>4. /\ ~(Len(bytes) >= 3 * g - 1) => b = 0
      /\ ~(Len(bytes) >= 3 * g) => c = 0
      /\ Len(bytes) >= 3 * g => Len(bytes) >= 3 * g - 1
  BY <1>1 DEF At
<1>5. /\ code[4 * g - 3] = Sextet(t, 1)
      /\ code[4 * g - 2] = Sextet(t, 2)
      /\ code[4 * g - 1] = IF Len(bytes) >= 3 * g - 1 THEN Sextet(t, 3) ELSE Pad
      /\ code[4 * g] = IF Len(bytes) >= 3 * g THEN Sextet(t, 4) ELSE Pad
  BY EncodedGroup
<1>6. /\ 4 * g - 3 <= Len(code) /\ 4 * g - 2 <= Len(code)
      /\ 4 * g - 1 <= Len(code) /\ 4 * g <= Len(code)
      /\ 4 * (g - 1) + 2 + 1 = 4 * g - 1 /\ 4 * (g - 1) + 3 + 1 = 4 * g
  BY <1>1, EncodedType
<1> HIDE DEF a, b, c, t, code
<1>7. /\ Sextet(t, 1) \in 0..63 /\ Sextet(t, 2) \in 0..63
      /\ Sextet(t, 3) \in 0..63 /\ Sextet(t, 4) \in 0..63
      /\ (Sextet(t, 1) * 262144) + (Sextet(t, 2) * 4096) + (Sextet(t, 3) * 64) + Sextet(t, 4) = t
      /\ Octet(t, 1) = a /\ Octet(t, 2) = b /\ Octet(t, 3) = c
      /\ c = 0 => Sextet(t, 4) = 0
      /\ b = 0 /\ c = 0 => Sextet(t, 3) = 0
  <2>1. Triple(t, a, b, c)
    BY <1>2, <1>3 DEF Triple
  <2>2. SextetsOf(t, a, b, c)
    BY <2>1, Sextets
  <2> QED BY <2>2 DEF SextetsOf
<1>8. /\ Sextet(t, 1) # Pad /\ Sextet(t, 2) # Pad /\ Sextet(t, 3) # Pad /\ Sextet(t, 4) # Pad
  <2>1. /\ Sextet(t, 1) \in 0..63 /\ Sextet(t, 2) \in 0..63
        /\ Sextet(t, 3) \in 0..63 /\ Sextet(t, 4) \in 0..63
    BY ONLY <1>7
  <2> DEFINE x1 == Sextet(t, 1)
             x2 == Sextet(t, 2)
             x3 == Sextet(t, 3)
             x4 == Sextet(t, 4)
  <2>2. x1 \in 0..63 /\ x2 \in 0..63 /\ x3 \in 0..63 /\ x4 \in 0..63
    BY <2>1
  <2> HIDE DEF x1, x2, x3, x4
  <2>3. x1 # 64 /\ x2 # 64 /\ x3 # 64 /\ x4 # 64
    BY ONLY <2>2, SMT
  <2> QED BY <2>3 DEF x1, x2, x3, x4, Pad
<1>9. /\ Digit(code, 4 * g - 3) = Sextet(t, 1) /\ Digit(code, 4 * g - 2) = Sextet(t, 2)
      /\ Digit(code, 4 * g - 1) = Sextet(t, 3) /\ Digit(code, 4 * g) = Sextet(t, 4)
  <2>1. Digit(code, 4 * g - 3) = Sextet(t, 1)
    BY <1>5, <1>6, <1>8 DEF Digit
  <2>2. Digit(code, 4 * g - 2) = Sextet(t, 2)
    BY <1>5, <1>6, <1>8 DEF Digit
  <2>3. Digit(code, 4 * g - 1) = Sextet(t, 3)
    BY <1>4, <1>5, <1>6, <1>7, <1>8 DEF Digit
  <2>4. Digit(code, 4 * g) = Sextet(t, 4)
    BY <1>4, <1>5, <1>6, <1>7, <1>8 DEF Digit
  <2> QED BY <2>1, <2>2, <2>3, <2>4
<1>10. (Digit(code, 4 * g - 3) * 262144) + (Digit(code, 4 * g - 2) * 4096)
         + (Digit(code, 4 * g - 1) * 64) + Digit(code, 4 * g) = t
  BY <1>7, <1>9
<1>11. /\ (4 * (g - 1) + 2 + 1 <= Len(code) /\ code[4 * (g - 1) + 2 + 1] # Pad) <=> Len(bytes) >= 3 * g - 1
       /\ (4 * (g - 1) + 3 + 1 <= Len(code) /\ code[4 * (g - 1) + 3 + 1] # Pad) <=> Len(bytes) >= 3 * g
  BY <1>5, <1>6, <1>8
<1>12. Unpacked(code, g) = <<Octet(t, 1)>>
         \o (IF Len(bytes) >= 3 * g - 1 THEN <<Octet(t, 2)>> ELSE <<>>)
         \o (IF Len(bytes) >= 3 * g THEN <<Octet(t, 3)>> ELSE <<>>)
  <2> DEFINE number == (Digit(code, 4 * g - 3) * 262144) + (Digit(code, 4 * g - 2) * 4096)
                       + (Digit(code, 4 * g - 1) * 64) + Digit(code, 4 * g)
             Held(b1) == 4 * (g - 1) + b1 + 1 <= Len(code) /\ code[4 * (g - 1) + b1 + 1] # Pad
  <2>1. Unpacked(code, g) = <<Octet(number, 1)>> \o (IF Held(2) THEN <<Octet(number, 2)>> ELSE <<>>)
                                                 \o (IF Held(3) THEN <<Octet(number, 3)>> ELSE <<>>)
    BY DEF Unpacked
  <2>2. number = t
    BY <1>10
  <2>3. /\ Held(2) <=> Len(bytes) >= 3 * g - 1
        /\ Held(3) <=> Len(bytes) >= 3 * g
    BY <1>11
  <2> HIDE DEF number, Held
  <2> QED BY ONLY <2>1, <2>2, <2>3
<1> QED BY <1>7, <1>12 DEF a, b, c, code

\* The bytes of a group, in their places.
Decoded(bytes, u, g) ==
  /\ u \in Seq(0..255)
  /\ 3 * (g - 1) < Len(bytes)
  /\ Len(u) = IF Len(bytes) >= 3 * g THEN 3 ELSE Len(bytes) - 3 * (g - 1)
  /\ \A k \in 1..Len(u) : u[k] = bytes[3 * (g - 1) + k]

LEMMA JoinThree ==
  ASSUME NEW B, NEW x \in Seq(B), NEW y \in Seq(B), NEW z \in Seq(B), Len(x) = 1, Len(y) \in {0, 1}
  PROVE  /\ x \o y \o z \in Seq(B) /\ Len(x \o y \o z) = 1 + Len(y) + Len(z)
         /\ (x \o y \o z)[1] = x[1]
         /\ Len(y) = 1 => (x \o y \o z)[2] = y[1]
         /\ Len(y) = 1 /\ Len(z) = 1 => (x \o y \o z)[3] = z[1]
<1> DEFINE xy == x \o y
<1>1. /\ xy \in Seq(B) /\ Len(xy) = 1 + Len(y)
      /\ \A k \in 1..(1 + Len(y)) : xy[k] = IF k <= 1 THEN x[k] ELSE y[k - 1]
  <2>1. /\ xy \in Seq(B) /\ Len(xy) = Len(x) + Len(y)
        /\ \A k \in 1..(Len(x) + Len(y)) : xy[k] = IF k <= Len(x) THEN x[k] ELSE y[k - Len(x)]
    BY ConcatProperties
  <2> QED BY <2>1
<1> HIDE DEF xy
<1>2. /\ Len(y) \in Nat /\ Len(z) \in Nat /\ xy[1] = x[1]
      /\ Len(y) = 1 => xy[2] = y[1]
  BY <1>1
<1> DEFINE w == xy \o z
<1>3. /\ w \in Seq(B) /\ Len(w) = Len(xy) + Len(z)
      /\ \A k \in 1..(Len(xy) + Len(z)) : w[k] = IF k <= Len(xy) THEN xy[k] ELSE z[k - Len(xy)]
  BY <1>1, ConcatProperties
<1> HIDE DEF w
<1>4. /\ w[1] = xy[1]
      /\ Len(y) = 1 => w[2] = xy[2]
      /\ Len(y) = 1 /\ Len(z) = 1 => w[3] = z[1]
  <2>1. CASE Len(y) = 1
    <3>1. Len(xy) = 2
      BY <1>1, <2>1
    <3>2. \A k \in 1..(2 + Len(z)) : w[k] = IF k <= 2 THEN xy[k] ELSE z[k - 2]
      BY <1>3, <3>1
    <3>3. w[1] = xy[1] /\ w[2] = xy[2]
      BY <1>2, <3>2
    <3>4. ASSUME Len(z) = 1 PROVE w[3] = z[1]
      <4>1. 3 \in 1..(2 + Len(z)) /\ ~(3 <= 2) /\ 3 - 2 = 1
        BY <3>4
      <4> QED BY <3>2, <4>1
    <3> QED BY <3>3, <3>4
  <2>2. CASE Len(y) = 0
    <3>1. Len(xy) = 1
      BY <1>1, <2>2
    <3>2. \A k \in 1..(1 + Len(z)) : w[k] = IF k <= 1 THEN xy[k] ELSE z[k - 1]
      BY <1>3, <3>1
    <3>3. w[1] = xy[1]
      BY <1>2, <3>2
    <3> QED BY <2>2, <3>3
  <2> QED BY <2>1, <2>2
<1>5. /\ w \in Seq(B) /\ Len(w) = 1 + Len(y) + Len(z) /\ w[1] = x[1]
      /\ Len(y) = 1 => w[2] = y[1]
      /\ Len(y) = 1 /\ Len(z) = 1 => w[3] = z[1]
  BY <1>1, <1>2, <1>3, <1>4
<1> QED BY <1>5 DEF w, xy

LEMMA GroupBytes ==
  ASSUME NEW bytes \in Seq(0..255), NEW g \in 1..Groups(bytes)
  PROVE  Decoded(bytes, Unpacked(Base64Encode(bytes), g), g)
<1> DEFINE a == At(bytes, 3 * g - 2)
           b == At(bytes, 3 * g - 1)
           c == At(bytes, 3 * g)
           u == Unpacked(Base64Encode(bytes), g)
           B == 0..255
<1>1. g \in Nat \ {0} /\ Groups(bytes) \in Nat /\ g <= Groups(bytes) /\ Len(bytes) \in Nat
  BY GroupInside
<1>2. a \in B /\ b \in B /\ c \in B
  BY <1>1, PackedGroup
<1>3. 3 * g <= Len(bytes) + 2
  BY <1>1, GroupsOf
<1>4. /\ a = bytes[3 * g - 2]
      /\ Len(bytes) >= 3 * g - 1 => b = bytes[3 * g - 1]
      /\ Len(bytes) >= 3 * g => c = bytes[3 * g]
  BY <1>1, <1>3 DEF At
<1> DEFINE x == <<a>>
           y == IF Len(bytes) >= 3 * g - 1 THEN <<b>> ELSE <<>>
           z == IF Len(bytes) >= 3 * g THEN <<c>> ELSE <<>>
<1>5. u = x \o y \o z
  BY DecodedGroup
<1>6. /\ x \in Seq(B) /\ Len(x) = 1 /\ x[1] = a
      /\ y \in Seq(B) /\ Len(y) \in {0, 1} /\ z \in Seq(B)
      /\ Len(bytes) >= 3 * g - 1 => Len(y) = 1 /\ y[1] = b
      /\ ~(Len(bytes) >= 3 * g - 1) => Len(y) = 0
      /\ Len(bytes) >= 3 * g => Len(z) = 1 /\ z[1] = c
      /\ ~(Len(bytes) >= 3 * g) => Len(z) = 0
  <2> HIDE DEF a, b, c, B
  <2>1. /\ <<a>> \in Seq(B) /\ Len(<<a>>) = 1 /\ <<a>>[1] = a
        /\ <<b>> \in Seq(B) /\ Len(<<b>>) = 1 /\ <<b>>[1] = b
        /\ <<c>> \in Seq(B) /\ Len(<<c>>) = 1 /\ <<c>>[1] = c
        /\ <<>> \in Seq(B) /\ Len(<<>>) = 0
    BY <1>2
  <2> QED BY <2>1
<1> HIDE DEF a, b, c, u, B, x, y, z
<1>7. /\ u \in Seq(B) /\ Len(u) = 1 + Len(y) + Len(z) /\ u[1] = a
      /\ Len(bytes) >= 3 * g - 1 => u[2] = b
      /\ Len(bytes) >= 3 * g => u[3] = c
  <2>1. /\ x \o y \o z \in Seq(B) /\ Len(x \o y \o z) = 1 + Len(y) + Len(z)
        /\ (x \o y \o z)[1] = x[1]
        /\ Len(y) = 1 => (x \o y \o z)[2] = y[1]
        /\ Len(y) = 1 /\ Len(z) = 1 => (x \o y \o z)[3] = z[1]
    <3>1. /\ x \in Seq(B) /\ Len(x) = 1
          /\ y \in Seq(B) /\ Len(y) \in {0, 1} /\ z \in Seq(B)
      BY <1>6
    <3> QED BY ONLY <3>1, JoinThree, SMTT(30)
  <2>2. Len(bytes) >= 3 * g => Len(bytes) >= 3 * g - 1
    BY <1>1
  <2> QED BY <1>5, <1>6, <2>1, <2>2
<1>8. /\ 3 * (g - 1) < Len(bytes)
      /\ 3 * (g - 1) + 1 = 3 * g - 2 /\ 3 * (g - 1) + 2 = 3 * g - 1 /\ 3 * (g - 1) + 3 = 3 * g
  BY <1>1, <1>3
<1>9. Len(u) = IF Len(bytes) >= 3 * g THEN 3 ELSE Len(bytes) - 3 * (g - 1)
  <2>1. CASE Len(bytes) >= 3 * g
    <3>1. Len(bytes) >= 3 * g - 1
      BY <1>1, <2>1
    <3>2. Len(y) = 1 /\ Len(z) = 1
      BY <1>6, <2>1, <3>1
    <3>3. Len(u) = 3
      BY <1>7, <3>2
    <3> QED BY <2>1, <3>3
  <2>2. CASE Len(bytes) = 3 * g - 1
    <3>1. /\ Len(bytes) >= 3 * g - 1 /\ ~(Len(bytes) >= 3 * g)
          /\ Len(bytes) - 3 * (g - 1) = 2
      BY <1>1, <2>2
    <3>2. Len(y) = 1 /\ Len(z) = 0
      BY <1>6, <3>1
    <3>3. Len(u) = 2
      BY <1>7, <3>2
    <3> QED BY <3>1, <3>3
  <2>3. CASE Len(bytes) = 3 * g - 2
    <3>1. /\ ~(Len(bytes) >= 3 * g - 1) /\ ~(Len(bytes) >= 3 * g)
          /\ Len(bytes) - 3 * (g - 1) = 1
      BY <1>1, <2>3
    <3>2. Len(y) = 0 /\ Len(z) = 0
      BY <1>6, <3>1
    <3>3. Len(u) = 1
      BY <1>7, <3>2
    <3> QED BY <3>1, <3>3
  <2> QED BY <1>1, <1>3, <2>1, <2>2, <2>3
<1>10. ASSUME NEW k \in 1..Len(u) PROVE u[k] = bytes[3 * (g - 1) + k]
  <2>1. /\ k = 1 \/ k = 2 \/ k = 3
        /\ k <= Len(bytes) - 3 * (g - 1)
    BY <1>1, <1>8, <1>9
  <2>2. CASE k = 1
    BY <1>4, <1>7, <1>8, <2>2
  <2>3. CASE k = 2
    <3>1. Len(bytes) >= 3 * g - 1
      BY <1>1, <2>1, <2>3
    <3> QED BY <1>4, <1>7, <1>8, <2>3, <3>1
  <2>4. CASE k = 3
    <3>1. Len(bytes) >= 3 * g
      BY <1>1, <2>1, <2>4
    <3> QED BY <1>4, <1>7, <1>8, <2>4, <3>1
  <2> QED BY <2>1, <2>2, <2>3, <2>4
<1> QED BY <1>7, <1>8, <1>9, <1>10 DEF Decoded, u, B

-----------------------------------------------------------------------------
(* The decoder's loop                                                      *)

\* One turn of the decoder: what it has, and the bytes of the next group.
WithGroup(code, before, g) == before \o Unpacked(code, g)

\* The values of the decoder's loop, group after group.
DecoderLoop(code, L, decoded) ==
  /\ decoded[0] = <<>>
  /\ \A g \in 1..L : decoded[g] = WithGroup(code, decoded[g - 1], g)
  /\ Base64Decode(code) = decoded[L]

LEMMA DecoderLoops ==
  ASSUME NEW code, NEW L \in Nat, (Len(code) + 2) \div 4 = L
  PROVE  \E decoded : DecoderLoop(code, L, decoded)
<1> DEFINE Turns(f, m) == f = [g \in 0..m |-> IF g = 0 THEN <<>> ELSE WithGroup(code, f[g - 1], g)]
           T == {m \in 0..L : \E f : Turns(f, m)}
           decoded == CHOOSE f : Turns(f, L)
<1>1. 0 \in T
  <2> DEFINE f == [g \in 0..0 |-> <<>>]
  <2>1. Turns(f, 0)
    OBVIOUS
  <2> HIDE DEF Turns, f
  <2> QED BY <2>1
<1>2. ASSUME NEW m \in 1..L, m - 1 \in T PROVE m \in T
  <2>1. PICK f : Turns(f, m - 1)
    BY <1>2
  <2> DEFINE g == [n \in 0..m |-> IF n = m THEN WithGroup(code, f[m - 1], m) ELSE f[n]]
  <2>2. \A n \in 0..(m - 1) : f[n] = IF n = 0 THEN <<>> ELSE WithGroup(code, f[n - 1], n)
    BY <2>1
  <2>3. \A n \in 0..m : g[n] = IF n = 0 THEN <<>> ELSE WithGroup(code, g[n - 1], n)
    <3> SUFFICES ASSUME NEW n \in 0..m
                 PROVE  g[n] = IF n = 0 THEN <<>> ELSE WithGroup(code, g[n - 1], n)
      OBVIOUS
    <3>1. CASE n = m
      BY <3>1
    <3>2. CASE n # m
      <4>1. n \in 0..(m - 1) /\ g[n] = f[n] /\ (n # 0 => g[n - 1] = f[n - 1])
        BY <3>2
      <4> QED BY <4>1, <2>2
    <3> QED BY <3>1, <3>2
  <2>4. Turns(g, m)
    BY <2>3
  <2> HIDE DEF Turns, g
  <2> QED BY <2>4
<1>3. Turns(decoded, L)
  <2> HIDE DEF Turns, T
  <2>1. \A m \in 1..L : m - 1 \in T => m \in T
    BY <1>2
  <2>2. 0..L \subseteq T
    BY <1>1, <2>1, LoopInduction
  <2>3. \E f : Turns(f, L)
    BY <2>2 DEF T
  <2> QED BY <2>3
<1>4. Base64Decode(code) = decoded[L]
  BY DEF Base64Decode, WithGroup
<1> HIDE DEF decoded
<1>5. \A g \in 0..L : decoded[g] = IF g = 0 THEN <<>> ELSE WithGroup(code, decoded[g - 1], g)
  BY <1>3
<1> QED BY <1>4, <1>5 DEF DecoderLoop

\* For every sequence of bytes: decoding its code gives it back, and the code is
\* made of whole groups of four characters of the alphabet (base64_encode and
\* base64_decode of anchor.rs, with the padding of the last group).
THEOREM Base64ComesBack ==
  ASSUME NEW bytes \in Seq(0..255)
  PROVE  LET code == Base64Encode(bytes) IN
         /\ Base64Decode(code) = bytes
         /\ Len(code) % 4 = 0 /\ \A k \in DOMAIN code : code[k] \in 0..Pad
<1> DEFINE code == Base64Encode(bytes)
           G == Groups(bytes)
           B == 0..255
           Done(g) == IF 3 * g <= Len(bytes) THEN 3 * g ELSE Len(bytes)
<1>1. /\ G \in Nat /\ Len(bytes) \in Nat /\ Len(bytes) <= 3 * G /\ 3 * G <= Len(bytes) + 2
      /\ (4 * G + 2) \div 4 = G /\ (4 * G) % 4 = 0
  BY GroupsOf
<1>2. code \in Seq(0..Pad) /\ Len(code) = 4 * G
  BY EncodedType
<1>3. \A g \in 1..G : Decoded(bytes, Unpacked(code, g), g)
  BY GroupBytes
<1> HIDE DEF code, G
<1>4. (Len(code) + 2) \div 4 = G
  BY <1>1, <1>2
<1>f. PICK f : DecoderLoop(code, G, f)
  BY <1>1, <1>4, DecoderLoops
<1> DEFINE Right(s, g) == s \in Seq(B) /\ Len(s) = Done(g) /\ \A k \in 1..Len(s) : s[k] = bytes[k]
           U == {g \in 0..G : Right(f[g], g)}
<1>5. 0 \in U
  <2>1. f[0] = <<>> /\ 0 \in 0..G
    BY <1>1, <1>f DEF DecoderLoop
  <2>2. Done(0) = 0
    BY <1>1
  <2>3. <<>> \in Seq(B) /\ Len(<<>>) = 0
    OBVIOUS
  <2> HIDE DEF B, Done
  <2>4. Right(f[0], 0)
    BY <2>1, <2>2, <2>3
  <2> HIDE DEF Right
  <2> QED BY <2>1, <2>4
<1>6. ASSUME NEW g \in 1..G, g - 1 \in U PROVE g \in U
  <2> DEFINE s == f[g - 1]
             u == Unpacked(code, g)
             r == f[g]
  <2>1. r = s \o u
    BY <1>f DEF DecoderLoop, WithGroup
  <2>2. s \in Seq(B) /\ Len(s) = Done(g - 1) /\ \A k \in 1..Len(s) : s[k] = bytes[k]
    BY <1>6
  <2>3. /\ u \in Seq(B) /\ 3 * (g - 1) < Len(bytes)
        /\ Len(u) = IF Len(bytes) >= 3 * g THEN 3 ELSE Len(bytes) - 3 * (g - 1)
        /\ \A k \in 1..Len(u) : u[k] = bytes[3 * (g - 1) + k]
    BY <1>3 DEF Decoded
  <2> HIDE DEF B, s, u, r
  <2>4. /\ r \in Seq(B) /\ Len(r) = Len(s) + Len(u)
        /\ \A k \in 1..Len(r) : r[k] = IF k <= Len(s) THEN s[k] ELSE u[k - Len(s)]
    <3>1. s \in Seq(B) /\ u \in Seq(B)
      BY <2>2, <2>3
    <3> QED BY <2>1, <3>1, ConcatProperties
  <2>5. /\ Len(s) = 3 * (g - 1) /\ Len(u) \in Nat /\ Len(r) = Done(g) /\ g \in 0..G
    <3>1. g \in Nat \ {0} /\ g \in 0..G
      BY <1>1
    <3>2. Done(g - 1) = 3 * (g - 1)
      BY <1>1, <2>3, <3>1
    <3>3. Len(s) = 3 * (g - 1)
      BY <2>2, <3>2
    <3>4. Len(u) \in Nat /\ 3 * (g - 1) + 3 = 3 * g
      BY <1>1, <2>3, <3>1
    <3>5. Len(r) = Done(g)
      <4>1. Len(r) = 3 * (g - 1) + Len(u)
        BY <2>4, <3>3
      <4>2. CASE Len(bytes) >= 3 * g
        <5>1. Len(u) = 3
          BY <2>3, <4>2
        <5> QED BY <1>1, <3>4, <4>1, <4>2, <5>1
      <4>3. CASE ~(Len(bytes) >= 3 * g)
        <5>1. Len(u) = Len(bytes) - 3 * (g - 1)
          BY <2>3, <4>3
        <5>2. 3 * (g - 1) + (Len(bytes) - 3 * (g - 1)) = Len(bytes) /\ ~(3 * g <= Len(bytes))
          BY <1>1, <3>1, <4>3
        <5> QED BY <4>1, <5>1, <5>2
      <4> QED BY <4>2, <4>3
    <3> QED BY <3>1, <3>3, <3>4, <3>5
  <2>6. ASSUME NEW k \in 1..Len(r) PROVE r[k] = bytes[k]
    <3>1. CASE k <= Len(s)
      <4>0. k \in 1..Len(r)
        OBVIOUS
      <4>1. k \in 1..Len(s)
        BY <2>2, <3>1
      <4>2. s[k] = bytes[k]
        BY <2>2, <4>1
      <4>3. r[k] = s[k]
        BY ONLY <2>4, <3>1, <4>0
      <4> QED BY ONLY <4>2, <4>3
    <3>2. CASE ~(k <= Len(s))
      <4>0. /\ k \in Nat /\ Len(s) \in Nat /\ Len(u) \in Nat
            /\ k <= Len(s) + Len(u) /\ Len(s) = 3 * (g - 1)
        BY <2>4, <2>5
      <4>1. k - Len(s) \in 1..Len(u) /\ 3 * (g - 1) + (k - Len(s)) = k
        BY ONLY <3>2, <4>0
      <4> QED BY <2>3, <2>4, <3>2, <4>1
    <3> QED BY <3>1, <3>2
  <2>7. Right(r, g)
    BY <2>4, <2>5, <2>6
  <2> HIDE DEF Right
  <2> QED BY <2>5, <2>7 DEF r
<1>7. f[G] = bytes
  <2> HIDE DEF U
  <2>1. \A g \in 1..G : g - 1 \in U => g \in U
    BY <1>6
  <2>2. 0..G \subseteq U
    BY <1>1, <1>5, <2>1, LoopInduction
  <2>3. G \in U
    BY <1>1, <2>2
  <2>4. Right(f[G], G)
    BY <2>3 DEF U
  <2>5. Done(G) = Len(bytes)
    BY <1>1
  <2> HIDE DEF B, Done
  <2>6. bytes \in Seq(B)
    BY DEF B
  <2> QED BY <2>4, <2>5, <2>6, SeqEqual
<1>8. Base64Decode(code) = bytes
  BY <1>7, <1>f DEF DecoderLoop
<1>9. \A k \in DOMAIN code : code[k] \in 0..Pad
  <2> DEFINE S == 0..Pad
  <2>1. code \in Seq(S)
    BY <1>2
  <2> HIDE DEF S
  <2>2. \A k \in DOMAIN code : code[k] \in S
    BY <2>1
  <2> QED BY <2>2 DEF S
<1> QED BY <1>1, <1>2, <1>8, <1>9 DEF code

-----------------------------------------------------------------------------
(* Documents under edit                                                    *)

\* One document with blocks of the kinds, one per identity, none beyond last.
Editable(doc, last) ==
  doc \in Documents(Nat, Kinds) /\ \A k \in 1..Len(doc) : doc[k].id <= last

\* The invariant: both documents have one block per identity, and a fresh
\* identity is larger than all that are in use.
ChangesInv ==
  /\ size \in Nat
  /\ task = "edits" => /\ input = [old |-> input.old, new |-> input.new]
                       /\ input.old \in Documents(Nat, Kinds)
                       /\ Editable(input.new, Len(Original) + size)
  /\ task = "bytes" => input \in Seq(0..255)

-----------------------------------------------------------------------------
(* The edits                                                               *)

\* A sequence whose blocks are, by identity, different blocks of a document.
LEMMA Rearranged ==
  ASSUME NEW doc, NEW new \in Seq(Blocks(Nat, Kinds)), NEW last, Editable(doc, last),
         NEW from, \A i \in 1..Len(new) : from[i] \in 1..Len(doc) /\ new[i].id = doc[from[i]].id,
         \A i, k \in 1..Len(new) : from[i] = from[k] => i = k
  PROVE  Editable(new, last)
<1>1. /\ \A i, k \in 1..Len(doc) : doc[i].id = doc[k].id => i = k
      /\ \A k \in 1..Len(doc) : doc[k].id <= last
  BY DEF Editable, Documents
<1>2. \A i, k \in 1..Len(new) : new[i].id = new[k].id => i = k
  BY <1>1
<1>3. \A i \in 1..Len(new) : new[i].id <= last
  BY <1>1
<1> QED BY <1>2, <1>3 DEF Editable, Documents

LEMMA ParsedEditable == Parsed \in Documents(Nat, Kinds) /\ Editable(Parsed, Len(Original))
<1>1. Original \in Seq(Kinds) /\ Len(Original) \in Nat /\ DOMAIN Original = 1..Len(Original)
  BY InputsAssumption
<1>2. \A k \in 1..Len(Original) : Item(k, Original[k]) \in Blocks(Nat, Kinds) /\ Item(k, Original[k]).id = k
  BY <1>1, ElementOfSeq DEF Item, Blocks
<1>3. /\ Parsed \in [1..Len(Original) -> Blocks(Nat, Kinds)]
      /\ \A k \in 1..Len(Original) : Parsed[k].id = k
  BY <1>1, <1>2 DEF Parsed
<1>4. Parsed \in Seq(Blocks(Nat, Kinds)) /\ Len(Parsed) = Len(Original)
  BY <1>1, <1>3
<1> QED BY <1>1, <1>3, <1>4 DEF Documents, Editable

LEMMA ChangedEditable ==
  ASSUME NEW doc, NEW last, Editable(doc, last), NEW k \in DOMAIN doc, NEW kind \in Kinds
  PROVE  Editable([doc EXCEPT ![k].kind = kind], last)
<1> DEFINE new == [doc EXCEPT ![k].kind = kind]
           Block == Blocks(Nat, Kinds)
<1>1. /\ doc \in Seq(Block) /\ Len(doc) \in Nat /\ DOMAIN doc = 1..Len(doc)
      /\ \A i \in 1..Len(doc) : doc[i] \in Block
  BY DocumentType DEF Editable
<1>2. \A i \in 1..Len(doc) : new[i] = IF i = k THEN [doc[i] EXCEPT !.kind = kind] ELSE doc[i]
  BY <1>1
<1>3. \A x \in Block : [x EXCEPT !.kind = kind] \in Block /\ [x EXCEPT !.kind = kind].id = x.id
  BY DEF Blocks
<1>4. DOMAIN new = 1..Len(doc) /\ new = [i \in 1..Len(doc) |-> new[i]]
  BY <1>1
<1> HIDE DEF new, Block
<1>5. \A i \in 1..Len(doc) : new[i] \in Block /\ new[i].id = doc[i].id
  BY <1>1, <1>2, <1>3
<1>6. new \in [1..Len(doc) -> Block]
  BY <1>4, <1>5
<1>7. new \in Seq(Block) /\ Len(new) = Len(doc)
  BY <1>1, <1>6
<1> DEFINE from == [i \in 1..Len(doc) |-> i]
<1>8. /\ \A i \in 1..Len(new) : from[i] \in 1..Len(doc) /\ new[i].id = doc[from[i]].id
      /\ \A i, j \in 1..Len(new) : from[i] = from[j] => i = j
  BY <1>5, <1>7
<1> HIDE DEF from
<1>9. Editable(new, last)
  BY <1>7, <1>8, Rearranged DEF Block
<1> QED BY <1>9 DEF new

\* What Removed makes of a document that is not the state's.
Cut(doc, k) == SubSeq(doc, 1, k - 1) \o SubSeq(doc, k + 1, Len(doc))

LEMMA CutBlocks ==
  ASSUME NEW B, NEW doc \in Seq(B), NEW k \in 1..Len(doc)
  PROVE  /\ Cut(doc, k) \in Seq(B) /\ Len(Cut(doc, k)) = Len(doc) - 1
         /\ \A i \in 1..(Len(doc) - 1) : Cut(doc, k)[i] = doc[IF i < k THEN i ELSE i + 1]
<1> DEFINE s == SubSeq(doc, 1, k - 1)
           t == SubSeq(doc, k + 1, Len(doc))
           c == s \o t
<1>1. Len(doc) \in Nat /\ k \in Nat /\ 1 <= k /\ k <= Len(doc)
  OBVIOUS
<1>2. /\ s \in Seq(B) /\ Len(s) = k - 1
      /\ \A i \in 1..(k - 1) : s[i] = doc[i]
  BY <1>1, SubSeqProperties
<1>3. /\ t \in Seq(B) /\ Len(t) = Len(doc) - k
      /\ \A i \in 1..(Len(doc) - k) : t[i] = doc[k + i]
  BY <1>1, SubSeqProperties
<1> HIDE DEF s, t
<1>4. /\ c \in Seq(B) /\ Len(c) = Len(s) + Len(t)
      /\ \A i \in 1..(Len(s) + Len(t)) : c[i] = IF i <= Len(s) THEN s[i] ELSE t[i - Len(s)]
  BY <1>2, <1>3, ConcatProperties
<1> HIDE DEF c
<1>5. Len(c) = Len(doc) - 1
  BY <1>1, <1>2, <1>3, <1>4
<1>6. ASSUME NEW i \in 1..(Len(doc) - 1) PROVE c[i] = doc[IF i < k THEN i ELSE i + 1]
  <2>1. c[i] = IF i <= k - 1 THEN s[i] ELSE t[i - (k - 1)]
    BY <1>1, <1>2, <1>3, <1>4
  <2>2. CASE i < k
    <3>1. i <= k - 1 /\ i \in 1..(k - 1)
      BY <1>1, <2>2
    <3> QED BY <1>2, <2>1, <2>2, <3>1
  <2>3. CASE ~(i < k)
    <3>1. ~(i <= k - 1) /\ i - (k - 1) \in 1..(Len(doc) - k) /\ k + (i - (k - 1)) = i + 1
      BY <1>1, <2>3
    <3> QED BY <1>3, <2>1, <2>3, <3>1
  <2> QED BY <2>2, <2>3
<1> QED BY <1>4, <1>5, <1>6 DEF c, s, t, Cut

LEMMA CutEditable ==
  ASSUME NEW doc, NEW last, Editable(doc, last), NEW k \in 1..Len(doc)
  PROVE  Editable(Cut(doc, k), last)
<1> DEFINE c == Cut(doc, k)
           from == [i \in 1..(Len(doc) - 1) |-> IF i < k THEN i ELSE i + 1]
<1>1. doc \in Seq(Blocks(Nat, Kinds)) /\ Len(doc) \in Nat /\ k \in Nat
  BY DocumentType DEF Editable
<1>2. /\ c \in Seq(Blocks(Nat, Kinds)) /\ Len(c) = Len(doc) - 1
      /\ \A i \in 1..(Len(doc) - 1) : c[i] = doc[from[i]]
  BY <1>1, CutBlocks
<1>3. /\ \A i \in 1..(Len(doc) - 1) : from[i] \in 1..Len(doc)
      /\ \A i, j \in 1..(Len(doc) - 1) : from[i] = from[j] => i = j
  BY <1>1
<1> HIDE DEF c, from
<1>4. /\ \A i \in 1..Len(c) : from[i] \in 1..Len(doc) /\ c[i].id = doc[from[i]].id
      /\ \A i, j \in 1..Len(c) : from[i] = from[j] => i = j
  BY <1>2, <1>3
<1>5. c \in Seq(Blocks(Nat, Kinds))
  BY <1>2
<1>6. Editable(c, last)
  BY ONLY Editable(doc, last), <1>4, <1>5, Rearranged
<1> QED BY <1>6 DEF c

LEMMA MovedEditable ==
  ASSUME NEW doc, NEW last, Editable(doc, last), NEW k \in 1..Len(doc)
  PROVE  Editable(Append(Cut(doc, k), doc[k]), last)
<1> DEFINE c == Cut(doc, k)
           n == Append(c, doc[k])
           cutFrom == [i \in 1..(Len(doc) - 1) |-> IF i < k THEN i ELSE i + 1]
           from == [i \in 1..Len(doc) |-> IF i = Len(doc) THEN k ELSE IF i < k THEN i ELSE i + 1]
           Block == Blocks(Nat, Kinds)
<1>1. doc \in Seq(Block) /\ Len(doc) \in Nat /\ k \in Nat /\ doc[k] \in Block
  BY DocumentType DEF Editable
<1>2. /\ c \in Seq(Block) /\ Len(c) = Len(doc) - 1
      /\ \A i \in 1..(Len(doc) - 1) : c[i] = doc[IF i < k THEN i ELSE i + 1]
  BY <1>1, CutBlocks
<1> HIDE DEF c, Block
<1>3. /\ n \in Seq(Block) /\ Len(n) = Len(c) + 1 /\ n[Len(c) + 1] = doc[k]
      /\ \A i \in 1..Len(c) : n[i] = c[i]
  BY <1>1, <1>2, AppendProperties
<1>4. Len(n) = Len(doc)
  BY <1>1, <1>2, <1>3
<1> HIDE DEF n
<1>5. ASSUME NEW i \in 1..Len(doc) PROVE from[i] \in 1..Len(doc) /\ n[i] = doc[from[i]]
  <2>1. CASE i = Len(doc)
    <3>1. i = Len(c) + 1
      BY <1>1, <1>2, <2>1
    <3> QED BY <1>3, <2>1, <3>1
  <2>2. CASE i # Len(doc)
    <3>1. i \in 1..(Len(doc) - 1) /\ i \in 1..Len(c)
      BY <1>1, <1>2, <2>2
    <3>2. n[i] = doc[IF i < k THEN i ELSE i + 1]
      BY <1>2, <1>3, <3>1
    <3>3. (IF i < k THEN i ELSE i + 1) \in 1..Len(doc)
      BY <1>1, <3>1
    <3> QED BY <2>2, <3>2, <3>3
  <2> QED BY <2>1, <2>2
<1>6. \A i, j \in 1..Len(doc) : from[i] = from[j] => i = j
  BY <1>1
<1> HIDE DEF from
<1>7. Editable(n, last)
  BY <1>3, <1>4, <1>5, <1>6, Rearranged DEF Block
<1> QED BY <1>7 DEF n, c

LEMMA InsertedEditable ==
  ASSUME NEW doc, NEW last \in Nat, Editable(doc, last), NEW k \in 0..Len(doc), NEW kind \in Kinds
  PROVE  Editable(SubSeq(doc, 1, k) \o <<Item(last + 1, kind)>> \o SubSeq(doc, k + 1, Len(doc)), last + 1)
<1> DEFINE s == SubSeq(doc, 1, k)
           e == Item(last + 1, kind)
           one == <<e>>
           t == SubSeq(doc, k + 1, Len(doc))
           se == s \o one
           n == se \o t
           Block == Blocks(Nat, Kinds)
<1>1. /\ doc \in Seq(Block) /\ Len(doc) \in Nat /\ k \in Nat /\ k <= Len(doc)
      /\ \A i \in 1..Len(doc) : doc[i] \in Block /\ doc[i].id \in Nat
      /\ \A i \in 1..Len(doc) : doc[i].id <= last
      /\ \A i, j \in 1..Len(doc) : doc[i].id = doc[j].id => i = j
  <2>1. doc \in Documents(Nat, Kinds) /\ \A i \in 1..Len(doc) : doc[i].id <= last
    BY DEF Editable
  <2>2. /\ doc \in Seq(Block) /\ Len(doc) \in Nat
        /\ \A i \in 1..Len(doc) : doc[i] \in Blocks(Nat, Kinds)
        /\ \A i, j \in 1..Len(doc) : doc[i].id = doc[j].id => i = j
    BY <2>1, DocumentType
  <2>3. \A i \in 1..Len(doc) : doc[i].id \in Nat
    BY <2>2 DEF Blocks
  <2> QED BY <2>1, <2>2, <2>3
<1>2. e \in Block /\ e.id = last + 1
  BY DEF Item, Blocks
<1>3. /\ s \in Seq(Block) /\ Len(s) = k
      /\ \A i \in 1..k : s[i] = doc[i]
  BY <1>1, SubSeqProperties
<1>4. /\ t \in Seq(Block) /\ Len(t) = Len(doc) - k
      /\ \A i \in 1..(Len(doc) - k) : t[i] = doc[k + i]
  BY <1>1, SubSeqProperties
<1> HIDE DEF s, t, e, Block
<1>5. one \in Seq(Block) /\ Len(one) = 1 /\ one[1] = e
  BY <1>2
<1> HIDE DEF one
<1>6. /\ se \in Seq(Block) /\ Len(se) = Len(s) + Len(one)
      /\ \A i \in 1..(Len(s) + Len(one)) : se[i] = IF i <= Len(s) THEN s[i] ELSE one[i - Len(s)]
  BY <1>3, <1>5, ConcatProperties
<1> HIDE DEF se
<1>7. /\ n \in Seq(Block) /\ Len(n) = Len(se) + Len(t)
      /\ \A i \in 1..(Len(se) + Len(t)) : n[i] = IF i <= Len(se) THEN se[i] ELSE t[i - Len(se)]
  <2>1. se \in Seq(Block) /\ t \in Seq(Block)
    BY <1>4, <1>6
  <2> QED BY <2>1, ConcatProperties
<1> HIDE DEF n
<1>8. Len(se) = k + 1 /\ Len(n) = Len(doc) + 1
  BY <1>1, <1>3, <1>4, <1>5, <1>6, <1>7
<1>9. ASSUME NEW i \in 1..(Len(doc) + 1)
      PROVE  /\ i <= k => i \in 1..Len(doc) /\ n[i] = doc[i]
             /\ i = k + 1 => n[i] = e
             /\ i > k + 1 => i - 1 \in 1..Len(doc) /\ n[i] = doc[i - 1]
  <2>1. CASE i <= k
    <3>1. i <= Len(se) /\ i <= Len(s) /\ i \in 1..k /\ i \in 1..Len(doc)
          /\ i \in 1..(Len(s) + Len(one)) /\ i \in 1..(Len(se) + Len(t))
          /\ ~(i = k + 1) /\ ~(i > k + 1)
      BY <1>1, <1>3, <1>4, <1>5, <1>8, <2>1
    <3> QED BY <1>3, <1>6, <1>7, <3>1
  <2>2. CASE i = k + 1
    <3>1. i <= Len(se) /\ ~(i <= Len(s)) /\ i - Len(s) = 1
          /\ i \in 1..(Len(s) + Len(one)) /\ i \in 1..(Len(se) + Len(t))
          /\ ~(i <= k) /\ ~(i > k + 1)
      BY <1>1, <1>3, <1>4, <1>5, <1>8, <2>2
    <3> QED BY <1>5, <1>6, <1>7, <3>1
  <2>3. CASE i > k + 1
    <3>1. ~(i <= Len(se)) /\ i - Len(se) \in 1..(Len(doc) - k) /\ k + (i - Len(se)) = i - 1
          /\ i \in 1..(Len(se) + Len(t)) /\ i - 1 \in 1..Len(doc)
          /\ ~(i <= k) /\ ~(i = k + 1)
      BY <1>1, <1>4, <1>8, <2>3
    <3> QED BY <1>4, <1>7, <3>1
  <2> QED BY <1>1, <2>1, <2>2, <2>3
<1>10. ASSUME NEW i \in 1..(Len(doc) + 1) PROVE n[i].id <= last + 1 /\ n[i].id \in Nat
  <2>1. i <= k \/ i = k + 1 \/ i > k + 1
    BY <1>1
  <2> QED BY <1>1, <1>2, <1>9, <2>1, SMTT(30)
<1>11. ASSUME NEW i \in 1..(Len(doc) + 1), NEW j \in 1..(Len(doc) + 1), n[i].id = n[j].id, i < j
       PROVE  FALSE
  <2>1. \A m \in 1..Len(doc) : doc[m].id # last + 1
    BY <1>1
  <2>2. CASE j <= k
    <3>1. i <= k /\ i # j
      BY <1>1, <1>11, <2>2
    <3> QED BY <1>1, <1>9, <1>11, <2>2, <3>1
  <2>3. CASE j = k + 1
    <3>1. i <= k
      BY <1>1, <1>11, <2>3
    <3> QED BY <1>2, <1>9, <1>11, <2>1, <2>3, <3>1
  <2>4. CASE j > k + 1
    <3>1. CASE i <= k
      <4>1. i # j - 1
        BY <1>1, <2>4, <3>1
      <4> QED BY <1>1, <1>9, <1>11, <2>4, <3>1, <4>1
    <3>2. CASE i = k + 1
      BY <1>2, <1>9, <1>11, <2>1, <2>4, <3>2
    <3>3. CASE i > k + 1
      <4>1. i - 1 # j - 1
        BY <1>11
      <4> QED BY <1>1, <1>9, <1>11, <2>4, <3>3, <4>1, SMTT(30)
    <3> QED BY <1>1, <3>1, <3>2, <3>3
  <2> QED BY <1>1, <2>2, <2>3, <2>4
<1>12. \A i, j \in 1..(Len(doc) + 1) : n[i].id = n[j].id => i = j
  <2>1. \A i, j \in 1..(Len(doc) + 1) : i < j \/ i = j \/ j < i
    BY <1>1
  <2> QED BY <1>11, <2>1
<1>13. Editable(n, last + 1)
  BY <1>7, <1>8, <1>10, <1>12 DEF Editable, Documents, Block
<1> QED BY <1>13 DEF n, se, one, s, e, t

LEMMA EditableLater ==
  ASSUME NEW doc, NEW last \in Nat, Editable(doc, last)
  PROVE  Editable(doc, last + 1)
<1>1. \A k \in 1..Len(doc) : doc[k].id \in Nat /\ doc[k].id <= last
  BY DocumentType DEF Editable, Blocks
<1>2. \A k \in 1..Len(doc) : doc[k].id <= last + 1
  BY <1>1
<1> QED BY <1>2 DEF Editable

-----------------------------------------------------------------------------
(* The invariant                                                           *)

LEMMA InitChanges == Init => ChangesInv
<1> SUFFICES ASSUME Init PROVE ChangesInv
  OBVIOUS
<1>1. size = 0 /\ input = Start(task)
  BY DEF Init
<1>2. Len(Original) \in Nat /\ Len(Original) + 0 = Len(Original)
  BY InputsAssumption
<1>3. CASE task = "edits"
  <2>1. input = [old |-> Parsed, new |-> Parsed]
    BY <1>1, <1>3 DEF Start
  <2>2. input.old = Parsed /\ input.new = Parsed
    BY <2>1
  <2> QED BY <1>1, <1>2, <1>3, <2>1, <2>2, ParsedEditable DEF ChangesInv
<1>4. CASE task # "edits"
  <2>1. input = <<>>
    BY <1>1, <1>4 DEF Start
  <2>2. <<>> \in Seq(0..255)
    OBVIOUS
  <2> QED BY <1>1, <1>4, <2>1, <2>2 DEF ChangesInv
<1> QED BY <1>3, <1>4

\* An edit leaves the parsed document alone.
LEMMA EditedStep ==
  ASSUME ChangesInv, NEW new, Edited(new), Editable(new, Len(Original) + size + 1)
  PROVE  ChangesInv'
<1>1. /\ task = "edits" /\ task' = task /\ size' = size + 1
      /\ input' = [input EXCEPT !.new = new]
  BY DEF Edited, Grown
<1>2. /\ size \in Nat /\ input = [old |-> input.old, new |-> input.new]
      /\ input.old \in Documents(Nat, Kinds)
  BY <1>1 DEF ChangesInv
<1>3. input' = [old |-> input.old, new |-> new]
  BY <1>1, <1>2
<1>4. input'.old = input.old /\ input'.new = new /\ input' = [old |-> input'.old, new |-> input'.new]
  BY <1>3
<1>5. Len(Original) + size + 1 = Len(Original) + size'
  <2>1. Len(Original) \in Nat
    BY InputsAssumption
  <2> QED BY <1>1, <1>2, <2>1
<1>6. size' \in Nat
  BY <1>1, <1>2
<1>7. Editable(input'.new, Len(Original) + size')
  BY <1>4, <1>5
<1>8. task' # "bytes"
  BY <1>1
<1> QED BY <1>2, <1>4, <1>6, <1>7, <1>8 DEF ChangesInv, Editable

LEMMA ChangesStep == ChangesInv /\ [ChangesNext]_vars => ChangesInv'
<1> SUFFICES ASSUME ChangesInv, [ChangesNext]_vars PROVE ChangesInv'
  OBVIOUS
<1> DEFINE last == Len(Original) + size
           new == input.new
<1>1. size \in Nat /\ Len(Original) \in Nat /\ last \in Nat
  BY InputsAssumption DEF ChangesInv
<1>2. ASSUME task = "edits" PROVE Editable(new, last) /\ DOMAIN new = 1..Len(new)
  <2>1. Editable(new, last)
    BY <1>2 DEF ChangesInv
  <2> QED BY <2>1, DocumentType DEF Editable
<1>3. CASE AddByte
  <2>1. PICK b \in Bytes : Grown(Append(input, b))
    BY <1>3 DEF AddByte
  <2>2. /\ task = "bytes" /\ task' = task /\ size' = size + 1 /\ input' = Append(input, b)
    BY <1>3, <2>1 DEF AddByte, Grown
  <2>3. b \in 0..255 /\ input \in Seq(0..255)
    BY <2>2, InputsAssumption DEF ChangesInv
  <2>4. input' \in Seq(0..255)
    <3> DEFINE B == 0..255
    <3>1. b \in B /\ input \in Seq(B)
      BY <2>3
    <3> HIDE DEF B
    <3>2. input' \in Seq(B)
      BY <2>2, <3>1, AppendProperties
    <3> QED BY <3>2 DEF B
  <2> QED BY <1>1, <2>2, <2>4 DEF ChangesInv
<1>4. CASE Change
  <2>1. task = "edits"
    BY <1>4 DEF Change
  <2>2. PICK k \in DOMAIN new, kind \in Kinds : Edited([new EXCEPT ![k].kind = kind])
    BY <1>4 DEF Change
  <2>3. Editable([new EXCEPT ![k].kind = kind], last + 1)
    BY <1>1, <1>2, <2>1, ChangedEditable, EditableLater
  <2> QED BY <2>2, <2>3, EditedStep
<1>5. CASE Delete
  <2>1. task = "edits"
    BY <1>5 DEF Delete
  <2>2. PICK k \in DOMAIN new : Edited(Removed(k))
    BY <1>5 DEF Delete
  <2>3. Removed(k) = Cut(new, k)
    BY DEF Removed, Cut
  <2>4. k \in 1..Len(new)
    BY <1>2, <2>1
  <2>5. Editable(Cut(new, k), last + 1)
    BY <1>1, <1>2, <2>1, <2>4, CutEditable, EditableLater
  <2> QED BY <2>2, <2>3, <2>5, EditedStep
<1>6. CASE Insert
  <2> DEFINE Longer(k, kind) == SubSeq(new, 1, k) \o <<Item(last + 1, kind)>> \o SubSeq(new, k + 1, Len(new))
  <2>1. task = "edits"
    BY <1>6 DEF Insert
  <2>2. Len(Original) + 1 + size = last + 1
    BY <1>1
  <2>3. PICK k \in 0..Len(new), kind \in Kinds : Edited(Longer(k, kind))
    BY <1>6, <2>2 DEF Insert
  <2>4. Editable(Longer(k, kind), last + 1)
    BY <1>1, <1>2, <2>1, InsertedEditable
  <2> HIDE DEF Longer
  <2> QED BY <2>3, <2>4, EditedStep
<1>7. CASE Move
  <2>1. task = "edits"
    BY <1>7 DEF Move
  <2>2. PICK k \in DOMAIN new : Edited(Append(Removed(k), new[k]))
    BY <1>7 DEF Move
  <2>3. Removed(k) = Cut(new, k)
    BY DEF Removed, Cut
  <2>4. k \in 1..Len(new)
    BY <1>2, <2>1
  <2>5. Editable(Append(Cut(new, k), new[k]), last + 1)
    BY <1>1, <1>2, <2>1, <2>4, MovedEditable, EditableLater
  <2> QED BY <2>2, <2>3, <2>5, EditedStep
<1>8. CASE UNCHANGED vars
  BY <1>8 DEF ChangesInv, vars, Editable
<1> QED BY <1>3, <1>4, <1>5, <1>6, <1>7, <1>8 DEF ChangesNext

LEMMA ChangesInvHolds == ChangesSpec => []ChangesInv
BY InitChanges, ChangesStep, PTL DEF ChangesSpec

-----------------------------------------------------------------------------
(* The theorems                                                            *)

\* However a parsed document is edited, the report of differences and the
\* anchors' hashes name the same changed and missing blocks, and the report
\* accounts for every block (diff_documents, AnchorStore::diff_against).
THEOREM DetectorsAlwaysAgree == ChangesSpec => []DetectorsAgree
<1>1. ChangesInv => DetectorsAgree
  <2> SUFFICES ASSUME ChangesInv, task = "edits" PROVE DetectorsAgree
    BY DEF DetectorsAgree
  <2>1. input.old \in Documents(Nat, Kinds) /\ input.new \in Documents(Nat, Kinds)
    BY DEF ChangesInv, Editable
  <2> QED BY <2>1, DetectionAgrees, SMTT(30) DEF DetectorsAgree, Report
<1> QED BY <1>1, ChangesInvHolds, PTL

\* However a parsed document is edited, applying the report to the document as it
\* was makes the blocks of the edited one, and in its order where the edits kept
\* the order and put new blocks last (apply_selective_update).
THEOREM UpdateAlwaysReachesNew == ChangesSpec => []UpdateReachesNew
<1>1. ChangesInv => UpdateReachesNew
  <2> SUFFICES ASSUME ChangesInv, task = "edits" PROVE UpdateReachesNew
    BY DEF UpdateReachesNew
  <2>1. input.old \in Documents(Nat, Kinds) /\ input.new \in Documents(Nat, Kinds)
    BY DEF ChangesInv, Editable
  <2> DEFINE old == input.old
             new == input.new
             report == DiffDocuments(old, new)
             updated == ApplySelectiveUpdate(old, new, report)
  <2>2. old \in Documents(Nat, Kinds) /\ new \in Documents(Nat, Kinds)
    BY <2>1
  <2>3. /\ Len(updated) = Len(new)
        /\ BlocksOf(updated) = BlocksOf(new)
        /\ IdsOf(new) = IdsOf(Common(old, new)) \o IdsOf(report.added) => updated = new
    <3> HIDE DEF old, new
    <3> QED BY <2>2, UpdateMakesNew
  <2>4. report = Report /\ updated = Updated
    BY DEF Report, Updated
  <2> HIDE DEF report, updated
  <2> QED BY <2>3, <2>4 DEF UpdateReachesNew
<1> QED BY <1>1, ChangesInvHolds, PTL

\* Whatever bytes are encoded, decoding gives them back (base64_encode and
\* base64_decode of anchor.rs, which carry the anchors inside the document).
THEOREM BytesAlwaysComeBack == ChangesSpec => []BytesComeBack
<1>1. ChangesInv => BytesComeBack
  <2> SUFFICES ASSUME ChangesInv, task = "bytes" PROVE BytesComeBack
    BY DEF BytesComeBack
  <2>1. input \in Seq(0..255)
    BY DEF ChangesInv
  <2> QED BY <2>1, Base64ComesBack DEF BytesComeBack
<1> QED BY <1>1, ChangesInvHolds, PTL
=============================================================================
