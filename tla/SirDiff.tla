------------------------------ MODULE SirDiff -------------------------------
(***************************************************************************)
(* Change detection between two documents: diff.rs, the anchor store of    *)
(* model/document.rs and anchor.rs.  A document is a sequence of blocks    *)
(* with an identity and a kind, all that these functions look at.          *)
(***************************************************************************)
EXTENDS Integers, Sequences, FiniteSets

Ids(doc) == {doc[k].id : k \in DOMAIN doc}
KindOf(doc, id) == doc[CHOOSE k \in DOMAIN doc : doc[k].id = id].kind

(* The blocks of a document whose identities are not in ids, in their order. *)
Without(doc, ids) ==
  LET kept[n \in 0..Len(doc)] ==
        IF n = 0 THEN <<>>
        ELSE IF doc[n].id \in ids THEN kept[n - 1] ELSE Append(kept[n - 1], doc[n])
  IN kept[Len(doc)]

(* diff_documents; the debug texts of two kinds are equal when they are. *)
DiffDocuments(original, modified) ==
  LET both == Ids(original) \cap Ids(modified) IN
  [removed  |-> Without(original, Ids(modified)),
   modified |-> {id \in both : KindOf(original, id) # KindOf(modified, id)},
   added    |-> Without(modified, Ids(original)),
   unchanged |-> Cardinality({id \in both : KindOf(original, id) = KindOf(modified, id)})]

(* A block that was reported takes the kind it has in the modified document. *)
Replaced(original, modified, diff) ==
  [k \in DOMAIN original |->
     IF original[k].id \in diff.modified
     THEN [original[k] EXCEPT !.kind = KindOf(modified, original[k].id)]
     ELSE original[k]]

\* Bug: what went is not dropped.
BugApplySelectiveUpdate(original, modified, diff) ==
  Replaced(original, modified, diff) \o diff.added

(* apply_selective_update: replace what changed, append what is new at the *)
(* end, then drop what went.                                               *)
ApplySelectiveUpdate(original, modified, diff) ==
  Without(Replaced(original, modified, diff) \o diff.added, Ids(diff.removed))

(* build_anchor_store anchors a hash of each kind; two kinds that differ   *)
(* are taken to have different hashes.  diff_against compares two stores.  *)
AnchorsOf(doc) == [id \in Ids(doc) |-> KindOf(doc, id)]
\* Bug: an anchor the other store lacks is passed over.
BugDiffAgainst(anchors, other) ==
  {id \in DOMAIN anchors : id \in DOMAIN other /\ other[id] # anchors[id]}
DiffAgainst(anchors, other) ==
  {id \in DOMAIN anchors : id \notin DOMAIN other \/ other[id] # anchors[id]}

\* The blocks of a document; those another one has too; and the identities of a
\* document's blocks in their order.
BlocksOf(doc) == {doc[k] : k \in DOMAIN doc}
Common(doc, other) == Without(doc, Ids(doc) \ Ids(other))
IdsOf(doc) == [k \in DOMAIN doc |-> doc[k].id]

-----------------------------------------------------------------------------
(* Base64.  A byte is 0..255, a character of the code its value 0..63, and *)
(* "=" fills the last group.                                               *)

Pad == 64
At(bytes, k) == IF k <= Len(bytes) THEN bytes[k] ELSE 0

(* A group of three bytes or four digits is a number of 24 bits. *)
Sextet(triple, d) == (triple \div <<262144, 4096, 64, 1>>[d]) % 64
Octet(triple, b)  == (triple \div <<65536, 256, 1>>[b]) % 256
Packed(bytes, g)  == (At(bytes, 3 * g - 2) * 65536) + (At(bytes, 3 * g - 1) * 256) + At(bytes, 3 * g)

\* Bug: the padding starts one character too early.
BugBase64Encode(bytes) ==
  LET Held(g, d) == d <= 2 \/ Len(bytes) >= 3 * (g - 1) + d
  IN [k \in 1..(4 * ((Len(bytes) + 2) \div 3)) |->
        LET g == ((k - 1) \div 4) + 1
            d == ((k - 1) % 4) + 1
        IN IF Held(g, d) THEN Sextet(Packed(bytes, g), d) ELSE Pad]
Base64Encode(bytes) ==
  LET Held(g, d) == d <= 2 \/ Len(bytes) >= 3 * (g - 1) + d - 1
  IN [k \in 1..(4 * ((Len(bytes) + 2) \div 3)) |->
        LET g == ((k - 1) \div 4) + 1
            d == ((k - 1) % 4) + 1
        IN IF Held(g, d) THEN Sextet(Packed(bytes, g), d) ELSE Pad]

(* Of an incomplete last group only one of two digits or more is read. *)
Digit(code, k) == IF k <= Len(code) /\ code[k] # Pad THEN code[k] ELSE 0
Unpacked(code, g) ==
  LET triple == (Digit(code, 4 * g - 3) * 262144) + (Digit(code, 4 * g - 2) * 4096)
                + (Digit(code, 4 * g - 1) * 64) + Digit(code, 4 * g)
      Held(b) == 4 * (g - 1) + b + 1 <= Len(code) /\ code[4 * (g - 1) + b + 1] # Pad
  IN <<Octet(triple, 1)>> \o (IF Held(2) THEN <<Octet(triple, 2)>> ELSE <<>>)
                          \o (IF Held(3) THEN <<Octet(triple, 3)>> ELSE <<>>)
Base64Decode(code) ==
  LET decoded[g \in 0..((Len(code) + 2) \div 4)] ==
        IF g = 0 THEN <<>> ELSE decoded[g - 1] \o Unpacked(code, g)
  IN decoded[(Len(code) + 2) \div 4]
====
