----------------------------- MODULE SirChanges -----------------------------
(***************************************************************************)
(* Documents under edit and bytes to encode, and what the change detection *)
(* and the anchors' base64 promise of them.  For the task "edits" the      *)
(* input is a document and an edited copy of it, which is changed block by *)
(* block; for the task "bytes" it is a sequence of bytes, which grows.     *)
(* Converters adds the other tasks.                                        *)
(***************************************************************************)
EXTENDS SirDiff

CONSTANTS Tasks, LongTasks, MaxPieces,
          Original,   \* the kinds of the blocks of the document that is edited
          Kinds,      \* the kinds of block
          Bytes       \* the bytes

ASSUME BoundsAssumption == MaxPieces \in Nat /\ LongTasks \subseteq Tasks
ASSUME InputsAssumption == Original \in Seq(Kinds) /\ Bytes \subseteq 0..255

VARIABLES task, input, size
vars == <<task, input, size>>

Bound == IF task \in LongTasks THEN MaxPieces + 1 ELSE MaxPieces

Item(id, kind) == [id |-> id, kind |-> kind]
Parsed == [k \in DOMAIN Original |-> Item(k, Original[k])]
Start(t) == IF t = "edits" THEN [old |-> Parsed, new |-> Parsed] ELSE <<>>

Init == /\ task \in Tasks
        /\ input = Start(task)
        /\ size = 0

Grown(new) == /\ size < Bound
              /\ input' = new
              /\ size' = size + 1
              /\ UNCHANGED task

AddByte == task = "bytes" /\ \E b \in Bytes : Grown(Append(input, b))

(* Edits in Word: change a block, delete one, insert one with a fresh      *)
(* identity, move one to the end.                                          *)
Edited(new) == task = "edits" /\ Grown([input EXCEPT !.new = new])
Removed(k)  == SubSeq(input.new, 1, k - 1) \o SubSeq(input.new, k + 1, Len(input.new))
Change == task = "edits" /\ \E k \in DOMAIN input.new, kind \in Kinds :
            Edited([input.new EXCEPT ![k].kind = kind])
Delete == task = "edits" /\ \E k \in DOMAIN input.new : Edited(Removed(k))
Insert == task = "edits" /\ \E k \in 0..Len(input.new), kind \in Kinds :
            Edited(SubSeq(input.new, 1, k) \o <<Item(Len(Original) + 1 + size, kind)>>
                   \o SubSeq(input.new, k + 1, Len(input.new)))
Move   == task = "edits" /\ \E k \in DOMAIN input.new : Edited(Append(Removed(k), input.new[k]))

ChangesNext == AddByte \/ Change \/ Delete \/ Insert \/ Move
ChangesSpec == Init /\ [][ChangesNext]_vars

-----------------------------------------------------------------------------

Report == DiffDocuments(input.old, input.new)
Updated == ApplySelectiveUpdate(input.old, input.new, Report)

(* Applying the report of all differences to the old document makes the    *)
(* blocks of the new one, and the new one itself where the blocks in       *)
(* common kept their order and the added ones follow them.                 *)
UpdateReachesNew ==
  task = "edits" =>
    /\ Len(Updated) = Len(input.new)
    /\ BlocksOf(Updated) = BlocksOf(input.new)
    /\ IdsOf(input.new) = IdsOf(Common(input.old, input.new)) \o IdsOf(Report.added) => Updated = input.new

(* The two detectors of change, the report and the anchors' hashes, name   *)
(* the same blocks, and the report accounts for every block of both.       *)
DetectorsAgree ==
  task = "edits" =>
    /\ DiffAgainst(AnchorsOf(input.old), AnchorsOf(input.new))
         = Report.modified \cup Ids(Report.removed)
    /\ Len(input.old) = Report.unchanged + Cardinality(Report.modified) + Len(Report.removed)
    /\ Len(input.new) = Report.unchanged + Cardinality(Report.modified) + Len(Report.added)

(* Base64 gives back the bytes it was given, in groups of four characters. *)
BytesComeBack ==
  task = "bytes" =>
    LET code == Base64Encode(input) IN
    /\ Base64Decode(code) = input
    /\ Len(code) % 4 = 0 /\ \A k \in DOMAIN code : code[k] \in 0..Pad
=============================================================================
