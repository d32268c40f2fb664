SPECIFICATION Spec
CONSTANTS
  Tasks = {"blocks"}
  LongTasks = {}
  MaxPieces = 2
  Original <- MCOriginal
  Kinds = {"paragraph", "heading"}
  Bytes = {0, 63, 64, 127, 195, 255}
INVARIANT RoundTripKeepsWords
CHECK_DEADLOCK FALSE
