SPECIFICATION Spec
CONSTANTS
  Tasks = {"grouping"}
  LongTasks = {}
  MaxPieces = 6
  Original <- MCOriginal
  Kinds = {"paragraph", "heading"}
  Bytes = {0, 63, 64, 127, 195, 255}
INVARIANT EquivalentIsSameFormula
CHECK_DEADLOCK FALSE
