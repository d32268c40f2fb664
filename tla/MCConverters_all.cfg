SPECIFICATION Spec
CONSTANTS
  Tasks <- MCTasks
  LongTasks <- MCLongTasks
  MaxPieces = 4
  Original <- MCOriginal
  Kinds = {"paragraph", "heading"}
  Bytes = {0, 63, 64, 127, 195, 255}
INVARIANTS
  FormulaSettles
  WordKeepsFormula
  OperandsComeBack
  WordFormulaComesBack
  LatexTripKeepsWords
  LatexTripKeepsLabels
  LatexTripSettles
  PreambleComesBack
  WordTripKeepsWords
  WordTripSettles
  UpdateReachesNew
  DetectorsAgree
  BytesComeBack
CHECK_DEADLOCK FALSE
