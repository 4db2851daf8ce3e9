CONSTANTS
  letterA = letterA
  Blank = Blank
  Size = 3
  Letters = {letterA}
  ScoreOf <- LetterScore
  Layouts <- TheLayouts
  MaxMoves = 7
SPECIFICATION Spec
CHECK_DEADLOCK FALSE
INVARIANTS
  ScoresByTheRules
  OrderIsIrrelevant
