CONSTANTS
  letterA = letterA
  Blank = Blank
  Size = 3
  Letters = {letterA}
  ScoreOf <- LetterScore
  Layouts <- TheLayouts
  MaxMoves = 6
SPECIFICATION Spec
CHECK_DEADLOCK FALSE
INVARIANTS
  AdditionalOnce
