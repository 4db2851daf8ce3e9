CONSTANTS
  p1 = p1
  p2 = p2
  p3 = p3
  NoPlayer = NoPlayer
  Players = {p1, p2, p3}
  Leavers = {p1, p2, p3}
  Moves = {"scores", "turn", "tile", "points"}
  Typed = {0, 1}
  Points <- MCPoints
  HolderOnly = TRUE
  MaxMoves = 4
SPECIFICATION Spec
SYMMETRY Symmetry
CHECK_DEADLOCK FALSE
INVARIANTS
  ScoresAgree
  CrashHasCause
