CONSTANTS
  p1 = p1
  p2 = p2
  p3 = p3
  NoPlayer = NoPlayer
  Players = {p1, p2, p3}
  Leavers = {p2}
  Moves = {"scores", "turn", "tile"}
  Typed = {1}
  Points <- MCPoints
  HolderOnly = TRUE
  MaxMoves = 5
SPECIFICATION Spec
CHECK_DEADLOCK FALSE
INVARIANTS
  NoCrash
