CONSTANTS
  p1 = p1
  p2 = p2
  p3 = p3
  tileA = tileA
  tileB = tileB
  tileC = tileC
  Players = {p1, p2, p3}
  Tiles = {tileA, tileB, tileC}
  Charsets <- AllTiles
  Numbers = {1, 2}
  Commands = {"charset", "draw", "drawtill", "drawtillall", "push", "config", "play"}
  MaxMoves = 3
SPECIFICATION Spec
SYMMETRY Symmetry
CHECK_DEADLOCK FALSE
INVARIANTS
  TypeOK
  CopiesAgree
  TilesOnce
  NothingLost
  SettingsAgree
