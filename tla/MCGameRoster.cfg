CONSTANTS
  p1 = p1
  p2 = p2
  p3 = p3
  NoPlayer = NoPlayer
  Players = {p1, p2, p3}
  Leavers = {p1, p2, p3}
  Moves = {}
  Typed = {}
  Points <- MCPoints
  HolderOnly = FALSE
  MaxMoves = 0
SPECIFICATION FairSpec
CHECK_DEADLOCK FALSE
INVARIANTS
  OneHost
  HostRosterExact
  NobodyMissing
PROPERTIES
  JoinersMeet
