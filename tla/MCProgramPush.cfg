SPECIFICATION Spec
CONSTANTS
  ann = ann
  fGarbage = fGarbage
  fAbsent = fAbsent
  fOther = fOther
  Texts = {ann, spaces}
  Spaces = spaces
  NoText = NoText
  FirstLines <- MCFirstLines
  MaxAdded = 1
  Commands = {"points", "pointsCut", "turn", "push", "load", "loadscript", "quiet"}
  LoadFile <- MCLoadFile
  TurnEndFile <- MCTurnEndFile
  MaxHeld = 2
  MaxPoints = 2
  Files = {fGarbage, fAbsent, fOther}
  NoFile = NoFile
  FirstDisk <- MCFirstDisk
  Rows <- MCRows
  Width = 2
  Marks = {0, 1}
  Zero = 0
  Null = Null
  Unset = Unset
  Other = Other
  Garbage = Garbage
  Absent = Absent
  Locked = Locked
  MaxEdits = 2
CHECK_DEADLOCK FALSE
INVARIANTS
  PushIsHarmless
