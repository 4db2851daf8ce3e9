CONSTANTS
  NoMessage = NoMessage
  EmptyReads = {"nothing", "stale", "crash"}
  FirstSeq = 314
  MaxSends = 1
  MaxReceives = 2
SPECIFICATION Spec
CHECK_DEADLOCK FALSE
PROPERTIES
  CheckIsHarmless
