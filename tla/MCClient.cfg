CONSTANTS
  NoMessage = NoMessage
  EmptyReads = {"nothing", "stale", "crash"}
  FirstSeq = 314
  MaxSends = 3
  MaxReceives = 2
SPECIFICATION FairSpec
CHECK_DEADLOCK FALSE
INVARIANTS
  TypeOK
  WriteSlot
  ConsecutiveFrames
PROPERTIES
  OutgoingIsFifo
  IncomingIsFifo
  ShutdownEnds
  SendsGetOut
  UpdatesGetIn
