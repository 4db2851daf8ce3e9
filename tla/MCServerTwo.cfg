CONSTANTS
  s1 = s1
  s2 = s2
  NoSession = NoSession
  NoName = NoName
  Sessions = {s1, s2}
  Names = {s1, s2}
  NameOf <- MCNameOf
  Talker = s1
  TalkerReads = 3
  OtherReads = 1
  MaxReads <- MCMaxReads
SPECIFICATION FairSpec
CHECK_DEADLOCK FALSE
INVARIANTS
  TypeOK
  JoinsAreClosed
PROPERTIES
  ImplementsBroadcast
  LostPeerForgotten
  QueueDrains
