CONSTANTS
  s1 = s1
  s2 = s2
  s3 = s3
  NoSession = NoSession
  NoName = NoName
  Sessions = {s1, s2, s3}
  Names = {s1, s2, s3}
  NameOf <- MCNameOf
  Talker = NoSession
  TalkerReads = 0
  OtherReads = 1
  MaxReads <- MCMaxReads
SPECIFICATION Spec
SYMMETRY Symmetry
CHECK_DEADLOCK FALSE
INVARIANTS
  ConnectionsLive
  WriteChain
  HostIsTold
  StreamMatchesLog
PROPERTIES
  HostStable
