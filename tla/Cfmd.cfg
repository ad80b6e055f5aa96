SPECIFICATION DaemonSpec
CONSTANTS
  n1 = n1
  Node = {n1}
  Ngid <- MCNgid
  HasNii <- MCHasNii
  Packet <- MCPacket
  MaxRuntime = 2
  QueueLimit = 1
  MayCrash = TRUE
  MayFail = TRUE
INVARIANTS
  NeverAhead
  RunIsRecorded
  DaemonInv
PROPERTIES
  InOrderOnce
  NoRepeatUnlessSpoiled
  UpdateEnds
