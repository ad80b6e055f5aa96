SPECIFICATION RunningSpec
CONSTANTS
  s1 = s1
  s2 = s2
  n1 = n1
  n2 = n2
  Request <- MCRequest
  Ngid <- MCNgid
  HasNii <- MCHasNii
  Packet = {}
  FirstSequence = 1
  FirstRest = 0
  MaxRuntime = 2
CHECK_DEADLOCK FALSE
CONSTANTS
  Sender = {s1, s2}
  Node = {n1, n2}
  Resends = 1
  MaxRounds = 1
  QueueLimit = 2
  MayKill = FALSE
  MayCrash = FALSE
  MayFail = FALSE
  MayLose = FALSE
PROPERTY EventuallyCurrent
