SPECIFICATION Spec
CONSTANTS
  s1 = s1
  s2 = s2
  n1 = n1
  n2 = n2
  Request <- MCRequest
  Ngid <- MCNgid
  HasNii <- MCHasNii
  Packet = {}
  FirstSequence = 9
  FirstRest = 100
  MaxRuntime = 1
CHECK_DEADLOCK FALSE
CONSTANTS
  Sender = {s1, s2}
  Node = {n1}
  Resends = 1
  MaxRounds = 1
  QueueLimit = 2
  MayKill = TRUE
  MayCrash = TRUE
  MayFail = TRUE
  MayLose = TRUE
INVARIANT NotifyInv
PROPERTIES PromiseSpec NewNumber
