SPECIFICATION Spec
CONSTANTS
  Proc = {p1, p2}
  Mac = {m1, m2}
  NoMac = NoMac
  MaxIp = 3
  MaxRank = 2
  MaxNid = 3
  Request <- SmallRequests
  MaxRuns = 3
  MaxKills = 1
SYMMETRY Symmetry
INVARIANTS
  AddHostTypeOK
  AddressesUnique
  StoresAgree
CHECK_DEADLOCK FALSE
