SPECIFICATION FairSpec
CONSTANTS
  n1 = n1
  a1 = a1
  s1 = s1
  s2 = s2
  k1 = k1
  k2 = k2
  Node <- OneNode
  Admin <- OneAdmin
  Slot <- TwoSlots
  Kernel <- TwoKernels
  Ops <- AllOps
  MaxDisturb = 2
INVARIANTS NodeBootTypeOK PxeFollowsDb DiskIsCurrent NeverStuck
PROPERTY NodeComesUp
CHECK_DEADLOCK FALSE
