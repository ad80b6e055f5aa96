SPECIFICATION Spec
CONSTANTS
  k1 = k1
  k2 = k2
  t1 = t1
  w1 = w1
  Proc = {k1, k2, t1, w1}
  Program <- MCProgram
  MayKill = TRUE
  MayInterrupt = TRUE
INVARIANTS
  LockInv
  OneUpgrade
  UpgradeUnderLock
PROPERTIES OwnLockReleased
  OwnerReleases
  UpgradeStartsAlone
CHECK_DEADLOCK FALSE
