SPECIFICATION Spec
CONSTANTS
  p1 = p1
  p2 = p2
  p3 = p3
  Page = Page
  Package <- ThreePackages
  MayFail = TRUE
  MayKill = TRUE
  MaxChanges = 2
SYMMETRY Exchange
INVARIANTS ClientInv KeptPackagesStay NothingForgotten
CHECK_DEADLOCK FALSE
