SPECIFICATION InstalledSpec
CONSTANTS
  root = root
  alice = alice
  v1 = v1
  v2 = v2
  User <- TwoUsers
  Value <- TwoValues
  Secret <- RootOnly
  MaxKills = 1
  MaxChanges = 2
  MaxLocal = 2
SYMMETRY Exchange
INVARIANTS MergeInv LocalLinesStay NothingLeftBehind
