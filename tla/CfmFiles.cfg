SPECIFICATION Spec
CONSTANTS
  conf = conf
  hosts = hosts
  File <- TwoFiles
  Appended <- AppendHosts
  MayFail = TRUE
  MaxKills = 1
  MaxEdits = 2
  MaxTime = 2
INVARIANTS FilesTypeOK NodeHasOriginals RemovedAreGone DepotAgreesWithList
