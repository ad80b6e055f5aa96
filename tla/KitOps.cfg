SPECIFICATION Spec
CONSTANTS
  t1 = t1
  kitops = kitops
  MaxKid = 3
  OS = {"a", "b"}
  Media <- TheMedia
  Repo <- FourRepos
  Existing <- ThreeRepos
  RepoOs <- OsOfFour
  NodeGroup <- Groups
  NgRepo <- RepoOfGroup
  Tool <- OneTool
  Kitops = kitops
  MayFail = TRUE
  MaxRuns = 2
  MaxKills = 1
  InstallerRepo = "main"
  AutoGroup = {"installer"}
  PackageGroup = {"installer"}
  Fixed <- NativeFixed
  DriverPacks <- NewestHasPacks
  Installed <- OneOrTwo
INVARIANTS KitOpsTypeOK RowsHaveFiles PluginServed RepoServesItsKits
PROPERTIES UpgradeKeepsKits VersionRecordedLast
CHECK_DEADLOCK FALSE
