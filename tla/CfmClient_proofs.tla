------------------------- MODULE CfmClient_proofs -------------------------
(***************************************************************************)
(* What the package lists of a node guarantee, for any packages and any    *)
(* number of changes, failures and kills.                                  *)
(***************************************************************************)
EXTENDS CfmClient, TLAPS

(* A node that was just installed, or has run the client once.             *)
LEMMA ClientInitInv == Init => ClientInv
<1> SUFFICES ASSUME Init PROVE ClientInv
  OBVIOUS
<1> USE CfmClientAssumption DEF Init, Absent, Containing
<1>1. Absent \in File /\ Containing(packages) \in File
  BY DEF File
<1>2. ClientTypeOK
  <2>1. offered \in File
    BY <1>1
  <2>2. packagelst \in File /\ orig \in File /\ lost \in BOOLEAN
    BY <1>1
  <2>3. packages \in SUBSET Package /\ changes \in 0..MaxChanges
    OBVIOUS
  <2>4. /\ sync = "idle" /\ listing \in SUBSET Package
        /\ pc = "idle" /\ oldpackages \in SUBSET Package
        /\ newpackages \in SUBSET Package
        /\ installed \in SUBSET Package /\ always \in SUBSET Package
        /\ partial \in BOOLEAN /\ torn \in BOOLEAN
    OBVIOUS
  <2> HIDE DEF Init
  <2> QED BY <2>1, <2>2, <2>3, <2>4 DEF ClientTypeOK
<1>3. KeptPackagesStay /\ NothingForgotten
  BY DEF KeptPackagesStay, NothingForgotten
<1>4. ListsKeep /\ RecordsAgree
  BY DEF ListsKeep, RecordsAgree
<1> QED BY <1>2, <1>3, <1>4 DEF ClientInv

(* The steps of the installer and of the client keep the types.            *)
LEMMA ClientStepType == ClientTypeOK /\ Next => ClientTypeOK'
<1> SUFFICES ASSUME ClientTypeOK, Next PROVE ClientTypeOK'
  OBVIOUS
<1> USE CfmClientAssumption
    DEF ClientTypeOK, groupVars, offerVars, clientVars, nodeFiles, workVars
<1>0. Absent \in File /\ \A L \in SUBSET (Package \cup {Page}) : Containing(L) \in File
  BY DEF Absent, Containing, File
<1>1. ASSUME NEW P \in SUBSET Package, ChangePackages(P) PROVE ClientTypeOK'
  BY <1>1 DEF ChangePackages
<1>2. CASE ListPackages \/ KeepList \/ KillSync
  BY <1>2 DEF ListPackages, KeepList, KillSync
<1>3. CASE EmptyList \/ OpenList \/ WriteList
  BY <1>0, <1>3 DEF EmptyList, OpenList, WriteList
<1>4. CASE Start \/ Rename
  BY <1>0, <1>4 DEF Start, Rename
<1>5. CASE Download
  BY <1>0, <1>5 DEF Download
<1>6. CASE DownloadFails \/ Reject
  BY <1>0, <1>6 DEF DownloadFails, Reject
<1>7. CASE GetPackageChanges
  <2>1. packagelst.lines \in SUBSET Package
    BY <1>7 DEF GetPackageChanges, File
  <2> QED BY <1>7, <2>1 DEF GetPackageChanges, OldPackages
<1>8. ASSUME NEW p \in Package, RemovePackage(p) \/ InstallPackage(p)
      PROVE  ClientTypeOK'
  BY <1>8 DEF RemovePackage, InstallPackage
<1>9. CASE RemovedAll \/ InstalledAll
  BY <1>0, <1>9 DEF RemovedAll, InstalledAll
<1>10. CASE Revert
  BY <1>0, <1>10 DEF Revert
<1>11. CASE Kill
  BY <1>11 DEF Kill
<1> QED
  BY <1>1, <1>2, <1>3, <1>4, <1>5, <1>6, <1>7, <1>8, <1>9, <1>10, <1>11 DEF Next

(* What getPackageList and the tools that change the group do to the list  *)
(* that is offered: it keeps what the group has had all the time.          *)
LEMMA InstallerStepInv ==
  ASSUME ClientInv,
         \/ \E P \in SUBSET Package : ChangePackages(P)
         \/ ListPackages \/ EmptyList \/ KeepList \/ OpenList \/ WriteList
         \/ KillSync
  PROVE  KeptPackagesStay' /\ NothingForgotten' /\ ListsKeep' /\ RecordsAgree'
<1>1. /\ UNCHANGED <<packagelst, orig, pc, oldpackages, newpackages, installed,
                     torn, lost>>
      /\ always' \subseteq always
  BY DEF ClientInv, ClientTypeOK, ChangePackages, ListPackages, EmptyList,
         KeepList, OpenList, WriteList, KillSync, groupVars, clientVars,
         nodeFiles, workVars
<1>2. Page \notin offered'.lines
  BY CfmClientAssumption
  DEF ClientInv, ClientTypeOK, RecordsAgree, ChangePackages, ListPackages,
      EmptyList, KeepList, OpenList, WriteList, KillSync, Containing, offerVars
<1>3. KeptPackagesStay' /\ NothingForgotten' /\ RecordsAgree'
  BY <1>1, <1>2 DEF ClientInv, KeptPackagesStay, NothingForgotten, RecordsAgree
<1>4. /\ always' \subseteq packages'
      /\ sync' # "idle" => always' \subseteq listing'
      /\ ~partial' /\ offered'.exists => always' \subseteq offered'.lines
  <2> USE DEF ClientInv, ClientTypeOK, ListsKeep, Containing
  <2>1. ASSUME NEW P \in SUBSET Package, ChangePackages(P) PROVE <1>4!1 /\ <1>4!2 /\ <1>4!3
    BY <1>1, <2>1 DEF ChangePackages, offerVars
  <2>2. CASE ListPackages
    BY <2>2 DEF ListPackages, groupVars
  <2>3. CASE EmptyList
    BY <2>3 DEF EmptyList, groupVars
  <2>4. CASE KeepList \/ KillSync
    BY <2>4 DEF KeepList, KillSync, groupVars
  <2>5. CASE OpenList \/ WriteList
    BY <2>5 DEF OpenList, WriteList, groupVars
  <2> QED BY <2>1, <2>2, <2>3, <2>4, <2>5
<1> QED BY <1>1, <1>3, <1>4 DEF ClientInv, ListsKeep

(* The steps of updatePackages leave what is offered alone.                *)
LEMMA ListStepInv ==
  ASSUME ClientInv,
         Start \/ Rename \/ Download \/ DownloadFails \/ Reject
           \/ GetPackageChanges \/ Kill
  PROVE  KeptPackagesStay' /\ NothingForgotten' /\ ListsKeep' /\ RecordsAgree'
<1> USE DEF ClientInv, KeptPackagesStay, NothingForgotten, ListsKeep,
            RecordsAgree, Absent, Containing, groupVars, offerVars, nodeFiles,
            workVars
<1>1. CASE Start \/ Kill
  BY <1>1 DEF Start, Kill
<1>2. CASE Rename
  BY <1>2 DEF Rename
<1>3. CASE Download
  BY <1>3 DEF Download
<1>4. CASE DownloadFails
  <2>1. CASE orig.exists
    BY <1>4, <2>1 DEF DownloadFails
  <2>2. CASE ~orig.exists
    BY <1>4, <2>2 DEF DownloadFails
  <2> QED BY <2>1, <2>2
<1>5. CASE Reject
  <2>1. packagelst.lines = {Page} /\ Page \notin installed
    BY <1>5, CfmClientAssumption DEF Reject, ClientTypeOK
  <2>2. CASE orig.exists
    BY <1>5, <2>1, <2>2 DEF Reject
  <2>3. CASE ~orig.exists
    BY <1>5, <2>1, <2>3 DEF Reject
  <2> QED BY <2>2, <2>3
<1>6. CASE GetPackageChanges
  BY <1>6 DEF GetPackageChanges, OldPackages, ClientTypeOK
<1> QED BY <1>1, <1>2, <1>3, <1>4, <1>5, <1>6

(* The steps that remove and install packages, and what ends them.         *)
LEMMA WorkStepInv ==
  ASSUME ClientInv,
         \/ \E p \in Package : RemovePackage(p) \/ InstallPackage(p)
         \/ RemovedAll \/ InstalledAll \/ Revert
  PROVE  KeptPackagesStay' /\ NothingForgotten' /\ ListsKeep' /\ RecordsAgree'
<1> USE DEF ClientInv, ClientTypeOK, KeptPackagesStay, NothingForgotten,
            ListsKeep, RecordsAgree, Absent, groupVars, offerVars, nodeFiles,
            workVars
<1>1. ASSUME NEW p \in Package, RemovePackage(p) \/ InstallPackage(p)
      PROVE  KeptPackagesStay' /\ NothingForgotten' /\ ListsKeep' /\ RecordsAgree'
  BY <1>1 DEF RemovePackage, InstallPackage
<1>2. CASE RemovedAll
  BY <1>2 DEF RemovedAll
<1>3. CASE InstalledAll
  <2>1. /\ pc' = "idle" /\ orig' = [exists |-> FALSE, lines |-> {}]
        /\ UNCHANGED <<packages, always, offered, sync, listing, partial,
                       packagelst, oldpackages, newpackages, installed, torn, lost>>
    BY <1>3 DEF InstalledAll
  <2>2. lost \/ installed \subseteq packagelst.lines
    BY <1>3 DEF InstalledAll
  <2> QED BY <2>1, <2>2
<1>4. CASE Revert /\ orig.exists
  <2>1. /\ pc' = "idle" /\ orig' = [exists |-> FALSE, lines |-> {}]
        /\ packagelst' = orig /\ oldpackages' = {} /\ newpackages' = {}
        /\ UNCHANGED <<packages, always, offered, sync, listing, partial,
                       installed, torn>>
    BY <1>4 DEF Revert
  <2>2. lost' \/ installed \subseteq orig.lines
    BY <1>4 DEF Revert
  <2> QED BY <1>4, <2>1, <2>2
<1>5. CASE Revert /\ ~orig.exists
  BY <1>5 DEF Revert
<1> QED BY <1>1, <1>2, <1>3, <1>4, <1>5

(* Lists, records and packages agree in every reachable state              *)
(* (getPackageList, updatePackages).                                       *)
THEOREM ClientCorrect == Spec => []ClientInv
<1>1. ClientInv /\ [Next]_vars => ClientInv'
  <2> SUFFICES ASSUME ClientInv, [Next]_vars PROVE ClientInv'
    OBVIOUS
  <2>1. CASE UNCHANGED vars
    BY <2>1
    DEF vars, ClientInv, ClientTypeOK, KeptPackagesStay, NothingForgotten,
        ListsKeep, RecordsAgree, groupVars, offerVars, clientVars, nodeFiles,
        workVars
  <2>2. CASE Next
    <3>1. ClientTypeOK'
      BY <2>2, ClientStepType DEF ClientInv
    <3>2. KeptPackagesStay' /\ NothingForgotten' /\ ListsKeep' /\ RecordsAgree'
      BY <2>2, InstallerStepInv, ListStepInv, WorkStepInv DEF Next
    <3> QED BY <3>1, <3>2 DEF ClientInv
  <2> QED BY <2>1, <2>2
<1> QED BY ClientInitInv, <1>1, PTL DEF Spec

(* A package the group has had all the time is never taken from a node     *)
(* that does not download a list while it is rewritten (getPackageList).   *)
THEOREM KeptPackagesStayHolds == Spec => []KeptPackagesStay
  BY ClientCorrect, PTL DEF ClientInv

(* What was installed stays on record until it is removed, unless a kill,  *)
(* a failing command or Revert gave the record up (updatePackages).        *)
THEOREM NothingForgottenHolds == Spec => []NothingForgotten
  BY ClientCorrect, PTL DEF ClientInv
=============================================================================
