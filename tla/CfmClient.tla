----------------------------- MODULE CfmClient -----------------------------
(***************************************************************************)
(* The packages of a node: PackBuilder.getPackageList (cfms.py) writes the *)
(* list of a node group on the primary installer, and updatePackages       *)
(* (cfmclient.py) brings a node in line with it.  The client keeps the     *)
(* list it had as package.lst.ORIG until it has removed what is no longer  *)
(* listed and installed what is.  The two do not wait for each other, and  *)
(* cfmd kills a client that takes too long.                                *)
(*                                                                         *)
(* One node and its node group.  Packages do not depend on each other,     *)
(* none is yum or rpm, which are never removed, and what a list, or the    *)
(* page a web server sends instead, says is a set.                         *)
(***************************************************************************)
EXTENDS FiniteSets, Naturals

CONSTANTS
  Package,
  Page,         \* a line of an error page, which starts with "<"
  MayFail,      \* may a download, a command or the client fail
  MayKill,      \* may the client or the writer of the list be killed
  MaxChanges    \* bound: how often the packages of the group are changed

ASSUME CfmClientAssumption ==
  /\ Page \notin Package
  /\ MayFail \in BOOLEAN
  /\ MayKill \in BOOLEAN
  /\ MaxChanges \in Nat

VARIABLES
  packages,    \* the database: packages and components of the node group
  changes,     \* how often they were changed
  offered,     \* <ngid>.package.lst on the installer
  sync,        \* where getPackageList is
  listing,     \* what it has read from the database
  packagelst,  \* package.lst on the node
  orig,        \* package.lst.ORIG on the node
  pc,          \* where updatePackages is
  oldpackages, newpackages,  \* what it has still to remove and to install
  installed,   \* what is installed on the node
  always,      \* history: what the group had at all times
  partial,     \* history: the offered list was emptied and not written yet
  torn,        \* history: such a list was downloaded
  lost         \* history: the record of something installed was given up

groupVars  == <<packages, changes, always>>
offerVars  == <<offered, sync, listing, partial>>
nodeFiles  == <<packagelst, orig>>
workVars   == <<oldpackages, newpackages, installed>>
clientVars == <<nodeFiles, pc, workVars, torn, lost>>
vars       == <<groupVars, offerVars, clientVars>>

File == [exists : BOOLEAN, lines : SUBSET (Package \cup {Page})]
Absent == [exists |-> FALSE, lines |-> {}]
Containing(lines) == [exists |-> TRUE, lines |-> lines]

ClientTypeOK ==
  /\ packages \in SUBSET Package
  /\ changes \in 0..MaxChanges
  /\ offered \in File
  /\ sync \in {"idle", "listed", "opened"}
  /\ listing \in SUBSET Package
  /\ packagelst \in File /\ orig \in File
  /\ pc \in {"idle", "rename", "download", "check", "remove", "install"}
  /\ oldpackages \in SUBSET Package /\ newpackages \in SUBSET Package
  /\ installed \in SUBSET Package
  /\ always \in SUBSET Package
  /\ partial \in BOOLEAN /\ torn \in BOOLEAN /\ lost \in BOOLEAN

(* The node was installed with the packages of its group; it has run the   *)
(* client before, or it has no list yet.  A group that never had a package *)
(* has no list at the installer.                                           *)
Init ==
  /\ packages \in SUBSET Package
  /\ changes = 0
  /\ offered = IF packages = {} THEN Absent ELSE Containing(packages)
  /\ sync = "idle" /\ listing = {}
  /\ \/ packagelst = Containing(packages) /\ lost = FALSE
     \/ packagelst = Absent /\ lost = TRUE
  /\ orig = Absent
  /\ pc = "idle" /\ oldpackages = {} /\ newpackages = {}
  /\ installed = packages
  /\ always = packages
  /\ partial = FALSE /\ torn = FALSE

---------------------------------------------------------------------------
(* The installer                                                           *)

(* Tools change the packages and components of the node group.             *)
ChangePackages(P) ==
  /\ changes < MaxChanges
  /\ changes' = changes + 1
  /\ packages' = P
  /\ always' = always \cap P
  /\ UNCHANGED <<offerVars, clientVars>>

(* getPackageList, the queries.                                            *)
ListPackages ==
  /\ sync = "idle"
  /\ listing' = packages
  /\ sync' = "listed"
  /\ UNCHANGED <<groupVars, offered, partial, clientVars>>

(* A group without packages: a list that exists is emptied.                *)
EmptyList ==
  /\ sync = "listed" /\ listing = {}
  /\ offered' = IF offered.exists THEN Containing({}) ELSE offered
  /\ partial' = FALSE
  /\ sync' = "idle"
  /\ UNCHANGED <<groupVars, listing, clientVars>>

(* "oldlist == packages" compares lines with their ends to names, so that  *)
(* only a list of one package, whose line has no end, is ever the same.    *)
SameList == offered = Containing(listing) /\ Cardinality(listing) = 1

KeepList ==
  /\ sync = "listed" /\ SameList
  /\ sync' = "idle"
  /\ UNCHANGED <<groupVars, offered, listing, partial, clientVars>>

(* Opening the list for writing empties it ...                             *)
OpenList ==
  /\ sync = "listed" /\ listing # {} /\ ~SameList
  /\ offered' = Containing({})
  /\ partial' = TRUE
  /\ sync' = "opened"
  /\ UNCHANGED <<groupVars, listing, clientVars>>

(* ... until it is written.                                                *)
WriteList ==
  /\ sync = "opened"
  /\ offered' = Containing(listing)
  /\ partial' = FALSE
  /\ sync' = "idle"
  /\ UNCHANGED <<groupVars, listing, clientVars>>

KillSync ==
  /\ MayKill /\ sync # "idle"
  /\ sync' = "idle"
  /\ UNCHANGED <<groupVars, offered, listing, partial, clientVars>>

---------------------------------------------------------------------------
(* The node: updatePackages, run whenever cfmd runs it                     *)

Start ==
  /\ pc = "idle"
  /\ pc' = "rename"
  /\ UNCHANGED <<groupVars, offerVars, nodeFiles, workVars, torn, lost>>

(* The list becomes the .ORIG, whether there is one already or not: that   *)
(* of an update that was killed goes.                                      *)
Rename ==
  /\ pc = "rename"
  /\ IF packagelst.exists
     THEN orig' = packagelst /\ packagelst' = Absent
     ELSE UNCHANGED nodeFiles
  /\ lost' = IF packagelst.exists /\ orig.exists THEN TRUE ELSE lost
  /\ pc' = "download"
  /\ UNCHANGED <<groupVars, offerVars, workVars, torn>>

(* The list as it is on the installer, or the page that says it is not.    *)
Download ==
  /\ pc = "download"
  /\ packagelst' = IF offered.exists THEN offered ELSE Containing({Page})
  /\ torn' = IF partial THEN TRUE ELSE torn
  /\ pc' = "check"
  /\ UNCHANGED <<groupVars, offerVars, orig, workVars, lost>>

(* "Failed to download package list.  Aborting!" is what happens if there  *)
(* is a list to go back to; otherwise the client goes on without one.      *)
DownloadFails ==
  /\ MayFail /\ pc = "download"
  /\ IF orig.exists
     THEN packagelst' = orig /\ orig' = Absent /\ pc' = "idle"
     ELSE UNCHANGED nodeFiles /\ pc' = "check"
  /\ UNCHANGED <<groupVars, offerVars, workVars, torn, lost>>

(* A page is not a list.                                                   *)
Reject ==
  /\ pc = "check" /\ Page \in packagelst.lines
  /\ IF orig.exists
     THEN packagelst' = orig /\ orig' = Absent
     ELSE UNCHANGED nodeFiles
  /\ pc' = "idle"
  /\ UNCHANGED <<groupVars, offerVars, workVars, torn, lost>>

(* Variants with a fault, for checking that the properties see it: all old *)
(* packages are removed; the lists are swapped.                            *)
OldPackages_All == orig.lines \cap Package
OldPackages_Swapped == packagelst.lines \ orig.lines

(* Listed before and no longer; a line of a page names no package.         *)
OldPackages == (orig.lines \ packagelst.lines) \cap Package

GetPackageChanges ==
  /\ pc = "check" /\ Page \notin packagelst.lines
  /\ oldpackages' = OldPackages
  /\ newpackages' = packagelst.lines
  /\ pc' = "remove"
  /\ UNCHANGED <<groupVars, offerVars, nodeFiles, installed, torn, lost>>

(* One command for each package; nobody looks at its result.               *)
RemovePackage(p) ==
  /\ pc = "remove" /\ p \in oldpackages
  /\ oldpackages' = oldpackages \ {p}
  /\ \/ installed' = installed \ {p} /\ UNCHANGED lost
     \/ /\ MayFail
        /\ UNCHANGED installed
        /\ lost' = IF p \in installed THEN TRUE ELSE lost
  /\ UNCHANGED <<groupVars, offerVars, nodeFiles, pc, newpackages, torn>>

RemovedAll ==
  /\ pc = "remove" /\ oldpackages = {}
  /\ pc' = "install"
  /\ UNCHANGED <<groupVars, offerVars, nodeFiles, workVars, torn, lost>>

(* Every listed package that is not there.                                 *)
InstallPackage(p) ==
  /\ pc = "install" /\ p \in newpackages
  /\ newpackages' = newpackages \ {p}
  /\ \/ installed' = installed \cup {p}
     \/ MayFail /\ UNCHANGED installed
  /\ UNCHANGED <<groupVars, offerVars, nodeFiles, pc, oldpackages, torn, lost>>

InstalledAll ==
  /\ pc = "install" /\ newpackages = {}
  /\ orig' = Absent
  /\ pc' = "idle"
  /\ UNCHANGED <<groupVars, offerVars, packagelst, workVars, torn, lost>>

(* "Revert old package list so we can retry".                              *)
Revert ==
  /\ MayFail /\ pc \in {"remove", "install"}
  /\ IF orig.exists
     THEN /\ packagelst' = orig /\ orig' = Absent
          /\ lost' = IF installed \subseteq orig.lines THEN lost ELSE TRUE
     ELSE UNCHANGED <<nodeFiles, lost>>
  /\ pc' = "idle" /\ oldpackages' = {} /\ newpackages' = {}
  /\ UNCHANGED <<groupVars, offerVars, installed, torn>>

Kill ==
  /\ MayKill /\ pc # "idle"
  /\ pc' = "idle" /\ oldpackages' = {} /\ newpackages' = {}
  /\ UNCHANGED <<groupVars, offerVars, nodeFiles, installed, torn, lost>>

Next ==
  \/ \E P \in SUBSET Package : ChangePackages(P)
  \/ ListPackages \/ EmptyList \/ KeepList \/ OpenList \/ WriteList \/ KillSync
  \/ Start \/ Rename \/ Download \/ DownloadFails \/ Reject \/ GetPackageChanges
  \/ \E p \in Package : RemovePackage(p) \/ InstallPackage(p)
  \/ RemovedAll \/ InstalledAll \/ Revert \/ Kill

Spec == Init /\ [][Next]_vars

---------------------------------------------------------------------------
(* Properties                                                              *)

(* A package that the node group has had all the time stays installed on   *)
(* its nodes, whatever fails or is killed, unless a client downloads the   *)
(* list while it is being rewritten: an empty file is a list, too          *)
(* (updatePackages, getPackageList).                                       *)
KeptPackagesStay == torn \/ always \subseteq installed

(* What is installed from a list is on record until it is removed, so that *)
(* it can be when it is no longer listed, unless a record was given up: by *)
(* Rename after a kill, by a failing removal, or by Revert                 *)
(* (updatePackages, __getPackageChanges).                                  *)
NothingForgotten == lost \/ installed \subseteq packagelst.lines \cup orig.lines

(* The inductive invariant behind the two.                                 *)
ListsKeep ==
  /\ always \subseteq packages
  /\ sync # "idle" => always \subseteq listing
  /\ ~partial /\ offered.exists => always \subseteq offered.lines
  /\ ~torn /\ pc = "check" /\ packagelst.exists /\ Page \notin packagelst.lines
       => always \subseteq packagelst.lines
  /\ ~torn => oldpackages \cap always = {}

RecordsAgree ==
  /\ pc = "download" => ~packagelst.exists
  /\ pc \in {"check", "remove", "install"} /\ ~packagelst.exists => ~orig.exists
  /\ pc = "remove" /\ ~lost => installed \subseteq packagelst.lines \cup oldpackages
  /\ pc = "install" /\ ~lost => installed \subseteq packagelst.lines
  /\ pc \in {"remove", "install"} => newpackages \subseteq packagelst.lines
  /\ ~packagelst.exists => packagelst.lines = {}
  /\ ~orig.exists => orig.lines = {}
  /\ Page \notin offered.lines
  /\ Page \in packagelst.lines => packagelst.lines = {Page}
  /\ Page \in orig.lines => orig.lines = {Page}

ClientInv == ClientTypeOK /\ KeptPackagesStay /\ NothingForgotten
             /\ ListsKeep /\ RecordsAgree
=============================================================================
