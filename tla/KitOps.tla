------------------------------ MODULE KitOps ------------------------------
(***************************************************************************)
(* Kit operations: kusu-kitops adds, deletes and upgrades base kits        *)
(* (kusu-kitops/src/lib/kitops.py, addkit_strategies.py,                   *)
(* deletekit_strategies.py, action.py), beside the runs of kusu-repoman.   *)
(*                                                                         *)
(* A kit is a row, a directory with the packages, the plugins and the file *)
(* kitinfo, and perhaps the target of the one plugin link of its kind.     *)
(* Nothing is undone when an operation is cut short.  Deleting removes the *)
(* files first; the rows are only marked and go when the session is        *)
(* flushed at the end.                                                     *)
(***************************************************************************)
EXTENDS Repos

CONSTANTS
  InstallerRepo,  \* the repository of the installer's node group
  AutoGroup,      \* node groups that get the components of a new kit by themselves
  PackageGroup,   \* node groups of installtype package
  Fixed,          \* kits that are not removable
  DriverPacks,    \* kits whose components have driver packs
  Existing,       \* the repositories there are to begin with
  Installed       \* what may be installed to begin with: sequences of kits

ASSUME KitOpsAssumption ==
  /\ InstallerRepo \in Existing /\ Existing \subseteq Repo
  /\ \A g \in NodeGroup : NgRepo[g] \in Existing
  /\ AutoGroup \subseteq NodeGroup
  /\ PackageGroup \subseteq NodeGroup
  /\ Fixed \subseteq Media
  /\ DriverPacks \subseteq Media
  /\ \A first \in Installed :
       first \in [{1} -> Media] \cup [{1, 2} -> Media] /\ DOMAIN first \subseteq Kid

VARIABLES
  removable,  \* the kits whose row says removable
  link,       \* the kit the plugin link points to, 0 when there is none
  nextKid,    \* the next number the database gives
  version,    \* KUSU_VERSION
  op,         \* what kusu-kitops was asked to do
  spoiled     \* history: kits an operation was cut short on

reposVars == <<rowVars, made, stale, content, images>>
linkVars == <<removable, link, nextKid>>
history == <<runVars, kills, unsure>>
vars == <<kits, files, uses, reposVars, locked, job, history,
          linkVars, version, op, spoiled>>

(* kind: what was asked; kit: the kit on the media; old and new: the kits  *)
(* of an upgrade; repos: the repositories it has to move; left: those      *)
(* still to be dealt with.                                                 *)
NoOp == [kind |-> "none", kit |-> [version |-> 0, os |-> "none"],
         old |-> 0, new |-> 0, repos |-> {}, left |-> {}]
Upgrading == op.kind \in {"native", "compat"}

Adding == {"addRpms", "addTar", "addMove", "addLink"}
Deleting == {"preun", "unlink", "rmtree", "erase", "postun", "flush"}

RepoPlace == Refreshing \cup {"addRow", "addStale", "delStale", "delRow",
                             "makedirs", "rmtree", "delRows", "mkdir", "copyTree"}
KitopsPlace == Refreshing \cup Adding \cup Deleting \cup
  {"lock", "addRow", "addComponents", "addPost", "swapStale", "swapRow",
   "refresh", "refreshed", "failed", "sync", "images", "record"}

KitOpsTypeOK ==
  /\ DOMAIN kits \subseteq Kid /\ \A k \in DOMAIN kits : kits[k] \in Media
  /\ files \in [Kid -> SUBSET (Part \cup {"some"})]
  /\ uses \in [NodeGroup -> SUBSET DOMAIN kits]
  /\ has \in [Repo -> SUBSET DOMAIN kits]
  /\ oskit \subseteq rows /\ rows \subseteq Repo
  /\ \A r \in Repo \ rows : has[r] = {}
  /\ made \subseteq Repo /\ stale \subseteq made
  /\ content \in [Repo -> SUBSET Kid]
  /\ images \subseteq OS
  /\ locked \in BOOLEAN /\ lockFile \in BOOLEAN
  /\ \A t \in Tool : \/ job[t] \in {Idle, [Idle EXCEPT !.at = "parseArgs"],
                                     [Idle EXCEPT !.at = "locked"]}
                     \/ job[t].at \in RepoPlace /\ job[t].repo \in Repo
  /\ job[Kitops] = Idle \/ job[Kitops].at \in KitopsPlace
  /\ removable \subseteq DOMAIN kits
  /\ link \in Kid \cup {0}
  /\ nextKid \in 1..(MaxKid + 1)
  /\ spoiled \subseteq Kid
  /\ op.kind = "none" <=> job[Kitops] = Idle

---------------------------------------------------------------------------
(* The native base kit is installed, and perhaps a compatibility kit, in   *)
(* every repository of its OS.                                             *)
Init ==
  \E first \in Installed :
    /\ kits = first
    /\ files = [k \in Kid |-> IF k \in DOMAIN first THEN Part ELSE {}]
    /\ rows = Existing /\ oskit = Existing
    /\ has = [r \in Repo |-> {k \in DOMAIN first :
                                r \in Existing /\ first[k].os = RepoOs[r]}]
    /\ uses = [g \in NodeGroup |-> has[NgRepo[g]]]
    /\ made = Existing
    /\ stale = {}
    /\ content = has
    /\ images = {RepoOs[r] : r \in Existing}
    /\ locked = FALSE /\ lockFile = FALSE
    /\ job = [p \in Proc |-> Idle]
    /\ runs = 0 /\ kills = 0 /\ unsure = {}
    /\ removable = {k \in DOMAIN first : first[k] \notin Fixed}
    /\ link = 1
    /\ nextKid = Cardinality(DOMAIN first) + 1
    /\ version = first[1].version
    /\ op = NoOp
    /\ spoiled = {}

(* The process ends; its exit handler releases the lock.                   *)
End == /\ job' = [job EXCEPT ![Kitops] = Idle]
       /\ op' = NoOp
       /\ locked' = FALSE

On(k, place) == job' = [job EXCEPT ![Kitops].at = place, ![Kitops].kid = k]

Ask(request, place, k) ==
  /\ op' = request
  /\ job' = [job EXCEPT ![Kitops] = [Idle EXCEPT !.at = place, !.kid = k]]
  /\ UNCHANGED <<kitVars, reposVars, locked, history, linkVars, version,
                 spoiled>>

(* checkKitInstalled02: a kit without the file kitinfo conflicts with all. *)
Conflicts(m) == \E k \in DOMAIN kits : "kitinfo" \notin files[k] \/ kits[k] = m

---------------------------------------------------------------------------
(* addkit04                                                                *)

(* matches_native_base_kit_version: only an upgrade brings a new version.  *)
Add(m) ==
  /\ nextKid \in Kid
  /\ ~Conflicts(m)
  /\ \E n \in has[InstallerRepo] : kits[n].version = m.version
  /\ Ask([NoOp EXCEPT !.kind = "add", !.kit = m], "addRow", 0)

(* When the pre script fails nothing has happened yet.                     *)
AddRowFlushed ==
  /\ At(Kitops, "addRow")
  /\ kits' = [k \in DOMAIN kits \cup {nextKid} |->
                IF k = nextKid THEN op.kit ELSE kits[k]]
  /\ removable' = IF op.kit \in Fixed THEN removable ELSE removable \cup {nextKid}
  /\ nextKid' = nextKid + 1
  /\ op' = [op EXCEPT !.new = nextKid]
  /\ On(nextKid, "addRpms")
  /\ UNCHANGED <<files, uses, reposVars, locked, history, link, version,
                 spoiled>>

(* The packages, by way of tar.                                            *)
CopyRpms ==
  /\ \/ /\ At(Kitops, "addRpms")
        /\ files' = [files EXCEPT ![op.new] = {"some"}]
        /\ Goto(Kitops, "addTar")
     \/ /\ At(Kitops, "addTar")
        /\ files' = [files EXCEPT ![op.new] = {"rpms"}]
        /\ Goto(Kitops, "addMove")
  /\ UNCHANGED <<kits, uses, reposVars, locked, history, linkVars, version, op,
                 spoiled>>

(* What the kit RPM held is moved, item by item, in the order of listdir.  *)
MoveItem ==
  /\ At(Kitops, "addMove")
  /\ \E item \in Part \ files[op.new] :
       files' = [files EXCEPT ![op.new] = @ \cup {item}]
  /\ Goto(Kitops, IF files'[op.new] = Part THEN "addLink" ELSE "addMove")
  /\ UNCHANGED <<kits, uses, reposVars, locked, history, linkVars, version, op,
                 spoiled>>

(* A link that is there stays, wherever it leads.                          *)
InstallPlugins ==
  /\ At(Kitops, "addLink")
  /\ link' = IF link = 0 THEN op.new ELSE link
  /\ Goto(Kitops, "addComponents")
  /\ UNCHANGED <<kitVars, reposVars, locked, history, removable, nextKid,
                 version, op, spoiled>>

UpdateComponents ==
  /\ At(Kitops, "addComponents")
  /\ uses' = [g \in NodeGroup |->
                IF g \in AutoGroup /\ RepoOs[NgRepo[g]] = op.kit.os
                THEN uses[g] \cup {op.new} ELSE uses[g]]
  /\ Goto(Kitops, "addPost")
  /\ UNCHANGED <<kits, files, reposVars, locked, history, linkVars, version, op,
                 spoiled>>

(* deleteKit refuses what is not removable and what a repository has.      *)
Deletable(k, may) == k \in may /\ \A r \in Repo : k \notin has[r]

(* A kit whose addition fails is made removable first.                     *)
MadeRemovable(k) == removable \cup {k}

(* The post script.  That of a base kit may bring a new node installer,    *)
(* whose package removes every updates.img.  When it fails the kit is      *)
(* deleted again, unless a repository has got it meanwhile.                *)
PostScript ==
  /\ At(Kitops, "addPost")
  /\ \/ /\ images' \in {images} \cup (IF op.kind = "native" THEN {{}} ELSE {})
        /\ IF Upgrading THEN Goto(Kitops, "swapStale") /\ UNCHANGED <<op, locked>>
                        ELSE End
        /\ UNCHANGED removable
     \/ /\ MayFail
        /\ removable' = MadeRemovable(op.new)
        /\ IF Deletable(op.new, removable')
           THEN On(op.new, "preun") /\ UNCHANGED <<op, locked>>
           ELSE End
        /\ UNCHANGED images
  /\ UNCHANGED <<kitVars, rowVars, made, stale, content, history, link, nextKid,
                 version, spoiled>>

---------------------------------------------------------------------------
(* deleteKit, deletekit04 and, for a kit without kitinfo, deletekit01      *)

Strategy(k) == IF "kitinfo" \in files[k] THEN "preun" ELSE "erase"

Delete(k) ==
  /\ k \in DOMAIN kits
  /\ Deletable(k, removable)
  /\ Ask([NoOp EXCEPT !.kind = "delete", !.old = k], Strategy(k), k)

(* Without the kit RPM, or when the script fails, it is over.              *)
PreunScript ==
  /\ At(Kitops, "preun")
  /\ LET k == job[Kitops].kid IN
     \/ /\ "rpms" \in files[k]
        /\ Goto(Kitops, "unlink")
        /\ UNCHANGED <<op, locked>>
     \/ /\ MayFail \/ "rpms" \notin files[k]
        /\ End
  /\ UNCHANGED <<kitVars, reposVars, history, linkVars, version, spoiled>>

Providers == {k \in Kid : "plugins" \in files[k]}

(* Mutant: the link is removed with the kit it leads to.                   *)
UninstallPlugins_NoOther ==
  /\ At(Kitops, "unlink")
  /\ link' = IF link = job[Kitops].kid THEN 0 ELSE link
  /\ Goto(Kitops, "rmtree")
  /\ UNCHANGED <<kitVars, reposVars, locked, history, removable, nextKid,
                 version, op, spoiled>>

(* Mutant: only the kit the link leads to loses its files.                 *)
UninstallPlugins_OrKeep ==
  /\ At(Kitops, "unlink")
  /\ LET k == job[Kitops].kid IN
     IF link = k
     THEN /\ link' \in Providers \ {k}
          /\ Goto(Kitops, "rmtree")
     ELSE Goto(Kitops, "postun") /\ UNCHANGED link
  /\ UNCHANGED <<kitVars, reposVars, locked, history, removable, nextKid,
                 version, op, spoiled>>

(* uninstallPlugins: the link is moved to another directory that has the   *)
(* plugin, or removed with the last.                                       *)
UninstallPlugins ==
  /\ At(Kitops, "unlink")
  /\ LET k == job[Kitops].kid IN
     IF k \in Providers /\ link = k
     THEN IF Providers = {k} THEN link' = 0
                             ELSE link' \in Providers \ {k}
     ELSE UNCHANGED link
  /\ Goto(Kitops, "rmtree")
  /\ UNCHANGED <<kitVars, reposVars, locked, history, removable, nextKid,
                 version, op, spoiled>>

(* rmtree, file by file.                                                   *)
RemoveFiles(place, then) ==
  /\ At(Kitops, place)
  /\ LET k == job[Kitops].kid IN
     IF files[k] = {}
     THEN Goto(Kitops, then) /\ UNCHANGED files
     ELSE \E item \in files[k] :
            files' = [files EXCEPT ![k] = @ \ {item}] /\ UNCHANGED job
  /\ UNCHANGED <<kits, uses, reposVars, locked, history, linkVars, version, op,
                 spoiled>>

(* When the script fails the flush is never reached.                       *)
PostunScript ==
  /\ At(Kitops, "postun")
  /\ \/ /\ Goto(Kitops, "flush")
        /\ UNCHANGED <<op, locked, spoiled>>
     \/ /\ MayFail
        /\ End
        /\ spoiled' = spoiled \cup {job[Kitops].kid}
  /\ UNCHANGED <<kitVars, reposVars, history, linkVars, version>>

(* Mutant: the new components do not follow the old ones.                  *)
Reassociated_Dropped(g, k) == uses[g] \ {k}

(* _reassociate_components_to_nodegroups, flushed with the deletion: the   *)
(* new components take the node groups of the old ones, and no others.     *)
Reassociated(g, k) ==
  IF Upgrading /\ k = op.old
  THEN (uses[g] \ {op.old, op.new}) \cup (IF op.old \in uses[g] THEN {op.new} ELSE {})
  ELSE uses[g] \ {k}

(* The flush.  A repository may have got the kit since the check: then the *)
(* rows go with that of the kit, or they keep it and the flush fails.      *)
Flush ==
  /\ At(Kitops, "flush")
  /\ LET k == job[Kitops].kid
         late == \E r \in Repo : k \in has[r]
     IN \/ /\ kits' = [x \in DOMAIN kits \ {k} |-> kits[x]]
           /\ has' = [r \in Repo |-> has[r] \ {k}]
           /\ uses' = [g \in NodeGroup |-> Reassociated(g, k)]
           /\ removable' = removable \ {k}
           /\ IF op.kind = "native" /\ k = op.old
              THEN /\ On(0, "refresh")
                   /\ op' = [op EXCEPT !.left = op.repos]
                   /\ UNCHANGED locked
              ELSE End
           /\ UNCHANGED spoiled
        \/ /\ late
           /\ End
           /\ spoiled' = spoiled \cup {k}
           /\ UNCHANGED <<kits, has, uses, removable>>
  /\ UNCHANGED <<files, rows, oskit, diskVars, history, link, nextKid, version>>

---------------------------------------------------------------------------
(* UpgradeAction                                                           *)

(* The checks of run(): the media have a newer kit for every repository of *)
(* the old one; the repositories of the native base kit are not stale; a   *)
(* compatibility kit stays below the native one.                           *)
Upgrade(k, m) ==
  LET repos == {r \in Repo : k \in has[r]}
      native == InstallerRepo \in repos
  IN /\ k \in DOMAIN kits
     /\ nextKid \in Kid
     /\ m.version > kits[k].version
     /\ repos # {}
     /\ \A r \in repos : RepoOs[r] = m.os
     /\ native => repos \cap stale = {}
     /\ \E n \in has[InstallerRepo] : n = k \/ kits[n].version > m.version
     /\ ~Conflicts(m)
     /\ Ask([NoOp EXCEPT !.kind = IF native THEN "native" ELSE "compat",
                         !.kit = m, !.old = k, !.repos = repos, !.left = repos],
            IF native THEN "lock" ELSE "addRow", 0)

(* _acquire_global_lock: not while another tool runs (see KusuLock).       *)
AcquireGlobalLock ==
  /\ At(Kitops, "lock")
  /\ IF \A t \in Tool : job[t] = Idle
     THEN locked' = TRUE /\ Goto(Kitops, "addRow") /\ UNCHANGED op
     ELSE End
  /\ UNCHANGED <<kitVars, reposVars, history, linkVars, version, spoiled>>

(* _reassociate_repos: one repository at a time the mark, then the rows.   *)
SwapStale ==
  /\ At(Kitops, "swapStale")
  /\ \E r \in op.left :
       IF r \in made /\ OsKit \in KitRows(r)
       THEN /\ stale' = stale \cup {r}
            /\ job' = [job EXCEPT ![Kitops].at = "swapRow", ![Kitops].repo = r]
            /\ unsure' = IF Others(Kitops, r) = {} THEN unsure ELSE unsure \cup {r}
            /\ UNCHANGED <<op, locked>>
       ELSE End /\ UNCHANGED <<stale, unsure>>
  /\ UNCHANGED <<kitVars, rowVars, made, content, images, runVars, kills, linkVars,
                 version, spoiled>>

SwapRow ==
  /\ At(Kitops, "swapRow")
  /\ LET r == job[Kitops].repo
         left == op.left \ {r}
     IN IF r \notin rows THEN End /\ UNCHANGED <<has, unsure>>
        ELSE
        /\ has' = [has EXCEPT ![r] = (@ \ {op.old}) \cup {op.new}]
        /\ op' = [op EXCEPT !.left = left]
        /\ job' = [job EXCEPT ![Kitops] =
             IF left # {} THEN [@ EXCEPT !.at = "swapStale", !.repo = NoRepo]
             ELSE [@ EXCEPT !.at = Strategy(op.old), !.repo = NoRepo, !.kid = op.old]]
        /\ unsure' = unsure \cup {x \in Repo : left = {} /\ op.old \in has'[x]}
        /\ UNCHANGED locked
  /\ UNCHANGED <<kitVars, rows, oskit, diskVars, runVars, kills, linkVars, version,
                 spoiled>>

(* Mutant: the repositories of the old kit are looked up when it is gone.  *)
UpdateRepos_None ==
  /\ At(Kitops, "refresh")
  /\ Goto(Kitops, "sync")
  /\ UNCHANGED <<op, locked>>

(* _update_repos: refresh each; a failure ends the upgrade.                *)
UpdateRepos ==
  \/ /\ At(Kitops, "refresh")
     /\ \E r \in op.left :
          job' = [job EXCEPT ![Kitops].at = "clean", ![Kitops].repo = r]
     /\ UNCHANGED <<op, locked>>
  \/ /\ At(Kitops, "refreshed")
     /\ LET left == op.left \ {job[Kitops].repo} IN
        /\ op' = [op EXCEPT !.left = left]
        /\ job' = [job EXCEPT ![Kitops].repo = NoRepo,
                    ![Kitops].at = IF left = {} THEN "sync" ELSE "refresh"]
     /\ UNCHANGED locked
  \/ At(Kitops, "failed") /\ End

(* _synchronize_nodegroups: the package lists are made and the nodes told  *)
(* (see CfmFiles and CfmNet), unless an exception ends the upgrade.        *)
SynchronizeNodegroups ==
  /\ At(Kitops, "sync")
  /\ \/ Goto(Kitops, "images") /\ UNCHANGED <<op, locked>>
     \/ MayFail /\ End

(* _build_images_and_patch_drivers: names that are not defined, met when a *)
(* node group of installtype package has a component with driver packs.    *)
BuildImages ==
  /\ At(Kitops, "images")
  /\ IF op.kit \in DriverPacks /\ \E g \in PackageGroup : op.new \in uses[g]
     THEN End
     ELSE Goto(Kitops, "record") /\ UNCHANGED <<op, locked>>

UpdateKusuVersion ==
  /\ At(Kitops, "record")
  /\ version' = op.kit.version
  /\ End

UpgradeEnds ==
  /\ \/ UpdateRepos /\ UNCHANGED version
     \/ SynchronizeNodegroups /\ UNCHANGED version
     \/ BuildImages /\ UNCHANGED version
     \/ UpdateKusuVersion
  /\ UNCHANGED <<kitVars, reposVars, history, linkVars, spoiled>>

(* A killed process leaves everything as it is, the lock with it.          *)
KillKitops ==
  /\ job[Kitops] # Idle
  /\ kills < MaxKills
  /\ kills' = kills + 1
  /\ spoiled' = IF job[Kitops].at \in Adding \cup (Deleting \ {"preun", "unlink"})
                THEN spoiled \cup {job[Kitops].kid} ELSE spoiled
  /\ unsure' = unsure \cup Unmarked(Kitops)
  /\ job' = [job EXCEPT ![Kitops] = Idle]
  /\ op' = NoOp
  /\ UNCHANGED <<kitVars, reposVars, locked, runVars, linkVars, version>>

(* The lock of a killed upgrade is removed by hand.                        *)
RemoveLock ==
  /\ locked /\ At(Kitops, "idle")
  /\ locked' = FALSE
  /\ UNCHANGED <<kitVars, reposVars, job, history, linkVars, version, op,
                 spoiled>>

---------------------------------------------------------------------------
(* A refresh is part of kusu-kitops as well.                               *)
KitopsNext ==
  \/ /\ At(Kitops, "idle") /\ ~locked
     /\ \/ \E m \in Media : Add(m) \/ \E k \in Kid : Upgrade(k, m)
        \/ \E k \in Kid : Delete(k)
  \/ AddRowFlushed \/ CopyRpms \/ MoveItem \/ InstallPlugins
  \/ UpdateComponents \/ PostScript
  \/ PreunScript \/ UninstallPlugins
  \/ RemoveFiles("rmtree", "postun") \/ RemoveFiles("erase", "flush")
  \/ PostunScript \/ Flush
  \/ AcquireGlobalLock \/ SwapStale \/ SwapRow \/ UpgradeEnds
  \/ KillKitops \/ RemoveLock

RepoNext ==
  /\ Refresh(Kitops) \/ ToolNext
  /\ UNCHANGED <<linkVars, version, op, spoiled>>

Next == KitopsNext \/ RepoNext

Spec == Init /\ [][Next]_vars

---------------------------------------------------------------------------
(* Properties                                                              *)

InHand == IF At(Kitops, "idle") THEN {} ELSE {job[Kitops].kid}

(* A kit the database knows has its whole directory, and a directory under *)
(* /depot/kits belongs to a kit the database knows, however the operations *)
(* of kusu-kitops and kusu-repoman interleave: only a killed process, a    *)
(* post-uninstall script that fails or a repository that takes the kit     *)
(* while it is deleted can break this (the rows go after the files).       *)
RowsHaveFiles ==
  \A k \in Kid \ (spoiled \cup InHand) :
    files[k] = IF k \in DOMAIN kits THEN Part ELSE {}

(* While an installed kit has the plugin, the one plugin link is there and *)
(* leads to a copy of it: adding a kit keeps the link of another, and      *)
(* deleting the kit it leads to moves it to one that stays.                *)
PluginServed ==
  /\ (\E k \in DOMAIN kits \ (spoiled \cup InHand) : TRUE) => link # 0
  /\ link \notin spoiled \cup {0} => "plugins" \in files[link]

(* A repository that nobody works on has a row and a directory or neither, *)
(* and kits only with an OS kit.  Unless it is marked stale its directory  *)
(* has the packages of its kits, of no other, and they are there in the    *)
(* kits' directories: whatever order repositories are made, copied and     *)
(* deleted in and kits added, removed, upgraded and refreshed, and         *)
(* whatever step fails.  Only two processes on one repository, or a kill   *)
(* in the moments when the rows or the directory have changed and the      *)
(* other, or the mark, has not, break this.                                *)
RowAndDirectory(r) ==
  /\ r \in rows <=> r \in made
  /\ has[r] # {} => r \in oskit

CleanIsCurrent(r) ==
  /\ content[r] \ spoiled = has[r] \ spoiled
  /\ \A k \in content[r] \ spoiled : "rpms" \in files[k]

Quiet(r) == \A p \in Proc : job[p].repo # r

RepoServesItsKits ==
  \A r \in Repo \ unsure :
    Quiet(r) => RowAndDirectory(r) /\ (r \in stale \/ CleanIsCurrent(r))

(* An upgrade, finished or not, never leaves a repository or a node group  *)
(* without the base kit it had: at each step they have the old kit or the  *)
(* new one, and a node group keeps every other kit.  Not so a repository   *)
(* that two processes worked on, or that takes the old kit after the       *)
(* upgrade has read which repositories have it, before it takes the lock.  *)
UpgradeKeepsKits ==
  [][Upgrading =>
       LET either == {op.old, op.new} IN
       /\ job'[Kitops] # job[Kitops] =>
            \A r \in Repo \ unsure' :
              has[r] \cap either # {} => has'[r] \cap either # {}
       /\ \A g \in NodeGroup :
            /\ op.old \in uses[g] => uses'[g] \cap either # {}
            /\ uses[g] \ either \subseteq uses'[g]]_vars

(* The version of Kusu is recorded last: by then every repository of the   *)
(* old native base kit has the new one instead, refreshed, the node groups *)
(* have moved, the old kit is gone and the plugin link does not lead to it.*)
VersionRecordedLast ==
  [][version' # version =>
       /\ \A r \in op.repos : /\ op.new \in has[r] /\ op.old \notin has[r]
                               /\ r \notin stale /\ CleanIsCurrent(r)
       /\ \A g \in NodeGroup : op.old \notin uses[g]
       /\ op.old \notin DOMAIN kits /\ files[op.old] = {}
       /\ link # op.old]_vars

=============================================================================
