------------------------------- MODULE Repos -------------------------------
(***************************************************************************)
(* Repositories: the rows and the directories that kusu-repoman keeps in   *)
(* step (kusu-repoman/src/bin/kusu-repoman, src/lib/repo.py).  A           *)
(* repository directory is filled with links to the packages of the kits   *)
(* the database gives the repository; a file .stale in it says that the    *)
(* two may differ.  A run of kusu-repoman first looks whether the lock     *)
(* file of another one is there, and a moment later puts its own.          *)
(* kusu-kitops runs beside it; only the upgrade of the native base kit     *)
(* excludes it (KusuLock).                                                 *)
(*                                                                         *)
(* Kits are base kits, but for the OS kit, of which a repository has one   *)
(* or none.                                                                *)
(***************************************************************************)
EXTENDS Naturals, FiniteSets, Functions

CONSTANTS
  MaxKid,      \* kits are numbered 1 .. MaxKid as they are added
  OS,
  Media,       \* the base kits there are: records [version, os]
  Repo,
  RepoOs,      \* repository -> the OS of the OS kit it has or may get
  NodeGroup,
  NgRepo,      \* node group -> its repository
  Tool,        \* the processes that run kusu-repoman, again and again
  Kitops,      \* the process of kusu-kitops (there is at most one)
  MayFail,     \* may scripts, createrepo and the like fail
  MaxRuns,     \* bound on the runs of kusu-repoman
  MaxKills     \* bound on killed processes

Kid == 1..MaxKid
Proc == Tool \cup {Kitops}
NoRepo == "none"
OsKit == 0

ASSUME ReposAssumption ==
  /\ MaxKid \in Nat
  /\ Media \subseteq [version : Nat, os : OS]
  /\ RepoOs \in [Repo -> OS]
  /\ NgRepo \in [NodeGroup -> Repo]
  /\ Kitops \notin Tool
  /\ NoRepo \notin Repo
  /\ MayFail \in BOOLEAN
  /\ MaxRuns \in Nat
  /\ MaxKills \in Nat

VARIABLES
  kits,      \* the rows of table kits: kit id -> kit
  files,     \* kit id -> what is in its directory under /depot/kits
  uses,      \* node group -> the kits whose components it has
  rows,      \* the repositories the database knows
  oskit,     \* those that have an OS kit
  has,       \* repository -> its other kits (table repos_have_kits)
  made,      \* the repositories whose directory exists
  stale,     \* those that have the file .stale
  content,   \* repository -> the kits whose packages its directory links to
  images,    \* the OSs whose updates.img the node installer has
  locked,    \* is the global lock taken
  lockFile,  \* is there /var/lock/subsys/kusu-repoman
  job,       \* what each process is doing
  runs,      \* runs of kusu-repoman so far
  kills,     \* processes killed so far
  unsure     \* history: repositories two processes worked on at once, or
             \* a killed one left between two changes that belong together

diskVars == <<made, stale, content, images>>
kitVars == <<kits, files, uses>>
rowVars == <<rows, oskit, has>>
lockVars == <<locked, lockFile>>
runVars == <<runs, lockFile>>

Idle == [at |-> "idle", repo |-> NoRepo, kid |-> 0, list |-> {}, src |-> NoRepo]

(* The parts of a refresh; the first is under way until clean is done.     *)
Refreshing == {"clean", "makeRepoDirs", "touch", "list", "copy", "image",
               "markClean"}

(* What a directory under /depot/kits holds; "some" of the packages while  *)
(* they are copied.                                                        *)
Part == {"rpms", "kitinfo", "plugins"}

At(p, place) == job[p].at = place
Goto(p, place) == job' = [job EXCEPT ![p].at = place]

(* A run of kusu-repoman exits: unlock, whoever's the lock file is.        *)
Exit(t) == job' = [job EXCEPT ![t] = Idle] /\ lockFile' = FALSE

(* Where a refresh ends: a run of kusu-repoman exits, an upgrade goes on.  *)
GoOn(p, place) ==
  IF p = Kitops THEN Goto(p, place) /\ UNCHANGED lockFile ELSE Exit(p)
Refreshed(p) == GoOn(p, "refreshed")
Failed(p) == GoOn(p, "failed")

(* The kit whose packages kusu-kitops is copying or removing.              *)
InMotion ==
  IF job[Kitops].at \in {"addRpms", "addTar", "preun", "unlink", "rmtree",
                         "erase", "postun", "flush"}
  THEN {job[Kitops].kid} ELSE {}

(* All kits of repository r, the OS kit among them.                        *)
KitRows(r) == has[r] \cup {k \in {OsKit} : r \in oskit}

SetKits(r, K) ==
  /\ has' = [has EXCEPT ![r] = K \ {OsKit}]
  /\ oskit' = IF OsKit \in K THEN oskit \cup {r} ELSE oskit \ {r}

(* The other processes that work on repository r or on a kit of it.        *)
Others(p, r) ==
  {q \in Proc \ {p} : \/ r \in {job[q].repo, job[q].src}
                      \/ q = Kitops /\ InMotion \cap has[r] # {}}

---------------------------------------------------------------------------
(* BaseRepo.refresh                                                        *)

(* Mutant: the mark survives the directory.                                *)
Clean_KeepsMark(p) ==
  /\ At(p, "clean")
  /\ made' = made \ {job[p].repo}
  /\ content' = [content EXCEPT ![job[p].repo] = {}]
  /\ Goto(p, "makeRepoDirs")
  /\ UNCHANGED <<kitVars, rowVars, stale, images, lockVars, runs, kills, unsure>>

(* The directory goes, .stale with it; what was unsure about it is gone,   *)
(* if nothing is wrong with the rows.                                      *)
RemoveDirectory(p, r) ==
  /\ made' = made \ {r}
  /\ stale' = stale \ {r}
  /\ content' = [content EXCEPT ![r] = {}]
  /\ unsure' = IF Others(p, r) = {} /\ r \in rows /\ (has[r] # {} => r \in oskit)
               THEN unsure \ {r} ELSE unsure
  /\ UNCHANGED images

Clean(p) ==
  /\ At(p, "clean")
  /\ IF job[p].repo \notin made
     THEN Failed(p) /\ UNCHANGED <<diskVars, unsure>>
     ELSE /\ RemoveDirectory(p, job[p].repo)
          /\ Goto(p, "makeRepoDirs")
          /\ UNCHANGED lockFile
  /\ UNCHANGED <<kitVars, rowVars, locked, runs, kills>>

MakeRepoDirs(p) ==
  /\ At(p, "makeRepoDirs")
  /\ made' = made \cup {job[p].repo}
  /\ Goto(p, "touch")
  /\ UNCHANGED <<kitVars, rowVars, stale, content, images, lockVars, runs, kills, unsure>>

(* touch fails when the directory is not there.                            *)
MarkStale(p) ==
  /\ At(p, "touch")
  /\ IF job[p].repo \in made
     THEN stale' = stale \cup {job[p].repo} /\ Goto(p, "list") /\ UNCHANGED lockFile
     ELSE Failed(p) /\ UNCHANGED stale
  /\ UNCHANGED <<kitVars, rowVars, made, content, images, locked, runs, kills, unsure>>

(* copyKitsPackages selects the kits of the repository ...                 *)
ListKits(p) ==
  /\ At(p, "list")
  /\ job' = [job EXCEPT ![p].at = "copy", ![p].list = has[job[p].repo]]
  /\ UNCHANGED <<kitVars, rowVars, diskVars, lockVars, runs, kills, unsure>>

(* ... and links the packages there are; a kit without a directory ends it. *)
CopyKitsPackages(p) ==
  /\ At(p, "copy")
  /\ IF job[p].repo \in made /\ \A k \in job[p].list : files[k] # {}
     THEN /\ content' = [content EXCEPT ![job[p].repo] =
               @ \cup {k \in job[p].list : "rpms" \in files[k]}]
          /\ Goto(p, "image")
          /\ UNCHANGED lockFile
     ELSE Failed(p) /\ UNCHANGED content
  /\ UNCHANGED <<kitVars, rowVars, made, stale, images, locked, runs, kills, unsure>>

(* createrepo and the rest may fail.  copyKusuNodeInstaller needs          *)
(* updates.img; genupdatesimg, which makes it, is a KusuApp and exits      *)
(* while the global lock is taken.                                         *)
CopyKusuNodeInstaller(p) ==
  /\ At(p, "image")
  /\ LET os == RepoOs[job[p].repo] IN
     \/ /\ os \in images \/ ~locked
        /\ job[p].repo \in made
        /\ images' = images \cup {os}
        /\ Goto(p, "markClean")
        /\ UNCHANGED lockFile
     \/ /\ MayFail \/ (os \notin images /\ locked) \/ job[p].repo \notin made
        /\ Failed(p)
        /\ UNCHANGED images
  /\ UNCHANGED <<kitVars, rowVars, made, stale, content, locked, runs, kills, unsure>>

MarkClean(p) ==
  /\ At(p, "markClean")
  /\ stale' = stale \ {job[p].repo}
  /\ Refreshed(p)
  /\ UNCHANGED <<kitVars, rowVars, made, content, images, locked, runs, kills, unsure>>

Refresh(p) ==
  \/ Clean(p) \/ MakeRepoDirs(p) \/ MarkStale(p) \/ ListKits(p)
  \/ CopyKitsPackages(p) \/ CopyKusuNodeInstaller(p) \/ MarkClean(p)

---------------------------------------------------------------------------
(* kusu-repoman                                                            *)

(* The two tests before anything else: of the global lock, and of the lock *)
(* file.                                                                   *)
Begin(t) ==
  /\ At(t, "idle")
  /\ ~locked /\ ~lockFile
  /\ runs < MaxRuns
  /\ Goto(t, "parseArgs")
  /\ UNCHANGED <<kitVars, rowVars, diskVars, lockVars, runs, kills, unsure>>

(* The options and the database are looked at: an exit here does not       *)
(* unlock.  Then the lock file is touched, be it there or not.             *)
Lock(t) ==
  /\ At(t, "parseArgs")
  /\ \/ Goto(t, "idle") /\ UNCHANGED lockFile
     \/ Goto(t, "locked") /\ lockFile' = TRUE
  /\ UNCHANGED <<kitVars, rowVars, diskVars, locked, runs, kills, unsure>>

(* The repositories that are being made as copies of r.                    *)
Copies(r) == {job[q].repo : q \in {x \in Proc : job[x].src = r}}

(* What was asked for, on repository r, passes its checks.                 *)
Asked(t, r, place, k) ==
  /\ runs' = runs + 1
  /\ job' = [job EXCEPT ![t] = [@ EXCEPT !.at = place, !.repo = r, !.kid = k]]
  /\ unsure' = IF Others(t, r) = {} THEN unsure ELSE unsure \cup {r} \cup Copies(r)
  /\ UNCHANGED <<kitVars, stale, content, images, lockVars, kills>>

(* A check that refuses, or nothing to be changed (-l, -v, --flush-cache). *)
Refused(t) ==
  /\ At(t, "locked")
  /\ Exit(t)
  /\ UNCHANGED <<kitVars, rowVars, diskVars, locked, runs, kills, unsure>>

(* -n: the row, and then the directory.  An id is not used again while     *)
(* anything is left of it, or anyone at work on it.                        *)
Unused(r) ==
  /\ r \notin rows \cup made /\ KitRows(r) = {}
  /\ \A p \in Proc : r \notin {job[p].repo, job[p].src}

New(t, r) ==
  /\ Unused(r)
  /\ rows' = rows \cup {r}
  /\ Asked(t, r, "makedirs", OsKit)
  /\ UNCHANGED <<oskit, has, made>>

MakeDirs(t) ==
  /\ At(t, "makedirs")
  /\ made' = made \cup {job[t].repo}
  /\ Exit(t)
  /\ UNCHANGED <<kitVars, rowVars, stale, content, images, locked, runs, kills, unsure>>

(* -u: refused without OS or base kit; the directory is made if need be.   *)
Update(t, r) ==
  /\ r \in rows /\ OsKit \in KitRows(r) /\ KitRows(r) # {OsKit}
  /\ Asked(t, r, "clean", OsKit)
  /\ made' = made \cup {r}
  /\ UNCHANGED rowVars

(* -a: to a repository without kits the OS kit first, and but one; any     *)
(* other kit must be there, have components for the repository's OS, and   *)
(* be new to it.                                                           *)
AddKit(t, r, k) ==
  /\ r \in rows /\ k \notin KitRows(r)
  /\ k # OsKit => /\ KitRows(r) # {}
                  /\ k \in DOMAIN kits /\ kits[k].os = RepoOs[r]
  /\ Asked(t, r, "addRow", k)
  /\ UNCHANGED <<rowVars, made>>

(* The row, if the keys allow it, and then the mark.                       *)
AddRow(t) ==
  /\ At(t, "addRow")
  /\ LET r == job[t].repo
         k == job[t].kid
     IN IF r \in rows /\ k \in ({OsKit} \cup DOMAIN kits) \ KitRows(r)
        THEN /\ SetKits(r, KitRows(r) \cup {k})
             /\ unsure' = IF k \in InMotion THEN unsure \cup {r} ELSE unsure
             /\ Goto(t, "addStale")
             /\ UNCHANGED lockFile
        ELSE Exit(t) /\ UNCHANGED <<oskit, has, unsure>>
  /\ UNCHANGED <<kitVars, rows, diskVars, locked, runs, kills>>

AddStale(t) ==
  /\ At(t, "addStale")
  /\ stale' = stale \cup ({job[t].repo} \cap made)
  /\ Exit(t)
  /\ UNCHANGED <<kitVars, rowVars, made, content, images, locked, runs, kills, unsure>>

(* The node groups that use kit k of repository r; all use its OS kit.     *)
UsedBy(r, k) == {g \in NodeGroup : NgRepo[g] = r /\ k \in uses[g] \cup {OsKit}}

(* -e: not while a node group of the repository uses the kit, and the OS   *)
(* kit last.  The mark first, then the row.                                *)
DelKit(t, r, k) ==
  /\ k \in KitRows(r) /\ OsKit \in KitRows(r)
  /\ k = OsKit => KitRows(r) = {k}
  /\ UsedBy(r, k) = {}
  /\ Asked(t, r, "delStale", k)
  /\ UNCHANGED <<rowVars, made>>

DelStale(t) ==
  /\ At(t, "delStale")
  /\ IF job[t].repo \in made
     THEN stale' = stale \cup {job[t].repo} /\ Goto(t, "delRow") /\ UNCHANGED lockFile
     ELSE Exit(t) /\ UNCHANGED stale
  /\ UNCHANGED <<kitVars, rowVars, made, content, images, locked, runs, kills, unsure>>

DelRow(t) ==
  /\ At(t, "delRow")
  /\ SetKits(job[t].repo, KitRows(job[t].repo) \ {job[t].kid})
  /\ Exit(t)
  /\ UNCHANGED <<kitVars, rows, diskVars, locked, runs, kills, unsure>>

(* -e without a kit: the repository, unless a node group has it; first its *)
(* directory ...                                                           *)
DeleteRepo(t, r) ==
  /\ r \in rows
  /\ \A g \in NodeGroup : NgRepo[g] # r
  /\ Asked(t, r, "rmtree", OsKit)
  /\ UNCHANGED <<rowVars, made>>

RmTree(t) ==
  /\ At(t, "rmtree")
  /\ RemoveDirectory(t, job[t].repo)
  /\ job' = [job EXCEPT ![t].at = "delRows", ![t].list = KitRows(job[t].repo)]
  /\ UNCHANGED <<kitVars, rowVars, lockVars, runs, kills>>

(* ... then the rows of the kits it had, one at a time, and then its own,  *)
(* if the keys allow it.                                                   *)
DelRows(t) ==
  /\ At(t, "delRows")
  /\ LET r == job[t].repo IN
     \/ \E k \in job[t].list :
          /\ SetKits(r, KitRows(r) \ {k})
          /\ job' = [job EXCEPT ![t].list = @ \ {k}]
          /\ UNCHANGED <<rows, lockFile>>
     \/ /\ job[t].list = {}
        /\ rows' = IF KitRows(r) = {} THEN rows \ {r} ELSE rows
        /\ Exit(t)
        /\ UNCHANGED <<oskit, has>>
  /\ UNCHANGED <<kitVars, diskVars, locked, runs, kills, unsure>>

(* Mutant: a copy by a pattern that does not match the dot file .stale.     *)
CopyTree_NoMark(t) ==
  /\ At(t, "copyTree")
  /\ LET r == job[t].src
         s == job[t].repo
     IN IF r \in made
        THEN /\ made' = made \cup {s}
             /\ content' = [content EXCEPT ![s] = @ \cup content[r]]
        ELSE UNCHANGED <<made, content>>
  /\ Exit(t)
  /\ UNCHANGED <<kitVars, rowVars, stale, images, locked, runs, kills, unsure>>

(* -s: a repository with the kits of another, whose directory is copied,   *)
(* the mark with it; cpio makes the directories it misses.  What is unsure *)
(* about the one is so about the other.                                    *)
Snapshot(t, r, s) ==
  /\ r \in rows /\ Unused(s) /\ RepoOs[s] = RepoOs[r]
  /\ rows' = rows \cup {s}
  /\ SetKits(s, KitRows(r))
  /\ runs' = runs + 1
  /\ job' = [job EXCEPT ![t] = [@ EXCEPT !.at = "mkdir", !.repo = s, !.src = r]]
  /\ unsure' = IF r \notin unsure /\ Others(t, r) = {} THEN unsure \ {s}
               ELSE unsure \cup {s}
  /\ UNCHANGED <<kitVars, diskVars, lockVars, kills>>

MkDir(t) ==
  /\ At(t, "mkdir")
  /\ IF job[t].src \in made
     THEN made' = made \cup {job[t].repo} /\ Goto(t, "copyTree") /\ UNCHANGED lockFile
     ELSE Exit(t) /\ UNCHANGED made
  /\ UNCHANGED <<kitVars, rowVars, stale, content, images, locked, runs, kills, unsure>>

CopyTree(t) ==
  /\ At(t, "copyTree")
  /\ LET r == job[t].src
         s == job[t].repo
     IN IF r \in made
        THEN /\ made' = made \cup {s}
             /\ content' = [content EXCEPT ![s] = @ \cup content[r]]
             /\ stale' = IF r \in stale THEN stale \cup {s} ELSE stale
        ELSE UNCHANGED <<made, content, stale>>
  /\ Exit(t)
  /\ UNCHANGED <<kitVars, rowVars, images, locked, runs, kills, unsure>>

(* Repositories that look clean though nothing is sure about them.         *)
Unmarked(p) ==
  IF job[p].at \in {"makeRepoDirs", "touch", "addStale", "makedirs", "delRows",
                    "mkdir", "copyTree"}
  THEN {job[p].repo} ELSE {}

(* A killed run leaves its lock file.                                      *)
KillTool(t) ==
  /\ job[t] # Idle
  /\ kills < MaxKills
  /\ kills' = kills + 1
  /\ unsure' = unsure \cup Unmarked(t)
  /\ job' = [job EXCEPT ![t] = Idle]
  /\ UNCHANGED <<kitVars, rowVars, diskVars, lockVars, runs>>

RemoveLockFile ==
  /\ lockFile /\ \A t \in Tool : job[t] = Idle
  /\ lockFile' = FALSE
  /\ UNCHANGED <<kitVars, rowVars, diskVars, locked, job, runs, kills, unsure>>

ToolNext ==
  \/ RemoveLockFile
  \/ \E t \in Tool :
       \/ Begin(t) \/ Lock(t) \/ Refused(t) \/ KillTool(t)
       \/ Refresh(t) \/ AddRow(t) \/ AddStale(t) \/ DelStale(t) \/ DelRow(t)
       \/ MakeDirs(t) \/ RmTree(t) \/ DelRows(t) \/ MkDir(t) \/ CopyTree(t)
       \/ /\ At(t, "locked")
          /\ \E r \in Repo :
               \/ New(t, r) \/ Update(t, r) \/ DeleteRepo(t, r)
               \/ \E k \in Kid \cup {OsKit} : AddKit(t, r, k) \/ DelKit(t, r, k)
               \/ \E s \in Repo : Snapshot(t, r, s)

=============================================================================
