--------------------------- MODULE KitOps_proofs ---------------------------
(***************************************************************************)
(* Kits and repositories, for any number of them, of runs of kusu-repoman  *)
(* at once and of kills.                                                   *)
(***************************************************************************)
EXTENDS KitOps, FiniteSetTheorems, TLAPS

(* The places of kusu-kitops by what they have in hand.                    *)
Starting == {"lock", "addRow"}
Brought == {"addLink", "addComponents", "addPost", "swapStale", "swapRow"}
Linked == {"addComponents", "addPost", "swapStale", "swapRow"}
OnRepo == Refreshing \cup {"swapRow", "refreshed", "failed"}
Closing == Refreshing \cup {"refresh", "refreshed", "failed", "sync", "images", "record"}

Place == RepoPlace \cup KitopsPlace \cup {"idle", "parseArgs", "locked"}

AnyJob ==
  {j \in [at : Place, repo : Repo \cup {NoRepo}, kid : Kid \cup {0},
          list : SUBSET (Kid \cup {0}), src : Repo \cup {NoRepo}] :
     j.at = "copy" => j.list \subseteq Kid}

(* A tool works on a repository, or has not been told yet on which.        *)
ToolOK(t) ==
  /\ job[t].at \in RepoPlace \cup {"idle", "parseArgs", "locked"}
  /\ job[t].at \in RepoPlace <=> job[t].repo \in Repo
  /\ job[t].at \in {"mkdir", "copyTree"} <=> job[t].src \in Repo
  /\ job[t].at \notin RepoPlace => job[t].kid = 0 /\ job[t].list = {}

JobsTyped ==
  /\ DOMAIN job = Proc
  /\ \A p \in Proc : job[p] \in AnyJob
  /\ \A t \in Tool : ToolOK(t)

(* Only what there is is used and in repositories, and marked.             *)
RowsTyped ==
  /\ uses \in [NodeGroup -> SUBSET DOMAIN kits]
  /\ has \in [Repo -> SUBSET DOMAIN kits]
  /\ oskit \subseteq rows /\ rows \subseteq Repo
  /\ \A r \in Repo \ rows : has[r] = {}
  /\ made \subseteq Repo /\ stale \subseteq made
  /\ content \in [Repo -> SUBSET Kid]
  /\ images \subseteq OS
  /\ locked \in BOOLEAN /\ lockFile \in BOOLEAN
  /\ removable \subseteq DOMAIN kits

(* Where kusu-kitops is goes with what it was asked to do and has in hand. *)
Request ==
  [kind : {"none", "add", "delete", "native", "compat"}, kit : Media \cup {NoOp.kit},
   old : Kid \cup {0}, new : Kid \cup {0}, repos : SUBSET Repo, left : SUBSET Repo]

OpTyped ==
  /\ op \in Request
  /\ DOMAIN kits \subseteq Kid /\ \A k \in DOMAIN kits : kits[k] \in Media
  /\ nextKid \in 1..(MaxKid + 1) /\ link \in Kid \cup {0} /\ spoiled \subseteq Kid
  /\ files \in [Kid -> SUBSET (Part \cup {"some"})]

OpOK ==
  LET j == job[Kitops] IN
  /\ j.at \in KitopsPlace \cup {"idle"}
  /\ j.at = "idle" <=> op.kind = "none"
  /\ j.at = "idle" => j = Idle
  /\ j.src = NoRepo
  /\ j.at \in OnRepo <=> j.repo \in Repo
  /\ j.at \in Starting =>
       /\ op.kind \in {"add", "native", "compat"}
       /\ j.kid = 0 /\ op.kit \in Media /\ nextKid \in Kid
       /\ Upgrading => op.old \in DOMAIN kits
  /\ j.at \in Adding \cup Brought =>
       /\ op.kind \in {"add", "native", "compat"}
       /\ j.kid = op.new /\ op.new \in DOMAIN kits /\ op.new \notin spoiled
       /\ Upgrading => op.old \in DOMAIN kits /\ op.old # op.new
  /\ j.at \in {"swapStale", "swapRow"} => Upgrading
  /\ j.at \in Deleting =>
       /\ j.kid \in DOMAIN kits
       /\ Upgrading => op.old # op.new /\ op.new \in DOMAIN kits /\ op.old \in Kid
  /\ j.at \in Closing => op.kind = "native" /\ j.kid = 0

(* The numbers of kits are not used again.                                 *)
NewKidOK ==
  /\ \A k \in DOMAIN kits \cup spoiled \cup {link} : k < nextKid
  /\ \A k \in Kid : k >= nextKid => files[k] = {}

(* The files of the kit in hand.                                           *)
HandOK ==
  LET k == job[Kitops].kid
      place == job[Kitops].at
  IN /\ place = "addRpms" => files[k] = {}
     /\ place = "addTar" => files[k] = {"some"}
     /\ place = "addMove" => "rpms" \in files[k] /\ files[k] \subseteq Part
     /\ place \in Brought => files[k] = Part
     /\ place \in {"preun", "unlink"} => k \in spoiled \/ files[k] = Part
     /\ place = "erase" => k \in spoiled
     /\ place \in {"postun", "flush"} => files[k] = {}

(* The link on the way: it is there when a kit is brought, and is taken    *)
(* from a kit before its files are.                                        *)
LinkOK ==
  LET k == job[Kitops].kid
      place == job[Kitops].at
  IN /\ place \in Linked => link # 0
     /\ place \in {"preun", "unlink"} => k \in spoiled \/ link # 0
     /\ place \in {"rmtree", "postun", "flush"} => k \in spoiled \/ link # k
     /\ PluginServed

KitsInv ==
  /\ JobsTyped /\ OpTyped /\ RowsTyped
  /\ OpOK /\ NewKidOK /\ HandOK /\ RowsHaveFiles /\ LinkOK

---------------------------------------------------------------------------
(* What a process is doing, changed.                                       *)
LEMMA IdleTyped == Idle \in AnyJob /\ Idle.at = "idle" /\ Idle.repo = NoRepo
                   /\ Idle.kid = 0 /\ Idle.list = {} /\ Idle.src = NoRepo
  BY DEF Idle, AnyJob, Place

LEMMA Places ==
  /\ Kitops \in Proc /\ Kitops \notin Tool /\ Tool \subseteq Proc
  /\ NoRepo \notin Repo
  /\ \A p \in Proc : p \in Tool \/ p = Kitops
  BY ReposAssumption DEF Proc

LEMMA GotoJob ==
  ASSUME JobsTyped, NEW p \in Proc, NEW place \in Place \ {"copy"}, Goto(p, place)
  PROVE  /\ DOMAIN job' = Proc
         /\ \A q \in Proc : job'[q] \in AnyJob
         /\ \A q \in Proc : q # p => job'[q] = job[q]
         /\ job'[p].at = place /\ job'[p].repo = job[p].repo
         /\ job'[p].kid = job[p].kid /\ job'[p].list = job[p].list
         /\ job'[p].src = job[p].src
  BY DEF JobsTyped, AnyJob, Goto

LEMMA IdleJob ==
  ASSUME JobsTyped, NEW p \in Proc, job' = [job EXCEPT ![p] = Idle]
  PROVE  /\ DOMAIN job' = Proc
         /\ \A q \in Proc : job'[q] \in AnyJob
         /\ \A q \in Proc : q # p => job'[q] = job[q]
         /\ job'[p] = Idle
  BY IdleTyped DEF JobsTyped

(* A refresh goes from place to place, and a tool exits when it fails.     *)
RefreshEnd == {"refreshed", "failed"}

LEMMA RefreshJob ==
  ASSUME JobsTyped, OpTyped, RowsTyped, NEW p \in Proc, job[p].repo \in Repo,
         Refresh(p)
  PROVE  /\ DOMAIN job' = Proc
         /\ \A q \in Proc : job'[q] \in AnyJob
         /\ \A q \in Proc : q # p => job'[q] = job[q]
         /\ job[p].at \in Refreshing
         /\ \/ p # Kitops /\ job'[p] = Idle
            \/ /\ job'[p].at \in Refreshing \/ (p = Kitops /\ job'[p].at \in RefreshEnd)
               /\ job'[p].repo = job[p].repo /\ job'[p].kid = job[p].kid
               /\ job'[p].src = job[p].src
<1> USE DEF At, GoOn, Refreshed, Failed, Exit, Refreshing, RefreshEnd, Place, KitopsPlace
<1>1. CASE Clean(p)
  BY <1>1, GotoJob, IdleJob DEF Clean
<1>2. CASE MakeRepoDirs(p)
  BY <1>2, GotoJob, IdleJob DEF MakeRepoDirs
<1>3. CASE MarkStale(p)
  BY <1>3, GotoJob, IdleJob DEF MarkStale
<1>4. CASE ListKits(p)
  <2>1. job' = [job EXCEPT ![p].at = "copy", ![p].list = has[job[p].repo]]
    BY <1>4 DEF ListKits
  <2>2. has[job[p].repo] \in SUBSET Kid
    BY DEF RowsTyped, OpTyped
  <2>3. job[p] \in AnyJob /\ DOMAIN job = Proc /\ job[p].at = "list"
    BY <1>4 DEF ListKits, JobsTyped
  <2>4. job' = [job EXCEPT ![p] = [job[p] EXCEPT !.at = "copy", !.list = has[job[p].repo]]]
    BY <2>1, <2>3
  <2>5. [job[p] EXCEPT !.at = "copy", !.list = has[job[p].repo]] \in AnyJob
    BY <2>2, <2>3 DEF AnyJob
  <2> QED BY ZenonT(40), <2>3, <2>4, <2>5 DEF JobsTyped, AnyJob
<1>5. CASE CopyKitsPackages(p)
  BY <1>5, GotoJob, IdleJob DEF CopyKitsPackages
<1>6. CASE CopyKusuNodeInstaller(p)
  BY <1>6, GotoJob, IdleJob DEF CopyKusuNodeInstaller
<1>7. CASE MarkClean(p)
  BY <1>7, GotoJob, IdleJob DEF MarkClean
<1> QED BY <1>1, <1>2, <1>3, <1>4, <1>5, <1>6, <1>7 DEF Refresh

(* What kusu-repoman does to its own job.                                  *)
ToolStep(t) ==
  \/ Begin(t) \/ Lock(t) \/ Refused(t) \/ KillTool(t)
  \/ Refresh(t) \/ AddRow(t) \/ AddStale(t) \/ DelStale(t) \/ DelRow(t)
  \/ MakeDirs(t) \/ RmTree(t) \/ DelRows(t) \/ MkDir(t) \/ CopyTree(t)
  \/ /\ At(t, "locked")
     /\ \E r \in Repo :
          \/ New(t, r) \/ Update(t, r) \/ DeleteRepo(t, r)
          \/ \E k \in Kid \cup {OsKit} : AddKit(t, r, k) \/ DelKit(t, r, k)
          \/ \E s \in Repo : Snapshot(t, r, s)

LEMMA AskedJob ==
  ASSUME JobsTyped, NEW t \in Tool, job[t].at = "locked", NEW r \in Repo,
         NEW place \in RepoPlace, NEW k \in Kid \cup {0}, Asked(t, r, place, k)
  PROVE  /\ DOMAIN job' = Proc
         /\ \A q \in Proc : job'[q] \in AnyJob
         /\ \A q \in Proc : q # t => job'[q] = job[q]
         /\ job'[t].at = place /\ job'[t].repo = r /\ job'[t].kid = k
         /\ job'[t].list = {} /\ job'[t].src = NoRepo
<1>1. ToolOK(t) /\ t \in Proc /\ job[t].src \notin Repo /\ job[t].list = {}
  BY Places DEF JobsTyped, ToolOK, RepoPlace, Refreshing
<1>2. job[t] \in AnyJob /\ DOMAIN job = Proc
  BY <1>1 DEF JobsTyped
<1>3. job' = [job EXCEPT ![t] = [job[t] EXCEPT !.at = place, !.repo = r, !.kid = k]]
  BY DEF Asked
<1> QED BY <1>1, <1>2, <1>3 DEF JobsTyped, AnyJob, Place

LEMMA ToolJob ==
  ASSUME JobsTyped, OpTyped, RowsTyped, NEW t \in Tool, ToolStep(t)
  PROVE  /\ DOMAIN job' = Proc
         /\ \A q \in Proc : job'[q] \in AnyJob
         /\ \A q \in Proc : q # t => job'[q] = job[q]
         /\ ToolOK(t)'
<1> USE Places DEF At, Exit
<1>0. t \in Proc /\ ToolOK(t) /\ job[t] \in AnyJob
  BY DEF JobsTyped
<1>1. ASSUME Exit(t)
      PROVE  /\ DOMAIN job' = Proc
             /\ \A q \in Proc : job'[q] \in AnyJob
             /\ \A q \in Proc : q # t => job'[q] = job[q]
             /\ ToolOK(t)'
  BY <1>0, <1>1, IdleJob, IdleTyped DEF ToolOK, RepoPlace, Refreshing
<1>2. ASSUME NEW place \in RepoPlace, Goto(t, place), job[t].at \in RepoPlace,
             place = "copyTree" <=> job[t].at = "mkdir",
             place \notin {"mkdir", "copy"}, job[t].at # "copyTree"
      PROVE  /\ DOMAIN job' = Proc
             /\ \A q \in Proc : job'[q] \in AnyJob
             /\ \A q \in Proc : q # t => job'[q] = job[q]
             /\ ToolOK(t)'
  BY <1>0, <1>2, GotoJob DEF ToolOK, Place, RepoPlace, Refreshing
<1>3. CASE Begin(t) \/ Lock(t)
  BY <1>0, <1>3, GotoJob DEF Begin, Lock, ToolOK, Place, RepoPlace, Refreshing
<1>4. CASE Refused(t) \/ AddStale(t) \/ DelRow(t) \/ MakeDirs(t) \/ CopyTree(t)
  BY <1>1, <1>4 DEF Refused, AddStale, DelRow, MakeDirs, CopyTree
<1>5. CASE KillTool(t)
  BY <1>0, <1>5, IdleJob, IdleTyped DEF KillTool, ToolOK, RepoPlace, Refreshing
<1>6. CASE Refresh(t)
  <2>1. job[t].at \in Refreshing /\ job[t].repo \in Repo
    BY <1>0, <1>6 DEF ToolOK, RepoPlace, Refreshing, Refresh, Clean, MakeRepoDirs,
       MarkStale, ListKits, CopyKitsPackages, CopyKusuNodeInstaller, MarkClean
  <2>2. CASE job'[t] = Idle
    BY <1>0, <1>6, <2>1, <2>2, RefreshJob, IdleTyped DEF ToolOK, RepoPlace, Refreshing
  <2>3. CASE job'[t] # Idle
    BY <1>0, <1>6, <2>1, <2>3, RefreshJob DEF ToolOK, RepoPlace, Refreshing
  <2> QED BY <2>2, <2>3
<1>7. CASE AddRow(t)
  BY <1>1, <1>2, <1>7 DEF AddRow, RepoPlace
<1>8. CASE DelStale(t)
  BY <1>1, <1>2, <1>8 DEF DelStale, RepoPlace
<1>9. CASE RmTree(t)
  <2>1. KitRows(job[t].repo) \in SUBSET (Kid \cup {0}) /\ job[t].repo \in Repo
    BY <1>0, <1>9 DEF RmTree, KitRows, OsKit, RowsTyped, OpTyped, ToolOK, RepoPlace
  <2> DEFINE j == [job[t] EXCEPT !.at = "delRows", !.list = KitRows(job[t].repo)]
  <2>2. job' = [job EXCEPT ![t] = j] /\ job[t].src \notin Repo
    BY <1>0, <1>9 DEF RmTree, ToolOK
  <2>3. j \in AnyJob /\ j.at = "delRows" /\ j.repo = job[t].repo /\ j.src = job[t].src
    BY <1>0, <2>1 DEF AnyJob, Place, RepoPlace
  <2> HIDE DEF j
  <2> QED BY <2>1, <2>2, <2>3, <1>0 DEF JobsTyped, ToolOK, RepoPlace, Refreshing
<1>10. CASE DelRows(t)
  <2>1. CASE Exit(t)
    BY <1>1, <2>1
  <2>2. ASSUME NEW k, job' = [job EXCEPT ![t].list = @ \ {k}]
        PROVE  /\ DOMAIN job' = Proc
               /\ \A q \in Proc : job'[q] \in AnyJob
               /\ \A q \in Proc : q # t => job'[q] = job[q]
               /\ ToolOK(t)'
    BY <1>0, <1>10, <2>2 DEF DelRows, ToolOK, RepoPlace, AnyJob, JobsTyped, Refreshing
  <2> QED BY <1>10, <2>1, <2>2 DEF DelRows
<1>11. CASE MkDir(t)
  BY <1>1, <1>2, <1>11 DEF MkDir, RepoPlace
<1>12. ASSUME job[t].at = "locked", NEW r \in Repo,
              NEW place \in RepoPlace \ {"mkdir", "copyTree"},
              NEW k \in Kid \cup {0}, Asked(t, r, place, k)
       PROVE  /\ DOMAIN job' = Proc
              /\ \A q \in Proc : job'[q] \in AnyJob
              /\ \A q \in Proc : q # t => job'[q] = job[q]
              /\ ToolOK(t)'
  BY <1>12, AskedJob DEF ToolOK, RepoPlace, Refreshing
<1>13. ASSUME job[t].at = "locked", NEW r \in Repo,
              New(t, r) \/ Update(t, r) \/ DeleteRepo(t, r)
       PROVE  /\ DOMAIN job' = Proc
              /\ \A q \in Proc : job'[q] \in AnyJob
              /\ \A q \in Proc : q # t => job'[q] = job[q]
              /\ ToolOK(t)'
  BY <1>12, <1>13 DEF New, Update, DeleteRepo, RepoPlace, Refreshing, OsKit
<1>14. ASSUME job[t].at = "locked", NEW r \in Repo, NEW k \in Kid \cup {OsKit},
              AddKit(t, r, k) \/ DelKit(t, r, k)
       PROVE  /\ DOMAIN job' = Proc
              /\ \A q \in Proc : job'[q] \in AnyJob
              /\ \A q \in Proc : q # t => job'[q] = job[q]
              /\ ToolOK(t)'
  BY <1>12, <1>14 DEF AddKit, DelKit, RepoPlace, Refreshing, OsKit
<1>15. ASSUME job[t].at = "locked", NEW r \in Repo, NEW s \in Repo, Snapshot(t, r, s)
       PROVE  /\ DOMAIN job' = Proc
              /\ \A q \in Proc : job'[q] \in AnyJob
              /\ \A q \in Proc : q # t => job'[q] = job[q]
              /\ ToolOK(t)'
  <2> DEFINE j == [job[t] EXCEPT !.at = "mkdir", !.repo = s, !.src = r]
  <2>1. job' = [job EXCEPT ![t] = j] /\ job[t].list = {}
    BY <1>0, <1>15 DEF Snapshot, ToolOK, RepoPlace, Refreshing
  <2>2. j \in AnyJob /\ j.at = "mkdir" /\ j.repo = s /\ j.src = r
    BY <1>0 DEF AnyJob, Place, RepoPlace
  <2> HIDE DEF j
  <2> QED BY <2>1, <2>2, <1>0 DEF JobsTyped, ToolOK, RepoPlace
<1> QED BY <1>3, <1>4, <1>5, <1>6, <1>7, <1>8, <1>9, <1>10, <1>11, <1>13, <1>14, <1>15
        DEF ToolStep

---------------------------------------------------------------------------
(* The rows and the directories stay what they are made of.                *)
LEMMA KitRowsTyped ==
  ASSUME OpTyped, RowsTyped, NEW r \in Repo
  PROVE  /\ KitRows(r) \subseteq DOMAIN kits \cup {0}
         /\ 0 \in KitRows(r) <=> r \in oskit
         /\ KitRows(r) \ {0} = has[r]
         /\ DOMAIN kits \subseteq Kid /\ 0 \notin Kid
  BY ReposAssumption DEF OpTyped, RowsTyped, KitRows, OsKit, Kid

LEMMA SetKitsRows ==
  ASSUME OpTyped, RowsTyped, NEW r \in Repo, NEW K, SetKits(r, K),
         K \subseteq DOMAIN kits \cup {0}
  PROVE  /\ has' \in [Repo -> SUBSET DOMAIN kits]
         /\ has'[r] = K \ {0}
         /\ \A s \in Repo : s # r => has'[s] = has[s]
         /\ oskit' \subseteq Repo
         /\ \A s \in Repo : s # r => (s \in oskit' <=> s \in oskit)
         /\ r \in oskit' <=> 0 \in K
  BY KitRowsTyped DEF SetKits, RowsTyped, OsKit

LEMMA SetKitsTyped ==
  ASSUME OpTyped, RowsTyped, NEW r \in Repo, NEW K, SetKits(r, K),
         K \subseteq DOMAIN kits \cup {0}, rows' \in SUBSET Repo, rows \subseteq rows',
         r \in rows' \/ K = {},
         UNCHANGED <<kits, files, uses, made, stale, content, images, locked, removable>>,
         lockFile' \in BOOLEAN
  PROVE  RowsTyped'
<1>1. has' \in [Repo -> SUBSET DOMAIN kits'] /\ \A s \in Repo \ rows' : has'[s] = {}
  BY SetKitsRows DEF RowsTyped
<1>2. oskit' \subseteq rows'
  BY SetKitsRows DEF RowsTyped
<1> QED BY <1>1, <1>2 DEF RowsTyped

LEMMA RefreshRows ==
  ASSUME JobsTyped, OpTyped, RowsTyped, NEW p \in Proc, job[p].repo \in Repo,
         Refresh(p), UNCHANGED removable
  PROVE  RowsTyped' /\ UNCHANGED <<kits, files, uses, rows, oskit, has, locked, runs, kills>>
<1> USE DEF RowsTyped, GoOn, Refreshed, Failed, Exit, kitVars, rowVars, diskVars, lockVars
<1>1. CASE Clean(p)
  BY <1>1 DEF Clean, RemoveDirectory
<1>2. CASE MakeRepoDirs(p)
  BY <1>2 DEF MakeRepoDirs
<1>3. CASE MarkStale(p)
  BY <1>3 DEF MarkStale
<1>4. CASE ListKits(p)
  BY <1>4 DEF ListKits
<1>5. CASE CopyKitsPackages(p)
  <2>1. job[p].list \in SUBSET Kid
    BY <1>5 DEF CopyKitsPackages, At, JobsTyped, AnyJob
  <2> QED BY ZenonT(40), <1>5, <2>1 DEF CopyKitsPackages
<1>6. CASE CopyKusuNodeInstaller(p)
  <2>1. RepoOs[job[p].repo] \in OS
    BY ReposAssumption
  <2> QED BY <1>6, <2>1 DEF CopyKusuNodeInstaller
<1>7. CASE MarkClean(p)
  BY <1>7 DEF MarkClean
<1> QED BY <1>1, <1>2, <1>3, <1>4, <1>5, <1>6, <1>7 DEF Refresh

(* What a run of kusu-repoman leaves alone.                                *)
ToolFrame == UNCHANGED <<kits, files, uses, locked, removable>>

LEMMA ToolRows ==
  ASSUME JobsTyped, OpTyped, RowsTyped, NEW t \in Tool, ToolStep(t),
         UNCHANGED removable
  PROVE  RowsTyped' /\ ToolFrame
<1> USE DEF ToolFrame, Exit, kitVars, rowVars, diskVars, lockVars
<1>0. t \in Proc /\ ToolOK(t) /\ job[t] \in AnyJob
  BY Places DEF JobsTyped
<1>1. ASSUME job[t].at \in RepoPlace PROVE job[t].repo \in Repo
  BY <1>0, <1>1 DEF ToolOK
<1>2. CASE Begin(t) \/ Lock(t) \/ Refused(t) \/ KillTool(t)
  BY <1>2 DEF Begin, Lock, Refused, KillTool, RowsTyped
<1>3. CASE Refresh(t)
  <2>1. job[t].at \in Refreshing
    BY <1>3 DEF Refreshing, Refresh, Clean, MakeRepoDirs, MarkStale, ListKits,
       CopyKitsPackages, CopyKusuNodeInstaller, MarkClean, At
  <2> QED BY <1>0, <1>1, <1>3, <2>1, RefreshRows DEF RepoPlace
<1>4. CASE AddRow(t)
  <2>1. job[t].repo \in Repo /\ job[t].at = "addRow"
    BY <1>1, <1>4 DEF AddRow, At, RepoPlace
  <2>2. KitRows(job[t].repo) \cup {job[t].kid} \subseteq DOMAIN kits \cup {0}
        \/ UNCHANGED <<oskit, has>>
    BY <1>4, <2>1, KitRowsTyped DEF AddRow, OsKit
  <2>3. CASE UNCHANGED <<oskit, has>>
    BY <1>4, <2>3 DEF AddRow, RowsTyped
  <2>4. CASE /\ SetKits(job[t].repo, KitRows(job[t].repo) \cup {job[t].kid})
             /\ KitRows(job[t].repo) \cup {job[t].kid} \subseteq DOMAIN kits \cup {0}
             /\ job[t].repo \in rows
    <3>1. rows \in SUBSET Repo /\ lockFile \in BOOLEAN
      BY DEF RowsTyped
    <3> QED BY <1>4, <2>1, <2>4, <3>1, SetKitsTyped DEF AddRow
  <2> QED BY <1>4, <2>2, <2>3, <2>4 DEF AddRow
<1>5. CASE AddStale(t) \/ DelStale(t)
  BY <1>1, <1>5 DEF AddStale, DelStale, At, RepoPlace, RowsTyped
<1>6. CASE DelRow(t)
  <2>1. job[t].repo \in Repo
    BY <1>1, <1>6 DEF DelRow, At, RepoPlace
  <2>2. KitRows(job[t].repo) \ {job[t].kid} \subseteq DOMAIN kits \cup {0}
    BY <2>1, KitRowsTyped
  <2>3. rows \in SUBSET Repo /\ lockFile' \in BOOLEAN
    BY <1>6 DEF RowsTyped, DelRow
  <2>4. job[t].repo \in rows \/ KitRows(job[t].repo) = {}
    BY <2>1, KitRowsTyped DEF RowsTyped
  <2> QED BY <1>6, <2>1, <2>2, <2>3, <2>4, SetKitsTyped DEF DelRow
<1>7. CASE MakeDirs(t)
  BY <1>1, <1>7 DEF MakeDirs, At, RepoPlace, RowsTyped
<1>8. CASE RmTree(t)
  BY <1>1, <1>8 DEF RmTree, RemoveDirectory, At, RepoPlace, RowsTyped
<1>9. CASE DelRows(t)
  <2>1. job[t].repo \in Repo
    BY <1>1, <1>9 DEF DelRows, At, RepoPlace
  <2>2. ASSUME NEW k, SetKits(job[t].repo, KitRows(job[t].repo) \ {k}), UNCHANGED rows
        PROVE  RowsTyped'
    <3>1. KitRows(job[t].repo) \ {k} \subseteq DOMAIN kits \cup {0}
      BY <2>1, KitRowsTyped
    <3>2. rows \in SUBSET Repo /\ lockFile' \in BOOLEAN
      BY <1>9 DEF RowsTyped, DelRows
    <3>3. job[t].repo \in rows \/ KitRows(job[t].repo) = {}
      BY <2>1, KitRowsTyped DEF RowsTyped
    <3> QED BY <1>9, <2>1, <2>2, <3>1, <3>2, <3>3, SetKitsTyped DEF DelRows
  <2>3. CASE UNCHANGED <<oskit, has>> /\ rows' = rows
    BY <1>9, <2>3 DEF DelRows, RowsTyped
  <2>4. CASE UNCHANGED <<oskit, has>> /\ KitRows(job[t].repo) = {}
             /\ rows' = rows \ {job[t].repo}
    BY <1>9, <2>1, <2>4, KitRowsTyped DEF DelRows, RowsTyped
  <2> QED BY <1>9, <2>2, <2>3, <2>4 DEF DelRows
<1>10. CASE MkDir(t)
  BY <1>1, <1>10 DEF MkDir, At, RepoPlace, RowsTyped
<1>11. CASE CopyTree(t)
  <2>1. job[t].repo \in Repo /\ job[t].src \in Repo
    BY <1>0, <1>1, <1>11 DEF CopyTree, At, RepoPlace, ToolOK
  <2>2. CASE job[t].src \in made
    <3>1. content' \in [Repo -> SUBSET Kid]
      BY <1>11, <2>1, <2>2 DEF CopyTree, RowsTyped
    <3>2. made' \subseteq Repo /\ stale' \subseteq made'
      BY <1>11, <2>1, <2>2 DEF CopyTree, RowsTyped
    <3> QED BY <1>11, <3>1, <3>2 DEF CopyTree, RowsTyped
  <2> QED BY <1>11, <2>2 DEF CopyTree, RowsTyped
<1>12. ASSUME NEW r \in Repo, New(t, r)
       PROVE  RowsTyped' /\ ToolFrame
  BY <1>12 DEF New, Asked, RowsTyped
<1>13. ASSUME NEW r \in Repo, Update(t, r)
       PROVE  RowsTyped' /\ ToolFrame
  BY <1>13 DEF Update, Asked, RowsTyped
<1>14. ASSUME NEW r \in Repo, DeleteRepo(t, r)
       PROVE  RowsTyped' /\ ToolFrame
  BY <1>14 DEF DeleteRepo, Asked, RowsTyped
<1>15. ASSUME NEW r \in Repo, NEW k \in Kid \cup {OsKit}, AddKit(t, r, k) \/ DelKit(t, r, k)
       PROVE  RowsTyped' /\ ToolFrame
  BY <1>15 DEF AddKit, DelKit, Asked, RowsTyped
<1>16. ASSUME NEW r \in Repo, NEW s \in Repo, Snapshot(t, r, s)
       PROVE  RowsTyped' /\ ToolFrame
  <2>1. KitRows(r) \subseteq DOMAIN kits \cup {0}
    BY KitRowsTyped
  <2> QED BY <1>16, <2>1, SetKitsRows DEF Snapshot, RowsTyped
<1> QED BY <1>2, <1>3, <1>4, <1>5, <1>6, <1>7, <1>8, <1>9, <1>10, <1>11, <1>12,
           <1>13, <1>14, <1>15, <1>16 DEF ToolStep

---------------------------------------------------------------------------
(* A refresh or a run of kusu-repoman leaves kits, their files and what    *)
(* kusu-kitops has in hand as they are.                                    *)
KitopsFrame ==
  /\ UNCHANGED <<kits, files, link, nextKid, op, spoiled, removable>>
  /\ \/ job'[Kitops] = job[Kitops]
     \/ /\ job[Kitops].at \in Refreshing
        /\ job'[Kitops].at \in Refreshing \cup RefreshEnd
        /\ job'[Kitops].repo = job[Kitops].repo /\ job'[Kitops].kid = job[Kitops].kid
        /\ job'[Kitops].src = job[Kitops].src

LEMMA RepoTyped ==
  ASSUME JobsTyped, OpTyped, RowsTyped, OpOK, RepoNext
  PROVE  JobsTyped' /\ RowsTyped' /\ KitopsFrame
<1> USE Places
<1>1. CASE Refresh(Kitops)
  <2>1. job[Kitops].repo \in Repo
    BY <1>1 DEF OpOK, OnRepo, Refreshing, Refresh, Clean, MakeRepoDirs,
       MarkStale, ListKits, CopyKitsPackages, CopyKusuNodeInstaller, MarkClean, At
  <2>2. /\ DOMAIN job' = Proc
        /\ \A q \in Proc : job'[q] \in AnyJob
        /\ \A q \in Proc : q # Kitops => job'[q] = job[q]
        /\ job[Kitops].at \in Refreshing
        /\ job'[Kitops].at \in Refreshing \cup RefreshEnd
        /\ job'[Kitops].repo = job[Kitops].repo /\ job'[Kitops].kid = job[Kitops].kid
        /\ job'[Kitops].src = job[Kitops].src
    BY <1>1, <2>1, RefreshJob
  <2>3. JobsTyped'
    BY <2>2 DEF JobsTyped, ToolOK
  <2>4. UNCHANGED <<link, nextKid, op, spoiled, removable>>
    BY DEF RepoNext, linkVars
  <2>5. RowsTyped' /\ UNCHANGED <<kits, files>>
    BY <1>1, <2>1, <2>4, RefreshRows
  <2> QED BY <2>2, <2>3, <2>4, <2>5 DEF KitopsFrame
<1>2. ASSUME NEW t \in Tool, ToolStep(t)
      PROVE  JobsTyped' /\ RowsTyped' /\ KitopsFrame
  <2>1. /\ DOMAIN job' = Proc
        /\ \A q \in Proc : job'[q] \in AnyJob
        /\ \A q \in Proc : q # t => job'[q] = job[q]
        /\ ToolOK(t)'
    BY <1>2, ToolJob
  <2>2. JobsTyped'
    BY <2>1 DEF JobsTyped, ToolOK
  <2>4. UNCHANGED <<link, nextKid, op, spoiled, removable>>
    BY DEF RepoNext, linkVars
  <2>5. RowsTyped' /\ UNCHANGED <<kits, files>>
    BY <1>2, <2>4, ToolRows DEF ToolFrame
  <2>6. job'[Kitops] = job[Kitops]
    BY <2>1
  <2> QED BY <2>2, <2>4, <2>5, <2>6 DEF KitopsFrame
<1>3. CASE RemoveLockFile
  <2>1. UNCHANGED <<job, kits, files, uses, rows, oskit, has, made, stale, content, images,
                    locked>> /\ lockFile' = FALSE
    BY <1>3 DEF RemoveLockFile, kitVars, rowVars, diskVars
  <2>2. UNCHANGED <<link, nextKid, op, spoiled, removable>>
    BY DEF RepoNext, linkVars
  <2> QED BY <2>1, <2>2 DEF JobsTyped, ToolOK, RowsTyped, KitopsFrame
<1> QED BY <1>1, <1>2, <1>3 DEF RepoNext, ToolNext, ToolStep

LEMMA KitopsFramed ==
  ASSUME KitsInv, KitopsFrame
  PROVE  OpTyped' /\ OpOK' /\ NewKidOK' /\ HandOK' /\ RowsHaveFiles' /\ LinkOK'
<1> USE DEF KitsInv, KitopsFrame
<1>1. OpTyped' /\ NewKidOK'
  BY DEF OpTyped, NewKidOK
<1>2. CASE job'[Kitops] = job[Kitops]
  BY <1>1, <1>2 DEF OpOK, HandOK, RowsHaveFiles, InHand, At, LinkOK, PluginServed, Upgrading
<1>3. CASE /\ job[Kitops].at \in Refreshing
           /\ job'[Kitops].at \in Refreshing \cup RefreshEnd
           /\ job'[Kitops].repo = job[Kitops].repo /\ job'[Kitops].kid = job[Kitops].kid
           /\ job'[Kitops].src = job[Kitops].src
  <2> USE DEF Refreshing, RefreshEnd, Adding, Brought, Linked, Deleting
  <2>1. OpOK'
    BY <1>3 DEF OpOK, Starting, OnRepo, Closing, KitopsPlace, Upgrading
  <2>2. HandOK'
    BY <1>3 DEF HandOK
  <2>3. InHand' = InHand
    BY <1>3 DEF InHand, At
  <2>4. RowsHaveFiles'
    BY <2>3 DEF RowsHaveFiles
  <2>5. LinkOK'
    BY <1>3, <2>3 DEF LinkOK, PluginServed
  <2> QED BY <1>1, <2>1, <2>2, <2>4, <2>5
<1> QED BY <1>2, <1>3

---------------------------------------------------------------------------
(* The steps of kusu-kitops.                                               *)
LEMMA KitopsJobs ==
  ASSUME JobsTyped, NEW j \in AnyJob, job' = [job EXCEPT ![Kitops] = j]
  PROVE  JobsTyped' /\ job'[Kitops] = j /\ \A t \in Tool : job'[t] = job[t]
  BY Places DEF JobsTyped, ToolOK

LEMMA KitopsGoto ==
  ASSUME JobsTyped, NEW place \in Place \ {"copy"}, Goto(Kitops, place)
  PROVE  /\ JobsTyped' /\ \A t \in Tool : job'[t] = job[t]
         /\ job'[Kitops].at = place /\ job'[Kitops].repo = job[Kitops].repo
         /\ job'[Kitops].kid = job[Kitops].kid /\ job'[Kitops].src = job[Kitops].src
<1>1. /\ DOMAIN job' = Proc
      /\ \A q \in Proc : job'[q] \in AnyJob
      /\ \A q \in Proc : q # Kitops => job'[q] = job[q]
      /\ job'[Kitops].at = place /\ job'[Kitops].repo = job[Kitops].repo
      /\ job'[Kitops].kid = job[Kitops].kid /\ job'[Kitops].src = job[Kitops].src
  BY GotoJob, Places
<1> QED BY <1>1, Places DEF JobsTyped, ToolOK

LEMMA KitopsOn ==
  ASSUME JobsTyped, NEW place \in Place \ {"copy"}, NEW k \in Kid \cup {0}, On(k, place)
  PROVE  /\ JobsTyped' /\ \A t \in Tool : job'[t] = job[t]
         /\ job'[Kitops].at = place /\ job'[Kitops].repo = job[Kitops].repo
         /\ job'[Kitops].kid = k /\ job'[Kitops].src = job[Kitops].src
<1> DEFINE j == [job[Kitops] EXCEPT !.at = place, !.kid = k]
<1>1. job' = [job EXCEPT ![Kitops] = j]
  BY DEF On
<1>2. /\ j \in AnyJob /\ j.at = place /\ j.kid = k
      /\ j.repo = job[Kitops].repo /\ j.src = job[Kitops].src
  BY Places DEF JobsTyped, AnyJob
<1> HIDE DEF j
<1> QED BY <1>1, <1>2, KitopsJobs

LEMMA KitopsIdle ==
  ASSUME JobsTyped, job' = [job EXCEPT ![Kitops] = Idle]
  PROVE  JobsTyped' /\ job'[Kitops] = Idle /\ \A t \in Tool : job'[t] = job[t]
  BY IdleTyped, KitopsJobs

(* What is settled about a kit when nobody has it in hand.                 *)
Settled(k) ==
  /\ files[k] = IF k \in DOMAIN kits THEN Part ELSE {}
  /\ k \in DOMAIN kits => link # 0

LEMMA HandChanges ==
  ASSUME RowsHaveFiles, PluginServed, UNCHANGED <<kits, files, link>>,
         spoiled \subseteq spoiled',
         \A k \in Kid : k \in InHand \ (InHand' \cup spoiled') => Settled(k),
         DOMAIN kits \subseteq Kid
  PROVE  RowsHaveFiles' /\ PluginServed'
<1>1. RowsHaveFiles'
  BY DEF RowsHaveFiles, Settled
<1>2. PluginServed'
  BY DEF PluginServed, Settled
<1> QED BY <1>1, <1>2

LEMMA NoOpTyped == NoOp \in Request /\ NoOp.kind = "none"
  BY DEF NoOp, Request

(* The process ends or is killed.                                          *)
LEMMA Ended ==
  ASSUME KitsInv, job' = [job EXCEPT ![Kitops] = Idle], op' = NoOp,
         UNCHANGED <<kits, files, link, nextKid>>,
         spoiled \subseteq spoiled', spoiled' \subseteq spoiled \cup {job[Kitops].kid},
         spoiled' \subseteq Kid,
         job[Kitops].kid \in spoiled' \ spoiled => job[Kitops].kid < nextKid,
         job[Kitops].kid \in Kid \ spoiled' => Settled(job[Kitops].kid)
  PROVE  JobsTyped' /\ OpTyped' /\ OpOK' /\ NewKidOK' /\ HandOK' /\ RowsHaveFiles' /\ LinkOK'
<1>1. JobsTyped' /\ job'[Kitops] = Idle
  BY KitopsIdle DEF KitsInv
<1>2. OpTyped' /\ op'.kind = "none"
  BY NoOpTyped DEF KitsInv, OpTyped
<1>3. OpOK'
  BY <1>1, <1>2, IdleTyped, Places
     DEF OpOK, OnRepo, Refreshing, Starting, Adding, Brought, Deleting, Closing
<1>4. NewKidOK'
  BY DEF KitsInv, NewKidOK
<1>5. HandOK'
  BY <1>1, IdleTyped DEF HandOK, Brought
<1>6. RowsHaveFiles' /\ PluginServed'
  BY HandChanges DEF KitsInv, OpTyped, LinkOK, InHand, At
<1>7. LinkOK'
  BY <1>1, <1>6, IdleTyped DEF LinkOK, Linked
<1> QED BY <1>1, <1>2, <1>3, <1>4, <1>5, <1>6, <1>7

(* A request: the kit in hand is the one to be deleted, if any.            *)
LEMMA Requested ==
  ASSUME KitsInv, job[Kitops].at = "idle", NEW request \in Request,
         NEW place \in KitopsPlace \ OnRepo, NEW k \in Kid \cup {0}, Ask(request, place, k)
  PROVE  /\ JobsTyped' /\ OpTyped' /\ RowsTyped' /\ NewKidOK'
         /\ RowsHaveFiles' /\ PluginServed' /\ InHand = {}
         /\ job'[Kitops].at = place /\ job'[Kitops].kid = k
         /\ job'[Kitops].repo = NoRepo /\ job'[Kitops].src = NoRepo
         /\ op' = request /\ UNCHANGED <<kits, files, link, nextKid, spoiled>>
<1> DEFINE j == [Idle EXCEPT !.at = place, !.kid = k]
<1>1. /\ op' = request /\ job' = [job EXCEPT ![Kitops] = j]
      /\ UNCHANGED <<kits, files, uses, rows, oskit, has, made, stale, content, images,
                     locked, lockFile, removable, link, nextKid, spoiled>>
  BY DEF Ask, kitVars, reposVars, rowVars, history, runVars, linkVars
<1>2. /\ j \in AnyJob /\ j.at = place /\ j.kid = k /\ j.repo = NoRepo /\ j.src = NoRepo
  BY IdleTyped DEF AnyJob, Idle, KitopsPlace, Place, OnRepo, Refreshing
<1> HIDE DEF j
<1>3. JobsTyped' /\ job'[Kitops] = j
  BY <1>1, <1>2, KitopsJobs DEF KitsInv
<1>4. OpTyped' /\ RowsTyped' /\ NewKidOK'
  BY <1>1 DEF KitsInv, OpTyped, RowsTyped, NewKidOK
<1>5. InHand = {}
  BY DEF InHand, At
<1>6. RowsHaveFiles' /\ PluginServed'
  BY <1>1, <1>5, HandChanges DEF KitsInv, OpTyped, LinkOK
<1> QED BY <1>1, <1>2, <1>3, <1>4, <1>5, <1>6

LEMMA AddKeeps ==
  ASSUME KitsInv, job[Kitops].at = "idle", NEW m \in Media, Add(m)
  PROVE  KitsInv'
<1> DEFINE request == [NoOp EXCEPT !.kind = "add", !.kit = m]
<1>1. /\ request \in Request /\ request.kind = "add" /\ request.kit = m
      /\ Ask(request, "addRow", 0) /\ nextKid \in Kid
  BY DEF Add, NoOp, Request
<1> HIDE DEF request
<1>2. /\ JobsTyped' /\ OpTyped' /\ RowsTyped' /\ NewKidOK'
      /\ RowsHaveFiles' /\ PluginServed'
      /\ job'[Kitops].at = "addRow" /\ job'[Kitops].kid = 0
      /\ job'[Kitops].repo = NoRepo /\ job'[Kitops].src = NoRepo
      /\ op' = request /\ UNCHANGED <<kits, files, link, nextKid, spoiled>>
  <2>1. "addRow" \in KitopsPlace \ OnRepo
    BY DEF KitopsPlace, OnRepo, Refreshing
  <2> QED BY <1>1, <2>1, Requested
<1>3. OpOK'
  BY <1>1, <1>2, Places DEF OpOK, KitopsPlace, OnRepo, Refreshing, Starting, Adding,
     Brought, Deleting, Closing, Upgrading
<1>4. HandOK' /\ LinkOK'
  BY <1>2 DEF HandOK, LinkOK, Brought, Linked
<1> QED BY <1>2, <1>3, <1>4 DEF KitsInv

LEMMA UpgradeKeeps ==
  ASSUME KitsInv, job[Kitops].at = "idle", NEW m \in Media, NEW k \in Kid, Upgrade(k, m)
  PROVE  KitsInv'
<1> DEFINE repos == {r \in Repo : k \in has[r]}
           request == [NoOp EXCEPT !.kind = IF InstallerRepo \in repos THEN "native" ELSE "compat",
                         !.kit = m, !.old = k, !.repos = repos, !.left = repos]
           place == IF InstallerRepo \in repos THEN "lock" ELSE "addRow"
<1>1. /\ request \in Request /\ request.kind \in {"native", "compat"}
      /\ request.kit = m /\ request.old = k
      /\ Ask(request, place, 0) /\ nextKid \in Kid /\ k \in DOMAIN kits
  BY DEF Upgrade, NoOp, Request
<1>2. place \in Starting
  BY DEF Starting
<1> HIDE DEF request, place
<1>3. /\ JobsTyped' /\ OpTyped' /\ RowsTyped' /\ NewKidOK'
      /\ RowsHaveFiles' /\ PluginServed'
      /\ job'[Kitops].at = place /\ job'[Kitops].kid = 0
      /\ job'[Kitops].repo = NoRepo /\ job'[Kitops].src = NoRepo
      /\ op' = request /\ UNCHANGED <<kits, files, link, nextKid, spoiled>>
  <2>1. place \in KitopsPlace \ OnRepo
    BY <1>2 DEF KitopsPlace, OnRepo, Refreshing, Starting
  <2> QED BY <1>1, <2>1, Requested
<1>4. OpOK'
  BY <1>1, <1>2, <1>3, Places DEF OpOK, KitopsPlace, OnRepo, Refreshing, Starting, Adding,
     Brought, Deleting, Closing, Upgrading
<1>5. HandOK' /\ LinkOK'
  BY <1>2, <1>3 DEF HandOK, LinkOK, Brought, Linked, Starting
<1> QED BY <1>3, <1>4, <1>5 DEF KitsInv

(* A kit on its way out has all its files, or something was spoiled.       *)
LEMMA StrategyFine ==
  ASSUME KitsInv, NEW k \in DOMAIN kits \ InHand, job[Kitops].at \in {"idle"} \cup Linked
  PROVE  /\ Strategy(k) \in {"preun", "erase"} /\ k \in Kid
         /\ Strategy(k) = "preun" => k \in spoiled \/ (files[k] = Part /\ link # 0)
         /\ Strategy(k) = "erase" => k \in spoiled
<1>1. k \in Kid
  BY DEF KitsInv, OpTyped
<1>2. k \in spoiled \/ files[k] = Part
  BY <1>1 DEF KitsInv, RowsHaveFiles
<1>3. k \in spoiled \/ link # 0
  BY DEF KitsInv, LinkOK, PluginServed
<1> QED BY <1>1, <1>2, <1>3 DEF Strategy, Part

LEMMA DeleteKeeps ==
  ASSUME KitsInv, job[Kitops].at = "idle", NEW k \in Kid, Delete(k)
  PROVE  KitsInv'
<1> DEFINE request == [NoOp EXCEPT !.kind = "delete", !.old = k]
<1>1. /\ request \in Request /\ request.kind = "delete"
      /\ Ask(request, Strategy(k), k) /\ k \in DOMAIN kits
  BY DEF Delete, NoOp, Request
<1> HIDE DEF request
<1>2. /\ Strategy(k) \in {"preun", "erase"}
      /\ Strategy(k) = "preun" => k \in spoiled \/ (files[k] = Part /\ link # 0)
      /\ Strategy(k) = "erase" => k \in spoiled
  BY <1>1, StrategyFine DEF InHand, At
<1>3. /\ JobsTyped' /\ OpTyped' /\ RowsTyped' /\ NewKidOK'
      /\ RowsHaveFiles' /\ PluginServed'
      /\ job'[Kitops].at = Strategy(k) /\ job'[Kitops].kid = k
      /\ job'[Kitops].repo = NoRepo /\ job'[Kitops].src = NoRepo
      /\ op' = request /\ UNCHANGED <<kits, files, link, nextKid, spoiled>>
  <2>1. Strategy(k) \in KitopsPlace \ OnRepo
    BY <1>2 DEF KitopsPlace, OnRepo, Refreshing, Deleting
  <2> QED BY <1>1, <2>1, Requested
<1>4. OpOK'
  BY <1>1, <1>2, <1>3, Places DEF OpOK, KitopsPlace, OnRepo, Refreshing, Starting, Adding,
     Brought, Deleting, Closing, Upgrading
<1>5. HandOK' /\ LinkOK'
  BY <1>2, <1>3 DEF HandOK, LinkOK, Brought, Linked
<1> QED BY <1>3, <1>4, <1>5 DEF KitsInv

(* Adding.                                                                 *)
LEMMA AddRowFlushedKeeps ==
  ASSUME KitsInv, AddRowFlushed
  PROVE  KitsInv'
<1>1. /\ job[Kitops].at = "addRow" /\ op.kind \in {"add", "native", "compat"}
      /\ op.kit \in Media /\ nextKid \in Kid /\ job[Kitops].repo \notin Repo
      /\ Upgrading => op.old \in DOMAIN kits
  BY DEF KitsInv, OpOK, AddRowFlushed, At, Starting, OnRepo, Refreshing
<1>2. /\ JobsTyped'
      /\ job'[Kitops].at = "addRpms" /\ job'[Kitops].repo = job[Kitops].repo
      /\ job'[Kitops].kid = nextKid /\ job'[Kitops].src = job[Kitops].src
  BY <1>1, KitopsOn DEF KitsInv, AddRowFlushed, Place, KitopsPlace, Adding
<1>3. /\ kits' = [k \in DOMAIN kits \cup {nextKid} |-> IF k = nextKid THEN op.kit ELSE kits[k]]
      /\ op' = [op EXCEPT !.new = nextKid] /\ nextKid' = nextKid + 1
      /\ removable' \subseteq removable \cup {nextKid}
      /\ UNCHANGED <<files, uses, rows, oskit, has, made, stale, content, images,
                     locked, lockFile, link, spoiled>>
  BY DEF AddRowFlushed, reposVars, rowVars, history, runVars
<1>4. nextKid \notin DOMAIN kits \cup spoiled /\ files[nextKid] = {} /\ nextKid # link
  BY <1>1 DEF KitsInv, NewKidOK, OpTyped, Kid
<1>5. OpTyped'
  <2>1. op' \in Request
    BY <1>1, <1>3 DEF KitsInv, OpTyped, Request
  <2>2. DOMAIN kits' \subseteq Kid /\ \A k \in DOMAIN kits' : kits'[k] \in Media
    BY <1>1, <1>3 DEF KitsInv, OpTyped
  <2>3. nextKid' \in 1..(MaxKid + 1)
    BY <1>1, <1>3, ReposAssumption DEF Kid
  <2> QED BY <1>3, <2>1, <2>2, <2>3 DEF KitsInv, OpTyped
<1>6. RowsTyped'
  BY <1>3 DEF KitsInv, RowsTyped
<1>7. OpOK'
  <2>1. op'.new = nextKid /\ op'.kind = op.kind /\ op'.old = op.old
    BY <1>3 DEF KitsInv, OpTyped, Request
  <2>2. job[Kitops].src = NoRepo
    BY DEF KitsInv, OpOK
  <2> QED BY <1>1, <1>2, <1>3, <1>4, <2>1, <2>2 DEF OpOK, KitopsPlace, OnRepo, Refreshing,
       Starting, Adding, Brought, Deleting, Closing, Upgrading
<1>8. NewKidOK'
  BY <1>1, <1>3, <1>4 DEF KitsInv, NewKidOK, OpTyped, Kid
<1>9. HandOK'
  BY <1>2, <1>3, <1>4 DEF HandOK, Brought
<1>10. InHand' = {nextKid} /\ InHand \cap Kid = {}
  BY <1>1, <1>2, ReposAssumption DEF InHand, At, KitsInv, OpOK, Starting, Kid
<1>11. RowsHaveFiles'
  BY <1>3, <1>10 DEF KitsInv, RowsHaveFiles
<1>12. LinkOK'
  <2>1. PluginServed'
    BY <1>3, <1>10 DEF KitsInv, LinkOK, PluginServed, OpTyped
  <2> QED BY <1>2, <2>1 DEF LinkOK, Linked
<1> QED BY <1>2, <1>5, <1>6, <1>7, <1>8, <1>9, <1>11, <1>12 DEF KitsInv

(* The files of a new kit change, and nothing else.                        *)
LEMMA NewFilesKeep ==
  ASSUME KitsInv, job[Kitops].at \in {"addRpms", "addTar", "addMove"},
         NEW place \in {"addTar", "addMove", "addLink"}, Goto(Kitops, place),
         NEW F \in SUBSET (Part \cup {"some"}), files' = [files EXCEPT ![op.new] = F],
         UNCHANGED <<kits, uses, reposVars, locked, history, linkVars, version, op, spoiled>>,
         place = "addTar" => F = {"some"},
         place = "addMove" => "rpms" \in F /\ F \subseteq Part,
         place = "addLink" => F = Part,
         link = op.new => "plugins" \in F \/ "plugins" \notin files[op.new]
  PROVE  KitsInv'
<1>1. /\ op.new = job[Kitops].kid /\ op.new \in DOMAIN kits /\ op.new \in Kid
      /\ job[Kitops].repo \notin Repo /\ job[Kitops].src = NoRepo
  BY DEF KitsInv, OpOK, OpTyped, Adding, OnRepo, Refreshing
<1>2. /\ JobsTyped'
      /\ job'[Kitops].at = place /\ job'[Kitops].repo = job[Kitops].repo
      /\ job'[Kitops].kid = job[Kitops].kid /\ job'[Kitops].src = job[Kitops].src
  <2>1. place \in Place \ {"copy"}
    BY DEF Place, KitopsPlace, Adding
  <2> QED BY <2>1, KitopsGoto DEF KitsInv
<1>3. /\ UNCHANGED <<kits, uses, rows, oskit, has, made, stale, content, images, op,
                     locked, lockFile, removable, link, nextKid, spoiled>>
  BY DEF reposVars, rowVars, history, runVars, linkVars
<1>4. OpTyped' /\ RowsTyped'
  BY <1>1, <1>3 DEF KitsInv, OpTyped, RowsTyped
<1>5. OpOK'
  BY <1>1, <1>2, <1>3 DEF KitsInv, OpOK, KitopsPlace, OnRepo, Refreshing, Starting, Adding,
     Brought, Deleting, Closing, Upgrading
<1>6. NewKidOK'
  BY <1>1, <1>3 DEF KitsInv, NewKidOK, OpTyped, Kid
<1>7. HandOK'
  <2>1. files'[op.new] = F
    BY <1>1 DEF KitsInv, OpTyped
  <2> QED BY <1>1, <1>2, <2>1 DEF HandOK, Brought
<1>8. InHand = {op.new} /\ InHand' = {op.new}
  BY <1>1, <1>2 DEF InHand, At
<1>9. RowsHaveFiles'
  BY <1>3, <1>8 DEF KitsInv, RowsHaveFiles, OpTyped
<1>10. PluginServed'
  BY <1>1, <1>3, <1>8 DEF KitsInv, LinkOK, PluginServed, OpTyped
<1>11. LinkOK'
  BY <1>2, <1>10 DEF LinkOK, Linked
<1> QED BY <1>2, <1>4, <1>5, <1>6, <1>7, <1>9, <1>11 DEF KitsInv

LEMMA CopyRpmsKeeps ==
  ASSUME KitsInv, CopyRpms
  PROVE  KitsInv'
<1>1. op.new = job[Kitops].kid /\ op.new \in Kid
  BY DEF KitsInv, OpOK, OpTyped, Adding, CopyRpms, At
<1>2. "plugins" \notin files[op.new]
  BY <1>1 DEF KitsInv, HandOK, CopyRpms, At
<1> USE DEF CopyRpms, kitVars, At
<1>3. CASE job[Kitops].at = "addRpms"
  <2>1. files' = [files EXCEPT ![op.new] = {"some"}] /\ Goto(Kitops, "addTar")
    BY <1>3
  <2>2. UNCHANGED <<kits, uses, reposVars, locked, history, linkVars, version, op, spoiled>>
    OBVIOUS
  <2> HIDE DEF CopyRpms
  <2> QED BY <1>2, <1>3, <2>1, <2>2, NewFilesKeep
<1>4. CASE job[Kitops].at = "addTar"
  <2>1. files' = [files EXCEPT ![op.new] = {"rpms"}] /\ Goto(Kitops, "addMove")
    BY <1>4
  <2>2. UNCHANGED <<kits, uses, reposVars, locked, history, linkVars, version, op, spoiled>>
    OBVIOUS
  <2>3. /\ {"rpms"} \in SUBSET (Part \cup {"some"})
        /\ "rpms" \in {"rpms"} /\ {"rpms"} \subseteq Part
    BY DEF Part
  <2> HIDE DEF CopyRpms
  <2> QED BY <1>2, <1>4, <2>1, <2>2, <2>3, NewFilesKeep
<1> QED BY <1>3, <1>4

LEMMA MoveItemKeeps ==
  ASSUME KitsInv, MoveItem
  PROVE  KitsInv'
<1>1. job[Kitops].at = "addMove" /\ op.new = job[Kitops].kid /\ op.new \in Kid
  BY DEF KitsInv, OpOK, OpTyped, Adding, MoveItem, At
<1>2. "rpms" \in files[op.new] /\ files[op.new] \subseteq Part
  BY <1>1 DEF KitsInv, HandOK
<1>3. PICK item \in Part \ files[op.new] :
        files' = [files EXCEPT ![op.new] = files[op.new] \cup {item}]
  BY DEF MoveItem
<1> DEFINE F == files[op.new] \cup {item}
<1>4. F \in SUBSET (Part \cup {"some"}) /\ "rpms" \in F /\ F \subseteq Part
  BY <1>2
<1>5. UNCHANGED <<kits, uses, reposVars, locked, history, linkVars, version, op, spoiled>>
  BY DEF MoveItem
<1>6. files'[op.new] = F
  BY <1>1, <1>3 DEF KitsInv, OpTyped
<1>7. link = op.new => "plugins" \in F \/ "plugins" \notin files[op.new]
  OBVIOUS
<1>8. files' = [files EXCEPT ![op.new] = F]
  BY <1>3
<1>9. Goto(Kitops, IF F = Part THEN "addLink" ELSE "addMove")
  BY <1>6 DEF MoveItem
<1> HIDE DEF F
<1>10. CASE F = Part
  BY <1>1, <1>4, <1>5, <1>7, <1>8, <1>9, <1>10, NewFilesKeep
<1>11. CASE F # Part
  BY <1>1, <1>4, <1>5, <1>7, <1>8, <1>9, <1>11, NewFilesKeep
<1> QED BY <1>10, <1>11

(* The process goes on with the kit in hand, and no file changes.          *)
LEMMA WentOn ==
  ASSUME KitsInv, job[Kitops].at # "idle", job[Kitops].repo \notin Repo,
         NEW place \in KitopsPlace \ OnRepo, Goto(Kitops, place),
         UNCHANGED <<kits, files, op, spoiled, nextKid>>,
         link' \in Kid \cup {0}, link' < nextKid
  PROVE  /\ JobsTyped' /\ OpTyped' /\ NewKidOK' /\ RowsHaveFiles'
         /\ job'[Kitops].at = place /\ job'[Kitops].repo \notin Repo
         /\ job'[Kitops].kid = job[Kitops].kid /\ job'[Kitops].src = NoRepo
         /\ InHand = {job[Kitops].kid} /\ InHand' = {job[Kitops].kid}
<1>1. /\ JobsTyped' /\ job'[Kitops].at = place /\ job'[Kitops].repo = job[Kitops].repo
      /\ job'[Kitops].kid = job[Kitops].kid /\ job'[Kitops].src = job[Kitops].src
  <2>1. place \in Place \ {"copy"}
    BY DEF Place, OnRepo, Refreshing
  <2> QED BY <2>1, KitopsGoto DEF KitsInv
<1>2. OpTyped' /\ NewKidOK'
  BY DEF KitsInv, OpTyped, NewKidOK
<1>3. place # "idle"
  BY DEF KitopsPlace, Refreshing, Adding, Deleting
<1>4. InHand = {job[Kitops].kid} /\ InHand' = {job[Kitops].kid}
  BY <1>1, <1>3 DEF InHand, At
<1>5. RowsHaveFiles'
  BY <1>4 DEF KitsInv, RowsHaveFiles
<1>6. job[Kitops].src = NoRepo
  BY DEF KitsInv, OpOK
<1> QED BY <1>1, <1>2, <1>4, <1>5, <1>6

LEMMA InstallPluginsKeeps ==
  ASSUME KitsInv, InstallPlugins
  PROVE  KitsInv'
<1>1. /\ op.new = job[Kitops].kid /\ op.new \in Kid /\ op.new \in DOMAIN kits
      /\ job[Kitops].at = "addLink" /\ job[Kitops].repo \notin Repo
      /\ files[op.new] = Part /\ link \in Kid \cup {0}
  BY DEF KitsInv, OpOK, OpTyped, HandOK, Adding, Brought, OnRepo, Refreshing, InstallPlugins, At
<1>2. /\ UNCHANGED <<kits, files, uses, rows, oskit, has, made, stale, content, images,
                     locked, lockFile, removable, nextKid, op, spoiled>>
      /\ Goto(Kitops, "addComponents") /\ link' = IF link = 0 THEN op.new ELSE link
  BY DEF InstallPlugins, kitVars, reposVars, rowVars, history, runVars
<1>3. op.new < nextKid /\ link < nextKid
  BY <1>1 DEF KitsInv, NewKidOK
<1>4. /\ JobsTyped' /\ OpTyped' /\ NewKidOK' /\ RowsHaveFiles'
      /\ job'[Kitops].at = "addComponents" /\ job'[Kitops].repo \notin Repo
      /\ job'[Kitops].kid = job[Kitops].kid /\ job'[Kitops].src = NoRepo
      /\ InHand = {job[Kitops].kid} /\ InHand' = {job[Kitops].kid}
  <2>1. "addComponents" \in KitopsPlace \ OnRepo
    BY DEF KitopsPlace, OnRepo, Refreshing
  <2>2. link' \in Kid \cup {0} /\ link' < nextKid
    BY <1>1, <1>2, <1>3
  <2> QED BY <1>1, <1>2, <2>1, <2>2, WentOn
<1>5. RowsTyped'
  BY <1>2 DEF KitsInv, RowsTyped
<1>6. OpOK'
  BY <1>1, <1>2, <1>4 DEF KitsInv, OpOK, KitopsPlace, OnRepo, Refreshing, Starting, Adding,
     Brought, Deleting, Closing, Upgrading
<1>7. HandOK'
  BY <1>1, <1>2, <1>4 DEF HandOK, Brought
<1>8. PluginServed' /\ link' # 0
  BY <1>1, <1>2, <1>4, ReposAssumption DEF KitsInv, LinkOK, PluginServed, Part, Kid
<1>9. LinkOK'
  BY <1>4, <1>8 DEF LinkOK
<1> QED BY <1>4, <1>5, <1>6, <1>7, <1>8, <1>9 DEF KitsInv

LEMMA UpdateComponentsKeeps ==
  ASSUME KitsInv, UpdateComponents
  PROVE  KitsInv'
<1>1. /\ op.new = job[Kitops].kid /\ op.new \in Kid /\ op.new \in DOMAIN kits
      /\ job[Kitops].at = "addComponents" /\ job[Kitops].repo \notin Repo
      /\ files[op.new] = Part /\ link \in Kid \cup {0} /\ link # 0
  BY DEF KitsInv, OpOK, OpTyped, HandOK, LinkOK, Linked, Brought, OnRepo, Refreshing,
     UpdateComponents, At
<1>2. /\ UNCHANGED <<kits, files, rows, oskit, has, made, stale, content, images,
                     locked, lockFile, removable, link, nextKid, op, spoiled>>
      /\ Goto(Kitops, "addPost")
      /\ uses' \in [NodeGroup -> SUBSET DOMAIN kits]
  BY <1>1 DEF UpdateComponents, reposVars, rowVars, history, runVars, linkVars, KitsInv, RowsTyped
<1>3. link < nextKid
  BY DEF KitsInv, NewKidOK
<1>4. /\ JobsTyped' /\ OpTyped' /\ NewKidOK' /\ RowsHaveFiles'
      /\ job'[Kitops].at = "addPost" /\ job'[Kitops].repo \notin Repo
      /\ job'[Kitops].kid = job[Kitops].kid /\ job'[Kitops].src = NoRepo
      /\ InHand = {job[Kitops].kid} /\ InHand' = {job[Kitops].kid}
  <2>1. "addPost" \in KitopsPlace \ OnRepo
    BY DEF KitopsPlace, OnRepo, Refreshing
  <2> QED BY <1>1, <1>2, <1>3, <2>1, WentOn
<1>5. RowsTyped'
  BY <1>2 DEF KitsInv, RowsTyped
<1>6. OpOK'
  BY <1>1, <1>2, <1>4 DEF KitsInv, OpOK, KitopsPlace, OnRepo, Refreshing, Starting, Adding,
     Brought, Deleting, Closing, Upgrading
<1>7. HandOK'
  BY <1>1, <1>2, <1>4 DEF HandOK, Brought
<1>8. PluginServed'
  BY <1>2, <1>4 DEF KitsInv, LinkOK, PluginServed
<1>9. LinkOK'
  BY <1>1, <1>2, <1>4, <1>8 DEF LinkOK
<1> QED BY <1>4, <1>5, <1>6, <1>7, <1>8, <1>9 DEF KitsInv

LEMMA PostScriptKeeps ==
  ASSUME KitsInv, PostScript
  PROVE  KitsInv'
<1>1. /\ op.new = job[Kitops].kid /\ op.new \in Kid /\ op.new \in DOMAIN kits
      /\ job[Kitops].at = "addPost" /\ job[Kitops].repo \notin Repo
      /\ op.kind \in {"add", "native", "compat"}
      /\ Upgrading => op.old \in DOMAIN kits /\ op.old # op.new
      /\ files[op.new] = Part /\ link \in Kid \cup {0} /\ link # 0
      /\ op.new \notin spoiled /\ op.old \in Kid \cup {0}
  BY DEF KitsInv, OpOK, OpTyped, Request, HandOK, LinkOK, Linked, Brought, OnRepo, Refreshing,
     PostScript, At
<1>2. /\ UNCHANGED <<kits, files, uses, rows, oskit, has, made, stale, content,
                     lockFile, link, nextKid, spoiled>>
  BY DEF PostScript, kitVars, rowVars, history, runVars
<1>3. RowsTyped'
  <2>1. images' \in SUBSET OS /\ removable' \subseteq DOMAIN kits
    BY <1>1 DEF PostScript, MadeRemovable, KitsInv, RowsTyped
  <2>2. locked' \in BOOLEAN
    BY DEF PostScript, End, KitsInv, RowsTyped
  <2> QED BY <1>2, <2>1, <2>2 DEF KitsInv, RowsTyped
<1>4. link < nextKid /\ op.new < nextKid
  BY <1>1 DEF KitsInv, NewKidOK
<1>5. ASSUME End
      PROVE  KitsInv'
  <2>1. Settled(op.new)
    BY <1>1 DEF Settled
  <2>2. JobsTyped' /\ OpTyped' /\ OpOK' /\ NewKidOK' /\ HandOK' /\ RowsHaveFiles' /\ LinkOK'
    BY <1>1, <1>2, <1>5, <2>1, Ended DEF End, KitsInv, OpTyped
  <2> QED BY <1>3, <2>2 DEF KitsInv
<1>6. ASSUME Upgrading, Goto(Kitops, "swapStale"), op' = op
      PROVE  KitsInv'
  <2>1. /\ JobsTyped' /\ OpTyped' /\ NewKidOK' /\ RowsHaveFiles'
        /\ job'[Kitops].at = "swapStale" /\ job'[Kitops].repo \notin Repo
        /\ job'[Kitops].kid = job[Kitops].kid /\ job'[Kitops].src = NoRepo
        /\ InHand = {job[Kitops].kid} /\ InHand' = {job[Kitops].kid}
    <3>1. "swapStale" \in KitopsPlace \ OnRepo
      BY DEF KitopsPlace, OnRepo, Refreshing
    <3> QED BY <1>1, <1>2, <1>4, <1>6, <3>1, WentOn
  <2>2. OpOK'
    BY <1>1, <1>2, <1>6, <2>1 DEF KitsInv, OpOK, KitopsPlace, OnRepo, Refreshing, Starting,
       Adding, Brought, Deleting, Closing, Upgrading
  <2>3. HandOK'
    BY <1>1, <1>2, <2>1 DEF HandOK, Brought
  <2>4. PluginServed'
    BY <1>2, <2>1 DEF KitsInv, LinkOK, PluginServed
  <2>5. LinkOK'
    BY <1>1, <1>2, <2>1, <2>4 DEF LinkOK
  <2> QED BY <1>3, <2>1, <2>2, <2>3, <2>5 DEF KitsInv
<1>7. ASSUME On(op.new, "preun"), op' = op
      PROVE  KitsInv'
  <2>1. Goto(Kitops, "preun")
    <3>1. job[Kitops] \in AnyJob /\ DOMAIN job = Proc
      BY Places DEF KitsInv, JobsTyped
    <3> QED BY <1>1, <1>7, <3>1, Places DEF On, Goto, AnyJob
  <2>2. /\ JobsTyped' /\ OpTyped' /\ NewKidOK' /\ RowsHaveFiles'
        /\ job'[Kitops].at = "preun" /\ job'[Kitops].repo \notin Repo
        /\ job'[Kitops].kid = job[Kitops].kid /\ job'[Kitops].src = NoRepo
        /\ InHand = {job[Kitops].kid} /\ InHand' = {job[Kitops].kid}
    <3>1. "preun" \in KitopsPlace \ OnRepo
      BY DEF KitopsPlace, OnRepo, Refreshing, Deleting
    <3> QED BY <1>1, <1>2, <1>4, <1>7, <2>1, <3>1, WentOn
  <2>3. OpOK'
    <3>1. Upgrading => op.old \in Kid
      BY <1>1 DEF KitsInv, OpTyped
    <3> QED BY <1>1, <1>2, <1>7, <2>2, <3>1 DEF OpOK, KitopsPlace, OnRepo, Refreshing, Starting,
       Adding, Brought, Deleting, Closing, Upgrading
  <2>4. HandOK'
    BY <1>1, <1>2, <2>2 DEF HandOK, Brought
  <2>5. PluginServed'
    BY <1>2, <2>2 DEF KitsInv, LinkOK, PluginServed
  <2>6. LinkOK'
    BY <1>1, <1>2, <2>2, <2>5 DEF LinkOK, Linked
  <2> QED BY <1>3, <2>2, <2>3, <2>4, <2>6 DEF KitsInv
<1> QED BY <1>5, <1>6, <1>7 DEF PostScript

(* Deleting.                                                               *)
LEMMA DeletingFacts ==
  ASSUME KitsInv, job[Kitops].at \in Deleting
  PROVE  /\ job[Kitops].kid \in DOMAIN kits /\ job[Kitops].kid \in Kid
         /\ job[Kitops].kid # 0 /\ job[Kitops].kid < nextKid
         /\ job[Kitops].repo \notin Repo /\ job[Kitops].at # "idle"
         /\ Upgrading => op.old # op.new /\ op.new \in DOMAIN kits /\ op.old \in Kid
         /\ op.kind # "none" /\ InHand = {job[Kitops].kid}
         /\ link \in Kid \cup {0} /\ link < nextKid
<1>1. /\ job[Kitops].kid \in DOMAIN kits /\ job[Kitops].repo \notin Repo
      /\ job[Kitops].at # "idle" /\ op.kind # "none"
      /\ Upgrading => op.old # op.new /\ op.new \in DOMAIN kits /\ op.old \in Kid
  BY DEF KitsInv, OpOK, Deleting, OnRepo, Refreshing
<1>2. job[Kitops].kid \in Kid /\ job[Kitops].kid # 0
  BY <1>1, ReposAssumption DEF KitsInv, OpTyped, Kid
<1>3. job[Kitops].kid < nextKid /\ link < nextKid /\ link \in Kid \cup {0}
  BY <1>1 DEF KitsInv, OpTyped, NewKidOK
<1> QED BY <1>1, <1>2, <1>3 DEF InHand, At

(* The next step of a deletion; link' may be another.                      *)
LEMMA DeletionGoesOn ==
  ASSUME KitsInv, job[Kitops].at \in Deleting, NEW place \in Deleting, Goto(Kitops, place),
         UNCHANGED <<kits, files, uses, reposVars, locked, lockFile, removable, nextKid,
                     op, spoiled>>,
         link' \in Kid \cup {0}, link' < nextKid
  PROVE  /\ JobsTyped' /\ OpTyped' /\ RowsTyped' /\ NewKidOK' /\ OpOK' /\ RowsHaveFiles'
         /\ job'[Kitops].at = place /\ job'[Kitops].kid = job[Kitops].kid
         /\ InHand' = InHand
<1>1. place \in KitopsPlace \ OnRepo
  BY DEF KitopsPlace, OnRepo, Refreshing, Deleting
<1>2. UNCHANGED <<kits, files, uses, rows, oskit, has, made, stale, content, images,
                  locked, lockFile, removable, nextKid, op, spoiled>>
  BY DEF reposVars, rowVars
<1>3. /\ JobsTyped' /\ OpTyped' /\ NewKidOK' /\ RowsHaveFiles'
      /\ job'[Kitops].at = place /\ job'[Kitops].repo \notin Repo
      /\ job'[Kitops].kid = job[Kitops].kid /\ job'[Kitops].src = NoRepo
      /\ InHand = {job[Kitops].kid} /\ InHand' = {job[Kitops].kid}
  BY <1>1, <1>2, DeletingFacts, WentOn
<1>4. RowsTyped'
  BY <1>2 DEF KitsInv, RowsTyped
<1>5. OpOK'
  BY <1>1, <1>2, <1>3, DeletingFacts DEF OpOK, KitopsPlace, OnRepo, Refreshing, Starting,
     Adding, Brought, Deleting, Closing, Upgrading
<1> QED BY <1>3, <1>4, <1>5

LEMMA PreunScriptKeeps ==
  ASSUME KitsInv, PreunScript
  PROVE  KitsInv'
<1> DEFINE k == job[Kitops].kid
<1>1. job[Kitops].at = "preun" /\ job[Kitops].at \in Deleting
  BY DEF PreunScript, At, Deleting
<1>2. k \in spoiled \/ (files[k] = Part /\ link # 0)
  BY <1>1 DEF KitsInv, HandOK, LinkOK
<1>3. UNCHANGED <<kits, files, uses, reposVars, lockFile, removable, link, nextKid, spoiled>>
  BY DEF PreunScript, kitVars, history, runVars, linkVars
<1>4. CASE Goto(Kitops, "unlink") /\ UNCHANGED <<op, locked>>
  <2>1. /\ JobsTyped' /\ OpTyped' /\ RowsTyped' /\ NewKidOK' /\ OpOK' /\ RowsHaveFiles'
        /\ job'[Kitops].at = "unlink" /\ job'[Kitops].kid = k /\ InHand' = InHand
    BY <1>1, <1>3, <1>4, DeletingFacts, DeletionGoesOn DEF Deleting
  <2>2. HandOK'
    BY <1>2, <1>3, <2>1 DEF HandOK, Brought
  <2>3. PluginServed'
    BY <1>3, <2>1 DEF KitsInv, LinkOK, PluginServed
  <2>4. LinkOK'
    BY <1>2, <1>3, <2>1, <2>3 DEF LinkOK, Linked
  <2> QED BY <2>1, <2>2, <2>4 DEF KitsInv
<1>5. CASE End
  <2>1. k \in Kid /\ k \in DOMAIN kits
    BY <1>1, DeletingFacts
  <2>2. k \in spoiled \/ Settled(k)
    BY <1>2, <2>1 DEF Settled
  <2>3. JobsTyped' /\ OpTyped' /\ OpOK' /\ NewKidOK' /\ HandOK' /\ RowsHaveFiles' /\ LinkOK'
    BY <1>3, <1>5, <2>2, Ended DEF End, KitsInv, OpTyped
  <2>4. RowsTyped'
    BY <1>3, <1>5 DEF End, KitsInv, RowsTyped, reposVars, rowVars
  <2> QED BY <2>3, <2>4 DEF KitsInv
<1> QED BY <1>4, <1>5 DEF PreunScript

LEMMA UninstallPluginsKeeps ==
  ASSUME KitsInv, UninstallPlugins
  PROVE  KitsInv'
<1> DEFINE k == job[Kitops].kid
<1>1. job[Kitops].at = "unlink" /\ job[Kitops].at \in Deleting /\ Goto(Kitops, "rmtree")
  BY DEF UninstallPlugins, At, Deleting
<1>2. k \in spoiled \/ (files[k] = Part /\ link # 0)
  BY <1>1 DEF KitsInv, HandOK, LinkOK
<1>3. UNCHANGED <<kits, files, uses, reposVars, locked, lockFile, removable, nextKid, op,
                  spoiled>>
  BY DEF UninstallPlugins, kitVars, history, runVars
<1>4. k \in Kid /\ k # 0 /\ link \in Kid \cup {0} /\ link < nextKid /\ InHand = {k}
  BY <1>1, DeletingFacts
<1>5. \/ k \in Providers /\ link = k /\ Providers = {k} /\ link' = 0
      \/ k \in Providers /\ link = k /\ link' \in Providers \ {k}
      \/ (k \notin Providers \/ link # k) /\ link' = link
  BY DEF UninstallPlugins
<1>6. \A x \in Providers : x \in Kid /\ x # 0 /\ x < nextKid /\ "plugins" \in files[x]
  BY ReposAssumption DEF Providers, KitsInv, NewKidOK, OpTyped, Kid
<1>7. link' \in Kid \cup {0} /\ link' < nextKid
  BY <1>4, <1>5, <1>6, ReposAssumption DEF KitsInv, OpTyped
<1>8. /\ JobsTyped' /\ OpTyped' /\ RowsTyped' /\ NewKidOK' /\ OpOK' /\ RowsHaveFiles'
      /\ job'[Kitops].at = "rmtree" /\ job'[Kitops].kid = k /\ InHand' = InHand
  BY <1>1, <1>3, <1>7, DeletionGoesOn DEF Deleting
<1>9. HandOK'
  BY <1>8 DEF HandOK, Brought
<1>10. \A x \in DOMAIN kits \ (spoiled \cup InHand) : x \in Providers /\ x # k
  BY <1>4 DEF KitsInv, RowsHaveFiles, OpTyped, Providers, Part
<1>11. PluginServed'
  BY <1>3, <1>4, <1>5, <1>6, <1>8, <1>10 DEF KitsInv, LinkOK, PluginServed
<1>12. k \in spoiled \/ link' # k
  BY <1>2, <1>4, <1>5 DEF Providers, Part
<1>13. LinkOK'
  BY <1>3, <1>8, <1>11, <1>12 DEF LinkOK, Linked
<1> QED BY <1>8, <1>9, <1>13 DEF KitsInv

LEMMA RemoveFilesKeeps ==
  ASSUME KitsInv, NEW place \in {"rmtree", "erase"}, NEW then \in {"postun", "flush"},
         then = "postun" => place = "rmtree", then = "flush" => place = "erase",
         RemoveFiles(place, then)
  PROVE  KitsInv'
<1> DEFINE k == job[Kitops].kid
<1>1. job[Kitops].at = place /\ job[Kitops].at \in Deleting
  BY DEF RemoveFiles, At, Deleting
<1>2. /\ k \in Kid /\ k # 0 /\ k < nextKid /\ link \in Kid \cup {0} /\ link < nextKid
      /\ k \in DOMAIN kits /\ InHand = {k}
  BY <1>1, DeletingFacts
<1>3. k \in spoiled \/ (place = "rmtree" /\ link # k)
  BY <1>1 DEF KitsInv, HandOK, LinkOK
<1>4. UNCHANGED <<kits, uses, reposVars, locked, lockFile, removable, link, nextKid, op,
                  spoiled>>
  BY DEF RemoveFiles, history, runVars, linkVars
<1>5. CASE files[k] = {} /\ Goto(Kitops, then) /\ UNCHANGED files
  <2>1. /\ JobsTyped' /\ OpTyped' /\ RowsTyped' /\ NewKidOK' /\ OpOK' /\ RowsHaveFiles'
        /\ job'[Kitops].at = then /\ job'[Kitops].kid = k /\ InHand' = InHand
    BY <1>1, <1>2, <1>4, <1>5, DeletionGoesOn DEF Deleting
  <2>2. HandOK'
    BY <1>5, <2>1 DEF HandOK, Brought
  <2>3. PluginServed'
    BY <1>4, <1>5, <2>1 DEF KitsInv, LinkOK, PluginServed
  <2>4. LinkOK'
    BY <1>3, <1>4, <2>1, <2>3 DEF LinkOK, Linked
  <2> QED BY <2>1, <2>2, <2>4 DEF KitsInv
<1>6. ASSUME NEW item \in files[k], files' = [files EXCEPT ![k] = files[k] \ {item}],
             UNCHANGED job
      PROVE  KitsInv'
  <2>1. files' \in [Kid -> SUBSET (Part \cup {"some"})] /\ files'[k] \subseteq files[k]
        /\ \A x \in Kid \ {k} : files'[x] = files[x]
    BY <1>2, <1>6 DEF KitsInv, OpTyped
  <2>2. JobsTyped' /\ OpTyped' /\ OpOK'
    BY <1>4, <1>6, <2>1 DEF KitsInv, JobsTyped, ToolOK, OpTyped, OpOK, Upgrading
  <2>3. RowsTyped'
    BY <1>4 DEF KitsInv, RowsTyped, reposVars, rowVars
  <2>4. NewKidOK'
    BY <1>2, <1>4, <2>1 DEF KitsInv, NewKidOK
  <2>5. HandOK'
    BY <1>1, <1>3, <1>4, <1>6 DEF KitsInv, HandOK, Brought
  <2>6. InHand' = InHand
    BY <1>6 DEF InHand, At
  <2>7. RowsHaveFiles'
    BY <1>2, <1>4, <2>1, <2>6 DEF KitsInv, RowsHaveFiles
  <2>8. link \in spoiled \cup {0} \/ link # k
    BY <1>3
  <2>9. PluginServed'
    BY <1>2, <1>4, <2>1, <2>6, <2>8 DEF KitsInv, LinkOK, PluginServed
  <2>10. LinkOK'
    BY <1>4, <1>6, <2>9 DEF KitsInv, LinkOK
  <2> QED BY <2>2, <2>3, <2>4, <2>5, <2>7, <2>10 DEF KitsInv
<1> QED BY <1>5, <1>6 DEF RemoveFiles

LEMMA PostunScriptKeeps ==
  ASSUME KitsInv, PostunScript
  PROVE  KitsInv'
<1> DEFINE k == job[Kitops].kid
<1>1. job[Kitops].at = "postun" /\ job[Kitops].at \in Deleting
  BY DEF PostunScript, At, Deleting
<1>2. files[k] = {} /\ (k \in spoiled \/ link # k)
  BY <1>1 DEF KitsInv, HandOK, LinkOK
<1>3. UNCHANGED <<kits, files, uses, reposVars, lockFile, removable, link, nextKid>>
  BY DEF PostunScript, kitVars, history, runVars, linkVars
<1>4. CASE Goto(Kitops, "flush") /\ UNCHANGED <<op, locked, spoiled>>
  <2>1. /\ JobsTyped' /\ OpTyped' /\ RowsTyped' /\ NewKidOK' /\ OpOK' /\ RowsHaveFiles'
        /\ job'[Kitops].at = "flush" /\ job'[Kitops].kid = k /\ InHand' = InHand
    BY <1>1, <1>3, <1>4, DeletingFacts, DeletionGoesOn DEF Deleting
  <2>2. HandOK'
    BY <1>2, <1>3, <2>1 DEF HandOK, Brought
  <2>3. PluginServed'
    BY <1>3, <1>4, <2>1 DEF KitsInv, LinkOK, PluginServed
  <2>4. LinkOK'
    BY <1>2, <1>3, <1>4, <2>1, <2>3 DEF LinkOK, Linked
  <2> QED BY <2>1, <2>2, <2>4 DEF KitsInv
<1>5. CASE End /\ spoiled' = spoiled \cup {k}
  <2>1. k \in Kid /\ k < nextKid
    BY <1>1, DeletingFacts
  <2>2. JobsTyped' /\ OpTyped' /\ OpOK' /\ NewKidOK' /\ HandOK' /\ RowsHaveFiles' /\ LinkOK'
    BY <1>3, <1>5, <2>1, Ended DEF End, KitsInv, OpTyped
  <2>3. RowsTyped'
    BY <1>3, <1>5 DEF End, KitsInv, RowsTyped, reposVars, rowVars
  <2> QED BY <2>2, <2>3 DEF KitsInv
<1> QED BY <1>4, <1>5 DEF PostunScript

(* The rows of the kit go, when its files are gone.                        *)
LEMMA FlushKeeps ==
  ASSUME KitsInv, Flush
  PROVE  KitsInv'
<1> DEFINE k == job[Kitops].kid
<1>1. job[Kitops].at = "flush" /\ job[Kitops].at \in Deleting
  BY DEF Flush, At, Deleting
<1>2. files[k] = {} /\ (k \in spoiled \/ link # k)
  BY <1>1 DEF KitsInv, HandOK, LinkOK
<1>3. /\ k \in Kid /\ k # 0 /\ k < nextKid /\ link \in Kid \cup {0} /\ link < nextKid
      /\ k \in DOMAIN kits /\ InHand = {k}
      /\ Upgrading => op.old # op.new /\ op.new \in DOMAIN kits
  BY <1>1, DeletingFacts
<1>4. UNCHANGED <<files, rows, oskit, made, stale, content, images, lockFile, link, nextKid>>
  BY DEF Flush, diskVars, history, runVars
<1>5. CASE /\ UNCHANGED <<kits, has, uses, removable>> /\ End /\ spoiled' = spoiled \cup {k}
  <2>1. JobsTyped' /\ OpTyped' /\ OpOK' /\ NewKidOK' /\ HandOK' /\ RowsHaveFiles' /\ LinkOK'
    BY <1>3, <1>4, <1>5, Ended DEF End, KitsInv, OpTyped
  <2>2. RowsTyped'
    BY <1>4, <1>5 DEF End, KitsInv, RowsTyped
  <2> QED BY <2>1, <2>2 DEF KitsInv
<1>6. CASE /\ kits' = [x \in DOMAIN kits \ {k} |-> kits[x]]
           /\ has' = [r \in Repo |-> has[r] \ {k}]
           /\ uses' = [g \in NodeGroup |-> Reassociated(g, k)]
           /\ removable' = removable \ {k}
           /\ IF op.kind = "native" /\ k = op.old
              THEN /\ On(0, "refresh")
                   /\ op' = [op EXCEPT !.left = op.repos]
                   /\ UNCHANGED locked
              ELSE End
           /\ UNCHANGED spoiled
  <2>1. \A g \in NodeGroup : Reassociated(g, k) \subseteq DOMAIN kits \ {k}
    BY <1>3 DEF Reassociated, KitsInv, RowsTyped
  <2>2. locked' \in BOOLEAN
    BY <1>6 DEF End, KitsInv, RowsTyped
  <2>3. RowsTyped'
    BY <1>4, <1>6, <2>1, <2>2 DEF KitsInv, RowsTyped
  <2>4. DOMAIN kits' = DOMAIN kits \ {k} /\ \A x \in DOMAIN kits' : kits'[x] = kits[x]
    BY <1>6
  <2>5. NewKidOK'
    BY <1>4, <1>6, <2>4 DEF KitsInv, NewKidOK
  <2>6. ASSUME InHand' \cap Kid = {} PROVE RowsHaveFiles' /\ PluginServed'
    <3>1. RowsHaveFiles'
      BY <1>2, <1>3, <1>4, <1>6, <2>4 DEF KitsInv, RowsHaveFiles
    <3>2. PluginServed'
      BY <1>3, <1>4, <1>6, <2>4 DEF KitsInv, LinkOK, PluginServed
    <3> QED BY <3>1, <3>2
  <2>7. CASE End
    <3>1. JobsTyped' /\ job'[Kitops] = Idle /\ op' = NoOp
      BY <2>7, KitopsIdle DEF KitsInv, End
    <3>2. OpTyped'
      BY <1>4, <1>6, <2>4, <3>1, NoOpTyped DEF KitsInv, OpTyped
    <3>3. OpOK'
      BY <3>1, IdleTyped, NoOpTyped, Places
         DEF OpOK, OnRepo, Refreshing, Starting, Adding, Brought, Deleting, Closing
    <3>4. HandOK'
      BY <3>1, IdleTyped DEF HandOK, Brought
    <3>5. InHand' = {}
      BY <3>1, IdleTyped DEF InHand, At
    <3>6. LinkOK'
      BY <2>6, <3>1, <3>5, IdleTyped DEF LinkOK, Linked
    <3> QED BY <2>3, <2>5, <2>6, <3>1, <3>2, <3>3, <3>4, <3>5, <3>6 DEF KitsInv
  <2>8. CASE /\ On(0, "refresh") /\ op' = [op EXCEPT !.left = op.repos]
             /\ op.kind = "native"
    <3>1. /\ JobsTyped' /\ job'[Kitops].at = "refresh" /\ job'[Kitops].repo = job[Kitops].repo
          /\ job'[Kitops].kid = 0 /\ job'[Kitops].src = job[Kitops].src
      BY <2>8, KitopsOn DEF KitsInv, Place, KitopsPlace
    <3>2. op' \in Request /\ op'.kind = "native"
      BY <2>8 DEF KitsInv, OpTyped, Request
    <3>3. OpTyped'
      BY <1>4, <1>6, <2>4, <3>2 DEF KitsInv, OpTyped
    <3>4. job[Kitops].repo \notin Repo /\ job[Kitops].src = NoRepo
      BY <1>1, DeletingFacts DEF KitsInv, OpOK
    <3>5. OpOK'
      BY <3>1, <3>2, <3>4, Places DEF OpOK, KitopsPlace, OnRepo, Refreshing, Starting, Adding,
         Brought, Deleting, Closing
    <3>6. HandOK'
      BY <3>1 DEF HandOK, Brought
    <3>7. InHand' \cap Kid = {}
      BY <3>1, ReposAssumption DEF InHand, At, Kid
    <3>8. LinkOK'
      BY <2>6, <3>1, <3>7 DEF LinkOK, Linked
    <3> QED BY <2>3, <2>5, <2>6, <3>1, <3>3, <3>5, <3>6, <3>7, <3>8 DEF KitsInv
  <2> QED BY <1>6, <2>7, <2>8
<1> QED BY <1>5, <1>6 DEF Flush

(* Upgrading.                                                              *)
LEMMA AcquireGlobalLockKeeps ==
  ASSUME KitsInv, AcquireGlobalLock
  PROVE  KitsInv'
<1>1. /\ job[Kitops].at = "lock" /\ job[Kitops].kid = 0 /\ job[Kitops].repo \notin Repo
      /\ op.kind \in {"add", "native", "compat"} /\ op.kit \in Media /\ nextKid \in Kid
      /\ Upgrading => op.old \in DOMAIN kits
  BY DEF AcquireGlobalLock, At, KitsInv, OpOK, Starting, OnRepo, Refreshing
<1>2. UNCHANGED <<kits, files, uses, rows, oskit, has, made, stale, content, images,
                  lockFile, removable, link, nextKid, spoiled>>
  BY DEF AcquireGlobalLock, kitVars, reposVars, rowVars, history, runVars, linkVars
<1>3. RowsTyped'
  BY <1>2 DEF AcquireGlobalLock, End, KitsInv, RowsTyped
<1>4. link \in Kid \cup {0} /\ link < nextKid /\ 0 \notin Kid
  BY ReposAssumption DEF KitsInv, OpTyped, NewKidOK, Kid
<1>5. CASE End
  <2>1. JobsTyped' /\ OpTyped' /\ OpOK' /\ NewKidOK' /\ HandOK' /\ RowsHaveFiles' /\ LinkOK'
    BY <1>1, <1>2, <1>4, <1>5, Ended DEF End, KitsInv, OpTyped
  <2> QED BY <1>3, <2>1 DEF KitsInv
<1>6. CASE Goto(Kitops, "addRow") /\ UNCHANGED op
  <2>1. "addRow" \in KitopsPlace \ OnRepo
    BY DEF KitopsPlace, OnRepo, Refreshing
  <2>2. /\ JobsTyped' /\ OpTyped' /\ NewKidOK' /\ RowsHaveFiles'
        /\ job'[Kitops].at = "addRow" /\ job'[Kitops].repo \notin Repo
        /\ job'[Kitops].kid = job[Kitops].kid /\ job'[Kitops].src = NoRepo
        /\ InHand = {job[Kitops].kid} /\ InHand' = {job[Kitops].kid}
    BY <1>1, <1>2, <1>4, <1>6, <2>1, WentOn
  <2>3. OpOK'
    BY <1>1, <1>2, <1>6, <2>1, <2>2 DEF OpOK, OnRepo, Refreshing, Starting,
       Adding, Brought, Deleting, Closing, Upgrading
  <2>4. HandOK'
    BY <2>2 DEF HandOK, Brought
  <2>5. PluginServed'
    BY <1>2, <2>2 DEF KitsInv, LinkOK, PluginServed
  <2>6. LinkOK'
    BY <2>2, <2>5 DEF LinkOK, Linked
  <2> QED BY <1>3, <2>2, <2>3, <2>4, <2>6 DEF KitsInv
<1> QED BY <1>5, <1>6 DEF AcquireGlobalLock

(* What is so of the new kit while the repositories are moved to it.       *)
LEMMA SwapFacts ==
  ASSUME KitsInv, job[Kitops].at \in {"swapStale", "swapRow"}
  PROVE  /\ op.new = job[Kitops].kid /\ op.new \in Kid /\ op.new \in DOMAIN kits
         /\ op.new \notin spoiled /\ Settled(op.new) /\ InHand = {op.new}
         /\ Upgrading /\ op.old \in DOMAIN kits /\ op.old # op.new /\ op.old \in Kid
         /\ op.left \subseteq Repo /\ files[op.new] = Part /\ link # 0
         /\ job[Kitops].src = NoRepo /\ op.new < nextKid
<1>1. /\ op.new = job[Kitops].kid /\ op.new \in DOMAIN kits
      /\ op.new \notin spoiled /\ Upgrading /\ op.old \in DOMAIN kits /\ op.old # op.new
      /\ job[Kitops].src = NoRepo
  BY DEF KitsInv, OpOK, Brought
<1>2. files[op.new] = Part /\ link # 0
  BY <1>1 DEF KitsInv, HandOK, LinkOK, Brought, Linked
<1>3. op.new \in Kid /\ op.old \in Kid /\ op.left \subseteq Repo
  BY <1>1 DEF KitsInv, OpTyped, Request
<1>4. op.new < nextKid
  BY <1>1 DEF KitsInv, NewKidOK
<1> QED BY <1>1, <1>2, <1>3, <1>4 DEF Settled, InHand, At

LEMMA SwapEnds ==
  ASSUME KitsInv, job[Kitops].at \in {"swapStale", "swapRow"}, End,
         UNCHANGED <<kits, files, uses, rows, oskit, has, made, stale, content, images,
                     lockFile, removable, link, nextKid, spoiled>>
  PROVE  KitsInv'
<1>1. JobsTyped' /\ OpTyped' /\ OpOK' /\ NewKidOK' /\ HandOK' /\ RowsHaveFiles' /\ LinkOK'
  BY SwapFacts, Ended DEF End, KitsInv, OpTyped
<1>2. RowsTyped'
  BY DEF End, KitsInv, RowsTyped
<1> QED BY <1>1, <1>2 DEF KitsInv

LEMMA SwapStaleKeeps ==
  ASSUME KitsInv, SwapStale
  PROVE  KitsInv'
<1>1. job[Kitops].at = "swapStale"
  BY DEF SwapStale, At
<1>2. UNCHANGED <<kits, files, uses, rows, oskit, has, made, content, images,
                  lockFile, removable, link, nextKid, spoiled>>
  BY DEF SwapStale, kitVars, rowVars, runVars, linkVars
<1>3. PICK r \in op.left :
        IF r \in made /\ OsKit \in KitRows(r)
        THEN /\ stale' = stale \cup {r}
             /\ job' = [job EXCEPT ![Kitops].at = "swapRow", ![Kitops].repo = r]
             /\ unsure' = IF Others(Kitops, r) = {} THEN unsure ELSE unsure \cup {r}
             /\ UNCHANGED <<op, locked>>
        ELSE End /\ UNCHANGED <<stale, unsure>>
  BY DEF SwapStale
<1>4. CASE End /\ UNCHANGED stale
  BY <1>1, <1>2, <1>4, SwapEnds
<1>5. CASE /\ r \in made /\ stale' = stale \cup {r}
           /\ job' = [job EXCEPT ![Kitops].at = "swapRow", ![Kitops].repo = r]
           /\ UNCHANGED <<op, locked>>
  <2> DEFINE j == [job[Kitops] EXCEPT !.at = "swapRow", !.repo = r]
  <2>1. r \in Repo
    BY <1>1, SwapFacts
  <2>2. job' = [job EXCEPT ![Kitops] = j]
    BY <1>5, Places DEF KitsInv, JobsTyped
  <2>3. /\ j \in AnyJob /\ j.at = "swapRow" /\ j.repo = r
        /\ j.kid = job[Kitops].kid /\ j.src = job[Kitops].src
    BY ZenonT(40), <2>1, Places DEF KitsInv, JobsTyped, AnyJob, Place, KitopsPlace
  <2> HIDE DEF j
  <2>4. JobsTyped' /\ job'[Kitops] = j
    BY <2>2, <2>3, KitopsJobs DEF KitsInv
  <2>5. OpTyped' /\ RowsTyped' /\ NewKidOK'
    BY <1>2, <1>5 DEF KitsInv, OpTyped, RowsTyped, NewKidOK
  <2>6. OpOK'
    BY <1>1, <1>2, <1>5, <2>1, <2>3, <2>4, SwapFacts DEF OpOK, KitopsPlace, OnRepo, Refreshing,
       Starting, Adding, Brought, Deleting, Closing, Upgrading, KitsInv
  <2>7. HandOK'
    BY <1>1, <1>2, <1>5, <2>3, <2>4, SwapFacts DEF HandOK, Brought
  <2>8. InHand' = InHand
    BY <1>1, <2>3, <2>4 DEF InHand, At
  <2>9. RowsHaveFiles' /\ PluginServed'
    BY <1>2, <2>8 DEF KitsInv, RowsHaveFiles, LinkOK, PluginServed
  <2>10. LinkOK'
    BY <1>1, <1>2, <2>3, <2>4, <2>9, SwapFacts DEF LinkOK, Linked
  <2> QED BY <2>4, <2>5, <2>6, <2>7, <2>9, <2>10 DEF KitsInv
<1> QED BY <1>3, <1>4, <1>5

LEMMA SwapRowKeeps ==
  ASSUME KitsInv, SwapRow
  PROVE  KitsInv'
<1> DEFINE r == job[Kitops].repo
           left == op.left \ {r}
<1>1. job[Kitops].at = "swapRow" /\ r \in Repo
  BY DEF SwapRow, At, KitsInv, OpOK, OnRepo
<1>2. UNCHANGED <<kits, files, uses, rows, oskit, made, stale, content, images,
                  lockFile, removable, link, nextKid, spoiled>>
  BY DEF SwapRow, kitVars, diskVars, runVars, linkVars
<1>3. CASE End /\ UNCHANGED has
  BY <1>1, <1>2, <1>3, SwapEnds
<1>4. CASE /\ r \in rows
           /\ has' = [has EXCEPT ![r] = (@ \ {op.old}) \cup {op.new}]
           /\ op' = [op EXCEPT !.left = left]
           /\ job' = [job EXCEPT ![Kitops] =
                IF left # {} THEN [@ EXCEPT !.at = "swapStale", !.repo = NoRepo]
                ELSE [@ EXCEPT !.at = Strategy(op.old), !.repo = NoRepo, !.kid = op.old]]
           /\ UNCHANGED locked
  <2>1. RowsTyped'
    BY <1>1, <1>2, <1>4, SwapFacts DEF KitsInv, RowsTyped
  <2>2. op' \in Request /\ op'.kind = op.kind /\ op'.old = op.old /\ op'.new = op.new
    BY <1>4 DEF KitsInv, OpTyped, Request
  <2>3. OpTyped' /\ NewKidOK'
    BY <1>2, <2>2 DEF KitsInv, OpTyped, NewKidOK
  <2>4. op.kind \in {"add", "native", "compat"} /\ op.kind # "none"
    BY <1>1, SwapFacts DEF Upgrading
  <2>5. CASE left # {}
    <3> DEFINE j == [job[Kitops] EXCEPT !.at = "swapStale", !.repo = NoRepo]
    <3>1. job' = [job EXCEPT ![Kitops] = j]
      BY <1>4, <2>5
    <3>2. /\ j \in AnyJob /\ j.at = "swapStale" /\ j.repo = NoRepo
          /\ j.kid = job[Kitops].kid /\ j.src = job[Kitops].src
      BY ZenonT(40), Places DEF KitsInv, JobsTyped, AnyJob, Place, KitopsPlace
    <3> HIDE DEF j
    <3>3. JobsTyped' /\ job'[Kitops] = j
      BY <3>1, <3>2, KitopsJobs DEF KitsInv
    <3>4. OpOK'
      BY <1>1, <1>2, <2>2, <2>4, <3>2, <3>3, SwapFacts, Places DEF OpOK, KitopsPlace, OnRepo,
         Refreshing, Starting, Adding, Brought, Deleting, Closing, Upgrading
    <3>5. HandOK'
      BY <1>1, <1>2, <3>2, <3>3, SwapFacts DEF HandOK, Brought
    <3>6. InHand' = InHand
      BY <1>1, <3>2, <3>3 DEF InHand, At
    <3>7. RowsHaveFiles' /\ PluginServed'
      BY <1>2, <3>6 DEF KitsInv, RowsHaveFiles, LinkOK, PluginServed
    <3>8. LinkOK'
      BY <1>1, <1>2, <3>2, <3>3, <3>7, SwapFacts DEF LinkOK, Linked
    <3> QED BY <2>1, <2>3, <3>3, <3>4, <3>5, <3>7, <3>8 DEF KitsInv
  <2>6. CASE left = {}
    <3> DEFINE j == [job[Kitops] EXCEPT !.at = Strategy(op.old), !.repo = NoRepo, !.kid = op.old]
    <3>1. job' = [job EXCEPT ![Kitops] = j]
      BY <1>4, <2>6
    <3>2. /\ Strategy(op.old) \in {"preun", "erase"} /\ op.old \in Kid
          /\ Strategy(op.old) = "preun" => op.old \in spoiled \/ (files[op.old] = Part /\ link # 0)
          /\ Strategy(op.old) = "erase" => op.old \in spoiled
      BY <1>1, SwapFacts, StrategyFine DEF Linked
    <3>3. /\ j \in AnyJob /\ j.at = Strategy(op.old) /\ j.repo = NoRepo
          /\ j.kid = op.old /\ j.src = job[Kitops].src
      BY ZenonT(40), <3>2, Places DEF KitsInv, JobsTyped, AnyJob, Place, KitopsPlace, Deleting
    <3> HIDE DEF j
    <3>4. JobsTyped' /\ job'[Kitops] = j
      BY <3>1, <3>3, KitopsJobs DEF KitsInv
    <3>5. OpOK'
      BY <1>1, <1>2, <2>2, <2>4, <3>2, <3>3, <3>4, SwapFacts, Places DEF OpOK, KitopsPlace, OnRepo,
         Refreshing, Starting, Adding, Brought, Deleting, Closing, Upgrading
    <3>6. HandOK'
      BY <1>2, <3>2, <3>3, <3>4 DEF HandOK, Brought
    <3>7. RowsHaveFiles' /\ PluginServed'
      BY <1>1, <1>2, SwapFacts, HandChanges DEF KitsInv, OpTyped, LinkOK
    <3>8. LinkOK'
      BY <1>2, <3>2, <3>3, <3>4, <3>7 DEF LinkOK, Linked
    <3> QED BY <2>1, <2>3, <3>4, <3>5, <3>6, <3>7, <3>8 DEF KitsInv
  <2> QED BY <2>5, <2>6
<1> QED BY <1>3, <1>4 DEF SwapRow

(* The end of an upgrade: no kit is in hand any more.                      *)
LEMMA ClosingGoesOn ==
  ASSUME KitsInv, job[Kitops].at \in Closing, NEW j \in AnyJob,
         job' = [job EXCEPT ![Kitops] = j], j.at \in Closing, j.kid = 0, j.src = NoRepo,
         j.at \in OnRepo <=> j.repo \in Repo, op' \in Request, op'.kind = op.kind,
         UNCHANGED <<kits, files, uses, reposVars, locked, history, linkVars, spoiled>>
  PROVE  KitsInv'
<1>1. /\ job[Kitops].kid = 0 /\ op.kind = "native"
  BY DEF KitsInv, OpOK
<1>2. UNCHANGED <<kits, files, uses, rows, oskit, has, made, stale, content, images,
                  locked, lockFile, removable, link, nextKid, spoiled>>
  BY DEF reposVars, rowVars, history, runVars, linkVars
<1>3. JobsTyped' /\ job'[Kitops] = j
  BY KitopsJobs DEF KitsInv
<1>4. OpTyped' /\ RowsTyped' /\ NewKidOK'
  BY <1>2 DEF KitsInv, OpTyped, RowsTyped, NewKidOK
<1>5. OpOK'
  BY <1>1, <1>3 DEF OpOK, KitopsPlace, OnRepo, Refreshing, Starting, Adding, Brought,
     Deleting, Closing
<1>6. InHand = {0} /\ InHand' = {0}
  BY <1>1, <1>3 DEF InHand, At, Closing, Refreshing
<1>7. HandOK'
  BY <1>3 DEF HandOK, Brought, Closing, Refreshing
<1>8. RowsHaveFiles' /\ PluginServed'
  BY <1>2, <1>6 DEF KitsInv, RowsHaveFiles, LinkOK, PluginServed
<1>9. LinkOK'
  BY <1>3, <1>8 DEF LinkOK, Linked, Closing, Refreshing
<1> QED BY <1>3, <1>4, <1>5, <1>7, <1>8, <1>9 DEF KitsInv

LEMMA ClosingEnds ==
  ASSUME KitsInv, job[Kitops].at \in Closing, End,
         UNCHANGED <<kits, files, uses, reposVars, history, linkVars, spoiled>>
  PROVE  KitsInv'
<1>1. UNCHANGED <<kits, files, uses, rows, oskit, has, made, stale, content, images,
                  lockFile, removable, link, nextKid, spoiled>>
  BY DEF reposVars, rowVars, history, runVars, linkVars
<1>2. job[Kitops].kid = 0 /\ 0 \notin Kid
  BY ReposAssumption DEF KitsInv, OpOK, Kid
<1>3. JobsTyped' /\ OpTyped' /\ OpOK' /\ NewKidOK' /\ HandOK' /\ RowsHaveFiles' /\ LinkOK'
  BY <1>1, <1>2, Ended DEF End, KitsInv, OpTyped
<1>4. RowsTyped'
  BY <1>1 DEF End, KitsInv, RowsTyped
<1> QED BY <1>3, <1>4 DEF KitsInv

LEMMA UpgradeEndsKeeps ==
  ASSUME KitsInv, UpgradeEnds
  PROVE  KitsInv'
<1>1. UNCHANGED <<kits, files, uses, reposVars, history, linkVars, spoiled>>
  BY DEF UpgradeEnds, kitVars
<1>2. job[Kitops].at \in {"refresh", "refreshed", "failed", "sync", "images", "record"}
  BY DEF UpgradeEnds, UpdateRepos, SynchronizeNodegroups, BuildImages,
     UpdateKusuVersion, At
<1>3. /\ job[Kitops].at \in Closing /\ job[Kitops].kid = 0 /\ job[Kitops].src = NoRepo
      /\ job[Kitops] \in AnyJob /\ DOMAIN job = Proc /\ Kitops \in Proc
      /\ job[Kitops].at \in OnRepo <=> job[Kitops].repo \in Repo
  BY <1>2, Places DEF Closing, KitsInv, OpOK, JobsTyped
<1>4. op \in Request
  BY DEF KitsInv, OpTyped
<1>5. CASE End
  BY <1>1, <1>3, <1>5, ClosingEnds
<1>6. ASSUME NEW r \in op.left, job[Kitops].at = "refresh", UNCHANGED <<op, locked>>,
             job' = [job EXCEPT ![Kitops].at = "clean", ![Kitops].repo = r]
      PROVE  KitsInv'
  <2> DEFINE j == [job[Kitops] EXCEPT !.at = "clean", !.repo = r]
  <2>1. job' = [job EXCEPT ![Kitops] = j]
    BY <1>3, <1>6
  <2>2. r \in Repo
    BY <1>4 DEF Request
  <2>3. /\ j \in AnyJob /\ j.at = "clean" /\ j.repo = r /\ j.kid = 0 /\ j.src = NoRepo
    BY <1>3, <2>2 DEF AnyJob, Place, KitopsPlace, Refreshing
  <2> HIDE DEF j
  <2>4. j.at \in Closing /\ (j.at \in OnRepo <=> j.repo \in Repo)
    BY <2>2, <2>3 DEF Closing, OnRepo, Refreshing
  <2> QED BY <1>1, <1>3, <1>4, <1>6, <2>1, <2>3, <2>4, ClosingGoesOn
<1>7. ASSUME NEW L \in SUBSET Repo, op' = [op EXCEPT !.left = L], UNCHANGED locked,
             job' = [job EXCEPT ![Kitops].repo = NoRepo,
                       ![Kitops].at = IF L = {} THEN "sync" ELSE "refresh"]
      PROVE  KitsInv'
  <2> DEFINE place == IF L = {} THEN "sync" ELSE "refresh"
             j == [job[Kitops] EXCEPT !.repo = NoRepo, !.at = place]
  <2>1. job' = [job EXCEPT ![Kitops] = j]
    BY <1>3, <1>7
  <2>2. place \in {"sync", "refresh"}
    OBVIOUS
  <2> HIDE DEF place
  <2>3. /\ j \in AnyJob /\ j.at = place /\ j.repo = NoRepo /\ j.kid = 0 /\ j.src = NoRepo
    BY ZenonT(40), <1>3, <2>2 DEF AnyJob, Place, KitopsPlace
  <2> HIDE DEF j
  <2>4. j.at \in Closing /\ (j.at \in OnRepo <=> j.repo \in Repo)
    BY <2>2, <2>3, Places DEF Closing, OnRepo, Refreshing
  <2>5. op' \in Request /\ op'.kind = op.kind
    BY <1>4, <1>7 DEF Request
  <2> QED BY <1>1, <1>3, <1>7, <2>1, <2>3, <2>4, <2>5, ClosingGoesOn
<1>8. ASSUME NEW place \in {"images", "record"}, Goto(Kitops, place),
             UNCHANGED <<op, locked>>, job[Kitops].at \in {"sync", "images"}
      PROVE  KitsInv'
  <2> DEFINE j == [job[Kitops] EXCEPT !.at = place]
  <2>1. job' = [job EXCEPT ![Kitops] = j]
    BY <1>3, <1>8 DEF Goto
  <2>2. /\ j \in AnyJob /\ j.at = place /\ j.repo = job[Kitops].repo
        /\ j.kid = 0 /\ j.src = NoRepo
    BY <1>3 DEF AnyJob, Place, KitopsPlace
  <2> HIDE DEF j
  <2>3. j.at \in Closing /\ (j.at \in OnRepo <=> j.repo \in Repo)
    BY <1>3, <1>8, <2>2 DEF Closing, OnRepo, Refreshing
  <2> QED BY <1>1, <1>3, <1>4, <1>8, <2>1, <2>2, <2>3, ClosingGoesOn
<1>9. CASE UpdateRepos
  <2>1. CASE At(Kitops, "refresh")
    BY <1>5, <1>6, <1>9, <2>1 DEF UpdateRepos, At
  <2>2. CASE At(Kitops, "refreshed")
    <3>1. op.left \ {job[Kitops].repo} \in SUBSET Repo
      BY <1>4 DEF Request
    <3> QED BY <1>5, <1>7, <1>9, <2>2, <3>1 DEF UpdateRepos, At
  <2> QED BY <1>5, <1>9, <2>1, <2>2 DEF UpdateRepos
<1>10. CASE SynchronizeNodegroups \/ BuildImages
  BY <1>5, <1>8, <1>10 DEF SynchronizeNodegroups, BuildImages, At
<1>11. CASE UpdateKusuVersion
  BY <1>5, <1>11 DEF UpdateKusuVersion
<1> QED BY <1>9, <1>10, <1>11 DEF UpgradeEnds

LEMMA KillKitopsKeeps ==
  ASSUME KitsInv, KillKitops
  PROVE  KitsInv'
<1> DEFINE k == job[Kitops].kid
           place == job[Kitops].at
<1>1. UNCHANGED <<kits, files, uses, rows, oskit, has, made, stale, content, images,
                  locked, lockFile, removable, link, nextKid>>
      /\ job' = [job EXCEPT ![Kitops] = Idle] /\ op' = NoOp
  BY DEF KillKitops, kitVars, reposVars, rowVars, runVars, linkVars
<1>2. RowsTyped'
  BY <1>1 DEF KitsInv, RowsTyped
<1>3. \/ spoiled' = spoiled /\ place \notin Adding \cup (Deleting \ {"preun", "unlink"})
      \/ spoiled' = spoiled \cup {k} /\ place \in Adding \cup Deleting
  BY DEF KillKitops
<1>4. ASSUME place \in Adding \cup Brought \cup Deleting
      PROVE  k \in DOMAIN kits /\ k \in Kid /\ k < nextKid
  BY <1>4 DEF KitsInv, OpOK, OpTyped, NewKidOK
<1>5. ASSUME k \in Kid \ spoiled' PROVE Settled(k)
  <2>1. place \in {"preun", "unlink"} \cup Linked
    <3>1. place \in KitopsPlace \cup {"idle"}
      BY DEF KitsInv, OpOK
    <3>2. place # "idle" /\ place \notin Starting \cup Closing
      BY <1>5, IdleTyped, ReposAssumption DEF KitsInv, OpOK, Kid, KillKitops
    <3> QED BY <1>3, <1>5, <3>1, <3>2 DEF KitopsPlace, Starting, Closing, Adding, Deleting, Linked
  <2>2. k \in DOMAIN kits
    BY <1>4, <2>1 DEF Linked, Brought, Deleting
  <2>3. k \notin spoiled
    BY <1>3, <1>5
  <2>4. files[k] = Part /\ link # 0
    BY <2>1, <2>3 DEF KitsInv, HandOK, LinkOK, Linked, Brought
  <2> QED BY <2>2, <2>4 DEF Settled
<1>6. JobsTyped' /\ OpTyped' /\ OpOK' /\ NewKidOK' /\ HandOK' /\ RowsHaveFiles' /\ LinkOK'
  <2>1. /\ spoiled \subseteq spoiled' /\ spoiled' \subseteq spoiled \cup {k}
        /\ spoiled' \subseteq Kid /\ (k \in spoiled' \ spoiled => k < nextKid)
    BY <1>3, <1>4 DEF KitsInv, OpTyped
  <2> QED BY <1>1, <1>5, <2>1, Ended
<1> QED BY <1>2, <1>6 DEF KitsInv

LEMMA RemoveLockKeeps ==
  ASSUME KitsInv, RemoveLock
  PROVE  KitsInv'
<1>1. UNCHANGED <<kits, files, uses, rows, oskit, has, made, stale, content, images, job,
                  lockFile, removable, link, nextKid, op, spoiled>> /\ locked' = FALSE
  BY DEF RemoveLock, kitVars, reposVars, rowVars, history, runVars, linkVars
<1>2. JobsTyped' /\ OpTyped' /\ RowsTyped'
  BY <1>1 DEF KitsInv, JobsTyped, ToolOK, OpTyped, RowsTyped
<1>3. OpOK' /\ NewKidOK' /\ HandOK'
  BY <1>1 DEF KitsInv, OpOK, NewKidOK, HandOK, Upgrading
<1>4. RowsHaveFiles' /\ LinkOK'
  BY <1>1 DEF KitsInv, RowsHaveFiles, LinkOK, PluginServed, InHand, At
<1> QED BY <1>2, <1>3, <1>4 DEF KitsInv

---------------------------------------------------------------------------
LEMMA FirstKits ==
  ASSUME NEW first \in Installed
  PROVE  /\ 1 \in DOMAIN first /\ DOMAIN first \subseteq Kid
         /\ \A k \in DOMAIN first : first[k] \in Media
         /\ Cardinality(DOMAIN first) + 1 \in 1..(MaxKid + 1)
         /\ \A k \in DOMAIN first : k < Cardinality(DOMAIN first) + 1
<1>1. /\ first \in [{1} -> Media] \cup [{1, 2} -> Media] /\ DOMAIN first \subseteq Kid
  BY KitOpsAssumption
<1>2. CASE first \in [{1} -> Media]
  <2>1. DOMAIN first = {1} /\ Cardinality({1}) = 1
    BY <1>2, FS_Singleton
  <2> QED BY <1>1, <1>2, <2>1, ReposAssumption DEF Kid
<1>3. CASE first \in [{1, 2} -> Media]
  <2>1. Cardinality({1} \cup {2}) = 2
    <3>1. IsFiniteSet({1}) /\ Cardinality({1}) = 1
      BY FS_Singleton
    <3>2. Cardinality({1} \cup {2}) = IF 2 \in {1} THEN Cardinality({1}) ELSE Cardinality({1}) + 1
      BY <3>1, FS_AddElement
    <3> QED BY <3>1, <3>2
  <2>2. DOMAIN first = {1, 2} /\ {1} \cup {2} = {1, 2}
    BY <1>3
  <2> QED BY <1>1, <1>3, <2>1, <2>2, ReposAssumption DEF Kid
<1> QED BY <1>1, <1>2, <1>3

LEMMA KitsInit ==
  ASSUME Init
  PROVE  KitsInv
<1>1. PICK first \in Installed :
    /\ kits = first
    /\ files = [k \in Kid |-> IF k \in DOMAIN first THEN Part ELSE {}]
    /\ rows = Existing /\ oskit = Existing
    /\ has = [r \in Repo |-> {k \in DOMAIN first :
                                r \in Existing /\ first[k].os = RepoOs[r]}]
    /\ uses = [g \in NodeGroup |-> has[NgRepo[g]]]
    /\ made = Existing
    /\ stale = {}
    /\ content = has
    /\ images = {RepoOs[r] : r \in Existing}
    /\ locked = FALSE /\ lockFile = FALSE
    /\ job = [p \in Proc |-> Idle]
    /\ runs = 0 /\ kills = 0 /\ unsure = {}
    /\ removable = {k \in DOMAIN first : first[k] \notin Fixed}
    /\ link = 1
    /\ nextKid = Cardinality(DOMAIN first) + 1
    /\ version = first[1].version
    /\ op = NoOp
    /\ spoiled = {}
  BY DEF Init
<1>2. /\ 1 \in DOMAIN kits /\ DOMAIN kits \subseteq Kid
      /\ \A k \in DOMAIN kits : kits[k] \in Media
      /\ nextKid \in 1..(MaxKid + 1) /\ \A k \in DOMAIN kits : k < nextKid
  BY <1>1, FirstKits
<1>3. JobsTyped
  BY <1>1, IdleTyped, Places DEF JobsTyped, ToolOK, RepoPlace, Refreshing
<1>4. job[Kitops] = Idle
  BY <1>1, Places
<1>5. OpTyped
  BY <1>1, <1>2, NoOpTyped DEF OpTyped
<1>6. RowsTyped
  <2>1. has \in [Repo -> SUBSET DOMAIN kits] /\ \A r \in Repo \ Existing : has[r] = {}
    BY <1>1
  <2>2. uses \in [NodeGroup -> SUBSET DOMAIN kits]
    BY <1>1, <2>1, ReposAssumption
  <2>3. images \subseteq OS
    BY <1>1, KitOpsAssumption, ReposAssumption
  <2> QED BY <1>1, <1>2, <2>1, <2>2, <2>3, KitOpsAssumption DEF RowsTyped
<1>7. OpOK
  BY <1>1, <1>4, IdleTyped, NoOpTyped, Places
     DEF OpOK, OnRepo, Refreshing, Starting, Adding, Brought, Deleting, Closing
<1>8. NewKidOK
  <2>1. \A k \in DOMAIN kits \cup spoiled \cup {link} : k < nextKid
    BY <1>1, <1>2
  <2>2. ASSUME NEW k \in Kid, k >= nextKid PROVE files[k] = {}
    <3>1. k \notin DOMAIN first
      BY <1>1, <1>2, <2>2 DEF Kid
    <3> QED BY <1>1, <3>1
  <2> QED BY <2>1, <2>2 DEF NewKidOK
<1>9. HandOK
  BY <1>4, IdleTyped DEF HandOK, Brought
<1>10. RowsHaveFiles
  BY <1>1 DEF RowsHaveFiles
<1>11. LinkOK
  BY <1>1, <1>2, <1>4, IdleTyped DEF LinkOK, Linked, PluginServed, Part
<1> QED BY <1>3, <1>5, <1>6, <1>7, <1>8, <1>9, <1>10, <1>11 DEF KitsInv

LEMMA KitsStep ==
  ASSUME KitsInv, [Next]_vars
  PROVE  KitsInv'
<1>1. CASE RepoNext
  <2>1. JobsTyped' /\ RowsTyped' /\ KitopsFrame
    BY <1>1, RepoTyped DEF KitsInv
  <2> QED BY <2>1, KitopsFramed DEF KitsInv
<1>2. CASE KitopsNext
  <2>1. ASSUME NEW m \in Media, job[Kitops].at = "idle", Add(m)
        PROVE  KitsInv'
    BY <2>1, AddKeeps
  <2>2. ASSUME NEW m \in Media, NEW k \in Kid, job[Kitops].at = "idle", Upgrade(k, m)
        PROVE  KitsInv'
    BY <2>2, UpgradeKeeps
  <2>3. ASSUME NEW k \in Kid, job[Kitops].at = "idle", Delete(k)
        PROVE  KitsInv'
    BY <2>3, DeleteKeeps
  <2>4. CASE RemoveFiles("rmtree", "postun") \/ RemoveFiles("erase", "flush")
    BY <2>4, RemoveFilesKeeps
  <2> QED BY <1>2, <2>1, <2>2, <2>3, <2>4, AddRowFlushedKeeps, CopyRpmsKeeps, MoveItemKeeps,
       InstallPluginsKeeps, UpdateComponentsKeeps, PostScriptKeeps, PreunScriptKeeps,
       UninstallPluginsKeeps, PostunScriptKeeps, FlushKeeps, AcquireGlobalLockKeeps,
       SwapStaleKeeps, SwapRowKeeps, UpgradeEndsKeeps, KillKitopsKeeps, RemoveLockKeeps
       DEF KitopsNext, At
<1>3. CASE UNCHANGED vars
  <2>1. UNCHANGED <<kits, files, uses, rows, oskit, has, made, stale, content, images, job,
                    locked, lockFile, removable, link, nextKid, op, spoiled>>
    BY <1>3 DEF vars, reposVars, rowVars, history, runVars, linkVars
  <2>2. JobsTyped' /\ OpTyped' /\ RowsTyped'
    BY <2>1 DEF KitsInv, JobsTyped, ToolOK, OpTyped, RowsTyped
  <2>3. OpOK' /\ NewKidOK' /\ HandOK'
    BY <2>1 DEF KitsInv, OpOK, NewKidOK, HandOK, Upgrading
  <2>4. RowsHaveFiles' /\ LinkOK'
    BY <2>1 DEF KitsInv, RowsHaveFiles, LinkOK, PluginServed, InHand, At
  <2> QED BY <2>2, <2>3, <2>4 DEF KitsInv
<1> QED BY <1>1, <1>2, <1>3 DEF Next

(* For any number of kits, repositories and tools, in whatever order steps *)
(* are taken, scripts fail and processes are killed, the database, the     *)
(* kits' directories, the plugin link and what kusu-kitops has in hand     *)
(* agree as KitsInv says.                                                  *)
THEOREM KitsCorrect == Spec => []KitsInv
<1>1. Init => KitsInv
  BY KitsInit
<1>2. KitsInv /\ [Next]_vars => KitsInv'
  BY KitsStep
<1> QED BY <1>1, <1>2, PTL DEF Spec

(* Rows, kits and directories are made of what they should be, and nothing *)
(* is used, in a repository or removable that is not installed.            *)
THEOREM KitOpsTypeOKHolds == Spec => []KitOpsTypeOK
<1>1. KitsInv => KitOpsTypeOK
  <2> SUFFICES ASSUME KitsInv PROVE KitOpsTypeOK
    OBVIOUS
  <2>1. ASSUME NEW t \in Tool
        PROVE  \/ job[t] \in {Idle, [Idle EXCEPT !.at = "parseArgs"],
                               [Idle EXCEPT !.at = "locked"]}
               \/ job[t].at \in RepoPlace /\ job[t].repo \in Repo
    <3>1. job[t] \in AnyJob /\ ToolOK(t)
      BY Places DEF KitsInv, JobsTyped
    <3>2. CASE job[t].at \in {"idle", "parseArgs", "locked"}
      <4>1. /\ job[t].kid = 0 /\ job[t].list = {} /\ job[t].repo = NoRepo
            /\ job[t].src = NoRepo
        BY <3>1, <3>2 DEF ToolOK, AnyJob, RepoPlace, Refreshing
      <4> QED BY <3>1, <3>2, <4>1 DEF AnyJob, Idle
    <3> QED BY <3>1, <3>2 DEF ToolOK
  <2>2. op.kind = "none" <=> job[Kitops] = Idle
    BY IdleTyped DEF KitsInv, OpOK
  <2>3. job[Kitops] = Idle \/ job[Kitops].at \in KitopsPlace
    BY DEF KitsInv, OpOK
  <2> QED BY <2>1, <2>2, <2>3 DEF KitsInv, OpTyped, RowsTyped, KitOpsTypeOK
<1> QED BY <1>1, KitsCorrect, PTL

(* A kit has a row and its whole directory, or neither, unless kusu-kitops *)
(* has it in hand or was cut short on it.                                  *)
THEOREM RowsHaveFilesHolds == Spec => []RowsHaveFiles
<1>1. KitsInv => RowsHaveFiles
  BY DEF KitsInv
<1> QED BY <1>1, KitsCorrect, PTL

(* While an installed kit has the plugin, the link leads to one.           *)
THEOREM PluginServedHolds == Spec => []PluginServed
<1>1. KitsInv => PluginServed
  BY DEF KitsInv, LinkOK
<1> QED BY <1>1, KitsCorrect, PTL

---------------------------------------------------------------------------
(* Repositories.  One is sure of a repository until two processes work on  *)
(* it at once or one is killed between two changes.                        *)

(* The upgrade of the native base kit excludes kusu-repoman.               *)
NativeAlone ==
  op.kind = "native" /\ job[Kitops].at # "lock" =>
    locked /\ \A t \in Tool : job[t] = Idle

(* A kit whose packages come or go is in no repository one is sure of.     *)
MotionOK == \A r \in Repo \ unsure : InMotion \cap has[r] = {}

NoDirectory == \A r \in Repo \ made : content[r] = {}

Rest(r) == content[r] \ spoiled = has[r] \ spoiled
RowsOK(r) == has[r] # {} => r \in oskit
Orderly(r) == (r \in rows <=> r \in made) /\ RowsOK(r) /\ (r \in stale \/ Rest(r))
Standing(r) == r \in rows /\ r \in made /\ RowsOK(r)

(* p makes r as the copy of another repository, which stays as it is, or   *)
(* is marked before an upgrade gives it other rows.                        *)
SourceOK(p, r) ==
  /\ job[p].src \in made /\ job[p].src # r
  /\ job[p].src \in stale \/ content[job[p].src] \ spoiled = has[r] \ spoiled
  /\ \A q \in Proc : job[q].repo = job[p].src => q = Kitops /\ job[q].at = "swapRow"

(* What is so of repository r while p works on it alone.                   *)
WorkOK(p, r) ==
  LET place == job[p].at IN
  /\ place \in {"clean", "addRow", "delStale", "rmtree", "refreshed", "failed"} =>
       Orderly(r)
  /\ place \in {"makeRepoDirs", "makedirs", "mkdir"} =>
       r \in rows /\ r \notin made /\ RowsOK(r) /\ content[r] = {}
  /\ place = "makedirs" => has[r] = {}
  /\ place \in {"touch", "copyTree"} => Standing(r) /\ content[r] = {} /\ r \notin stale
  /\ place \in {"list", "copy"} => Standing(r) /\ r \in stale /\ content[r] = {}
  /\ place = "copy" => job[p].list = has[r]
  /\ place \in {"image", "markClean"} => Standing(r) /\ r \in stale /\ Rest(r)
  /\ place = "addRow" => job[p].kid = 0 \/ r \in oskit
  /\ place = "addStale" => Standing(r)
  /\ place \in {"delStale", "delRow"} /\ job[p].kid = 0 => has[r] = {}
  /\ place = "delRow" => Standing(r) /\ r \in stale
  /\ place = "delRows" => r \notin made /\ KitRows(r) \subseteq job[p].list
  /\ place = "swapRow" => Standing(r) /\ r \in stale /\ r \in oskit
  /\ job[p].src # NoRepo => SourceOK(p, r)

RepoOK(r) ==
  /\ \A p, q \in Proc : job[p].repo = r /\ job[q].repo = r => p = q
  /\ Quiet(r) => Orderly(r)
  /\ \A p \in Proc : job[p].repo = r => WorkOK(p, r)

ReposInv == NativeAlone /\ MotionOK /\ NoDirectory /\ \A r \in Repo \ unsure : RepoOK(r)

(* Nothing changes about any repository but r0, nor the rows of the kits   *)
(* of one that one is sure of.                                             *)
Untouched(r0) ==
  \A r \in Repo : r # r0 =>
    /\ (r \in rows' <=> r \in rows) /\ (r \in made' <=> r \in made)
    /\ (r \in oskit' <=> r \in oskit) /\ (r \in stale' <=> r \in stale)
    /\ (r \notin unsure => has'[r] = has[r]) /\ content'[r] = content[r]

LEMMA Elsewhere ==
  ASSUME JobsTyped, NEW p \in Proc, NEW r0, \A q \in Proc : q # p => job'[q] = job[q],
         job[p].repo \in {r0, NoRepo}, job'[p].repo \in {r0, NoRepo}, Untouched(r0),
         spoiled \subseteq spoiled', NEW r \in Repo \ unsure, r # r0, RepoOK(r),
         \A q \in Proc : q # p /\ job[q].repo = r /\ job[q].src # NoRepo =>
           job[q].src # r0 \/ SourceOK(q, r)'
  PROVE  RepoOK(r)'
<1>1. \A q \in Proc : job'[q].repo = r => q # p /\ job'[q] = job[q] /\ job[q].repo = r
  BY Places
<1>2. Quiet(r)' => Quiet(r)
  BY Places DEF Quiet
<1>3. /\ (r \in rows' <=> r \in rows) /\ (r \in made' <=> r \in made)
      /\ (r \in oskit' <=> r \in oskit) /\ (r \in stale' <=> r \in stale)
      /\ has'[r] = has[r] /\ content'[r] = content[r]
  BY DEF Untouched
<1>4. Orderly(r) => Orderly(r)'
  BY <1>3 DEF Orderly, Rest, RowsOK
<1>5. ASSUME NEW q \in Proc, q # p, job[q].repo = r, job[q].src # NoRepo
      PROVE  SourceOK(q, r)'
  <2>1. SourceOK(q, r) /\ job'[q] = job[q]
    BY <1>5 DEF RepoOK, WorkOK
  <2>2. CASE job[q].src # r0
    <3>1. job[q].src \in Repo
      BY <1>5 DEF JobsTyped, AnyJob
    <3>2. \A x \in Proc : job'[x].repo = job[q].src => job'[x] = job[x]
      BY <2>2, <3>1, Places
    <3> QED BY <1>3, <2>1, <2>2, <3>1, <3>2 DEF SourceOK, Untouched
  <2> QED BY <1>5, <2>2
<1>6. ASSUME NEW q \in Proc, job'[q].repo = r PROVE WorkOK(q, r)'
  <2>1. q # p /\ job'[q] = job[q] /\ job[q].repo = r /\ WorkOK(q, r)
    BY <1>1, <1>6 DEF RepoOK
  <2>2. job'[q].src # NoRepo => SourceOK(q, r)'
    BY <1>5, <2>1
  <2> QED BY <1>3, <2>1, <2>2 DEF WorkOK, Orderly, Standing, Rest, RowsOK, KitRows
<1>7. \A x, q \in Proc : job'[x].repo = r /\ job'[q].repo = r => x = q
  BY <1>1 DEF RepoOK
<1>8. Quiet(r)' => Orderly(r)'
  BY <1>2, <1>4, Zenon DEF RepoOK
<1> QED BY <1>6, <1>7, <1>8 DEF RepoOK

(* Repository r after a step of p, the only one who works on it.           *)
Done(p, r) ==
  /\ job[p].repo = r => WorkOK(p, r)
  /\ job[p].repo # r => Orderly(r)

LEMMA Here ==
  ASSUME NEW p \in Proc, \A q \in Proc : q # p => job'[q] = job[q], NEW r \in Repo,
         \A q \in Proc : q # p => job[q].repo # r, Done(p, r)'
  PROVE  RepoOK(r)'
<1>1. \A q \in Proc : job'[q].repo = r => q = p
  OBVIOUS
<1>2. Quiet(r)' => job'[p].repo # r
  BY DEF Quiet
<1>3. Quiet(r)' => Orderly(r)'
  BY <1>2 DEF Done
<1>4. ASSUME NEW q \in Proc, job'[q].repo = r PROVE WorkOK(q, r)'
  BY <1>1, <1>4 DEF Done
<1> QED BY <1>1, <1>3, <1>4 DEF RepoOK

(* A step of p on a repository it has in work.                             *)
LEMMA Worked ==
  ASSUME JobsTyped, \A r \in Repo \ unsure : RepoOK(r),
         NEW p \in Proc, NEW r0 \in Repo, job[p].repo = r0,
         \A q \in Proc : q # p => job'[q] = job[q], job'[p].repo \in {r0, NoRepo},
         p # Kitops \/ \A t \in Tool : job[t] = Idle,
         Untouched(r0), spoiled \subseteq spoiled', unsure \subseteq unsure' \cup {r0},
         r0 \notin unsure' => (\A q \in Proc : q # p => job[q].repo # r0) /\ Done(p, r0)'
  PROVE  \A r \in Repo \ unsure' : RepoOK(r)'
<1> SUFFICES ASSUME NEW r \in Repo \ unsure' PROVE RepoOK(r)'
  OBVIOUS
<1>1. CASE r = r0
  BY <1>1, Here
<1>2. CASE r # r0
  <2>1. RepoOK(r)
    BY <1>2
  <2>2. ASSUME NEW q \in Proc, q # p, job[q].repo = r, job[q].src # NoRepo
        PROVE  job[q].src # r0
    <3>1. SourceOK(q, r)
      BY <2>1, <2>2 DEF RepoOK, WorkOK
    <3>2. CASE p # Kitops
      BY <3>1, <3>2 DEF SourceOK
    <3>3. CASE \A t \in Tool : job[t] = Idle
      <4>1. p = Kitops \/ job[p] = Idle
        BY <3>3, Places
      <4>2. p = Kitops
        BY <4>1, IdleTyped, Places
      <4> QED BY <2>2, <3>3, <4>2, IdleTyped, Places
    <3> QED BY <3>2, <3>3
  <2> QED BY <1>2, <2>1, <2>2, Elsewhere, Places
<1> QED BY <1>1, <1>2

(* Kits in motion, while only the rows of r0 change.                       *)
LEMMA MotionKept ==
  ASSUME MotionOK, NEW r0, \A r \in Repo \ unsure : r # r0 => has'[r] = has[r],
         InMotion' \subseteq InMotion, unsure \subseteq unsure' \cup {r0},
         r0 \in Repo \ unsure' => InMotion \cap has'[r0] = {}
  PROVE  MotionOK'
  BY DEF MotionOK

LEMMA InMotionSame ==
  ASSUME job'[Kitops] = job[Kitops]
  PROVE  InMotion' = InMotion
  BY DEF InMotion

LEMMA RefreshNoSource ==
  ASSUME JobsTyped, OpOK, NEW p \in Proc, Refresh(p)
  PROVE  job[p].src = NoRepo /\ job[p].repo \in Repo /\ job[p].at \in Refreshing
<1>1. job[p].at \in Refreshing
  BY DEF Refreshing, Refresh, Clean, MakeRepoDirs,
       MarkStale, ListKits, CopyKitsPackages, CopyKusuNodeInstaller, MarkClean, At
<1>2. CASE p \in Tool
  BY <1>1, <1>2, Places DEF JobsTyped, ToolOK, AnyJob, Refreshing, RepoPlace
<1>3. CASE p = Kitops
  BY <1>1, <1>3, Places DEF OpOK, OnRepo
<1> QED BY <1>1, <1>2, <1>3, Places

(* The packages of the kits of a repository one is sure of are there.      *)
LEMMA PackagesThere ==
  ASSUME KitsInv, MotionOK, NEW r \in Repo \ unsure, NEW k \in has[r] \ spoiled
  PROVE  "rpms" \in files[k]
<1>1. k \in DOMAIN kits /\ k \in Kid /\ k \notin InMotion
  BY DEF KitsInv, RowsTyped, OpTyped, MotionOK
<1>2. CASE k \notin InHand
  BY <1>1, <1>2 DEF KitsInv, RowsHaveFiles, Part
<1>3. CASE k \in InHand
  <2>1. job[Kitops].at # "idle" /\ k = job[Kitops].kid
    BY <1>3 DEF InHand, At
  <2>2. job[Kitops].at \in {"addMove"} \cup Brought
    <3>1. job[Kitops].at \in KitopsPlace
      BY <2>1 DEF KitsInv, OpOK
    <3>2. job[Kitops].at \notin Starting \cup Closing
      BY <1>1, <2>1, ReposAssumption DEF KitsInv, OpOK, Kid
    <3> QED BY <1>1, <2>1, <3>1, <3>2 DEF InMotion, KitopsPlace, Starting, Closing, Adding,
         Deleting, Brought
  <2> QED BY <2>1, <2>2 DEF KitsInv, HandOK, Part
<1> QED BY <1>2, <1>3

(* Where a refresh ends, well or badly.                                    *)
LEMMA RefreshEnds ==
  ASSUME JobsTyped, NEW p \in Proc, job[p].src = NoRepo, NEW r \in Repo,
         Refreshed(p) \/ Failed(p), Orderly(r)'
  PROVE  Done(p, r)'
<1>1. CASE p = Kitops
  <2>1. ASSUME NEW place \in RefreshEnd, Goto(p, place) PROVE Done(p, r)'
    <3>1. job'[p].at = place /\ job'[p].src = NoRepo
      BY <2>1, GotoJob DEF RefreshEnd, Place, KitopsPlace
    <3> QED BY <2>1, <3>1 DEF Done, WorkOK, RefreshEnd
  <2> QED BY <1>1, <2>1 DEF Refreshed, Failed, GoOn, RefreshEnd
<1>2. CASE p # Kitops
  <2>1. job'[p].repo = NoRepo
    BY <1>2, IdleJob, IdleTyped DEF Refreshed, Failed, GoOn, Exit
  <2> QED BY <2>1, Places DEF Done
<1> QED BY <1>1, <1>2

(* What a refresh says of the repository it works on.                      *)
LEMMA RefreshHere ==
  ASSUME KitsInv, MotionOK, NoDirectory, \A r \in Repo \ unsure : RepoOK(r),
         NEW p \in Proc, NEW r, r = job[p].repo, Refresh(p), r \notin unsure',
         UNCHANGED spoiled
  PROVE  /\ \A q \in Proc : q # p => job[q].repo # r
         /\ Done(p, r)'
<1>1. JobsTyped /\ OpOK /\ RowsTyped
  BY DEF KitsInv
<1>2. job[p].src = NoRepo /\ r \in Repo /\ job[p].at \in Refreshing
  BY <1>1, RefreshNoSource
<1>3. ASSUME r \notin unsure
      PROVE  /\ \A q \in Proc : q # p => job[q].repo # r
             /\ WorkOK(p, r)
  BY <1>2, <1>3 DEF RepoOK
<1>4. ASSUME NEW place \in Refreshing \ {"copy"}, Goto(p, place)
      PROVE  job'[p].at = place /\ job'[p].repo = r /\ job'[p].src = NoRepo
  BY <1>1, <1>2, <1>4, GotoJob DEF Place, KitopsPlace
<1>5. CASE Clean(p)
  <2>1. CASE r \in made
    <3>1. RemoveDirectory(p, r) /\ Goto(p, "makeRepoDirs") /\ UNCHANGED <<rows, oskit, has>>
      BY <1>5, <2>1 DEF Clean, rowVars
    <3>2. job'[p].at = "makeRepoDirs" /\ job'[p].repo = r /\ job'[p].src = NoRepo
      BY <1>4, <3>1 DEF Refreshing
    <3>3. /\ \A q \in Proc : q # p => job[q].repo # r
          /\ r \in rows /\ RowsOK(r)
      <4>1. CASE r \in unsure
        <5>1. Others(p, r) = {} /\ r \in rows /\ (has[r] # {} => r \in oskit)
          BY <3>1, <4>1 DEF RemoveDirectory
        <5> QED BY <5>1 DEF Others, RowsOK
      <4>2. CASE r \notin unsure
        <5>1. Orderly(r)
          BY <1>3, <1>5, <4>2 DEF WorkOK, Clean, At
        <5> QED BY <1>3, <2>1, <4>2, <5>1 DEF Orderly
      <4> QED BY <4>1, <4>2
    <3>4. r \notin made' /\ content'[r] = {}
      BY <1>1, <1>2, <3>1 DEF RemoveDirectory, RowsTyped
    <3>5. Done(p, r)'
      BY <3>1, <3>2, <3>3, <3>4 DEF Done, WorkOK, RowsOK
    <3> QED BY <3>3, <3>5
  <2>2. CASE r \notin made
    <3>1. Failed(p) /\ UNCHANGED <<rows, oskit, has, made, stale, content, unsure>>
      BY <1>5, <2>2 DEF Clean, rowVars, diskVars
    <3>2. Orderly(r)
      BY <1>3, <1>5, <3>1 DEF WorkOK, Clean, At
    <3>3. Orderly(r)'
      BY <3>1, <3>2 DEF Orderly, RowsOK, Rest
    <3> QED BY <1>1, <1>2, <1>3, <3>1, <3>3, RefreshEnds
  <2> QED BY <2>1, <2>2
<1>6. CASE ~Clean(p)
  <2>1. unsure' = unsure
    BY <1>6 DEF Refresh, MakeRepoDirs, MarkStale, ListKits,
       CopyKitsPackages, CopyKusuNodeInstaller, MarkClean
  <2>2. WorkOK(p, r) /\ r \notin unsure /\ \A q \in Proc : q # p => job[q].repo # r
    BY <1>3, <2>1
  <2>3. CASE MakeRepoDirs(p)
    <3>1. /\ job[p].at = "makeRepoDirs" /\ made' = made \cup {r} /\ Goto(p, "touch")
          /\ UNCHANGED <<rows, oskit, has, stale, content>>
      BY <2>3 DEF MakeRepoDirs, At, rowVars
    <3>2. job'[p].at = "touch" /\ job'[p].repo = r /\ job'[p].src = NoRepo
      BY <1>4, <3>1 DEF Refreshing
    <3>3. r \in rows /\ r \notin made /\ RowsOK(r) /\ content[r] = {} /\ r \notin stale
      BY <1>1, <2>2, <3>1 DEF WorkOK, RowsTyped
    <3>4. Done(p, r)'
      BY <3>1, <3>2, <3>3 DEF Done, WorkOK, Standing, RowsOK
    <3> QED BY <2>2, <3>4
  <2>4. CASE MarkStale(p)
    <3>1. /\ job[p].at = "touch" /\ UNCHANGED <<rows, oskit, has, made, content>>
      BY <2>4 DEF MarkStale, At, rowVars
    <3>2. Standing(r) /\ content[r] = {}
      BY <2>2, <3>1 DEF WorkOK
    <3>3. stale' = stale \cup {r} /\ Goto(p, "list")
      BY <2>4, <3>2 DEF MarkStale, Standing
    <3>4. job'[p].at = "list" /\ job'[p].repo = r /\ job'[p].src = NoRepo
      BY <1>4, <3>3 DEF Refreshing
    <3>5. Done(p, r)'
      BY <3>1, <3>2, <3>3, <3>4 DEF Done, WorkOK, Standing, RowsOK
    <3> QED BY <2>2, <3>5
  <2>5. CASE ListKits(p)
    <3>1. /\ job[p].at = "list" /\ UNCHANGED <<rows, oskit, has, made, stale, content>>
          /\ job' = [job EXCEPT ![p].at = "copy", ![p].list = has[job[p].repo]]
      BY <2>5 DEF ListKits, At, rowVars, diskVars
    <3>2. Standing(r) /\ r \in stale /\ content[r] = {}
      BY <2>2, <3>1 DEF WorkOK
    <3>3. job[p] \in AnyJob /\ DOMAIN job = Proc
      BY <1>1 DEF JobsTyped
    <3>4. /\ job'[p].at = "copy" /\ job'[p].repo = r /\ job'[p].src = NoRepo
          /\ job'[p].list = has[r]
      BY <1>2, <3>1, <3>3 DEF AnyJob
    <3>5. Done(p, r)'
      BY <3>1, <3>2, <3>4 DEF Done, WorkOK, Standing, RowsOK
    <3> QED BY <2>2, <3>5
  <2>6. CASE CopyKitsPackages(p)
    <3>1. job[p].at = "copy" /\ UNCHANGED <<rows, oskit, has, made, stale, files>>
      BY <2>6 DEF CopyKitsPackages, At, rowVars, kitVars
    <3>2. Standing(r) /\ r \in stale /\ content[r] = {} /\ job[p].list = has[r]
      BY <2>2, <3>1 DEF WorkOK
    <3>3. CASE Goto(p, "image") /\ content' = [content EXCEPT ![r] =
                  content[r] \cup {k \in job[p].list : "rpms" \in files[k]}]
      <4>1. job'[p].at = "image" /\ job'[p].repo = r /\ job'[p].src = NoRepo
        BY <1>4, <3>3 DEF Refreshing
      <4>2. content'[r] = {k \in has[r] : "rpms" \in files[k]}
        BY <1>1, <1>2, <3>2, <3>3 DEF RowsTyped
      <4>3. \A k \in has[r] \ spoiled : "rpms" \in files[k]
        BY <1>2, <2>2, PackagesThere
      <4>4. Rest(r)'
        BY <3>1, <4>2, <4>3 DEF Rest
      <4>5. Done(p, r)'
        BY <3>1, <3>2, <4>1, <4>4 DEF Done, WorkOK, Standing, RowsOK
      <4> QED BY <2>2, <4>5
    <3>4. CASE Failed(p) /\ UNCHANGED content
      <4>1. Orderly(r)'
        BY <3>1, <3>2, <3>4 DEF Orderly, Standing, RowsOK
      <4> QED BY <1>1, <1>2, <2>2, <3>4, <4>1, RefreshEnds
    <3> QED BY <2>6, <3>3, <3>4 DEF CopyKitsPackages
  <2>7. CASE CopyKusuNodeInstaller(p)
    <3>1. job[p].at = "image" /\ UNCHANGED <<rows, oskit, has, made, stale, content>>
      BY <2>7 DEF CopyKusuNodeInstaller, At, rowVars
    <3>2. Standing(r) /\ r \in stale /\ Rest(r)
      BY <2>2, <3>1 DEF WorkOK
    <3>3. CASE Goto(p, "markClean")
      <4>1. job'[p].at = "markClean" /\ job'[p].repo = r /\ job'[p].src = NoRepo
        BY <1>4, <3>3 DEF Refreshing
      <4>2. Done(p, r)'
        BY <3>1, <3>2, <4>1 DEF Done, WorkOK, Standing, RowsOK, Rest
      <4> QED BY <2>2, <4>2
    <3>4. CASE Failed(p)
      <4>1. Orderly(r)'
        BY <3>1, <3>2, <3>4 DEF Orderly, Standing, RowsOK
      <4> QED BY <1>1, <1>2, <2>2, <3>4, <4>1, RefreshEnds
    <3> QED BY <2>7, <3>3, <3>4 DEF CopyKusuNodeInstaller
  <2>8. CASE MarkClean(p)
    <3>1. /\ job[p].at = "markClean" /\ UNCHANGED <<rows, oskit, has, made, content>>
          /\ Refreshed(p)
      BY <2>8 DEF MarkClean, At, rowVars
    <3>2. Standing(r) /\ Rest(r)
      BY <2>2, <3>1 DEF WorkOK
    <3>3. Orderly(r)'
      BY <3>1, <3>2 DEF Orderly, Standing, RowsOK, Rest
    <3> QED BY <1>1, <1>2, <2>2, <3>1, <3>3, RefreshEnds
  <2> QED BY <1>6, <2>3, <2>4, <2>5, <2>6, <2>7, <2>8 DEF Refresh
<1> QED BY <1>5, <1>6

(* A refresh leaves the rows, and the other repositories, as they are.     *)
LEMMA RefreshData ==
  ASSUME JobsTyped, RowsTyped, NoDirectory, NEW p \in Proc, NEW r \in Repo,
         r = job[p].repo, Refresh(p)
  PROVE  /\ Untouched(r) /\ UNCHANGED <<has, locked>> /\ NoDirectory'
         /\ unsure \subseteq unsure' \cup {r} /\ unsure' \subseteq unsure
<1> USE DEF RowsTyped, Untouched, NoDirectory, kitVars, rowVars, diskVars, lockVars
<1>1. CASE Clean(p)
  BY <1>1 DEF Clean, RemoveDirectory
<1>2. CASE MakeRepoDirs(p)
  BY <1>2 DEF MakeRepoDirs
<1>3. CASE MarkStale(p)
  BY <1>3 DEF MarkStale
<1>4. CASE ListKits(p)
  BY <1>4 DEF ListKits
<1>5. CASE CopyKitsPackages(p)
  BY <1>5 DEF CopyKitsPackages
<1>6. CASE CopyKusuNodeInstaller(p)
  BY <1>6 DEF CopyKusuNodeInstaller
<1>7. CASE MarkClean(p)
  BY <1>7 DEF MarkClean
<1> QED BY <1>1, <1>2, <1>3, <1>4, <1>5, <1>6, <1>7 DEF Refresh

LEMMA RefreshRepos ==
  ASSUME KitsInv, ReposInv, NEW p \in Proc, Refresh(p), UNCHANGED <<op, spoiled>>
  PROVE  ReposInv'
<1>1. JobsTyped /\ OpOK /\ RowsTyped /\ OpTyped
  BY DEF KitsInv
<1>2. NativeAlone /\ MotionOK /\ NoDirectory /\ \A r \in Repo \ unsure : RepoOK(r)
  BY DEF ReposInv
<1>3. PICK r \in Repo : r = job[p].repo
  BY <1>1, RefreshNoSource
<1>4. job[p].at \in Refreshing
  BY <1>1, RefreshNoSource
<1>5. /\ \A q \in Proc : q # p => job'[q] = job[q]
      /\ \/ p # Kitops /\ job'[p] = Idle
         \/ /\ job'[p].at \in Refreshing \cup RefreshEnd
            /\ job'[p].repo = job[p].repo
  BY <1>1, <1>3, RefreshJob
<1>6. job'[p].repo \in {r, NoRepo}
  BY <1>3, <1>5, IdleTyped
<1>7. /\ Untouched(r) /\ UNCHANGED <<has, locked>> /\ NoDirectory'
      /\ unsure \subseteq unsure' \cup {r} /\ unsure' \subseteq unsure
  BY <1>1, <1>2, <1>3, RefreshData
<1>8. p # Kitops \/ \A t \in Tool : job[t] = Idle
  BY <1>1, <1>2, <1>4 DEF NativeAlone, OpOK, Closing, Refreshing
<1>9. \A x \in Repo \ unsure' : RepoOK(x)'
  <2>1. r \notin unsure' => (\A q \in Proc : q # p => job[q].repo # r) /\ Done(p, r)'
    BY <1>2, <1>3, RefreshHere
  <2> QED BY <1>1, <1>2, <1>3, <1>5, <1>6, <1>7, <1>8, <2>1, Worked
<1>10. NativeAlone'
  <2>1. CASE p = Kitops
    <3>1. locked' = locked /\ \A t \in Tool : job'[t] = job[t]
      BY <1>5, <1>7, <2>1, Places
    <3>2. job[Kitops].at # "lock"
      BY <1>4, <2>1 DEF Refreshing
    <3> QED BY <1>2, <3>1, <3>2 DEF NativeAlone
  <2>2. CASE p # Kitops
    <3>1. job'[Kitops] = job[Kitops] /\ p \in Tool /\ job[p] # Idle
      BY <1>4, <1>5, <2>2, Places, IdleTyped DEF Refreshing
    <3> QED BY <1>2, <3>1 DEF NativeAlone
  <2> QED BY <2>1, <2>2
<1>11. MotionOK'
  <2>1. InMotion' \subseteq InMotion
    <3>1. CASE p = Kitops
      BY <1>5, <3>1 DEF InMotion, Refreshing, RefreshEnd
    <3>2. CASE p # Kitops
      BY <1>5, <3>2, Places, InMotionSame
    <3> QED BY <3>1, <3>2
  <2>2. r \notin unsure' => InMotion' \cap has[r] = {}
    <3>1. CASE r \notin unsure
      BY <1>2, <2>1, <3>1 DEF MotionOK
    <3>2. CASE r \in unsure /\ r \notin unsure'
      <4>1. Clean(p) /\ r \in made
        BY <1>3, <3>2 DEF Refresh, Clean, MakeRepoDirs, MarkStale, ListKits,
           CopyKitsPackages, CopyKusuNodeInstaller, MarkClean
      <4>2. Others(p, r) = {}
        BY <1>3, <3>2, <4>1 DEF Clean, RemoveDirectory
      <4>3. p # Kitops => InMotion \cap has[r] = {}
        BY <4>2, Places DEF Others
      <4>4. p = Kitops => InMotion = {}
        BY <1>4 DEF InMotion, Refreshing
      <4> QED BY <2>1, <4>3, <4>4
    <3> QED BY <3>1, <3>2
  <2> QED BY <1>2, <1>7, <2>1, <2>2 DEF MotionOK
<1> QED BY <1>7, <1>9, <1>10, <1>11 DEF ReposInv

(* The steps of a run of kusu-repoman that knows what to do.               *)
Working(t) ==
  \/ AddRow(t) \/ AddStale(t) \/ DelStale(t) \/ DelRow(t) \/ MakeDirs(t)
  \/ RmTree(t) \/ DelRows(t) \/ MkDir(t) \/ CopyTree(t)

LEMMA WorkingAt ==
  ASSUME JobsTyped, NEW t \in Tool, Working(t)
  PROVE  /\ job[t].at \in RepoPlace \ Refreshing /\ job[t].repo \in Repo
         /\ job[t].src # NoRepo <=> job[t].at \in {"mkdir", "copyTree"}
         /\ job[t] \in AnyJob /\ t \in Proc /\ t # Kitops /\ ToolOK(t)
<1>1. job[t].at \in RepoPlace \ Refreshing
  BY DEF Working, AddRow, AddStale, DelStale, DelRow, MakeDirs, RmTree, DelRows, MkDir,
     CopyTree, At, RepoPlace, Refreshing
<1>2. ToolOK(t) /\ t \in Proc /\ job[t] \in AnyJob
  BY Places DEF JobsTyped
<1> QED BY <1>1, <1>2, Places DEF ToolOK, AnyJob

LEMMA WorkingData ==
  ASSUME OpTyped, RowsTyped, NoDirectory, JobsTyped, NEW t \in Tool, Working(t),
         NEW r \in Repo, r = job[t].repo
  PROVE  /\ Untouched(r) /\ NoDirectory' /\ UNCHANGED locked
         /\ unsure \subseteq unsure' \cup {r}
<1> USE DEF NoDirectory, kitVars, rowVars, diskVars, lockVars
<1>1. CASE AddRow(t)
  <2>1. Untouched(r)
    <3>1. CASE SetKits(r, KitRows(r) \cup {job[t].kid})
      BY <1>1, <3>1 DEF AddRow, Untouched, SetKits, RowsTyped
    <3>2. CASE UNCHANGED <<oskit, has>>
      BY <1>1, <3>2 DEF AddRow, Untouched
    <3> QED BY <1>1, <3>1, <3>2 DEF AddRow
  <2> QED BY <1>1, <2>1 DEF AddRow
<1>2. CASE AddStale(t) \/ DelStale(t) \/ MakeDirs(t) \/ MkDir(t)
  BY <1>2 DEF AddStale, DelStale, MakeDirs, MkDir, Untouched
<1>3. CASE DelRow(t)
  BY <1>3 DEF DelRow, Untouched, SetKits, RowsTyped
<1>4. CASE RmTree(t)
  BY <1>4 DEF RmTree, RemoveDirectory, Untouched, RowsTyped
<1>5. CASE DelRows(t)
  <2>1. ASSUME NEW k, SetKits(r, KitRows(r) \ {k}), UNCHANGED rows
        PROVE  Untouched(r)
    BY <1>5, <2>1 DEF DelRows, Untouched, SetKits, RowsTyped
  <2>2. CASE UNCHANGED <<oskit, has>>
    BY <1>5, <2>2 DEF DelRows, Untouched
  <2> QED BY <1>5, <2>1, <2>2 DEF DelRows
<1>6. CASE CopyTree(t)
  BY <1>6 DEF CopyTree, Untouched, RowsTyped
<1> QED BY <1>1, <1>2, <1>3, <1>4, <1>5, <1>6 DEF Working

(* What kusu-repoman says of the repository it works on.                   *)
LEMMA WorkingHere ==
  ASSUME KitsInv, NoDirectory, \A r \in Repo \ unsure : RepoOK(r),
         NEW t \in Tool, NEW r, r = job[t].repo, Working(t), r \notin unsure',
         UNCHANGED spoiled
  PROVE  /\ \A q \in Proc : q # t => job[q].repo # r
         /\ Done(t, r)'
<1>1. JobsTyped /\ OpTyped /\ RowsTyped
  BY DEF KitsInv
<1>2. /\ r \in Repo /\ t \in Proc /\ job[t] \in AnyJob /\ DOMAIN job = Proc
      /\ job[t].src # NoRepo <=> job[t].at \in {"mkdir", "copyTree"}
  BY <1>1, WorkingAt DEF JobsTyped
<1>3. ASSUME r \notin unsure
      PROVE  /\ \A q \in Proc : q # t => job[q].repo # r
             /\ WorkOK(t, r)
  BY <1>2, <1>3 DEF RepoOK
<1>4. ASSUME Exit(t), Orderly(r)' PROVE Done(t, r)'
  <2>1. job'[t].repo = NoRepo
    BY <1>1, <1>2, <1>4, IdleJob, IdleTyped DEF Exit
  <2> QED BY <1>2, <1>4, <2>1, Places DEF Done
<1>5. ASSUME NEW place \in RepoPlace \ {"copy"}, Goto(t, place)
      PROVE  /\ job'[t].at = place /\ job'[t].repo = r /\ job'[t].src = job[t].src
             /\ job'[t].kid = job[t].kid
  BY <1>1, <1>2, <1>5, GotoJob DEF Place
<1>6. CASE RmTree(t)
  <2>1. /\ \A q \in Proc : q # t => job[q].repo # r
    <3>1. CASE r \in unsure
      BY <1>6, <3>1 DEF RmTree, RemoveDirectory, Others
    <3> QED BY <1>3, <3>1
  <2>2. job' = [job EXCEPT ![t].at = "delRows", ![t].list = KitRows(r)] /\ job[t].at = "rmtree"
    BY <1>6 DEF RmTree, At
  <2>3. /\ job'[t].at = "delRows" /\ job'[t].src = NoRepo
        /\ job'[t].list = KitRows(r)
    BY <1>2, <2>2 DEF AnyJob
  <2>4. r \notin made' /\ KitRows(r)' = KitRows(r)
    BY <1>6 DEF RmTree, RemoveDirectory, KitRows, rowVars
  <2>5. WorkOK(t, r)'
    BY <2>3, <2>4 DEF WorkOK
  <2>6. job'[t].repo = r
    BY <1>2, <2>2 DEF AnyJob
  <2> QED BY <2>1, <2>5, <2>6 DEF Done
<1>7. CASE ~RmTree(t)
  <2>1. r \notin unsure
    BY <1>7 DEF Working, AddRow, AddStale, DelStale, DelRow, MakeDirs, DelRows, MkDir, CopyTree
  <2>2. WorkOK(t, r) /\ \A q \in Proc : q # t => job[q].repo # r
    BY <1>3, <2>1
  <2>3. CASE AddRow(t)
    <3>1. job[t].at = "addRow" /\ UNCHANGED <<rows, made, stale, content>>
      BY <2>3 DEF AddRow, At, diskVars
    <3>2. Orderly(r) /\ (job[t].kid = 0 \/ r \in oskit)
      BY <2>2, <3>1 DEF WorkOK
    <3>3. CASE /\ r \in rows /\ SetKits(r, KitRows(r) \cup {job[t].kid})
               /\ KitRows(r) \cup {job[t].kid} \subseteq DOMAIN kits \cup {0}
               /\ Goto(t, "addStale")
      <4>1. job'[t].at = "addStale" /\ job'[t].src = NoRepo
        BY <1>2, <1>5, <3>1, <3>3 DEF RepoPlace, Refreshing
      <4>2. r \in oskit'
            \/ (0 \notin KitRows(r) /\ r \notin oskit /\ job[t].kid # 0)
        BY <1>1, <1>2, <3>3, SetKitsRows, KitRowsTyped
      <4>3. Standing(r)'
        BY <3>1, <3>2, <3>3, <4>2 DEF Standing, Orderly, RowsOK
      <4>4. job'[t].repo = r
        BY <1>5, <3>3 DEF RepoPlace, Refreshing
      <4>5. Done(t, r)'
        BY <4>1, <4>3, <4>4 DEF Done, WorkOK
      <4> QED BY <2>2, <4>5
    <3>4. CASE Exit(t) /\ UNCHANGED <<oskit, has>>
      <4>1. Orderly(r)'
        BY <3>1, <3>2, <3>4 DEF Orderly, RowsOK, Rest
      <4> QED BY <1>4, <2>2, <3>4, <4>1
    <3>5. KitRows(r) \subseteq DOMAIN kits \cup {0}
      BY <1>1, <1>2, KitRowsTyped
    <3> QED BY <2>3, <3>3, <3>4, <3>5 DEF AddRow, OsKit
  <2>4. CASE AddStale(t)
    <3>1. /\ job[t].at = "addStale" /\ UNCHANGED <<rows, oskit, has, made, content>>
          /\ stale' = stale \cup ({r} \cap made) /\ Exit(t)
      BY <2>4 DEF AddStale, At, rowVars
    <3>2. Standing(r)
      BY <2>2, <3>1 DEF WorkOK
    <3>3. Orderly(r)'
      BY <3>1, <3>2 DEF Orderly, RowsOK, Standing
    <3> QED BY <1>4, <2>2, <3>1, <3>3
  <2>5. CASE DelStale(t)
    <3>1. job[t].at = "delStale" /\ UNCHANGED <<rows, oskit, has, made, content>>
      BY <2>5 DEF DelStale, At, rowVars
    <3>2. Orderly(r) /\ (job[t].kid = 0 => has[r] = {})
      BY <2>2, <3>1 DEF WorkOK
    <3>3. CASE r \in made /\ stale' = stale \cup {r} /\ Goto(t, "delRow")
      <4>1. /\ job'[t].at = "delRow" /\ job'[t].src = NoRepo /\ job'[t].repo = r
            /\ job'[t].kid = job[t].kid
        BY <1>2, <1>5, <3>1, <3>3 DEF RepoPlace, Refreshing
      <4>2. Done(t, r)'
        BY <3>1, <3>2, <3>3, <4>1 DEF Done, WorkOK, Standing, Orderly, RowsOK
      <4> QED BY <2>2, <4>2
    <3>4. CASE Exit(t) /\ UNCHANGED stale
      <4>1. Orderly(r)'
        BY <3>1, <3>2, <3>4 DEF Orderly, RowsOK, Rest
      <4> QED BY <1>4, <2>2, <3>4, <4>1
    <3> QED BY <2>5, <3>3, <3>4 DEF DelStale
  <2>6. CASE DelRow(t)
    <3>1. /\ job[t].at = "delRow" /\ UNCHANGED <<rows, made, stale, content>> /\ Exit(t)
          /\ SetKits(r, KitRows(r) \ {job[t].kid})
      BY <2>6 DEF DelRow, At, diskVars
    <3>2. Standing(r) /\ r \in stale /\ (job[t].kid = 0 => has[r] = {})
      BY <2>2, <3>1 DEF WorkOK
    <3>3. KitRows(r) \ {job[t].kid} \subseteq DOMAIN kits \cup {0} /\ KitRows(r) \ {0} = has[r]
          /\ (0 \in KitRows(r) <=> r \in oskit)
      BY <1>1, <1>2, KitRowsTyped
    <3>4. /\ has'[r] = (KitRows(r) \ {job[t].kid}) \ {0}
          /\ (r \in oskit' <=> 0 \in KitRows(r) \ {job[t].kid})
      BY <1>1, <1>2, <3>1, <3>3, SetKitsRows
    <3>5. RowsOK(r)'
      BY <3>2, <3>3, <3>4 DEF RowsOK, Standing
    <3>6. Orderly(r)'
      BY <3>1, <3>2, <3>5 DEF Orderly, Standing
    <3> QED BY <1>4, <2>2, <3>1, <3>6
  <2>7. CASE MakeDirs(t)
    <3>1. /\ job[t].at = "makedirs" /\ UNCHANGED <<rows, oskit, has, stale, content>>
          /\ made' = made \cup {r} /\ Exit(t)
      BY <2>7 DEF MakeDirs, At, rowVars
    <3>2. r \in rows /\ has[r] = {} /\ content[r] = {}
      BY <2>2, <3>1 DEF WorkOK
    <3>3. Orderly(r)'
      BY <3>1, <3>2 DEF Orderly, RowsOK, Rest
    <3> QED BY <1>4, <2>2, <3>1, <3>3
  <2>8. CASE DelRows(t)
    <3>1. job[t].at = "delRows" /\ UNCHANGED <<made, stale, content>>
      BY <2>8 DEF DelRows, At, diskVars
    <3>2. r \notin made /\ KitRows(r) \subseteq job[t].list
      BY <2>2, <3>1 DEF WorkOK
    <3>3. ASSUME NEW k, SetKits(r, KitRows(r) \ {k}),
                 job' = [job EXCEPT ![t].list = @ \ {k}]
          PROVE  Done(t, r)'
      <4>1. /\ job'[t].at = "delRows" /\ job'[t].src = NoRepo
            /\ job'[t].list = job[t].list \ {k}
        BY <1>2, <3>1, <3>3 DEF AnyJob
      <4>2. KitRows(r) \ {k} \subseteq DOMAIN kits \cup {0}
        BY <1>1, <1>2, KitRowsTyped
      <4>3. /\ has'[r] = (KitRows(r) \ {k}) \ {0}
            /\ (r \in oskit' <=> 0 \in KitRows(r) \ {k})
        BY <1>1, <1>2, <3>3, <4>2, SetKitsRows
      <4>4. KitRows(r)' \subseteq KitRows(r) \ {k}
        BY <4>3 DEF KitRows, OsKit
      <4>5. WorkOK(t, r)'
        BY <3>1, <3>2, <4>1, <4>4 DEF WorkOK
      <4>6. job'[t].repo = r
        BY <1>2, <3>3 DEF AnyJob
      <4> QED BY <4>5, <4>6 DEF Done
    <3>4. CASE /\ job[t].list = {} /\ rows' = IF KitRows(r) = {} THEN rows \ {r} ELSE rows
               /\ Exit(t) /\ UNCHANGED <<oskit, has>>
      <4>1. KitRows(r) = {} /\ r \notin rows'
        BY <3>2, <3>4
      <4>2. has[r] = {} /\ content[r] = {}
        BY <1>1, <1>2, <3>2, <4>1, KitRowsTyped DEF NoDirectory
      <4>3. Orderly(r)'
        BY <3>1, <3>2, <3>4, <4>1, <4>2 DEF Orderly, RowsOK, Rest
      <4> QED BY <1>4, <2>2, <3>4, <4>3
    <3> QED BY <2>2, <2>8, <3>3, <3>4 DEF DelRows
  <2>9. CASE MkDir(t)
    <3>1. job[t].at = "mkdir" /\ UNCHANGED <<rows, oskit, has, stale, content>>
      BY <2>9 DEF MkDir, At, rowVars
    <3>2. r \in rows /\ r \notin made /\ RowsOK(r) /\ content[r] = {} /\ SourceOK(t, r)
      BY <1>2, <2>2, <3>1 DEF WorkOK
    <3>3. made' = made \cup {r} /\ Goto(t, "copyTree")
      BY <2>9, <3>2 DEF MkDir, SourceOK
    <3>4. /\ job'[t].at = "copyTree" /\ job'[t].repo = r /\ job'[t].src = job[t].src
      BY <1>5, <3>3 DEF RepoPlace, Refreshing
    <3>5. r \notin stale
      BY <1>1, <3>2 DEF RowsTyped
    <3>6. \A q \in Proc : q # t => job'[q] = job[q]
      BY <1>1, <3>3, GotoJob, Places DEF Place, RepoPlace
    <3>7. SourceOK(t, r)'
      BY <1>2, <3>1, <3>2, <3>3, <3>4, <3>6, Places DEF SourceOK
    <3>8. Done(t, r)'
      BY <3>1, <3>2, <3>3, <3>4, <3>5, <3>7 DEF Done, WorkOK, Standing, RowsOK
    <3> QED BY <2>2, <3>8
  <2>10. CASE CopyTree(t)
    <3>1. job[t].at = "copyTree" /\ UNCHANGED <<rows, oskit, has>> /\ Exit(t)
      BY <2>10 DEF CopyTree, At, rowVars
    <3>2. Standing(r) /\ content[r] = {} /\ SourceOK(t, r)
      BY <1>2, <2>2, <3>1 DEF WorkOK
    <3>3. /\ made' = made \cup {r}
          /\ content' = [content EXCEPT ![r] = @ \cup content[job[t].src]]
          /\ stale' = IF job[t].src \in stale THEN stale \cup {r} ELSE stale
      BY <2>10, <3>2 DEF CopyTree, SourceOK
    <3>4. content'[r] = content[job[t].src]
      BY <1>1, <1>2, <3>2, <3>3 DEF RowsTyped
    <3>5. Orderly(r)'
      BY <3>1, <3>2, <3>3, <3>4 DEF Orderly, Standing, RowsOK, Rest, SourceOK
    <3> QED BY <1>4, <2>2, <3>1, <3>5
  <2> QED BY <1>7, <2>3, <2>4, <2>5, <2>6, <2>7, <2>8, <2>9, <2>10 DEF Working
<1> QED BY <1>6, <1>7

(* Tools do not run beside the upgrade of the native base kit.             *)
LEMMA ToolNotAlone ==
  ASSUME NativeAlone, NEW t \in Tool, job[t] # Idle \/ ~locked, UNCHANGED op,
         job'[Kitops] = job[Kitops]
  PROVE  NativeAlone'
  BY DEF NativeAlone

LEMMA WorkingRepos ==
  ASSUME KitsInv, ReposInv, NEW t \in Tool, Working(t), UNCHANGED <<op, spoiled>>
  PROVE  ReposInv'
<1>1. JobsTyped /\ OpTyped /\ RowsTyped
  BY DEF KitsInv
<1>2. NativeAlone /\ MotionOK /\ NoDirectory /\ \A r \in Repo \ unsure : RepoOK(r)
  BY DEF ReposInv
<1>3. PICK r \in Repo : r = job[t].repo
  BY <1>1, WorkingAt
<1>4. /\ t \in Proc /\ t # Kitops /\ job[t] # Idle /\ job[t].at \in RepoPlace
  BY <1>1, WorkingAt, IdleTyped DEF RepoPlace, Refreshing
<1>5. /\ \A q \in Proc : q # t => job'[q] = job[q]
      /\ DOMAIN job' = Proc
  BY <1>1, ToolJob DEF ToolStep, Working
<1>6. job'[t].repo \in {r, NoRepo}
  <2>1. CASE Exit(t)
    BY <1>1, <1>4, <2>1, IdleJob, IdleTyped DEF Exit
  <2>2. CASE ~Exit(t)
    <3>1. job[t] \in AnyJob /\ DOMAIN job = Proc
      BY <1>1, <1>4 DEF JobsTyped
    <3> QED BY ZenonT(40), <1>3, <1>4, <2>2, <3>1 DEF Working, AddRow, AddStale, DelStale, DelRow, MakeDirs,
         RmTree, DelRows, MkDir, CopyTree, Goto, AnyJob
  <2> QED BY <2>1, <2>2
<1>7. /\ Untouched(r) /\ NoDirectory' /\ UNCHANGED locked
      /\ unsure \subseteq unsure' \cup {r}
  BY <1>1, <1>2, <1>3, WorkingData
<1>8. \A x \in Repo \ unsure' : RepoOK(x)'
  <2>1. r \notin unsure' => (\A q \in Proc : q # t => job[q].repo # r) /\ Done(t, r)'
    BY <1>2, <1>3, WorkingHere
  <2> QED BY <1>1, <1>2, <1>3, <1>4, <1>5, <1>6, <1>7, <2>1, Worked
<1>9. job'[Kitops] = job[Kitops]
  BY <1>4, <1>5, Places
<1>10. NativeAlone'
  BY <1>2, <1>4, <1>9, ToolNotAlone
<1>11. MotionOK'
  <2>1. \A x \in Repo \ unsure : x # r => has'[x] = has[x]
    BY <1>7 DEF Untouched
  <2>2. r \notin unsure' => InMotion \cap has'[r] = {}
    <3>1. r \notin unsure' /\ ~RmTree(t) => r \notin unsure
      BY DEF Working, AddRow, AddStale, DelStale, DelRow, MakeDirs, DelRows, MkDir, CopyTree
    <3>2. CASE RmTree(t)
      <4>1. has' = has
        BY <3>2 DEF RmTree, rowVars
      <4>2. r \notin unsure' /\ r \in unsure => Others(t, r) = {}
        BY <1>3, <3>2 DEF RmTree, RemoveDirectory
      <4>3. Others(t, r) = {} => InMotion \cap has[r] = {}
        BY <1>4, Places DEF Others
      <4> QED BY <1>2, <4>1, <4>2, <4>3 DEF MotionOK
    <3>3. CASE AddRow(t)
      <4>1. CASE has' = has
        BY <1>2, <3>1, <3>3, <4>1 DEF MotionOK, AddRow, RmTree, At
      <4>2. CASE /\ SetKits(r, KitRows(r) \cup {job[t].kid})
                 /\ unsure' = IF job[t].kid \in InMotion THEN unsure \cup {r} ELSE unsure
        <5>1. has'[r] \subseteq has[r] \cup {job[t].kid}
          BY <1>1, <4>2 DEF SetKits, KitRows, RowsTyped, OsKit
        <5> QED BY <1>2, <4>2, <5>1 DEF MotionOK
      <4> QED BY <1>3, <3>3, <4>1, <4>2 DEF AddRow
    <3>4. CASE ~RmTree(t) /\ ~AddRow(t)
      <4>1. has'[r] \subseteq has[r]
        BY <1>1, <1>3, <3>4 DEF Working, AddStale, DelStale, DelRow, MakeDirs, DelRows, MkDir,
           CopyTree, SetKits, KitRows, RowsTyped, OsKit, rowVars
      <4> QED BY <1>2, <3>1, <3>4, <4>1 DEF MotionOK
    <3> QED BY <3>2, <3>3, <3>4
  <2>3. InMotion' \subseteq InMotion
    BY <1>9, InMotionSame
  <2> QED BY <1>2, <1>7, <2>1, <2>2, <2>3, MotionKept
<1> QED BY <1>7, <1>8, <1>10, <1>11 DEF ReposInv

(* A step of a process that works on no repository before or after it.     *)
LEMMA NoRepoWork ==
  ASSUME JobsTyped, \A r \in Repo \ unsure : RepoOK(r), NEW p \in Proc,
         \A q \in Proc : q # p => job'[q] = job[q],
         job[p].repo = NoRepo, job'[p].repo = NoRepo, Untouched(NoRepo),
         spoiled \subseteq spoiled', unsure \subseteq unsure'
  PROVE  \A r \in Repo \ unsure' : RepoOK(r)'
<1> SUFFICES ASSUME NEW r \in Repo \ unsure' PROVE RepoOK(r)'
  OBVIOUS
<1>1. r # NoRepo /\ RepoOK(r)
  BY Places
<1> QED BY <1>1, Elsewhere

(* A process takes up work on r0.                                          *)
LEMMA TakenUp ==
  ASSUME JobsTyped, \A r \in Repo \ unsure : RepoOK(r),
         NEW p \in Proc, NEW r0 \in Repo, job[p].repo = NoRepo, job'[p].repo = r0,
         \A q \in Proc : q # p => job'[q] = job[q],
         Untouched(r0), spoiled \subseteq spoiled', unsure \subseteq unsure' \cup {r0},
         \A q \in Proc : q # p /\ job[q].src = r0 =>
           job[q].repo \in unsure' \/ SourceOK(q, job[q].repo)',
         r0 \notin unsure' => (\A q \in Proc : q # p => job[q].repo # r0) /\ WorkOK(p, r0)'
  PROVE  \A r \in Repo \ unsure' : RepoOK(r)'
<1> SUFFICES ASSUME NEW r \in Repo \ unsure' PROVE RepoOK(r)'
  OBVIOUS
<1>1. CASE r = r0
  <2>1. Done(p, r0)'
    BY <1>1 DEF Done
  <2> QED BY <1>1, <2>1, Here
<1>2. CASE r # r0
  <2>1. RepoOK(r)
    BY <1>2
  <2>2. ASSUME NEW q \in Proc, q # p, job[q].repo = r, job[q].src # NoRepo
        PROVE  job[q].src # r0 \/ SourceOK(q, r)'
    <3>1. SUFFICES ASSUME job[q].src = r0 PROVE SourceOK(q, r)'
      OBVIOUS
    <3>2. job'[q] = job[q]
      BY <2>2
    <3> QED BY <2>2, <3>1, <3>2
  <2> QED BY <1>2, <2>1, <2>2, Elsewhere
<1> QED BY <1>1, <1>2

LEMMA AskedRepos ==
  ASSUME KitsInv, ReposInv, NEW t \in Tool, job[t].at = "locked", NEW r \in Repo,
         NEW place \in RepoPlace, NEW k \in Kid \cup {0}, Asked(t, r, place, k),
         UNCHANGED <<op, spoiled, has>>, Untouched(r), made \subseteq made',
         Orderly(r) => WorkOK(t, r)'
  PROVE  ReposInv'
<1>1. JobsTyped
  BY DEF KitsInv
<1>2. NativeAlone /\ MotionOK /\ NoDirectory /\ \A x \in Repo \ unsure : RepoOK(x)
  BY DEF ReposInv
<1>3. /\ t \in Proc /\ t # Kitops /\ job[t].repo = NoRepo /\ job[t] # Idle
      /\ job[t] \in AnyJob /\ job[t].src = NoRepo
  BY <1>1, Places, IdleTyped DEF JobsTyped, ToolOK, AnyJob, RepoPlace, Refreshing
<1>4. /\ \A q \in Proc : q # t => job'[q] = job[q]
      /\ job'[t].repo = r
  BY <1>1, AskedJob
<1>5. /\ unsure' = IF Others(t, r) = {} THEN unsure ELSE unsure \cup {r} \cup Copies(r)
      /\ UNCHANGED <<content, locked, stale>>
  BY DEF Asked, lockVars
<1>6. unsure \subseteq unsure'
  BY <1>5
<1>7. ASSUME NEW q \in Proc, q # t, job[q].src = r PROVE job[q].repo \in unsure'
  <2>1. q \in Others(t, r)
    BY <1>7 DEF Others
  <2>2. job[q].repo \in Copies(r)
    BY <1>7 DEF Copies
  <2> QED BY <1>5, <2>1, <2>2
<1>8. ASSUME r \notin unsure'
      PROVE  (\A q \in Proc : q # t => job[q].repo # r) /\ WorkOK(t, r)'
  <2>1. Others(t, r) = {} /\ r \notin unsure
    BY <1>5, <1>8
  <2>2. \A q \in Proc : q # t => job[q].repo # r
    BY <2>1 DEF Others
  <2>3. Quiet(r)
    BY <1>3, <2>2, Places DEF Quiet
  <2>4. Orderly(r)
    BY <1>2, <2>1, <2>3 DEF RepoOK
  <2> QED BY <2>2, <2>4
<1>9. \A x \in Repo \ unsure' : RepoOK(x)'
  BY <1>1, <1>2, <1>3, <1>4, <1>6, <1>7, <1>8, TakenUp
<1>10. job'[Kitops] = job[Kitops]
  BY <1>3, <1>4, Places
<1>11. NativeAlone'
  BY <1>2, <1>3, <1>10, ToolNotAlone
<1>12. MotionOK'
  BY <1>2, <1>6, <1>10, InMotionSame DEF MotionOK
<1>13. NoDirectory'
  BY <1>2, <1>5 DEF NoDirectory
<1> QED BY <1>9, <1>11, <1>12, <1>13 DEF ReposInv

(* What kusu-repoman was asked for fits the repository.                    *)
LEMMA RequestRepos ==
  ASSUME KitsInv, ReposInv, NEW t \in Tool, job[t].at = "locked", NEW r \in Repo,
         \/ New(t, r) \/ Update(t, r) \/ DeleteRepo(t, r)
         \/ \E k \in Kid \cup {OsKit} : AddKit(t, r, k) \/ DelKit(t, r, k),
         UNCHANGED <<op, spoiled>>
  PROVE  ReposInv'
<1>1. JobsTyped /\ OpTyped /\ RowsTyped /\ NoDirectory
  BY DEF KitsInv, ReposInv
<1>2. ASSUME NEW place \in RepoPlace, NEW k \in Kid \cup {0}, Asked(t, r, place, k)
      PROVE  /\ job'[t].at = place /\ job'[t].kid = k /\ job'[t].src = NoRepo
             /\ job'[t].repo = r /\ UNCHANGED <<stale, content>>
  <2>1. UNCHANGED <<stale, content>>
    BY <1>2 DEF Asked
  <2> QED BY <1>1, <1>2, <2>1, AskedJob
<1>3. /\ KitRows(r) \subseteq DOMAIN kits \cup {0} /\ KitRows(r) \ {0} = has[r]
      /\ (0 \in KitRows(r) <=> r \in oskit)
  BY <1>1, KitRowsTyped
<1>4. CASE New(t, r)
  <2>1. /\ Asked(t, r, "makedirs", 0) /\ UNCHANGED <<oskit, has, made>>
        /\ rows' = rows \cup {r} /\ r \notin made /\ KitRows(r) = {}
        /\ "makedirs" \in RepoPlace
    BY <1>4 DEF New, Unused, OsKit, RepoPlace
  <2>2. job'[t].at = "makedirs" /\ job'[t].src = NoRepo /\ UNCHANGED <<stale, content>>
    BY <1>2, <2>1
  <2>3. Untouched(r)
    BY <2>1, <2>2 DEF Untouched
  <2>4. content[r] = {} /\ has[r] = {}
    BY <1>1, <1>3, <2>1 DEF NoDirectory
  <2>5. WorkOK(t, r)'
    BY <2>1, <2>2, <2>4 DEF WorkOK, RowsOK
  <2> QED BY <2>1, <2>3, <2>5, AskedRepos
<1>5. CASE Update(t, r)
  <2>1. /\ Asked(t, r, "clean", 0) /\ UNCHANGED <<rows, oskit, has>> /\ r \in rows
        /\ made' = made \cup {r} /\ "clean" \in RepoPlace
    BY <1>5 DEF Update, OsKit, RepoPlace, Refreshing, rowVars
  <2>2. job'[t].at = "clean" /\ job'[t].src = NoRepo /\ UNCHANGED <<stale, content>>
    BY <1>2, <2>1
  <2>3. Untouched(r)
    BY <2>1, <2>2 DEF Untouched
  <2>4. ASSUME Orderly(r) PROVE WorkOK(t, r)'
    BY <2>1, <2>2, <2>4 DEF WorkOK, Orderly, RowsOK, Rest
  <2> QED BY <2>1, <2>3, <2>4, AskedRepos
<1>6. ASSUME NEW k \in Kid \cup {0}, NEW place \in {"addRow", "delStale", "rmtree"},
             Asked(t, r, place, k), UNCHANGED <<rows, oskit, has, made>>,
             place = "addRow" => k = 0 \/ KitRows(r) # {},
             place = "delStale" => k # 0 \/ has[r] = {}
      PROVE  ReposInv'
  <2>1. /\ job'[t].at = place /\ job'[t].kid = k /\ job'[t].src = NoRepo
        /\ UNCHANGED <<stale, content>> /\ place \in RepoPlace
    BY <1>2, <1>6 DEF RepoPlace
  <2>2. Untouched(r)
    BY <1>6, <2>1 DEF Untouched
  <2>3. ASSUME Orderly(r) PROVE WorkOK(t, r)'
    <3>1. KitRows(r) # {} => r \in oskit
      BY <1>3, <2>3 DEF Orderly, RowsOK
    <3> QED BY <1>6, <2>1, <2>3, <3>1 DEF WorkOK, Orderly, RowsOK, Rest
  <2> QED BY <1>6, <2>1, <2>2, <2>3, AskedRepos
<1>7. CASE DeleteRepo(t, r)
  BY <1>6, <1>7 DEF DeleteRepo, OsKit, rowVars
<1>8. ASSUME NEW k \in Kid \cup {OsKit}, AddKit(t, r, k)
      PROVE  ReposInv'
  BY <1>3, <1>6, <1>8 DEF AddKit, OsKit, rowVars
<1>9. ASSUME NEW k \in Kid \cup {OsKit}, DelKit(t, r, k)
      PROVE  ReposInv'
  BY <1>3, <1>6, <1>9 DEF DelKit, OsKit, rowVars
<1> QED BY <1>4, <1>5, <1>7, <1>8, <1>9

LEMMA SnapshotRepos ==
  ASSUME KitsInv, ReposInv, NEW t \in Tool, job[t].at = "locked",
         NEW r \in Repo, NEW s \in Repo, Snapshot(t, r, s), UNCHANGED <<op, spoiled>>
  PROVE  ReposInv'
<1>1. JobsTyped /\ OpTyped /\ RowsTyped
  BY DEF KitsInv
<1>2. NativeAlone /\ MotionOK /\ NoDirectory /\ \A x \in Repo \ unsure : RepoOK(x)
  BY DEF ReposInv
<1>3. /\ t \in Proc /\ t # Kitops /\ job[t].repo = NoRepo /\ job[t] # Idle
      /\ job[t] \in AnyJob /\ DOMAIN job = Proc
  BY <1>1, Places, IdleTyped DEF JobsTyped, ToolOK, AnyJob, RepoPlace, Refreshing
<1>4. /\ r \in rows /\ s \notin rows /\ s \notin made /\ KitRows(s) = {}
      /\ \A p \in Proc : job[p].repo # s /\ job[p].src # s
      /\ rows' = rows \cup {s} /\ SetKits(s, KitRows(r))
      /\ UNCHANGED <<made, stale, content, locked>>
      /\ unsure' = IF r \notin unsure /\ Others(t, r) = {} THEN unsure \ {s} ELSE unsure \cup {s}
  BY DEF Snapshot, Unused, diskVars, lockVars
<1>5. job' = [job EXCEPT ![t] = [job[t] EXCEPT !.at = "mkdir", !.repo = s, !.src = r]]
  BY DEF Snapshot
<1>6. /\ job'[t].at = "mkdir" /\ job'[t].repo = s /\ job'[t].src = r
      /\ \A q \in Proc : q # t => job'[q] = job[q]
  BY <1>3, <1>5 DEF AnyJob
<1>7. KitRows(r) \subseteq DOMAIN kits \cup {0} /\ KitRows(r) \ {0} = has[r]
      /\ (0 \in KitRows(r) <=> r \in oskit)
  BY <1>1, KitRowsTyped
<1>8. /\ has'[s] = has[r] /\ (s \in oskit' <=> r \in oskit)
      /\ \A x \in Repo : x # s => has'[x] = has[x] /\ (x \in oskit' <=> x \in oskit)
  BY <1>1, <1>4, <1>7, SetKitsRows
<1>9. Untouched(s)
  BY <1>4, <1>8 DEF Untouched
<1>10. ASSUME s \notin unsure'
       PROVE  /\ InMotion \cap has[r] = {} /\ WorkOK(t, s)'
  <2>1. r \notin unsure /\ Others(t, r) = {}
    BY <1>4, <1>10
  <2>2. \A q \in Proc : q # t => job[q].repo # r
    BY <2>1 DEF Others
  <2>3. Quiet(r)
    BY <1>3, <2>2, Places DEF Quiet
  <2>4. Orderly(r)
    BY <1>2, <2>1, <2>3 DEF RepoOK
  <2>5. SourceOK(t, s)'
    BY <1>4, <1>6, <1>8, <2>2, <2>4 DEF SourceOK, Orderly, Rest
  <2>6. content[s] = {}
    BY <1>2, <1>4 DEF NoDirectory
  <2>7. WorkOK(t, s)'
    BY <1>4, <1>6, <1>8, <2>4, <2>5, <2>6 DEF WorkOK, Orderly, RowsOK
  <2> QED BY <1>2, <2>1, <2>7 DEF MotionOK
<1>11. unsure \subseteq unsure' \cup {s}
  BY <1>4
<1>12. \A x \in Repo \ unsure' : RepoOK(x)'
  BY <1>1, <1>2, <1>3, <1>4, <1>6, <1>9, <1>10, <1>11, TakenUp
<1>13. job'[Kitops] = job[Kitops]
  BY <1>3, <1>6, Places
<1>14. NativeAlone'
  BY <1>2, <1>3, <1>13, ToolNotAlone
<1>15. MotionOK'
  <2>1. s \notin unsure' => InMotion \cap has'[s] = {}
    BY <1>8, <1>10
  <2> QED BY <1>2, <1>8, <1>11, <1>13, <2>1, InMotionSame, MotionKept
<1>16. NoDirectory'
  BY <1>2, <1>4 DEF NoDirectory
<1> QED BY <1>12, <1>14, <1>15, <1>16 DEF ReposInv

LEMMA KillToolRepos ==
  ASSUME KitsInv, ReposInv, NEW t \in Tool, KillTool(t), UNCHANGED <<op, spoiled>>
  PROVE  ReposInv'
<1>1. JobsTyped
  BY DEF KitsInv
<1>2. NativeAlone /\ MotionOK /\ NoDirectory /\ \A r \in Repo \ unsure : RepoOK(r)
  BY DEF ReposInv
<1>3. /\ UNCHANGED <<rows, oskit, has, made, stale, content, locked>>
      /\ job[t] # Idle /\ job' = [job EXCEPT ![t] = Idle]
      /\ unsure' = unsure \cup Unmarked(t)
  BY DEF KillTool, rowVars, diskVars, lockVars
<1>4. t \in Proc /\ t # Kitops /\ job[t] \in AnyJob /\ ToolOK(t)
  BY <1>1, Places DEF JobsTyped
<1>5. /\ job'[t].repo = NoRepo /\ \A q \in Proc : q # t => job'[q] = job[q]
  BY <1>1, <1>3, <1>4, IdleJob, IdleTyped
<1>6. \A x : Untouched(x)
  BY <1>3 DEF Untouched
<1>7. \A x \in Repo \ unsure' : RepoOK(x)'
  <2>1. CASE job[t].repo = NoRepo
    BY <1>1, <1>2, <1>3, <1>4, <1>5, <1>6, <2>1, NoRepoWork
  <2>2. ASSUME NEW r \in Repo, job[t].repo = r PROVE \A x \in Repo \ unsure' : RepoOK(x)'
    <3>1. job[t].at \in RepoPlace
      BY <1>4, <2>2 DEF ToolOK
    <3>2. ASSUME r \notin unsure'
          PROVE  (\A q \in Proc : q # t => job[q].repo # r) /\ Done(t, r)'
      <4>1. RepoOK(r) /\ r \notin Unmarked(t)
        BY <1>2, <1>3, <3>2
      <4>2. /\ WorkOK(t, r) /\ \A q \in Proc : q # t => job[q].repo # r
        BY <1>4, <2>2, <4>1 DEF RepoOK
      <4>3. job[t].at \in {"clean", "list", "copy", "image", "markClean", "addRow",
                           "delStale", "delRow", "rmtree"}
        BY <2>2, <3>1, <4>1 DEF Unmarked, RepoPlace, Refreshing
      <4>4. Orderly(r)
        BY <4>2, <4>3 DEF WorkOK, Standing, Orderly
      <4>5. Orderly(r)'
        BY <1>3, <4>4 DEF Orderly, RowsOK, Rest
      <4> QED BY <1>5, <4>2, <4>5, Places DEF Done
    <3> QED BY <1>1, <1>2, <1>3, <1>4, <1>5, <1>6, <2>2, <3>2, Worked
  <2> QED BY <1>4, <2>1, <2>2 DEF AnyJob
<1>8. job'[Kitops] = job[Kitops]
  BY <1>4, <1>5, Places
<1>9. NativeAlone'
  BY <1>2, <1>3, <1>8, ToolNotAlone
<1>10. MotionOK' /\ NoDirectory'
  BY <1>2, <1>3, <1>8, InMotionSame DEF MotionOK, NoDirectory
<1> QED BY <1>7, <1>9, <1>10 DEF ReposInv

LEMMA RepoRepos ==
  ASSUME KitsInv, ReposInv, RepoNext
  PROVE  ReposInv'
<1>1. UNCHANGED <<op, spoiled>>
  BY DEF RepoNext
<1>2. JobsTyped
  BY DEF KitsInv
<1>3. NativeAlone /\ MotionOK /\ NoDirectory /\ \A r \in Repo \ unsure : RepoOK(r)
  BY DEF ReposInv
<1>4. CASE Refresh(Kitops)
  BY <1>1, <1>4, RefreshRepos, Places
<1>5. CASE RemoveLockFile
  <2>1. UNCHANGED <<rows, oskit, has, made, stale, content, locked, job, unsure>>
    BY <1>5 DEF RemoveLockFile, rowVars, diskVars
  <2>2. NativeAlone' /\ MotionOK' /\ NoDirectory'
    BY <1>1, <1>3, <2>1 DEF NativeAlone, MotionOK, InMotion, NoDirectory
  <2>3. ASSUME NEW r \in Repo \ unsure' PROVE RepoOK(r)'
    <3>1. RepoOK(r)
      BY <1>3, <2>1
    <3> QED BY <1>1, <2>1, <3>1 DEF RepoOK, Quiet, Orderly, WorkOK, SourceOK, Standing, Rest,
         RowsOK, KitRows
  <2> QED BY <2>2, <2>3 DEF ReposInv
<1>6. ASSUME NEW t \in Tool, Begin(t) \/ Lock(t) \/ Refused(t) PROVE ReposInv'
  <2>1. /\ UNCHANGED <<rows, oskit, has, made, stale, content, locked, unsure>>
        /\ job[t].at \in {"idle", "parseArgs", "locked"}
    BY <1>6 DEF Begin, Lock, Refused, At, rowVars, diskVars, lockVars
  <2>2. t \in Proc /\ t # Kitops /\ job[t].repo = NoRepo /\ job[t] \in AnyJob
    BY <1>2, <2>1, Places DEF JobsTyped, ToolOK, AnyJob, RepoPlace, Refreshing
  <2>3. job'[t].repo = NoRepo /\ \A q \in Proc : q # t => job'[q] = job[q]
    <3>1. CASE Begin(t) \/ Lock(t)
      BY <1>2, <2>2, <3>1, GotoJob DEF Begin, Lock, Place
    <3>2. CASE Refused(t)
      BY <1>2, <2>2, <3>2, IdleJob, IdleTyped DEF Refused, Exit
    <3> QED BY <1>6, <3>1, <3>2
  <2>5. Untouched(NoRepo)
    BY <2>1 DEF Untouched
  <2>6. \A r \in Repo \ unsure' : RepoOK(r)'
    BY <1>1, <1>2, <1>3, <2>1, <2>2, <2>3, <2>5, NoRepoWork
  <2>7. job'[Kitops] = job[Kitops]
    BY <2>2, <2>3, Places
  <2>8. NativeAlone'
    BY <1>1, <1>3, <1>6, <2>7, ToolNotAlone, IdleTyped DEF Begin, Lock, Refused, At
  <2>9. MotionOK' /\ NoDirectory'
    BY <1>3, <2>1, <2>7, InMotionSame DEF MotionOK, NoDirectory
  <2> QED BY <2>6, <2>8, <2>9 DEF ReposInv
<1>7. ASSUME NEW t \in Tool, Refresh(t) PROVE ReposInv'
  BY <1>1, <1>7, RefreshRepos, Places
<1>8. ASSUME NEW t \in Tool, Working(t) PROVE ReposInv'
  BY <1>1, <1>8, WorkingRepos
<1>9. ASSUME NEW t \in Tool, KillTool(t) PROVE ReposInv'
  BY <1>1, <1>9, KillToolRepos
<1>10. ASSUME NEW t \in Tool, job[t].at = "locked", NEW r \in Repo,
              \/ New(t, r) \/ Update(t, r) \/ DeleteRepo(t, r)
              \/ \E k \in Kid \cup {OsKit} : AddKit(t, r, k) \/ DelKit(t, r, k)
       PROVE  ReposInv'
  BY <1>1, <1>10, RequestRepos
<1>11. ASSUME NEW t \in Tool, job[t].at = "locked", NEW r \in Repo, NEW s \in Repo,
              Snapshot(t, r, s)
       PROVE  ReposInv'
  BY <1>1, <1>11, SnapshotRepos
<1> QED BY <1>4, <1>5, <1>6, <1>7, <1>8, <1>9, <1>10, <1>11 DEF RepoNext, ToolNext, Working, At

(* The steps of kusu-kitops.                                               *)
LEMMA KitopsOthers ==
  ASSUME JobsTyped, KitopsNext
  PROVE  \A q \in Proc : q # Kitops => job'[q] = job[q]
<1>1. DOMAIN job = Proc
  BY DEF JobsTyped
<1>2. CASE \/ \E m \in Media : Add(m) \/ \E k \in Kid : Upgrade(k, m)
           \/ \E k \in Kid : Delete(k)
  BY <1>1, <1>2 DEF Add, Upgrade, Delete, Ask
<1>3. CASE AddRowFlushed \/ CopyRpms \/ MoveItem \/ InstallPlugins \/ UpdateComponents
  BY <1>1, <1>3 DEF AddRowFlushed, CopyRpms, MoveItem, InstallPlugins, UpdateComponents, On, Goto
<1>4. CASE PostScript \/ PreunScript \/ UninstallPlugins \/ PostunScript \/ Flush
  BY <1>1, <1>4 DEF PostScript, PreunScript, UninstallPlugins, PostunScript, Flush, On, Goto, End
<1>5. CASE RemoveFiles("rmtree", "postun") \/ RemoveFiles("erase", "flush")
  BY <1>1, <1>5 DEF RemoveFiles, Goto
<1>6. CASE AcquireGlobalLock \/ SwapStale \/ SwapRow
  BY <1>1, <1>6 DEF AcquireGlobalLock, SwapStale, SwapRow, Goto, End
<1>7. CASE UpgradeEnds
  BY <1>1, <1>7 DEF UpgradeEnds, UpdateRepos, SynchronizeNodegroups, BuildImages,
     UpdateKusuVersion, Goto, End
<1>8. CASE KillKitops \/ RemoveLock
  BY <1>1, <1>8 DEF KillKitops, RemoveLock
<1> QED BY <1>2, <1>3, <1>4, <1>5, <1>6, <1>7, <1>8 DEF KitopsNext

LEMMA NoRepoAt ==
  ASSUME JobsTyped, OpOK, job[Kitops].at \notin OnRepo
  PROVE  job[Kitops].repo = NoRepo
  BY Places DEF JobsTyped, AnyJob, OpOK

(* What makes an upgrade of the native base kit stay alone.                *)
AloneStep ==
  op'.kind = "native" /\ job'[Kitops].at # "lock" =>
    \/ op.kind = "native" /\ job[Kitops].at # "lock" /\ locked' = locked
    \/ locked' /\ \A t \in Tool : job[t] = Idle

LEMMA AloneKept ==
  ASSUME NativeAlone, AloneStep, \A q \in Proc : q # Kitops => job'[q] = job[q]
  PROVE  NativeAlone'
  BY Places DEF NativeAlone, AloneStep

(* A step of kusu-kitops away from the repositories; it may remove a kit   *)
(* from repositories one is not sure of.                                   *)
LEMMA KitopsAway ==
  ASSUME KitsInv, KitsInv', ReposInv, KitopsNext,
         UNCHANGED <<rows, oskit, made, stale, content>>,
         \A r \in Repo \ unsure : has'[r] = has[r],
         spoiled \subseteq spoiled', unsure \subseteq unsure',
         job[Kitops].at \notin OnRepo, job'[Kitops].at \notin OnRepo, AloneStep,
         \A r \in Repo \ unsure' : InMotion' \cap has'[r] = {}
  PROVE  ReposInv'
<1>1. JobsTyped /\ OpOK /\ (JobsTyped /\ OpOK)'
  BY DEF KitsInv
<1>2. NativeAlone /\ MotionOK /\ NoDirectory /\ \A r \in Repo \ unsure : RepoOK(r)
  BY DEF ReposInv
<1>3. \A q \in Proc : q # Kitops => job'[q] = job[q]
  BY <1>1, KitopsOthers
<1>4. job[Kitops].repo = NoRepo /\ job'[Kitops].repo = NoRepo
  BY <1>1, Places DEF JobsTyped, AnyJob, OpOK
<1>5. Untouched(NoRepo)
  BY DEF Untouched
<1>6. \A r \in Repo \ unsure' : RepoOK(r)'
  BY <1>1, <1>2, <1>3, <1>4, <1>5, NoRepoWork, Places
<1>7. NativeAlone'
  BY <1>2, <1>3, AloneKept
<1>8. MotionOK' /\ NoDirectory'
  BY <1>2 DEF MotionOK, NoDirectory
<1> QED BY <1>6, <1>7, <1>8 DEF ReposInv

LEMMA AskRepos ==
  ASSUME KitsInv, KitsInv', ReposInv, KitopsNext, job[Kitops].at = "idle",
         \/ \E m \in Media : Add(m) \/ \E k \in Kid : Upgrade(k, m)
         \/ \E k \in Kid : Delete(k)
  PROVE  ReposInv'
<1>1. Kitops \in DOMAIN job
  BY Places DEF KitsInv, JobsTyped
<1>2. ASSUME NEW request, NEW place, NEW k, Ask(request, place, k)
      PROVE  /\ job'[Kitops].at = place /\ job'[Kitops].kid = k /\ op' = request
             /\ UNCHANGED <<rows, oskit, has, made, stale, content, spoiled, unsure>>
  BY <1>1, <1>2 DEF Ask, Idle, reposVars, rowVars, history
<1>3. ASSUME NEW m \in Media, Add(m) PROVE ReposInv'
  <2> DEFINE request == [NoOp EXCEPT !.kind = "add", !.kit = m]
  <2>1. Ask(request, "addRow", 0) /\ request.kind = "add"
    BY <1>3 DEF Add, NoOp
  <2> HIDE DEF request
  <2>2. /\ job'[Kitops].at = "addRow" /\ op'.kind = "add"
        /\ UNCHANGED <<rows, oskit, has, made, stale, content, spoiled, unsure>>
    BY <1>2, <2>1
  <2>3. AloneStep /\ InMotion' = {}
    BY <2>2 DEF AloneStep, InMotion
  <2> QED BY <2>2, <2>3, KitopsAway DEF OnRepo, Refreshing
<1>4. ASSUME NEW m \in Media, NEW k \in Kid, Upgrade(k, m) PROVE ReposInv'
  <2> DEFINE repos == {r \in Repo : k \in has[r]}
             native == InstallerRepo \in repos
             place == IF native THEN "lock" ELSE "addRow"
             request == [NoOp EXCEPT !.kind = IF native THEN "native" ELSE "compat",
                           !.kit = m, !.old = k, !.repos = repos, !.left = repos]
  <2>1. /\ Ask(request, place, 0) /\ place \in {"lock", "addRow"}
        /\ request.kind = "native" => place = "lock"
    BY <1>4 DEF Upgrade, NoOp
  <2> HIDE DEF request, place
  <2>2. /\ job'[Kitops].at \in {"lock", "addRow"}
        /\ op'.kind = "native" => job'[Kitops].at = "lock"
        /\ UNCHANGED <<rows, oskit, has, made, stale, content, spoiled, unsure>>
    BY <1>2, <2>1
  <2>3. AloneStep /\ InMotion' = {}
    BY <2>2 DEF AloneStep, InMotion
  <2> QED BY <2>2, <2>3, KitopsAway DEF OnRepo, Refreshing
<1>5. ASSUME NEW k \in Kid, Delete(k) PROVE ReposInv'
  <2> DEFINE request == [NoOp EXCEPT !.kind = "delete", !.old = k]
  <2>1. /\ Ask(request, Strategy(k), k) /\ request.kind = "delete"
        /\ \A r \in Repo : k \notin has[r]
    BY <1>5 DEF Delete, NoOp, Deletable
  <2> HIDE DEF request
  <2>2. /\ job'[Kitops].at = Strategy(k) /\ op'.kind = "delete" /\ job'[Kitops].kid = k
        /\ UNCHANGED <<rows, oskit, has, made, stale, content, spoiled, unsure>>
    BY <1>2, <2>1
  <2>3. AloneStep /\ InMotion' \subseteq {k} /\ job'[Kitops].at \in {"preun", "erase"}
    BY <2>2 DEF AloneStep, InMotion, Strategy
  <2> QED BY <1>1, <2>1, <2>2, <2>3, KitopsAway DEF OnRepo, Refreshing
<1> QED BY <1>3, <1>4, <1>5

LEMMA AddingRepos ==
  ASSUME KitsInv, KitsInv', ReposInv, KitopsNext,
         AddRowFlushed \/ CopyRpms \/ MoveItem \/ InstallPlugins \/ UpdateComponents
  PROVE  ReposInv'
<1>1. /\ Kitops \in DOMAIN job /\ job[Kitops] \in AnyJob /\ op \in Request
      /\ DOMAIN kits \subseteq Kid
  BY Places DEF KitsInv, JobsTyped, OpTyped
<1>2. UNCHANGED <<rows, oskit, has, made, stale, content, locked, spoiled, unsure>>
  BY DEF AddRowFlushed, CopyRpms, MoveItem, InstallPlugins, UpdateComponents, reposVars,
     rowVars, history
<1>3. CASE AddRowFlushed
  <2>1. /\ job[Kitops].at = "addRow" /\ job'[Kitops].at = "addRpms"
        /\ job'[Kitops].kid = nextKid /\ op'.kind = op.kind
    BY <1>1, <1>3 DEF AddRowFlushed, At, On, AnyJob, Request
  <2>2. nextKid \notin DOMAIN kits
    BY DEF KitsInv, NewKidOK, OpTyped
  <2>3. \A r \in Repo : nextKid \notin has[r]
    BY <2>2 DEF KitsInv, RowsTyped
  <2>4. AloneStep /\ InMotion' = {nextKid}
    BY <1>2, <2>1 DEF AloneStep, InMotion
  <2> QED BY <1>2, <2>1, <2>3, <2>4, KitopsAway DEF OnRepo, Refreshing
<1>4. CASE CopyRpms \/ MoveItem \/ InstallPlugins \/ UpdateComponents
  <2>1. /\ job[Kitops].at \in {"addRpms", "addTar", "addMove", "addLink", "addComponents"}
        /\ job[Kitops].at \notin {"addRpms", "addTar"} => job'[Kitops].at # "addTar"
        /\ job'[Kitops].at \in {"addTar", "addMove", "addLink", "addComponents", "addPost"}
        /\ job'[Kitops].kid = job[Kitops].kid /\ op' = op
    BY <1>1, <1>4 DEF CopyRpms, MoveItem, InstallPlugins, UpdateComponents, At, Goto, AnyJob
  <2>2. InMotion' \subseteq InMotion
    BY <2>1 DEF InMotion
  <2>3. AloneStep
    BY <1>2, <2>1 DEF AloneStep
  <2>4. \A r \in Repo \ unsure' : InMotion' \cap has'[r] = {}
    BY <1>2, <2>2 DEF ReposInv, MotionOK
  <2> QED BY <1>2, <2>1, <2>3, <2>4, KitopsAway DEF OnRepo, Refreshing
<1> QED BY <1>3, <1>4
(* A step that sets no other kit's packages in motion.                     *)
LEMMA KitopsPasses ==
  ASSUME KitsInv, KitsInv', ReposInv, KitopsNext,
         UNCHANGED <<rows, oskit, made, stale, content>>,
         \A r \in Repo \ unsure : has'[r] = has[r],
         spoiled \subseteq spoiled', unsure \subseteq unsure',
         job[Kitops].at \notin OnRepo, job'[Kitops].at \notin OnRepo, AloneStep,
         InMotion' \subseteq InMotion
  PROVE  ReposInv'
<1>1. \A r \in Repo \ unsure' : InMotion' \cap has'[r] = {}
  BY DEF ReposInv, MotionOK
<1> QED BY <1>1, KitopsAway

(* kusu-kitops ends, or is killed, while it is at work on no repository.   *)
LEMMA EndRepos ==
  ASSUME KitsInv, KitsInv', ReposInv, KitopsNext,
         UNCHANGED <<rows, oskit, made, stale, content>>,
         \A r \in Repo \ unsure : has'[r] = has[r],
         spoiled \subseteq spoiled', unsure \subseteq unsure',
         job[Kitops].at \notin OnRepo, job' = [job EXCEPT ![Kitops] = Idle], op' = NoOp
  PROVE  ReposInv'
<1>1. job'[Kitops] = Idle
  BY KitopsIdle DEF KitsInv
<1>2. AloneStep /\ InMotion' = {} /\ job'[Kitops].at \notin OnRepo
  BY <1>1, NoOpTyped, IdleTyped DEF AloneStep, InMotion, OnRepo, Refreshing
<1> QED BY <1>2, KitopsPasses

LEMMA PostScriptRepos ==
  ASSUME KitsInv, KitsInv', ReposInv, KitopsNext, PostScript
  PROVE  ReposInv'
<1>1. /\ Kitops \in DOMAIN job /\ job[Kitops] \in AnyJob /\ job[Kitops].at = "addPost"
  BY Places DEF KitsInv, JobsTyped, PostScript, At
<1>2. UNCHANGED <<rows, oskit, has, made, stale, content, spoiled, unsure>>
  BY DEF PostScript, rowVars, history
<1>3. CASE End
  BY <1>1, <1>2, <1>3, EndRepos DEF End, OnRepo, Refreshing
<1>4. CASE Goto(Kitops, "swapStale") /\ UNCHANGED <<op, locked>>
  <2>1. job'[Kitops].at = "swapStale"
    BY <1>1, <1>4 DEF Goto, AnyJob
  <2>2. AloneStep /\ InMotion' = {}
    BY <1>1, <1>4, <2>1 DEF AloneStep, InMotion
  <2> QED BY <1>1, <1>2, <2>1, <2>2, KitopsPasses DEF OnRepo, Refreshing
<1>5. CASE /\ On(op.new, "preun") /\ UNCHANGED <<op, locked>>
           /\ Deletable(op.new, removable')
  <2>1. job'[Kitops].at = "preun" /\ job'[Kitops].kid = op.new
    BY <1>1, <1>5 DEF On, AnyJob
  <2>2. AloneStep /\ InMotion' = {op.new}
    BY <1>1, <1>5, <2>1 DEF AloneStep, InMotion
  <2>3. \A r \in Repo : op.new \notin has[r]
    BY <1>5 DEF Deletable
  <2> QED BY <1>1, <1>2, <2>1, <2>2, <2>3, KitopsAway DEF OnRepo, Refreshing
<1> QED BY <1>3, <1>4, <1>5 DEF PostScript

LEMMA DeletingRepos ==
  ASSUME KitsInv, KitsInv', ReposInv, KitopsNext,
         \/ PreunScript \/ UninstallPlugins \/ PostunScript
         \/ RemoveFiles("rmtree", "postun") \/ RemoveFiles("erase", "flush")
  PROVE  ReposInv'
<1>1. Kitops \in DOMAIN job /\ job[Kitops] \in AnyJob
  BY Places DEF KitsInv, JobsTyped
<1>2. UNCHANGED <<rows, oskit, has, made, stale, content, unsure>>
  BY DEF PreunScript, UninstallPlugins, PostunScript, RemoveFiles, reposVars, rowVars, history
<1>3. spoiled \subseteq spoiled' /\ job[Kitops].at \in Deleting
  BY DEF PreunScript, UninstallPlugins, PostunScript, RemoveFiles, At, Deleting
<1>4. job[Kitops].at \notin OnRepo
  BY <1>3 DEF Deleting, OnRepo, Refreshing
<1>5. CASE End
  BY <1>2, <1>3, <1>4, <1>5, EndRepos DEF End
<1>6. CASE ~End
  <2>1. /\ job'[Kitops].at \in Deleting /\ job'[Kitops].kid = job[Kitops].kid
        /\ UNCHANGED <<op, locked>>
    BY <1>1, <1>3, <1>6 DEF PreunScript, UninstallPlugins, PostunScript, RemoveFiles, Goto,
       AnyJob, Deleting
  <2>2. AloneStep /\ InMotion' \subseteq InMotion /\ job'[Kitops].at \notin OnRepo
    BY <1>3, <2>1 DEF AloneStep, InMotion, Deleting, OnRepo, Refreshing
  <2> QED BY <1>2, <1>3, <1>4, <2>2, KitopsPasses
<1> QED BY <1>5, <1>6

(* The rows of the kit go only from repositories one is not sure of.       *)
LEMMA FlushRepos ==
  ASSUME KitsInv, KitsInv', ReposInv, KitopsNext, Flush
  PROVE  ReposInv'
<1>1. /\ Kitops \in DOMAIN job /\ job[Kitops] \in AnyJob /\ job[Kitops].at = "flush"
      /\ op \in Request
  BY Places DEF KitsInv, JobsTyped, OpTyped, Flush, At
<1>2. /\ UNCHANGED <<rows, oskit, made, stale, content, unsure>>
      /\ spoiled \subseteq spoiled'
  BY DEF Flush, diskVars, history
<1>3. ASSUME NEW r \in Repo \ unsure PROVE has'[r] = has[r]
  <2>1. job[Kitops].kid \notin has[r]
    BY <1>1 DEF ReposInv, MotionOK, InMotion
  <2> QED BY <2>1 DEF Flush
<1>4. CASE End
  BY <1>1, <1>2, <1>3, <1>4, EndRepos DEF End, OnRepo, Refreshing
<1>5. CASE /\ On(0, "refresh") /\ UNCHANGED locked
           /\ op' = [op EXCEPT !.left = op.repos]
  <2>1. job'[Kitops].at = "refresh" /\ op'.kind = op.kind
    BY <1>1, <1>5 DEF On, AnyJob, Request
  <2>2. AloneStep /\ InMotion' = {}
    BY <1>1, <1>5, <2>1 DEF AloneStep, InMotion
  <2> QED BY <1>1, <1>2, <1>3, <2>1, <2>2, KitopsPasses DEF OnRepo, Refreshing
<1> QED BY <1>4, <1>5 DEF Flush

LEMMA LockRepos ==
  ASSUME KitsInv, KitsInv', ReposInv, KitopsNext, AcquireGlobalLock \/ RemoveLock
  PROVE  ReposInv'
<1>1. Kitops \in DOMAIN job /\ job[Kitops] \in AnyJob
  BY Places DEF KitsInv, JobsTyped
<1>2. UNCHANGED <<rows, oskit, has, made, stale, content, spoiled, unsure>>
  BY DEF AcquireGlobalLock, RemoveLock, reposVars, rowVars, history
<1>3. job[Kitops].at \in {"lock", "idle"}
  BY DEF AcquireGlobalLock, RemoveLock, At
<1>4. CASE End
  BY <1>2, <1>3, <1>4, EndRepos DEF End, OnRepo, Refreshing
<1>5. CASE /\ \A t \in Tool : job[t] = Idle
           /\ locked' = TRUE /\ Goto(Kitops, "addRow")
  <2>1. job'[Kitops].at = "addRow"
    BY <1>1, <1>5 DEF Goto, AnyJob
  <2>2. InMotion' = {}
    BY <2>1 DEF InMotion
  <2>3. AloneStep
    BY <1>5, Zenon DEF AloneStep
  <2> QED BY <1>2, <1>3, <2>1, <2>2, <2>3, KitopsPasses DEF OnRepo, Refreshing
<1>6. CASE RemoveLock
  <2>1. UNCHANGED <<job, op>> /\ job[Kitops].at = "idle"
    BY <1>6 DEF RemoveLock, At
  <2>2. InMotion' = InMotion /\ op.kind = "none"
    BY <2>1 DEF InMotion, KitsInv, OpOK
  <2>3. AloneStep
    BY <2>1, <2>2 DEF AloneStep
  <2> QED BY <1>2, <2>1, <2>2, <2>3, KitopsPasses DEF OnRepo, Refreshing
<1> QED BY <1>4, <1>5, <1>6 DEF AcquireGlobalLock
(* kusu-kitops leaves repository r.  A copy of r that is being made has    *)
(* the mark, or the packages it should.                                    *)
LEMMA KitopsLeaves ==
  ASSUME KitsInv, KitsInv', ReposInv, KitopsNext, NEW r \in Repo, job[Kitops].repo = r,
         job'[Kitops].at \notin OnRepo, UNCHANGED <<rows, oskit, made, stale, content>>,
         \A x \in Repo \ unsure : x # r => has'[x] = has[x],
         spoiled' = spoiled, unsure \subseteq unsure',
         r \notin unsure' => Orderly(r)', AloneStep,
         \A x \in Repo \ unsure' : InMotion' \cap has'[x] = {}
  PROVE  ReposInv'
<1>1. JobsTyped /\ OpOK /\ (JobsTyped /\ OpOK)'
  BY DEF KitsInv
<1>2. NativeAlone /\ MotionOK /\ NoDirectory /\ \A x \in Repo \ unsure : RepoOK(x)
  BY DEF ReposInv
<1>3. \A q \in Proc : q # Kitops => job'[q] = job[q]
  BY <1>1, KitopsOthers
<1>4. job'[Kitops].repo = NoRepo
  BY <1>1, Places DEF JobsTyped, AnyJob, OpOK
<1>5. Untouched(r)
  BY DEF Untouched
<1>6. ASSUME NEW x \in Repo \ unsure' PROVE RepoOK(x)'
  <2>1. RepoOK(x)
    BY <1>2, <1>6
  <2>2. CASE x = r
    <3>1. \A q \in Proc : q # Kitops => job[q].repo # r
      BY <2>1, <2>2, Places DEF RepoOK
    <3>2. Done(Kitops, r)'
      BY <1>4, <1>6, <2>2, Places DEF Done
    <3> QED BY <1>3, <2>2, <3>1, <3>2, Here, Places
  <2>3. CASE x # r
    <3>1. ASSUME NEW q \in Proc, q # Kitops, job[q].repo = x, job[q].src # NoRepo,
                 job[q].src = r
          PROVE  SourceOK(q, x)'
      <4>1. SourceOK(q, x) /\ job'[q] = job[q]
        BY <1>3, <2>1, <3>1 DEF RepoOK, WorkOK
      <4>2. \A z \in Proc : job'[z].repo = r => z = Kitops /\ job'[z].at = "swapRow"
        BY <1>3, <1>4, <3>1, <4>1, Places DEF SourceOK
      <4>3. has'[x] = has[x]
        BY <1>6, <2>3
      <4> QED BY <3>1, <4>1, <4>2, <4>3 DEF SourceOK
    <3>2. x \in Repo \ unsure
      BY <1>6
    <3> QED BY <1>1, <1>3, <1>4, <1>5, <2>1, <2>3, <3>1, <3>2, Elsewhere, Places
  <2> QED BY <2>2, <2>3
<1>7. NativeAlone'
  BY <1>2, <1>3, AloneKept
<1>8. MotionOK' /\ NoDirectory'
  BY <1>2 DEF MotionOK, NoDirectory
<1> QED BY <1>6, <1>7, <1>8 DEF ReposInv

(* kusu-kitops takes up repository r.                                      *)
LEMMA KitopsTakes ==
  ASSUME KitsInv, KitsInv', ReposInv, KitopsNext, NEW r \in Repo,
         job[Kitops].at \notin OnRepo, job'[Kitops].repo = r,
         UNCHANGED <<rows, oskit, has, made, content, spoiled>>,
         stale' = stale \/ (stale' = stale \cup {r} /\ r \in made),
         unsure \subseteq unsure', unsure' \subseteq unsure \cup {r},
         job'[Kitops].at = "swapRow" \/ \A t \in Tool : job[t] = Idle,
         r \notin unsure' => Others(Kitops, r) = {} /\ (Orderly(r) => WorkOK(Kitops, r)'),
         AloneStep, InMotion' = {}
  PROVE  ReposInv'
<1>1. JobsTyped /\ OpOK
  BY DEF KitsInv
<1>2. NativeAlone /\ MotionOK /\ NoDirectory /\ \A x \in Repo \ unsure : RepoOK(x)
  BY DEF ReposInv
<1>3. \A q \in Proc : q # Kitops => job'[q] = job[q]
  BY <1>1, KitopsOthers
<1>4. job[Kitops].repo = NoRepo
  BY <1>1, NoRepoAt
<1>5. Untouched(r)
  BY DEF Untouched
<1>6. ASSUME NEW q \in Proc, q # Kitops, job[q].src = r
      PROVE  job[q].repo \in unsure' \/ SourceOK(q, job[q].repo)'
  <2>1. q \in Tool /\ job[q] # Idle
    BY <1>6, IdleTyped, Places
  <2>2. PICK s \in Repo : s = job[q].repo
    BY <1>1, <1>6, <2>1 DEF JobsTyped, ToolOK, RepoPlace
  <2>3. job'[q] = job[q]
    BY <1>3, <1>6
  <2>4. SUFFICES ASSUME s \notin unsure' PROVE SourceOK(q, s)'
    BY <2>2, <2>3
  <2>5. SourceOK(q, s)
    BY <1>2, <1>6, <2>2, <2>4, Places DEF RepoOK, WorkOK
  <2>6. job'[Kitops].at = "swapRow"
    BY <2>1
  <2>7. \A z \in Proc : job'[z].repo = r => z = Kitops /\ job'[z].at = "swapRow"
    BY <1>3, <1>6, <2>5, <2>6 DEF SourceOK
  <2> QED BY <1>6, <2>3, <2>5, <2>7 DEF SourceOK
<1>7. ASSUME r \notin unsure'
      PROVE  (\A q \in Proc : q # Kitops => job[q].repo # r) /\ WorkOK(Kitops, r)'
  <2>1. \A q \in Proc : q # Kitops => job[q].repo # r
    BY <1>7 DEF Others
  <2>2. Quiet(r)
    BY <1>4, <2>1, Places DEF Quiet
  <2>3. Orderly(r)
    BY <1>2, <1>7, <2>2 DEF RepoOK
  <2> QED BY <1>7, <2>1, <2>3
<1>8. \A x \in Repo \ unsure' : RepoOK(x)'
  BY <1>1, <1>2, <1>3, <1>4, <1>5, <1>6, <1>7, TakenUp, Places
<1>9. NativeAlone'
  BY <1>2, <1>3, AloneKept
<1>10. MotionOK' /\ NoDirectory'
  BY <1>2 DEF MotionOK, NoDirectory
<1> QED BY <1>8, <1>9, <1>10 DEF ReposInv

(* An upgrade moves a repository from the old kit to the new.              *)
LEMMA SwapStaleRepos ==
  ASSUME KitsInv, KitsInv', ReposInv, KitopsNext, SwapStale
  PROVE  ReposInv'
<1>1. job[Kitops].at = "swapStale" /\ op.left \subseteq Repo /\ job[Kitops].src = NoRepo
  BY SwapFacts DEF SwapStale, At
<1>2. UNCHANGED <<rows, oskit, has, made, content, spoiled>>
  BY DEF SwapStale, rowVars
<1>3. job[Kitops] \in AnyJob /\ Kitops \in DOMAIN job
  BY Places DEF KitsInv, JobsTyped
<1>4. CASE End /\ UNCHANGED <<stale, unsure>>
  BY <1>1, <1>2, <1>4, EndRepos DEF End, OnRepo, Refreshing
<1>5. ASSUME NEW r \in op.left, r \in made, OsKit \in KitRows(r), stale' = stale \cup {r},
             job' = [job EXCEPT ![Kitops].at = "swapRow", ![Kitops].repo = r],
             unsure' = IF Others(Kitops, r) = {} THEN unsure ELSE unsure \cup {r},
             UNCHANGED <<op, locked>>
      PROVE  ReposInv'
  <2>1. /\ job'[Kitops].at = "swapRow" /\ job'[Kitops].repo = r
        /\ job'[Kitops].src = NoRepo
    BY <1>1, <1>3, <1>5 DEF AnyJob
  <2>2. AloneStep /\ InMotion' = {}
    BY <1>1, <1>5, <2>1 DEF AloneStep, InMotion
  <2>3. r \in oskit /\ r \in Repo
    BY <1>1, <1>5 DEF KitRows, OsKit, KitsInv, RowsTyped, OpTyped, Kid
  <2>4. Orderly(r) => WorkOK(Kitops, r)'
    BY <1>2, <1>5, <2>1, <2>3 DEF Orderly, WorkOK, Standing, RowsOK
  <2> QED BY <1>1, <1>2, <1>5, <2>1, <2>2, <2>3, <2>4, KitopsTakes DEF OnRepo, Refreshing
<1> QED BY <1>4, <1>5 DEF SwapStale

LEMMA SwapRowRepos ==
  ASSUME KitsInv, KitsInv', ReposInv, KitopsNext, SwapRow
  PROVE  ReposInv'
<1>1. job[Kitops].at = "swapRow" /\ job[Kitops].repo \in Repo /\ op \in Request
  BY DEF SwapRow, At, KitsInv, OpOK, OnRepo, OpTyped
<1>2. PICK r \in Repo : r = job[Kitops].repo
  BY <1>1
<1>3. UNCHANGED <<rows, oskit, made, stale, content, spoiled>>
  BY DEF SwapRow, diskVars
<1>4. Kitops \in Proc /\ Kitops \in DOMAIN job /\ job[Kitops] \in AnyJob
  BY Places DEF KitsInv, JobsTyped
<1>5. ASSUME r \notin unsure PROVE Standing(r) /\ r \in stale /\ r \in oskit
  BY <1>1, <1>2, <1>4, <1>5 DEF ReposInv, RepoOK, WorkOK
<1>6. CASE r \notin rows /\ End /\ UNCHANGED <<has, unsure>>
  <2>1. job'[Kitops] = Idle
    BY <1>6, KitopsIdle DEF End, KitsInv
  <2>2. AloneStep /\ InMotion' = {} /\ job'[Kitops].at \notin OnRepo
    BY <1>6, <2>1, NoOpTyped, IdleTyped DEF End, AloneStep, InMotion, OnRepo, Refreshing
  <2>3. r \in unsure'
    BY <1>5, <1>6 DEF Standing
  <2> QED BY <1>2, <1>3, <1>6, <2>2, <2>3, KitopsLeaves
<1>7. CASE /\ has' = [has EXCEPT ![r] = (@ \ {op.old}) \cup {op.new}]
           /\ op' = [op EXCEPT !.left = op.left \ {r}]
           /\ job' = [job EXCEPT ![Kitops] =
                IF op.left \ {r} # {} THEN [@ EXCEPT !.at = "swapStale", !.repo = NoRepo]
                ELSE [@ EXCEPT !.at = Strategy(op.old), !.repo = NoRepo, !.kid = op.old]]
           /\ unsure' = unsure \cup {x \in Repo : op.left \ {r} = {} /\ op.old \in has'[x]}
           /\ UNCHANGED locked
  <2>1. op'.kind = op.kind
    BY <1>1, <1>7 DEF Request
  <2>2. \/ job'[Kitops].at = "swapStale"
        \/ /\ job'[Kitops].at \in {"preun", "erase"} /\ job'[Kitops].kid = op.old
           /\ op.left \ {r} = {}
    BY <1>4, <1>7 DEF AnyJob, Strategy
  <2>3. job'[Kitops].at \notin OnRepo
    BY <2>2 DEF OnRepo, Refreshing
  <2>4. AloneStep
    BY <1>1, <1>7, <2>1 DEF AloneStep
  <2>5. \A x \in Repo \ unsure' : InMotion' \cap has'[x] = {}
    BY <1>7, <2>2 DEF InMotion
  <2>6. \A x \in Repo \ unsure : x # r => has'[x] = has[x]
    BY <1>7
  <2>7. r \notin unsure' => Orderly(r)'
    BY <1>3, <1>5, <1>7 DEF Standing, Orderly, RowsOK
  <2>8. unsure \subseteq unsure'
    BY <1>7
  <2> QED BY <1>2, <1>3, <2>3, <2>4, <2>5, <2>6, <2>7, <2>8, KitopsLeaves
<1> QED BY <1>2, <1>6, <1>7 DEF SwapRow

(* Its end: each repository is refreshed.                                  *)
LEMMA UpgradeEndsRepos ==
  ASSUME KitsInv, KitsInv', ReposInv, KitopsNext, UpgradeEnds
  PROVE  ReposInv'
<1>1. UNCHANGED <<rows, oskit, has, made, stale, content, spoiled, unsure>>
  BY DEF UpgradeEnds, reposVars, rowVars, history
<1>2. job[Kitops].at \in {"refresh", "refreshed", "failed", "sync", "images", "record"}
  BY DEF UpgradeEnds, UpdateRepos, SynchronizeNodegroups, BuildImages,
     UpdateKusuVersion, At
<1>3. /\ Kitops \in Proc /\ Kitops \in DOMAIN job /\ job[Kitops] \in AnyJob
      /\ op \in Request /\ op.kind = "native" /\ job[Kitops].src = NoRepo
  BY <1>2, Places DEF KitsInv, JobsTyped, OpTyped, OpOK, Closing
<1>4. \A t \in Tool : job[t] = Idle
  BY <1>2, <1>3 DEF ReposInv, NativeAlone
<1>5. CASE End /\ job[Kitops].at \in {"sync", "images", "record"}
  BY <1>1, <1>5, EndRepos DEF End, OnRepo, Refreshing
<1>6. ASSUME NEW place \in {"images", "record"}, Goto(Kitops, place),
             UNCHANGED <<op, locked>>, job[Kitops].at \in {"sync", "images"}
      PROVE  ReposInv'
  <2>1. job'[Kitops].at = place
    BY <1>3, <1>6 DEF Goto, AnyJob
  <2>2. AloneStep /\ InMotion' = {}
    BY <1>6, <2>1 DEF AloneStep, InMotion
  <2> QED BY <1>1, <1>6, <2>1, <2>2, KitopsPasses DEF OnRepo, Refreshing
<1>7. ASSUME job[Kitops].at = "refresh", NEW r \in op.left, UNCHANGED <<op, locked>>,
             job' = [job EXCEPT ![Kitops].at = "clean", ![Kitops].repo = r]
      PROVE  ReposInv'
  <2>1. /\ job'[Kitops].at = "clean" /\ job'[Kitops].repo = r
        /\ job'[Kitops].src = NoRepo /\ r \in Repo
    BY <1>3, <1>7 DEF AnyJob, Request
  <2>2. AloneStep /\ InMotion' = {}
    BY <1>7, <2>1 DEF AloneStep, InMotion
  <2>3. Others(Kitops, r) = {}
    BY <1>4, <2>1, IdleTyped, Places DEF Others
  <2>4. Orderly(r) => WorkOK(Kitops, r)'
    BY <1>1, <2>1 DEF Orderly, RowsOK, Rest, WorkOK
  <2> QED BY <1>1, <1>4, <1>7, <2>1, <2>2, <2>3, <2>4, KitopsTakes DEF OnRepo, Refreshing
<1>8. ASSUME NEW r \in Repo, r = job[Kitops].repo, job[Kitops].at \in {"refreshed", "failed"},
             job'[Kitops].at \in {"sync", "refresh", "idle"}, AloneStep
      PROVE  ReposInv'
  <2>1. InMotion' = {} /\ job'[Kitops].at \notin OnRepo
    BY <1>8 DEF InMotion, OnRepo, Refreshing
  <2>2. r \notin unsure => Orderly(r)
    BY <1>3, <1>8 DEF ReposInv, RepoOK, WorkOK
  <2>3. r \notin unsure' => Orderly(r)'
    BY <1>1, <2>2 DEF Orderly, RowsOK, Rest
  <2> QED BY <1>1, <1>8, <2>1, <2>3, KitopsLeaves
<1>9. ASSUME job[Kitops].at \in {"refreshed", "failed"} PROVE job[Kitops].repo \in Repo
  BY <1>9 DEF KitsInv, OpOK, OnRepo
<1>10. CASE UpdateRepos
  <2>1. CASE At(Kitops, "refresh")
    BY <1>7, <1>10, <2>1 DEF UpdateRepos, At
  <2>2. CASE At(Kitops, "refreshed")
    <3> DEFINE left == op.left \ {job[Kitops].repo}
    <3>1. /\ op' = [op EXCEPT !.left = left] /\ UNCHANGED locked
          /\ job' = [job EXCEPT ![Kitops].repo = NoRepo,
                       ![Kitops].at = IF left = {} THEN "sync" ELSE "refresh"]
      BY <1>10, <2>2 DEF UpdateRepos, At
    <3>2. op'.kind = "native" /\ job'[Kitops].at \in {"sync", "refresh"}
      BY <1>3, <3>1 DEF AnyJob, Request
    <3>3. AloneStep
      BY <1>3, <2>2, <3>1, <3>2 DEF AloneStep, At
    <3> QED BY <1>8, <1>9, <2>2, <3>2, <3>3 DEF At
  <2>3. CASE At(Kitops, "failed") /\ End
    <3>1. job'[Kitops].at = "idle"
      BY <2>3, KitopsIdle, IdleTyped DEF End, KitsInv
    <3>2. AloneStep
      BY <2>3, NoOpTyped DEF End, AloneStep
    <3> QED BY <1>8, <1>9, <2>3, <3>1, <3>2 DEF At
  <2> QED BY <1>10, <2>1, <2>2, <2>3 DEF UpdateRepos
<1>11. CASE SynchronizeNodegroups \/ BuildImages
  BY <1>5, <1>6, <1>11 DEF SynchronizeNodegroups, BuildImages, At
<1>12. CASE UpdateKusuVersion
  BY <1>5, <1>12 DEF UpdateKusuVersion, At
<1> QED BY <1>10, <1>11, <1>12 DEF UpgradeEnds

LEMMA KillKitopsRepos ==
  ASSUME KitsInv, KitsInv', ReposInv, KitopsNext, KillKitops
  PROVE  ReposInv'
<1>1. /\ UNCHANGED <<rows, oskit, has, made, stale, content>>
      /\ job' = [job EXCEPT ![Kitops] = Idle] /\ op' = NoOp
      /\ spoiled \subseteq spoiled' /\ unsure' = unsure \cup Unmarked(Kitops)
  BY DEF KillKitops, reposVars, rowVars
<1>2. CASE job[Kitops].at \notin OnRepo
  BY <1>1, <1>2, EndRepos
<1>3. CASE job[Kitops].at \in OnRepo
  <2>1. PICK r \in Repo : r = job[Kitops].repo
    BY <1>3 DEF KitsInv, OpOK
  <2>2. job'[Kitops] = Idle
    BY <1>1, KitopsIdle DEF KitsInv
  <2>3. AloneStep /\ InMotion' = {} /\ job'[Kitops].at \notin OnRepo
    BY <1>1, <2>2, NoOpTyped, IdleTyped DEF AloneStep, InMotion, OnRepo, Refreshing
  <2>4. spoiled' = spoiled
    BY <1>3 DEF KillKitops, OnRepo, Refreshing, Adding, Deleting
  <2>5. ASSUME r \notin unsure' PROVE Orderly(r)'
    <3>1. r \notin unsure /\ job[Kitops].at \notin {"makeRepoDirs", "touch"}
      BY <1>1, <2>1, <2>5 DEF Unmarked
    <3>2. WorkOK(Kitops, r)
      BY <2>1, <3>1, Places DEF ReposInv, RepoOK
    <3>3. Orderly(r)
      BY <1>3, <3>1, <3>2 DEF WorkOK, OnRepo, Refreshing, Orderly, Standing
    <3> QED BY <1>1, <2>4, <3>3 DEF Orderly, RowsOK, Rest
  <2>6. unsure \subseteq unsure'
    BY <1>1
  <2> QED BY <1>1, <2>1, <2>3, <2>4, <2>5, <2>6, KitopsLeaves
<1> QED BY <1>2, <1>3

---------------------------------------------------------------------------
LEMMA ReposInit ==
  ASSUME Init
  PROVE  ReposInv
<1>1. /\ job = [p \in Proc |-> Idle] /\ op = NoOp /\ rows = Existing /\ made = Existing
      /\ oskit = Existing /\ content = has /\ unsure = {} /\ stale = {}
      /\ \A r \in Repo \ Existing : has[r] = {}
  BY DEF Init
<1>2. Kitops \in Proc /\ \A p \in Proc : job[p] = Idle
  BY <1>1, Places
<1>3. NativeAlone /\ MotionOK /\ NoDirectory
  BY <1>1, <1>2, NoOpTyped, IdleTyped DEF NativeAlone, MotionOK, InMotion, NoDirectory
<1>4. ASSUME NEW r \in Repo PROVE RepoOK(r)
  <2>1. Orderly(r)
    BY <1>1 DEF Orderly, RowsOK, Rest
  <2>2. \A p \in Proc : job[p].repo # r
    BY <1>2, IdleTyped, Places
  <2> QED BY <2>1, <2>2 DEF RepoOK
<1> QED BY <1>3, <1>4 DEF ReposInv

LEMMA ReposStep ==
  ASSUME KitsInv, KitsInv', ReposInv, [Next]_vars
  PROVE  ReposInv'
<1>1. CASE RepoNext
  BY <1>1, RepoRepos
<1>2. CASE KitopsNext
  BY <1>2, AskRepos, AddingRepos, PostScriptRepos, DeletingRepos, FlushRepos, LockRepos,
     SwapStaleRepos, SwapRowRepos, UpgradeEndsRepos, KillKitopsRepos DEF KitopsNext, At
<1>3. CASE UNCHANGED vars
  <2>1. UNCHANGED <<rows, oskit, has, made, stale, content, job, locked, op, spoiled, unsure>>
    BY <1>3 DEF vars, reposVars, rowVars, history
  <2>2. NativeAlone' /\ MotionOK' /\ NoDirectory'
    BY <2>1 DEF ReposInv, NativeAlone, MotionOK, InMotion, NoDirectory
  <2>3. ASSUME NEW r \in Repo \ unsure' PROVE RepoOK(r)'
    <3>1. RepoOK(r)
      BY <2>1 DEF ReposInv
    <3> QED BY <2>1, <3>1 DEF RepoOK, Quiet, Orderly, WorkOK, SourceOK, Standing, Rest,
         RowsOK, KitRows
  <2> QED BY <2>2, <2>3 DEF ReposInv
<1> QED BY <1>1, <1>2, <1>3 DEF Next

(* However many runs of kusu-repoman there are beside kusu-kitops, and     *)
(* whatever fails or is killed, what each process may rely on about the    *)
(* repository it works on holds, unless the repository is unsure.          *)
THEOREM ReposCorrect == Spec => [](KitsInv /\ ReposInv)
<1>1. Init => KitsInv /\ ReposInv
  BY KitsInit, ReposInit
<1>2. KitsInv /\ ReposInv /\ [Next]_vars => (KitsInv /\ ReposInv)'
  BY KitsStep, ReposStep
<1> QED BY <1>1, <1>2, PTL DEF Spec

(* A repository nobody works on has a row and a directory or neither, and  *)
(* its directory, unless marked, the packages of its kits and no others.   *)
THEOREM RepoServesItsKitsHolds == Spec => []RepoServesItsKits
<1>1. KitsInv /\ ReposInv => RepoServesItsKits
  <2> SUFFICES ASSUME KitsInv, ReposInv, NEW r \in Repo \ unsure, Quiet(r)
               PROVE  RowAndDirectory(r) /\ (r \in stale \/ CleanIsCurrent(r))
    BY DEF RepoServesItsKits
  <2>1. Orderly(r)
    BY DEF ReposInv, RepoOK
  <2>2. \A k \in has[r] \ spoiled : "rpms" \in files[k]
    BY PackagesThere DEF ReposInv
  <2> QED BY <2>1, <2>2 DEF Orderly, RowsOK, Rest, RowAndDirectory, CleanIsCurrent
<1> QED BY <1>1, ReposCorrect, PTL
---------------------------------------------------------------------------
(* Upgrades.                                                               *)

Moved(r) == op.new \in has[r] /\ op.old \notin has[r]
Fresh(r) == r \notin stale /\ Rest(r)

(* The link leads to a plugin, unless the kit has lost its kitinfo, and is *)
(* not the kit's whose files come or go.                                   *)
LinkLeads ==
  LET place == job[Kitops].at
      k == job[Kitops].kid
  IN /\ \A x \in Kid : link = x /\ "kitinfo" \in files[x] => "plugins" \in files[x]
     /\ place \in Adding => link # k
     /\ place \in {"preun", "unlink"} => "kitinfo" \in files[k]
     /\ place = "erase" => "kitinfo" \notin files[k]
     /\ place \in {"rmtree", "postun"} => link # k

(* The old kit stays whole until it is deleted.                            *)
UpgradeOK ==
  LET place == job[Kitops].at
      k == job[Kitops].kid
  IN Upgrading =>
     /\ op.left \subseteq op.repos
     /\ place \in Starting \cup Adding \cup Brought => "kitinfo" \in files[op.old]
     /\ place \in Starting \cup Adding \cup {"addLink", "addComponents", "addPost"} =>
          op.left = op.repos
     /\ place \in Deleting => place # "erase" /\ k \in {op.old, op.new}
     /\ place = "flush" => link # k

(* What the upgrade of the native base kit has done so far.                *)
NativeOK ==
  LET place == job[Kitops].at
      k == job[Kitops].kid
  IN op.kind = "native" =>
     /\ place \in {"swapStale", "swapRow"} => \A r \in op.repos \ op.left : Moved(r)
     /\ place \in Deleting /\ k = op.old => \A r \in op.repos : Moved(r)
     /\ place \in Closing =>
          /\ op.old \notin DOMAIN kits /\ files[op.old] = {} /\ link # op.old
          /\ \A g \in NodeGroup : op.old \notin uses[g]
          /\ \A r \in op.repos : Moved(r)
          /\ \A r \in op.repos \ op.left : Fresh(r)
     /\ place \in {"sync", "images", "record"} => op.left = {}

(* What it has done about the repository it refreshes.                     *)
RefreshOK ==
  LET place == job[Kitops].at
      r == job[Kitops].repo
  IN /\ place \in Refreshing \cup RefreshEnd => r \in op.left
     /\ place \in {"makeRepoDirs", "touch", "list", "copy"} => content[r] = {}
     /\ place = "copy" => job[Kitops].list = has[r]
     /\ place \in {"image", "markClean"} => Rest(r)
     /\ place = "refreshed" => Fresh(r)

UpgradeInv == LinkLeads /\ UpgradeOK /\ NativeOK /\ RefreshOK

LEMMA KitopsTyped ==
  ASSUME KitsInv
  PROVE  /\ Kitops \in Proc /\ Kitops \in DOMAIN job /\ job[Kitops] \in AnyJob
         /\ op \in Request /\ files \in [Kid -> SUBSET (Part \cup {"some"})]
         /\ DOMAIN kits \subseteq Kid /\ link \in Kid \cup {0} /\ 0 \notin Kid
  BY Places, ReposAssumption DEF KitsInv, JobsTyped, OpTyped, Kid

(* Nobody but kusu-kitops moves while it upgrades the native base kit.     *)
LEMMA OthersRest ==
  ASSUME KitsInv, ReposInv, RepoNext, op.kind = "native", job[Kitops].at # "lock"
  PROVE  Refresh(Kitops) \/ UNCHANGED <<kits, files, uses, has, stale, content, job>>
<1>1. locked /\ \A t \in Tool : job[t] = Idle
  BY DEF ReposInv, NativeAlone
<1>2. CASE RemoveLockFile
  BY <1>2 DEF RemoveLockFile, kitVars, rowVars, diskVars
<1>3. ASSUME NEW t \in Tool,
             \/ Begin(t) \/ Lock(t) \/ Refused(t) \/ KillTool(t)
             \/ Refresh(t) \/ AddRow(t) \/ AddStale(t) \/ DelStale(t) \/ DelRow(t)
             \/ MakeDirs(t) \/ RmTree(t) \/ DelRows(t) \/ MkDir(t) \/ CopyTree(t)
             \/ At(t, "locked")
      PROVE  FALSE
  <2>1. job[t] = Idle /\ job[t].at = "idle" /\ locked
    BY <1>1, IdleTyped
  <2> QED BY <1>3, <2>1 DEF Begin, Lock, Refused, KillTool, Refresh, AddRow, AddStale, DelStale, DelRow,
       MakeDirs, RmTree, DelRows, MkDir, CopyTree, Clean, MakeRepoDirs, MarkStale, ListKits,
       CopyKitsPackages, CopyKusuNodeInstaller, MarkClean, At
<1> QED BY <1>2, <1>3 DEF RepoNext, ToolNext

(* The packages of what a repository has, when no kit is in hand.          *)
LEMMA PackagesOfAll ==
  ASSUME KitsInv, job[Kitops].at \in Closing, NEW r \in Repo, NEW k \in has[r] \ spoiled
  PROVE  "rpms" \in files[k]
<1>1. k \in DOMAIN kits /\ k \in Kid
  BY DEF KitsInv, RowsTyped, OpTyped
<1>2. job[Kitops].kid = 0 /\ 0 \notin Kid
  BY KitopsTyped DEF KitsInv, OpOK
<1>3. k \notin InHand
  BY <1>1, <1>2 DEF InHand
<1> QED BY <1>1, <1>3 DEF KitsInv, RowsHaveFiles, Part

LEMMA RefreshUpgrade ==
  ASSUME KitsInv, ReposInv, RefreshOK, NEW r \in Repo, r = job[Kitops].repo,
         Refresh(Kitops), UNCHANGED <<op, spoiled>>
  PROVE  RefreshOK'
<1>1. JobsTyped /\ RowsTyped /\ NoDirectory
  BY DEF KitsInv, ReposInv
<1>2. /\ job[Kitops].at \in Refreshing
      /\ Kitops \in Proc /\ Kitops \in DOMAIN job /\ job[Kitops] \in AnyJob
  BY KitopsTyped, RefreshNoSource DEF KitsInv
<1>3. job[Kitops].at \in Closing /\ op.left \subseteq Repo
  BY <1>2, KitopsTyped DEF Closing, Request
<1>4. job'[Kitops].repo = r /\ r \in op.left /\ UNCHANGED has
  <2>1. r \in op.left
    BY <1>2 DEF RefreshOK
  <2>2. job'[Kitops].repo = r
    BY <1>1, <1>2, RefreshJob DEF KitsInv
  <2> QED BY <1>1, <1>2, <2>1, <2>2, RefreshData
<1>5. ASSUME NEW place \in Place \ {"copy"}, Goto(Kitops, place)
      PROVE  job'[Kitops].at = place
  BY <1>1, <1>2, <1>5, GotoJob
<1>6. Place = Place \cup Refreshing \cup RefreshEnd
  BY DEF Place, KitopsPlace, RefreshEnd
<1>7. ASSUME Failed(Kitops) PROVE RefreshOK'
  <2>1. job'[Kitops].at = "failed"
    BY <1>5, <1>6, <1>7 DEF Failed, GoOn, RefreshEnd
  <2> QED BY <1>4, <2>1 DEF RefreshOK, Refreshing, RefreshEnd
<1>8. CASE Clean(Kitops)
  <2>1. CASE Goto(Kitops, "makeRepoDirs") /\ RemoveDirectory(Kitops, r)
    <3>1. job'[Kitops].at = "makeRepoDirs"
      BY <1>5, <1>6, <2>1 DEF Refreshing
    <3>2. content'[r] = {}
      BY <1>1, <2>1 DEF RemoveDirectory, RowsTyped
    <3> QED BY <1>4, <3>1, <3>2 DEF RefreshOK, Refreshing, RefreshEnd
  <2> QED BY <1>7, <1>8, <2>1 DEF Clean
<1>9. CASE MakeRepoDirs(Kitops)
  <2>1. job'[Kitops].at = "touch" /\ job[Kitops].at = "makeRepoDirs" /\ UNCHANGED content
    BY <1>5, <1>6, <1>9 DEF MakeRepoDirs, At, Refreshing
  <2> QED BY <1>4, <2>1 DEF RefreshOK, Refreshing, RefreshEnd
<1>10. CASE MarkStale(Kitops)
  <2>1. CASE Goto(Kitops, "list")
    <3>1. job'[Kitops].at = "list" /\ job[Kitops].at = "touch" /\ UNCHANGED content
      BY <1>5, <1>6, <1>10, <2>1 DEF MarkStale, At, Refreshing
    <3> QED BY <1>4, <3>1 DEF RefreshOK, Refreshing, RefreshEnd
  <2> QED BY <1>7, <1>10, <2>1 DEF MarkStale
<1>11. CASE ListKits(Kitops)
  <2>1. /\ job'[Kitops].at = "copy" /\ job'[Kitops].list = has[r]
        /\ job[Kitops].at = "list" /\ UNCHANGED content
    BY <1>2, <1>11 DEF ListKits, At, AnyJob, diskVars
  <2> QED BY <1>4, <2>1 DEF RefreshOK, Refreshing, RefreshEnd
<1>12. CASE CopyKitsPackages(Kitops)
  <2>1. CASE Goto(Kitops, "image") /\ content' = [content EXCEPT ![r] =
               @ \cup {k \in job[Kitops].list : "rpms" \in files[k]}]
    <3>1. job'[Kitops].at = "image" /\ job[Kitops].at = "copy"
      BY <1>5, <1>6, <1>12, <2>1 DEF CopyKitsPackages, At, Refreshing
    <3>2. content[r] = {} /\ job[Kitops].list = has[r]
      BY <3>1 DEF RefreshOK
    <3>3. content'[r] = {k \in has[r] : "rpms" \in files[k]}
      BY <1>1, <2>1, <3>2 DEF RowsTyped
    <3>4. \A k \in has[r] \ spoiled : "rpms" \in files[k]
      BY <1>3, PackagesOfAll
    <3>5. content'[r] \ spoiled = has[r] \ spoiled
      BY <3>3, <3>4
    <3> QED BY <1>4, <3>1, <3>5 DEF RefreshOK, Refreshing, RefreshEnd, Rest
  <2> QED BY <1>7, <1>12, <2>1 DEF CopyKitsPackages
<1>13. CASE CopyKusuNodeInstaller(Kitops)
  <2>1. CASE Goto(Kitops, "markClean")
    <3>1. job'[Kitops].at = "markClean" /\ job[Kitops].at = "image" /\ UNCHANGED content
      BY <1>5, <1>6, <1>13, <2>1 DEF CopyKusuNodeInstaller, At, Refreshing
    <3> QED BY <1>4, <3>1 DEF RefreshOK, Refreshing, RefreshEnd, Rest
  <2> QED BY <1>7, <1>13, <2>1 DEF CopyKusuNodeInstaller
<1>14. CASE MarkClean(Kitops)
  <2>1. /\ job'[Kitops].at = "refreshed" /\ job[Kitops].at = "markClean" /\ UNCHANGED content
        /\ r \notin stale'
    BY <1>5, <1>6, <1>14 DEF MarkClean, Refreshed, GoOn, At, RefreshEnd
  <2> QED BY <1>4, <2>1 DEF RefreshOK, Refreshing, RefreshEnd, Rest, Fresh
<1> QED BY <1>8, <1>9, <1>10, <1>11, <1>12, <1>13, <1>14 DEF Refresh

LEMMA RepoUpgrade ==
  ASSUME KitsInv, ReposInv, UpgradeInv, RepoNext
  PROVE  UpgradeInv'
<1>1. KitopsFrame /\ JobsTyped /\ RowsTyped /\ OpOK /\ NoDirectory
  BY RepoTyped DEF KitsInv, ReposInv
<1>2. LinkLeads'
  BY <1>1 DEF UpgradeInv, LinkLeads, KitopsFrame, Refreshing, RefreshEnd, Adding
<1>3. UpgradeOK'
  <2>1. CASE job'[Kitops] = job[Kitops]
    BY <1>1, <2>1 DEF UpgradeInv, UpgradeOK, KitopsFrame, Upgrading
  <2>2. CASE job'[Kitops].at \in Refreshing \cup RefreshEnd
    BY <1>1, <2>2 DEF UpgradeInv, UpgradeOK, KitopsFrame, Refreshing, RefreshEnd, Adding,
       Starting, Brought, Deleting, Upgrading
  <2> QED BY <1>1, <2>1, <2>2 DEF KitopsFrame
<1>4. CASE op.kind # "native" \/ job[Kitops].at = "lock"
  <2>1. job[Kitops].at \notin Closing \cup Refreshing \cup RefreshEnd
    BY <1>1, <1>4 DEF OpOK, Closing, Refreshing, RefreshEnd
  <2>2. job'[Kitops] = job[Kitops] /\ op' = op
    BY <1>1, <2>1 DEF KitopsFrame
  <2>3. NativeOK'
    BY <1>4, <2>2 DEF NativeOK, Closing, Refreshing, Deleting
  <2>4. RefreshOK'
    BY <2>1, <2>2 DEF RefreshOK, Refreshing, RefreshEnd
  <2> QED BY <1>2, <1>3, <2>3, <2>4 DEF UpgradeInv
<1>5. CASE op.kind = "native" /\ job[Kitops].at # "lock"
  <2>1. CASE UNCHANGED <<kits, files, uses, has, stale, content, job>>
    <3>1. UNCHANGED <<op, link, spoiled>>
      BY <1>1 DEF KitopsFrame
    <3>2. NativeOK'
      BY <2>1, <3>1 DEF UpgradeInv, NativeOK, Moved, Fresh, Rest
    <3>3. RefreshOK'
      BY <2>1, <3>1 DEF UpgradeInv, RefreshOK, Fresh, Rest
    <3> QED BY <1>2, <1>3, <3>2, <3>3 DEF UpgradeInv
  <2>2. CASE Refresh(Kitops)
    <3>1. PICK r \in Repo : r = job[Kitops].repo
      BY <1>1, <2>2, RefreshNoSource, Places
    <3>2. job[Kitops].at \in Refreshing
      BY <1>1, <2>2, RefreshNoSource, Places
    <3>3. /\ UNCHANGED <<op, spoiled, kits, files, link>>
          /\ job'[Kitops].at \in Refreshing \cup RefreshEnd
      BY <1>1, <3>2 DEF KitopsFrame
    <3>4. RefreshOK'
      BY <2>2, <3>1, <3>3, RefreshUpgrade DEF UpgradeInv
    <3>5. UNCHANGED uses
      BY <2>2 DEF Refresh, Clean, MakeRepoDirs, MarkStale, ListKits, CopyKitsPackages,
         CopyKusuNodeInstaller, MarkClean, kitVars
    <3>6. Untouched(r) /\ UNCHANGED has
      BY <1>1, <2>2, <3>1, RefreshData, Places
    <3>7. r \in op.left /\ op.repos \subseteq Repo
      BY <3>1, <3>2, KitopsTyped DEF UpgradeInv, RefreshOK, Request
    <3>8. \A x \in op.repos \ op.left : Fresh(x) => Fresh(x)'
      BY <3>3, <3>6, <3>7 DEF Untouched, Fresh, Rest
    <3>9. job[Kitops].at \in Closing
      BY <3>2 DEF Closing
    <3>10. NativeOK'
      BY <1>5, <3>3, <3>5, <3>6, <3>8, <3>9 DEF UpgradeInv, NativeOK, Moved, Refreshing,
         RefreshEnd, Deleting
    <3> QED BY <1>2, <1>3, <3>4, <3>10 DEF UpgradeInv
  <2> QED BY <1>5, <2>1, <2>2, OthersRest
<1> QED BY <1>4, <1>5
LEMMA EndUpgrade ==
  ASSUME KitsInv, UpgradeInv, job' = [job EXCEPT ![Kitops] = Idle], op' = NoOp,
         UNCHANGED <<files, link>>
  PROVE  UpgradeInv'
<1>1. job'[Kitops] = Idle /\ op'.kind = "none"
  BY KitopsIdle, NoOpTyped DEF KitsInv
<1>2. LinkLeads'
  BY <1>1, IdleTyped DEF UpgradeInv, LinkLeads, Adding
<1>3. UpgradeOK' /\ NativeOK'
  BY <1>1 DEF UpgradeOK, Upgrading, NativeOK
<1>4. RefreshOK'
  BY <1>1, IdleTyped DEF RefreshOK, Refreshing, RefreshEnd
<1> QED BY <1>2, <1>3, <1>4 DEF UpgradeInv

LEMMA AskUpgrade ==
  ASSUME KitsInv, UpgradeInv, job[Kitops].at = "idle",
         \/ \E m \in Media : Add(m) \/ \E k \in Kid : Upgrade(k, m)
         \/ \E k \in Kid : Delete(k)
  PROVE  UpgradeInv'
<1>1. ASSUME NEW request, NEW place, NEW k, Ask(request, place, k)
      PROVE  /\ job'[Kitops].at = place /\ job'[Kitops].kid = k /\ op' = request
             /\ UNCHANGED <<kits, files, link>>
  BY <1>1, KitopsTyped DEF Ask, Idle, kitVars, linkVars
<1>2. ASSUME NEW m \in Media, Add(m) PROVE UpgradeInv'
  <2> DEFINE request == [NoOp EXCEPT !.kind = "add", !.kit = m]
  <2>1. Ask(request, "addRow", 0) /\ request.kind = "add"
    BY <1>2 DEF Add, NoOp
  <2> HIDE DEF request
  <2>2. /\ job'[Kitops].at = "addRow" /\ op'.kind = "add" /\ UNCHANGED <<kits, files, link>>
    BY <1>1, <2>1
  <2> QED BY <2>2 DEF UpgradeInv, LinkLeads, UpgradeOK, NativeOK, RefreshOK, Upgrading, Adding,
       Refreshing, RefreshEnd
<1>3. ASSUME NEW k \in Kid, Delete(k) PROVE UpgradeInv'
  <2> DEFINE request == [NoOp EXCEPT !.kind = "delete", !.old = k]
  <2>1. Ask(request, Strategy(k), k) /\ request.kind = "delete"
    BY <1>3 DEF Delete, NoOp
  <2> HIDE DEF request
  <2>2. /\ job'[Kitops].at = Strategy(k) /\ op'.kind = "delete" /\ job'[Kitops].kid = k
        /\ UNCHANGED <<kits, files, link>>
    BY <1>1, <2>1
  <2>3. /\ Strategy(k) \in {"preun", "erase"}
        /\ Strategy(k) = "preun" <=> "kitinfo" \in files[k]
    BY DEF Strategy
  <2> QED BY <2>2, <2>3 DEF UpgradeInv, LinkLeads, UpgradeOK, NativeOK, RefreshOK, Upgrading,
       Adding, Refreshing, RefreshEnd
<1>4. ASSUME NEW m \in Media, NEW k \in Kid, Upgrade(k, m) PROVE UpgradeInv'
  <2> DEFINE repos == {r \in Repo : k \in has[r]}
             native == InstallerRepo \in repos
             place == IF native THEN "lock" ELSE "addRow"
             request == [NoOp EXCEPT !.kind = IF native THEN "native" ELSE "compat",
                           !.kit = m, !.old = k, !.repos = repos, !.left = repos]
  <2>1. /\ Ask(request, place, 0) /\ place \in {"lock", "addRow"}
        /\ request.left = request.repos /\ request.old = k
    BY <1>4 DEF Upgrade, NoOp
  <2> HIDE DEF request, place
  <2>2. /\ job'[Kitops].at \in {"lock", "addRow"}
        /\ op'.left = op'.repos /\ op'.old = k /\ UNCHANGED <<kits, files, link>>
    BY <1>1, <2>1
  <2>3. "kitinfo" \in files[k]
    BY <1>4 DEF Upgrade, Conflicts
  <2>4. LinkLeads'
    BY <2>2 DEF UpgradeInv, LinkLeads, Adding
  <2>5. UpgradeOK'
    BY <2>2, <2>3 DEF UpgradeOK, Deleting
  <2>6. NativeOK' /\ RefreshOK'
    BY <2>2 DEF NativeOK, RefreshOK, Deleting, Closing, Refreshing, RefreshEnd
  <2> QED BY <2>4, <2>5, <2>6 DEF UpgradeInv
<1> QED BY <1>2, <1>3, <1>4

LEMMA AddRowUpgrade ==
  ASSUME KitsInv, UpgradeInv, AddRowFlushed
  PROVE  UpgradeInv'
<1>1. /\ job[Kitops].at = "addRow" /\ job'[Kitops].at = "addRpms"
      /\ job'[Kitops].kid = nextKid
      /\ UNCHANGED <<files, link>>
  BY KitopsTyped DEF AddRowFlushed, At, On, AnyJob
<1>2. /\ op'.kind = op.kind /\ op'.old = op.old /\ op'.left = op.left /\ op'.repos = op.repos
  BY KitopsTyped DEF AddRowFlushed, Request
<1>3. link # nextKid
  BY KitopsTyped DEF KitsInv, NewKidOK, OpTyped
<1>4. LinkLeads'
  BY <1>1, <1>3 DEF UpgradeInv, LinkLeads
<1>5. UpgradeOK'
  BY <1>1, <1>2 DEF UpgradeInv, UpgradeOK, Upgrading, Starting, Deleting
<1>6. NativeOK' /\ RefreshOK'
  BY <1>1 DEF NativeOK, RefreshOK, Deleting, Closing, Refreshing, RefreshEnd
<1> QED BY <1>4, <1>5, <1>6 DEF UpgradeInv

(* The files of a new kit come; the old one keeps its.                     *)
LEMMA AddingUpgrade ==
  ASSUME KitsInv, UpgradeInv,
         CopyRpms \/ MoveItem \/ InstallPlugins \/ UpdateComponents
  PROVE  UpgradeInv'
<1> DEFINE k == op.new
<1>1. /\ job[Kitops].at \in {"addRpms", "addTar", "addMove", "addLink", "addComponents"}
      /\ job'[Kitops].at \in {"addTar", "addMove", "addLink", "addComponents", "addPost"}
      /\ job'[Kitops].kid = job[Kitops].kid /\ UNCHANGED op
  BY KitopsTyped DEF CopyRpms, MoveItem, InstallPlugins, UpdateComponents, At, Goto, AnyJob
<1>2. job[Kitops].kid = k /\ k \in Kid /\ (Upgrading => op.old # k /\ op.old \in Kid)
  BY <1>1, KitopsTyped DEF KitsInv, OpOK, Adding, Brought
<1>3. /\ job[Kitops].at = "addLink" => files[k] = Part
      /\ job[Kitops].at \in Adding => link # k
  BY <1>1, <1>2 DEF KitsInv, HandOK, Brought, UpgradeInv, LinkLeads
<1>4. \A x \in Kid \ {k} : files'[x] = files[x]
  BY KitopsTyped DEF CopyRpms, MoveItem, InstallPlugins, UpdateComponents, kitVars
<1>5. LinkLeads'
  <2>1. CASE InstallPlugins
    <3>1. /\ job[Kitops].at = "addLink" /\ job'[Kitops].at = "addComponents"
          /\ files' = files /\ link' \in {link, k}
      BY <2>1, KitopsTyped DEF InstallPlugins, At, Goto, AnyJob, kitVars
    <3> QED BY <1>3, <3>1 DEF UpgradeInv, LinkLeads, Adding, Part
  <2>2. CASE UpdateComponents
    <3>1. files' = files /\ link' = link /\ job'[Kitops].at = "addPost"
      BY <2>2, KitopsTyped DEF UpdateComponents, Goto, AnyJob, linkVars
    <3> QED BY <3>1 DEF UpgradeInv, LinkLeads, Adding
  <2>3. CASE CopyRpms \/ MoveItem
    <3>1. link' = link /\ job[Kitops].at \in Adding
      BY <2>3 DEF CopyRpms, MoveItem, At, linkVars, Adding
    <3> QED BY <1>1, <1>2, <1>3, <1>4, <3>1 DEF UpgradeInv, LinkLeads
  <2> QED BY <2>1, <2>2, <2>3
<1>6. UpgradeOK'
  BY <1>1, <1>2, <1>4 DEF UpgradeInv, UpgradeOK, Upgrading, Adding, Brought, Deleting
<1>7. NativeOK' /\ RefreshOK'
  BY <1>1 DEF NativeOK, RefreshOK, Deleting, Closing, Refreshing, RefreshEnd
<1> QED BY <1>5, <1>6, <1>7 DEF UpgradeInv

LEMMA PostScriptUpgrade ==
  ASSUME KitsInv, UpgradeInv, PostScript
  PROVE  UpgradeInv'
<1>1. /\ job[Kitops].at = "addPost" /\ UNCHANGED <<kits, files, link>>
  BY DEF PostScript, At, kitVars
<1>2. /\ job[Kitops].kid = op.new /\ files[op.new] = Part
      /\ Upgrading => op.old # op.new
  BY <1>1 DEF KitsInv, OpOK, HandOK, Brought
<1>3. CASE End
  BY <1>1, <1>3, EndUpgrade DEF End
<1>4. CASE Goto(Kitops, "swapStale") /\ UNCHANGED op
  <2>1. job'[Kitops].at = "swapStale"
    BY <1>4, KitopsTyped DEF Goto, AnyJob
  <2>2. LinkLeads'
    BY <1>1, <2>1 DEF UpgradeInv, LinkLeads, Adding
  <2>3. UpgradeOK'
    BY <1>1, <1>4, <2>1 DEF UpgradeInv, UpgradeOK, Upgrading, Brought, Deleting, Starting, Adding
  <2>4. NativeOK'
    BY <1>1, <1>4, <2>1 DEF UpgradeInv, UpgradeOK, NativeOK, Upgrading, Deleting, Closing,
       Refreshing
  <2>5. RefreshOK'
    BY <2>1 DEF RefreshOK, Refreshing, RefreshEnd
  <2> QED BY <2>2, <2>3, <2>4, <2>5 DEF UpgradeInv
<1>5. CASE On(op.new, "preun") /\ UNCHANGED op
  <2>1. job'[Kitops].at = "preun" /\ job'[Kitops].kid = op.new
    BY <1>5, KitopsTyped DEF On, AnyJob
  <2>2. LinkLeads'
    BY <1>1, <1>2, <2>1 DEF UpgradeInv, LinkLeads, Adding, Part
  <2>3. UpgradeOK'
    BY <1>1, <1>5, <2>1 DEF UpgradeInv, UpgradeOK, Upgrading, Brought, Deleting, Starting, Adding
  <2>4. NativeOK'
    BY <1>1, <1>2, <1>5, <2>1 DEF UpgradeInv, NativeOK, Upgrading, Closing, Refreshing
  <2>5. RefreshOK'
    BY <2>1 DEF RefreshOK, Refreshing, RefreshEnd
  <2> QED BY <2>2, <2>3, <2>4, <2>5 DEF UpgradeInv
<1> QED BY <1>3, <1>4, <1>5 DEF PostScript

(* A kit is deleted: first the link is led elsewhere, then its files go.   *)
LEMMA DeletingUpgrade ==
  ASSUME KitsInv, UpgradeInv,
         \/ PreunScript \/ UninstallPlugins \/ PostunScript
         \/ RemoveFiles("rmtree", "postun") \/ RemoveFiles("erase", "flush")
  PROVE  UpgradeInv'
<1> DEFINE k == job[Kitops].kid
<1>1. CASE End /\ (PreunScript \/ PostunScript)
  <2>1. UNCHANGED <<files, link>>
    BY <1>1 DEF PreunScript, PostunScript, kitVars, linkVars
  <2> QED BY <1>1, <2>1, EndUpgrade DEF End
<1>2. CASE ~(End /\ (PreunScript \/ PostunScript))
  <2>1. /\ job[Kitops].at \in Deleting /\ job'[Kitops].at \in Deleting
        /\ job'[Kitops].kid = k /\ UNCHANGED <<op, kits, has>>
    BY <1>2, KitopsTyped DEF PreunScript, UninstallPlugins, PostunScript, RemoveFiles, Goto, At,
       AnyJob, Deleting, kitVars, reposVars, rowVars
  <2>2. k \in Kid
    BY <2>1, KitopsTyped DEF KitsInv, OpOK
  <2>3. /\ LinkLeads'
        /\ job'[Kitops].at = "erase" => job[Kitops].at = "erase"
        /\ job'[Kitops].at = "flush" => job[Kitops].at = "erase" \/ link' # k
    <3>1. CASE PreunScript
      <4>1. /\ job[Kitops].at = "preun" /\ job'[Kitops].at = "unlink"
            /\ UNCHANGED <<files, link>>
        BY <1>2, <3>1, KitopsTyped DEF PreunScript, Goto, At, AnyJob, kitVars, linkVars
      <4> QED BY <2>1, <4>1 DEF UpgradeInv, LinkLeads, Adding
    <3>2. CASE UninstallPlugins
      <4>1. /\ job[Kitops].at = "unlink" /\ job'[Kitops].at = "rmtree" /\ UNCHANGED files
        BY <3>2, KitopsTyped DEF UninstallPlugins, Goto, At, AnyJob, kitVars
      <4>2. "kitinfo" \in files[k] /\ (link = k => "plugins" \in files[k])
        BY <2>2, <4>1 DEF UpgradeInv, LinkLeads
      <4>3. /\ link' = k => FALSE
            /\ link' = link \/ link' \in Providers \cup {0}
        BY <2>2, <3>2, <4>2, KitopsTyped DEF UninstallPlugins, Providers
      <4> QED BY <2>1, <4>1, <4>3, KitopsTyped DEF UpgradeInv, LinkLeads, Adding, Providers
    <3>3. CASE RemoveFiles("rmtree", "postun")
      <4>1. /\ job[Kitops].at = "rmtree" /\ job'[Kitops].at \in {"rmtree", "postun"}
            /\ UNCHANGED link /\ \A x \in Kid \ {k} : files'[x] = files[x]
        BY <3>3, KitopsTyped DEF RemoveFiles, Goto, At, AnyJob, linkVars
      <4> QED BY <2>1, <4>1 DEF UpgradeInv, LinkLeads, Adding
    <3>4. CASE RemoveFiles("erase", "flush")
      <4>1. /\ job[Kitops].at = "erase" /\ job'[Kitops].at \in {"erase", "flush"}
            /\ UNCHANGED link
        BY <3>4, KitopsTyped DEF RemoveFiles, Goto, At, AnyJob, linkVars
      <4>2. /\ \A x \in Kid : link = x /\ "kitinfo" \in files'[x] => "plugins" \in files'[x]
            /\ "kitinfo" \notin files'[k]
        <5>1. CASE files' = files
          BY <4>1, <5>1 DEF UpgradeInv, LinkLeads
        <5>2. ASSUME NEW item \in files[k], files' = [files EXCEPT ![k] = @ \ {item}]
              PROVE  /\ \A x \in Kid : link = x /\ "kitinfo" \in files'[x] => "plugins" \in files'[x]
                     /\ "kitinfo" \notin files'[k]
          <6>1. "kitinfo" \notin files[k]
            BY <4>1 DEF UpgradeInv, LinkLeads
          <6> QED BY <2>2, <5>2, <6>1, KitopsTyped DEF UpgradeInv, LinkLeads
        <5> QED BY <3>4, <5>1, <5>2 DEF RemoveFiles
      <4> QED BY <2>1, <4>1, <4>2 DEF LinkLeads, Adding
    <3>5. CASE PostunScript
      <4>1. /\ job[Kitops].at = "postun" /\ job'[Kitops].at = "flush"
            /\ UNCHANGED <<files, link>>
        BY <1>2, <3>5, KitopsTyped DEF PostunScript, Goto, At, AnyJob, kitVars, linkVars
      <4> QED BY <2>1, <4>1 DEF UpgradeInv, LinkLeads, Adding
    <3> QED BY <3>1, <3>2, <3>3, <3>4, <3>5
  <2>4. UpgradeOK'
    BY <2>1, <2>3 DEF UpgradeInv, UpgradeOK, Upgrading, Starting, Adding, Brought, Deleting
  <2>5. NativeOK'
    BY <2>1 DEF UpgradeInv, NativeOK, Moved, Deleting, Closing, Refreshing
  <2>6. RefreshOK'
    BY <2>1 DEF RefreshOK, Deleting, Refreshing, RefreshEnd
  <2> QED BY <2>3, <2>4, <2>5, <2>6 DEF UpgradeInv
<1> QED BY <1>1, <1>2
(* The rows go, and the node groups move to the new kit.                   *)
LEMMA FlushUpgrade ==
  ASSUME KitsInv, UpgradeInv, Flush
  PROVE  UpgradeInv'
<1> DEFINE k == job[Kitops].kid
<1>1. \/ job[Kitops].at = "flush" /\ UNCHANGED <<files, stale, content, link, spoiled>>
      \/ End
  BY DEF Flush, At, diskVars
<1>2. CASE End
  <2>1. UNCHANGED <<files, link>>
    BY DEF Flush
  <2> QED BY <1>2, <2>1, EndUpgrade DEF End
<1>3. CASE /\ kits' = [x \in DOMAIN kits \ {k} |-> kits[x]]
           /\ has' = [r \in Repo |-> has[r] \ {k}]
           /\ uses' = [g \in NodeGroup |-> Reassociated(g, k)]
           /\ op.kind = "native" /\ k = op.old
           /\ On(0, "refresh") /\ op' = [op EXCEPT !.left = op.repos]
           /\ UNCHANGED spoiled
  <2>1. /\ job[Kitops].at = "flush" /\ UNCHANGED <<files, stale, content, link>>
    BY DEF Flush, At, diskVars
  <2>2. job'[Kitops].at = "refresh"
    BY <1>3, KitopsTyped DEF On, AnyJob
  <2>3. /\ op'.kind = "native" /\ op'.old = op.old /\ op'.new = op.new
        /\ op'.left = op.repos /\ op'.repos = op.repos /\ op.repos \subseteq Repo
    BY <1>3, KitopsTyped DEF Request
  <2>4. files[k] = {} /\ op.old # op.new /\ link # k
    BY <1>3, <2>1 DEF KitsInv, HandOK, OpOK, Deleting, UpgradeInv, UpgradeOK, Upgrading
  <2>5. \A r \in op.repos : Moved(r)
    BY <1>3, <2>1 DEF UpgradeInv, NativeOK, Deleting
  <2>6. \A r \in op.repos : Moved(r)'
    BY <1>3, <2>3, <2>4, <2>5 DEF Moved
  <2>7. \A g \in NodeGroup : op.old \notin uses'[g]
    BY <1>3, <2>4 DEF Reassociated, Upgrading
  <2>8. op.old \notin DOMAIN kits'
    BY <1>3
  <2>9. LinkLeads'
    BY <2>1, <2>2 DEF UpgradeInv, LinkLeads, Adding
  <2>10. UpgradeOK'
    BY <2>2, <2>3 DEF UpgradeOK, Starting, Adding, Brought, Deleting
  <2>11. NativeOK'
    BY <1>3, <2>1, <2>2, <2>3, <2>4, <2>6, <2>7, <2>8 DEF NativeOK, Deleting
  <2>12. RefreshOK'
    BY <2>2 DEF RefreshOK, Refreshing, RefreshEnd
  <2> QED BY <2>9, <2>10, <2>11, <2>12 DEF UpgradeInv
<1> QED BY <1>2, <1>3 DEF Flush

LEMMA LockUpgrade ==
  ASSUME KitsInv, UpgradeInv, AcquireGlobalLock \/ RemoveLock
  PROVE  UpgradeInv'
<1>1. UNCHANGED <<kits, files, uses, has, stale, content, link, spoiled>>
  BY DEF AcquireGlobalLock, RemoveLock, kitVars, reposVars, rowVars, linkVars
<1>2. CASE End
  BY <1>1, <1>2, EndUpgrade DEF End
<1>3. CASE At(Kitops, "lock") /\ Goto(Kitops, "addRow") /\ UNCHANGED op
  <2>1. job[Kitops].at = "lock" /\ job'[Kitops].at = "addRow"
    BY <1>3, KitopsTyped DEF Goto, At, AnyJob
  <2>2. LinkLeads'
    BY <1>1, <2>1 DEF UpgradeInv, LinkLeads, Adding
  <2>3. UpgradeOK'
    BY <1>1, <1>3, <2>1 DEF UpgradeInv, UpgradeOK, Upgrading, Starting, Deleting
  <2>4. NativeOK' /\ RefreshOK'
    BY <2>1 DEF NativeOK, RefreshOK, Deleting, Closing, Refreshing, RefreshEnd
  <2> QED BY <2>2, <2>3, <2>4 DEF UpgradeInv
<1>4. CASE RemoveLock
  <2>1. UNCHANGED <<job, op>>
    BY <1>4 DEF RemoveLock
  <2>2. LinkLeads' /\ UpgradeOK'
    BY <1>1, <2>1 DEF UpgradeInv, LinkLeads, UpgradeOK, Upgrading
  <2>3. NativeOK' /\ RefreshOK'
    BY <1>1, <2>1 DEF UpgradeInv, NativeOK, RefreshOK, Moved, Fresh, Rest
  <2> QED BY <2>2, <2>3 DEF UpgradeInv
<1> QED BY <1>2, <1>3, <1>4 DEF AcquireGlobalLock

LEMMA SwapStaleUpgrade ==
  ASSUME KitsInv, UpgradeInv, SwapStale
  PROVE  UpgradeInv'
<1>1. job[Kitops].at = "swapStale" /\ UNCHANGED <<files, has, link>>
  BY DEF SwapStale, At, kitVars, rowVars, linkVars
<1>2. CASE End
  BY <1>1, <1>2, EndUpgrade DEF End
<1>3. ASSUME NEW r \in op.left, UNCHANGED op,
             job' = [job EXCEPT ![Kitops].at = "swapRow", ![Kitops].repo = r]
      PROVE  UpgradeInv'
  <2>1. job'[Kitops].at = "swapRow"
    BY <1>3, KitopsTyped DEF AnyJob
  <2>2. LinkLeads'
    BY <1>1, <2>1 DEF UpgradeInv, LinkLeads, Adding
  <2>3. UpgradeOK'
    BY <1>1, <1>3, <2>1 DEF UpgradeInv, UpgradeOK, Upgrading, Starting, Adding, Brought, Deleting
  <2>4. NativeOK'
    BY <1>1, <1>3, <2>1 DEF UpgradeInv, NativeOK, Moved, Deleting, Closing, Refreshing
  <2>5. RefreshOK'
    BY <2>1 DEF RefreshOK, Refreshing, RefreshEnd
  <2> QED BY <2>2, <2>3, <2>4, <2>5 DEF UpgradeInv
<1> QED BY <1>2, <1>3 DEF SwapStale

LEMMA SwapRowUpgrade ==
  ASSUME KitsInv, UpgradeInv, SwapRow
  PROVE  UpgradeInv'
<1>1. /\ job[Kitops].at = "swapRow" /\ job[Kitops].repo \in Repo
      /\ UNCHANGED <<files, link>>
  BY DEF SwapRow, At, KitsInv, OpOK, OnRepo, kitVars, linkVars
<1>2. PICK r \in Repo : r = job[Kitops].repo
  BY <1>1
<1>3. CASE End
  BY <1>1, <1>3, EndUpgrade DEF End
<1>4. CASE /\ has' = [has EXCEPT ![r] = (@ \ {op.old}) \cup {op.new}]
           /\ op' = [op EXCEPT !.left = op.left \ {r}]
           /\ job' = [job EXCEPT ![Kitops] =
                IF op.left \ {r} # {} THEN [@ EXCEPT !.at = "swapStale", !.repo = NoRepo]
                ELSE [@ EXCEPT !.at = Strategy(op.old), !.repo = NoRepo, !.kid = op.old]]
  <2>1. /\ op'.kind = op.kind /\ op'.old = op.old /\ op'.new = op.new
        /\ op'.left = op.left \ {r} /\ op'.repos = op.repos /\ op.repos \subseteq Repo
        /\ op.old # op.new
    BY <1>1, <1>4, KitopsTyped, SwapFacts DEF Request
  <2>2. "kitinfo" \in files[op.old] /\ op.left \subseteq op.repos /\ Upgrading
    BY <1>1, SwapFacts DEF UpgradeInv, UpgradeOK, Brought
  <2>3. \/ job'[Kitops].at = "swapStale"
        \/ /\ job'[Kitops].at = "preun" /\ job'[Kitops].kid = op.old
           /\ op.left \ {r} = {}
    BY <1>4, <2>2, KitopsTyped DEF AnyJob, Strategy
  <2>4. has \in [Repo -> SUBSET DOMAIN kits]
    BY DEF KitsInv, RowsTyped
  <2>5. op.kind = "native" => \A x \in op.repos \ op'.left : Moved(x)'
    <3>1. Moved(r)'
      BY <1>4, <2>1, <2>4 DEF Moved
    <3>2. \A x \in Repo \ {r} : has'[x] = has[x]
      BY <1>4, <2>4
    <3>3. op.kind = "native" => \A x \in op.repos \ op.left : Moved(x)
      BY <1>1 DEF UpgradeInv, NativeOK
    <3> QED BY <2>1, <3>1, <3>2, <3>3 DEF Moved
  <2>6. LinkLeads'
    BY <1>1, <2>2, <2>3 DEF UpgradeInv, LinkLeads, Adding
  <2>7. UpgradeOK'
    BY <1>1, <2>1, <2>2, <2>3 DEF UpgradeOK, Starting, Adding, Brought, Deleting
  <2>8. NativeOK'
    BY <2>1, <2>3, <2>5 DEF NativeOK, Deleting, Closing, Refreshing
  <2>9. RefreshOK'
    BY <2>3 DEF RefreshOK, Refreshing, RefreshEnd
  <2> QED BY <2>6, <2>7, <2>8, <2>9 DEF UpgradeInv
<1> QED BY <1>2, <1>3, <1>4 DEF SwapRow

(* One repository after the other is refreshed.                            *)
LEMMA EndsUpgrade ==
  ASSUME KitsInv, UpgradeInv, UpgradeEnds
  PROVE  UpgradeInv'
<1>1. UNCHANGED <<kits, files, uses, has, stale, content, link, spoiled>>
  BY DEF UpgradeEnds, kitVars, reposVars, rowVars, linkVars
<1>2. job[Kitops].at \in {"refresh", "refreshed", "failed", "sync", "images", "record"}
  BY DEF UpgradeEnds, UpdateRepos, SynchronizeNodegroups, BuildImages,
     UpdateKusuVersion, At
<1>3. /\ op.kind = "native" /\ job[Kitops].at \in Closing
      /\ op.repos \subseteq Repo /\ op.left \subseteq op.repos
  BY <1>2, KitopsTyped DEF KitsInv, OpOK, Closing, UpgradeInv, UpgradeOK, Upgrading, Request
<1>4. CASE End
  BY <1>1, <1>4, EndUpgrade DEF End
<1>5. ASSUME job'[Kitops].at \in {"clean", "refresh", "sync", "images", "record"},
             op'.kind = "native", op'.old = op.old, op'.new = op.new, op'.repos = op.repos,
             op'.left \subseteq op.left, \A r \in op.left \ op'.left : Fresh(r),
             job'[Kitops].at \in {"sync", "images", "record"} => op'.left = {},
             job'[Kitops].at = "clean" => job'[Kitops].repo \in op'.left
      PROVE  UpgradeInv'
  <2>1. LinkLeads'
    BY <1>1, <1>5 DEF UpgradeInv, LinkLeads, Adding
  <2>2. UpgradeOK'
    BY <1>3, <1>5 DEF UpgradeOK, Starting, Adding, Brought, Deleting
  <2>3. \A r \in op.repos \ op'.left : Fresh(r)'
    BY <1>1, <1>3, <1>5 DEF UpgradeInv, NativeOK, Fresh, Rest
  <2>4. NativeOK'
    BY <1>1, <1>3, <1>5, <2>3 DEF UpgradeInv, NativeOK, Moved, Deleting
  <2>5. RefreshOK'
    BY <1>5 DEF RefreshOK, Refreshing, RefreshEnd
  <2> QED BY <2>1, <2>2, <2>4, <2>5 DEF UpgradeInv
<1>6. CASE UpdateRepos
  <2>1. ASSUME NEW r \in op.left, UNCHANGED op,
               job' = [job EXCEPT ![Kitops].at = "clean", ![Kitops].repo = r]
        PROVE  UpgradeInv'
    <3>1. job'[Kitops].at = "clean" /\ job'[Kitops].repo = r
      BY <2>1, KitopsTyped DEF AnyJob
    <3> QED BY <1>3, <1>5, <2>1, <3>1
  <2>2. CASE At(Kitops, "refreshed")
    <3> DEFINE left == op.left \ {job[Kitops].repo}
    <3>1. /\ op' = [op EXCEPT !.left = left]
          /\ job' = [job EXCEPT ![Kitops].repo = NoRepo,
                       ![Kitops].at = IF left = {} THEN "sync" ELSE "refresh"]
      BY <1>6, <2>2 DEF UpdateRepos, At
    <3>2. /\ op'.kind = op.kind /\ op'.old = op.old /\ op'.new = op.new
          /\ op'.repos = op.repos /\ op'.left = left
      BY <3>1, KitopsTyped DEF Request
    <3>3. /\ job'[Kitops].at \in {"sync", "refresh"}
          /\ job'[Kitops].at = "sync" => left = {}
      BY <3>1, KitopsTyped DEF AnyJob
    <3>4. Fresh(job[Kitops].repo)
      BY <2>2 DEF UpgradeInv, RefreshOK, At
    <3> QED BY <1>3, <1>5, <3>2, <3>3, <3>4
  <2> QED BY <1>4, <1>6, <2>1, <2>2 DEF UpdateRepos
<1>7. ASSUME NEW place \in {"images", "record"}, Goto(Kitops, place), UNCHANGED op,
             job[Kitops].at \in {"sync", "images"}
      PROVE  UpgradeInv'
  <2>1. job'[Kitops].at = place /\ op.left = {}
    BY <1>3, <1>7, KitopsTyped DEF Goto, AnyJob, UpgradeInv, NativeOK
  <2> QED BY <1>3, <1>5, <1>7, <2>1
<1>8. CASE SynchronizeNodegroups \/ BuildImages
  BY <1>4, <1>7, <1>8 DEF SynchronizeNodegroups, BuildImages, At
<1>9. CASE UpdateKusuVersion
  BY <1>4, <1>9 DEF UpdateKusuVersion
<1> QED BY <1>6, <1>8, <1>9 DEF UpgradeEnds

LEMMA UpgradeInit ==
  ASSUME Init
  PROVE  UpgradeInv
<1>1. PICK first \in Installed :
        /\ job = [p \in Proc |-> Idle] /\ op = NoOp /\ link = 1
        /\ files = [k \in Kid |-> IF k \in DOMAIN first THEN Part ELSE {}]
  BY DEF Init
<1>2. job[Kitops] = Idle
  BY <1>1, Places
<1>3. \A x \in Kid : files[x] \in {Part, {}}
  BY <1>1
<1>4. LinkLeads
  BY <1>2, <1>3, IdleTyped DEF LinkLeads, Adding, Part
<1>5. UpgradeOK /\ NativeOK
  BY <1>1, NoOpTyped DEF UpgradeOK, NativeOK, Upgrading
<1>6. RefreshOK
  BY <1>2, IdleTyped DEF RefreshOK, Refreshing, RefreshEnd
<1> QED BY <1>4, <1>5, <1>6 DEF UpgradeInv

LEMMA UpgradeStep ==
  ASSUME KitsInv, ReposInv, UpgradeInv, [Next]_vars
  PROVE  UpgradeInv'
<1>1. CASE RepoNext
  BY <1>1, RepoUpgrade
<1>2. CASE KitopsNext
  <2>1. CASE KillKitops
    BY <2>1, EndUpgrade DEF KillKitops, kitVars, linkVars
  <2> QED BY <1>2, <2>1, AskUpgrade, AddRowUpgrade, AddingUpgrade, PostScriptUpgrade,
       DeletingUpgrade, FlushUpgrade, LockUpgrade, SwapStaleUpgrade, SwapRowUpgrade,
       EndsUpgrade DEF KitopsNext, At
<1>3. CASE UNCHANGED vars
  <2>1. UNCHANGED <<kits, files, uses, has, stale, content, job, link, op, spoiled>>
    BY <1>3 DEF vars, reposVars, rowVars, linkVars
  <2>2. LinkLeads' /\ UpgradeOK'
    BY <2>1 DEF UpgradeInv, LinkLeads, UpgradeOK, Upgrading
  <2>3. NativeOK' /\ RefreshOK'
    BY <2>1 DEF UpgradeInv, NativeOK, RefreshOK, Moved, Fresh, Rest
  <2> QED BY <2>2, <2>3 DEF UpgradeInv
<1> QED BY <1>1, <1>2, <1>3 DEF Next

(* What an upgrade has done at each of its steps, in its own order, about  *)
(* the link, the kits, the repositories and the node groups.               *)
THEOREM UpgradesCorrect == Spec => [](KitsInv /\ ReposInv /\ UpgradeInv)
<1>1. Init => KitsInv /\ ReposInv /\ UpgradeInv
  BY KitsInit, ReposInit, UpgradeInit
<1>2. KitsInv /\ ReposInv /\ UpgradeInv /\ [Next]_vars => (KitsInv /\ ReposInv /\ UpgradeInv)'
  BY KitsStep, ReposStep, UpgradeStep
<1> QED BY <1>1, <1>2, PTL DEF Spec
(* Through an upgrade each repository and node group that has the old kit  *)
(* or the new one has one of them, and a node group keeps all others.      *)
THEOREM UpgradeKeepsKitsHolds == Spec => UpgradeKeepsKits
<1> DEFINE either == {op.old, op.new}
           Kept == Upgrading =>
             /\ job'[Kitops] # job[Kitops] =>
                  \A r \in Repo \ unsure' :
                    has[r] \cap either # {} => has'[r] \cap either # {}
             /\ \A g \in NodeGroup :
                  /\ op.old \in uses[g] => uses'[g] \cap either # {}
                  /\ uses[g] \ either \subseteq uses'[g]
<1>1. KitsInv /\ ReposInv /\ UpgradeInv /\ [Next]_vars => [Kept]_vars
  <2> SUFFICES ASSUME KitsInv, ReposInv, UpgradeInv, Next, Upgrading PROVE Kept
    BY DEF vars
  <2> USE DEF Kept, either
  <2>1. CASE UNCHANGED <<uses, has>>
    BY <2>1
  <2>2. CASE RepoNext
    <3>1. UNCHANGED uses
      <4>1. ASSUME NEW p, Refresh(p) PROVE UNCHANGED uses
        BY <4>1 DEF Refresh, Clean, MakeRepoDirs, MarkStale, ListKits, CopyKitsPackages,
           CopyKusuNodeInstaller, MarkClean, kitVars
      <4>2. ASSUME NEW t \in Tool, ToolStep(t) PROVE UNCHANGED uses
        BY <2>2, <4>2, ToolRows DEF KitsInv, ToolFrame, RepoNext, linkVars
      <4>3. CASE RemoveLockFile
        BY <4>3 DEF RemoveLockFile, kitVars
      <4> QED BY <2>2, <4>1, <4>2, <4>3 DEF RepoNext, ToolNext, ToolStep
    <3>2. CASE Refresh(Kitops)
      <4>1. UNCHANGED has
        BY <3>2 DEF Refresh, Clean, MakeRepoDirs, MarkStale, ListKits, CopyKitsPackages,
           CopyKusuNodeInstaller, MarkClean, rowVars
      <4> QED BY <2>1, <3>1, <4>1
    <3>3. CASE ~Refresh(Kitops)
      <4>1. job'[Kitops] = job[Kitops]
        <5>1. CASE RemoveLockFile
          BY <5>1 DEF RemoveLockFile
        <5>2. ASSUME NEW t \in Tool, ToolStep(t) PROVE job'[Kitops] = job[Kitops]
          BY <5>2, ToolJob, Places DEF KitsInv
        <5> QED BY <2>2, <3>3, <5>1, <5>2 DEF RepoNext, ToolNext, ToolStep
      <4> QED BY <3>1, <4>1
    <3> QED BY <3>2, <3>3
  <2>3. CASE UpdateComponents
    <3>1. UNCHANGED has /\ \A g \in NodeGroup : uses[g] \subseteq uses'[g]
      BY <2>3 DEF UpdateComponents, reposVars, rowVars
    <3> QED BY <3>1
  <2>4. CASE SwapRow
    <3>1. UNCHANGED uses
      BY <2>4 DEF SwapRow, kitVars
    <3>2. \A r \in Repo : has[r] \cap either # {} => has'[r] \cap either # {}
      BY <2>4 DEF SwapRow, KitsInv, RowsTyped
    <3> QED BY <3>1, <3>2
  <2>5. CASE Flush
    <3> DEFINE k == job[Kitops].kid
    <3>1. job[Kitops].at = "flush" /\ unsure' = unsure
      BY <2>5 DEF Flush, At, history
    <3>2. k \in either /\ op.old # op.new
      BY <3>1 DEF UpgradeInv, UpgradeOK, Deleting, KitsInv, OpOK
    <3>3. \A r \in Repo \ unsure' : k \notin has[r]
      BY <3>1 DEF ReposInv, MotionOK, InMotion
    <3>4. ASSUME NEW r \in Repo \ unsure' PROVE has'[r] = has[r]
      <4>1. job[Kitops].kid \notin has[r]
        BY <3>3
      <4>2. has' = has \/ has'[r] = has[r] \ {job[Kitops].kid}
        BY <2>5 DEF Flush
      <4> QED BY <4>1, <4>2
    <3>5. CASE UNCHANGED uses
      BY <3>4, <3>5
    <3>6. CASE uses' = [g \in NodeGroup |-> Reassociated(g, k)]
      BY <3>2, <3>4, <3>6 DEF Reassociated
    <3> QED BY <2>5, <3>5, <3>6 DEF Flush
  <2>6. CASE KitopsNext /\ ~UpdateComponents /\ ~SwapRow /\ ~Flush
    <3>1. UNCHANGED <<uses, has>>
      BY <2>6 DEF KitopsNext, Add, Upgrade, Delete, Ask, AddRowFlushed, CopyRpms, MoveItem,
         InstallPlugins, PostScript, PreunScript, UninstallPlugins, RemoveFiles, PostunScript,
         AcquireGlobalLock, SwapStale, UpgradeEnds, KillKitops, RemoveLock, kitVars, reposVars,
         rowVars
    <3> QED BY <2>1, <3>1
  <2> QED BY <2>2, <2>3, <2>4, <2>5, <2>6 DEF Next
<1>2. UpgradeKeepsKits <=> [][Kept]_vars
  BY DEF UpgradeKeepsKits
<1> QED BY <1>1, <1>2, UpgradesCorrect, PTL DEF Spec

(* When the version is recorded the upgrade of the native base kit is      *)
(* done: repositories, node groups, files, rows and link.                  *)
THEOREM VersionRecordedLastHolds == Spec => VersionRecordedLast
<1> DEFINE Recorded == version' # version =>
             /\ \A r \in op.repos : /\ op.new \in has[r] /\ op.old \notin has[r]
                                     /\ r \notin stale /\ CleanIsCurrent(r)
             /\ \A g \in NodeGroup : op.old \notin uses[g]
             /\ op.old \notin DOMAIN kits /\ files[op.old] = {}
             /\ link # op.old
<1>1. KitsInv /\ ReposInv /\ UpgradeInv /\ [Next]_vars => [Recorded]_vars
  <2> SUFFICES ASSUME KitsInv, UpgradeInv, Next, version' # version PROVE Recorded
    BY DEF vars
  <2>1. UpdateKusuVersion
    BY DEF Next, RepoNext, KitopsNext, Add, Upgrade, Delete, Ask, AddRowFlushed, CopyRpms,
       MoveItem, InstallPlugins, UpdateComponents, PostScript, PreunScript, UninstallPlugins,
       RemoveFiles, PostunScript, Flush, AcquireGlobalLock, SwapStale, SwapRow, UpgradeEnds,
       KillKitops, RemoveLock
  <2>2. job[Kitops].at = "record" /\ job[Kitops].at \in Closing
    BY <2>1 DEF UpdateKusuVersion, At, Closing
  <2>3. op.kind = "native"
    BY <2>2 DEF KitsInv, OpOK
  <2>4. /\ op.old \notin DOMAIN kits /\ files[op.old] = {} /\ link # op.old
        /\ \A g \in NodeGroup : op.old \notin uses[g]
        /\ \A r \in op.repos : Moved(r) /\ Fresh(r)
    BY <2>2, <2>3 DEF UpgradeInv, NativeOK
  <2>5. op.repos \subseteq Repo
    BY KitopsTyped DEF Request
  <2>6. ASSUME NEW r \in op.repos PROVE CleanIsCurrent(r)
    <3>1. \A k \in has[r] \ spoiled : "rpms" \in files[k]
      BY <2>2, <2>5, PackagesOfAll
    <3> QED BY <2>4, <3>1 DEF Fresh, Rest, CleanIsCurrent
  <2> QED BY <2>4, <2>6 DEF Moved, Fresh
<1>2. VersionRecordedLast <=> [][Recorded]_vars
  BY DEF VersionRecordedLast
<1> QED BY <1>1, <1>2, UpgradesCorrect, PTL DEF Spec
===========================================================================
