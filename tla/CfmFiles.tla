------------------------------ MODULE CfmFiles ------------------------------
(***************************************************************************)
(* Configuration files from the primary installer to a node.  kusu-cfmsync *)
(* (PackBuilder in cfms.py) encrypts what has changed in /etc/cfm/<group>  *)
(* into the depot, removes what is gone, and rewrites cfmfiles.lst; the    *)
(* client (updateFiles in cfmclient.py) downloads the list, and every file *)
(* whose checksum differs from the list.  Nobody waits for anybody: files  *)
(* are edited and clients run while a synchronisation is under way, and    *)
(* either of the two may be killed.                                        *)
(*                                                                         *)
(* One node group and one node.  A content is the number of the edit that  *)
(* made it, and its checksum.  Times are seconds; those of the node's own  *)
(* files are left out, since the client fetches a file of any age if its   *)
(* checksum differs, and does no harm fetching it again if not.  Files to  *)
(* be merged are in CfmMerge.                                              *)
(***************************************************************************)
EXTENDS Naturals, Sequences

CONSTANTS
  File,
  Appended,     \* files that are appended to one of the node (.append)
  MayFail,      \* may a download fail
  MaxKills,     \* bound: kills of the client or of the synchronisation
  MaxEdits,     \* bound: edits of files
  MaxTime       \* bound: seconds

ASSUME CfmFilesAssumption ==
  /\ Appended \subseteq File
  /\ MayFail \in BOOLEAN
  /\ MaxKills \in Nat /\ MaxEdits \in Nat /\ MaxTime \in Nat \ {0}

VARIABLES
  now, edits, kills,
  orig,        \* the files in /etc/cfm
  depot,       \* their encrypted copies
  lst,         \* cfmfiles.lst: the checksum of each listed file
  sync,        \* where consolidatedSync is
  todo,        \* files it has still to look at
  dirfiles,    \* self.cfmdirfiles
  reading,     \* the file that it is encrypting, and the content it read
  cutoff,      \* does cfmfiles.lst end in a line that is cut off
  clist,       \* cfmfiles.lst on the node
  client,      \* where updateFiles is
  newfiles,    \* what it has still to get
  part,        \* the file to append that it has got
  node, os,    \* the files of the node, and the OS copies of appended ones
  late,        \* history: edited in the second of the copy or dated before
               \* it, or the copy was not finished
  whole,       \* history: no edit since a full synchronisation began
  settled,     \* history: full synchronisations since an edit or a kill (2: or more)
  fresh,       \* history: the update under way is undisturbed
  updated      \* history: the node has had one since the last synchronisation

origVars   == <<now, edits, orig>>
syncVars   == <<depot, lst, sync, todo, dirfiles, reading, cutoff>>
nodeVars   == <<clist, client, newfiles, part, node, os>>
histVars   == <<late, whole, settled, fresh, updated>>
vars       == <<origVars, kills, syncVars, nodeVars, histVars>>

Version == 1..MaxEdits
None == 0                  \* no file, no line in the list
Partial == MaxEdits + 1    \* a file that is being written
Cipher == MaxEdits + 2     \* the checksum of an encrypted file
Base == MaxEdits + 3       \* what an appended file had on the node

Original == [ver : Version \cup {None}, mtime : 0..MaxTime]
Copy == [ver : Version \cup {None, Partial}, mtime : 0..MaxTime]
NoCopy == [ver |-> None, mtime |-> 0]
NoFile == [ver |-> None]
NodeFile == {<<>>, <<Base>>} \cup {<<v>> : v \in Version} \cup {<<Base, v>> : v \in Version}

FilesTypeOK ==
  /\ now \in 1..MaxTime /\ edits \in 0..MaxEdits /\ kills \in 0..MaxKills
  /\ orig \in [File -> Original]
  /\ depot \in [File -> Copy]
  /\ lst \in [File -> Version \cup {None, Cipher}]
  /\ sync \in {"idle", "scan", "encode", "remove", "open", "write"}
  /\ todo \in SUBSET File /\ dirfiles \in SUBSET File
  /\ sync = "encode" => reading \in [file : File, ver : Version]
  /\ cutoff \in BOOLEAN
  /\ clist \in [File -> Version \cup {None, Cipher}]
  /\ client \in {"idle", "compare", "get", "append", "combine"}
  /\ newfiles \in SUBSET File
  /\ client \in {"append", "combine"} => part \in [file : Appended, ver : Version]
  /\ os \in [File -> {<<>>, <<Base>>}]
  /\ node \in [File -> NodeFile]
  /\ late \in SUBSET File /\ whole \in BOOLEAN /\ settled \in 0..2
  /\ fresh \in BOOLEAN /\ updated \in BOOLEAN

(* Nothing is managed yet; the files to append to are there.               *)
Init ==
  /\ now = 1 /\ edits = 0 /\ kills = 0
  /\ orig = [f \in File |-> NoCopy]
  /\ depot = [f \in File |-> NoCopy]
  /\ lst = [f \in File |-> None] /\ clist = lst
  /\ sync = "idle" /\ todo = {} /\ dirfiles = {} /\ reading = NoFile /\ cutoff = FALSE
  /\ client = "idle" /\ newfiles = {} /\ part = NoFile
  /\ node = [f \in File |-> IF f \in Appended THEN <<Base>> ELSE <<>>]
  /\ os = [f \in File |-> <<>>]
  /\ late = {} /\ whole = FALSE /\ settled = 0 /\ fresh = FALSE /\ updated = FALSE

---------------------------------------------------------------------------
(* The administrator                                                       *)

Tick ==
  /\ now < MaxTime /\ now' = now + 1
  /\ UNCHANGED <<edits, orig, kills, syncVars, nodeVars, histVars>>

(* A file is written now, or moved or copied here with the date it had.    *)
Edit(f, mtime) ==
  /\ edits < MaxEdits /\ mtime \in 1..now
  /\ edits' = edits + 1
  /\ orig' = [orig EXCEPT ![f] = [ver |-> edits + 1, mtime |-> mtime]]
  /\ late' = IF mtime <= depot[f].mtime \/ (sync = "encode" /\ reading.file = f)
             THEN late \cup {f} ELSE late \ {f}
  /\ settled' = 0 /\ whole' = FALSE
  /\ UNCHANGED <<now, kills, syncVars, nodeVars, fresh, updated>>

Remove(f) ==
  /\ orig[f].ver # None
  /\ orig' = [orig EXCEPT ![f] = NoCopy]
  /\ late' = late \ {f}
  /\ settled' = 0 /\ whole' = FALSE
  /\ UNCHANGED <<now, edits, kills, syncVars, nodeVars, fresh, updated>>

---------------------------------------------------------------------------
(* The installer: consolidatedSync                                         *)

(* Only -f looks at the files.                                             *)
StartSync(files) ==
  /\ sync = "idle"
  /\ dirfiles' = {}
  /\ IF files THEN todo' = File /\ sync' = "scan" ELSE todo' = {} /\ sync' = "remove"
  /\ fresh' = FALSE /\ updated' = FALSE /\ whole' = files
  /\ UNCHANGED <<origVars, kills, depot, lst, reading, cutoff, nodeVars, late, settled>>

(* Variant with a fault: only new files are copied.                        *)
Newer_NotThere(f) == depot[f].ver = None

(* "Only deal with newer files".                                           *)
Newer(f) == orig[f].mtime > depot[f].mtime

(* updateCFMdir, for one file.                                             *)
Skip(f) ==
  /\ sync = "scan" /\ f \in todo
  /\ orig[f].ver = None \/ ~Newer(f)
  /\ todo' = todo \ {f}
  /\ dirfiles' = IF orig[f].ver = None THEN dirfiles ELSE dirfiles \cup {f}
  /\ UNCHANGED <<origVars, kills, depot, lst, sync, reading, cutoff, nodeVars, histVars>>

BeginEncode(f) ==
  /\ sync = "scan" /\ f \in todo
  /\ orig[f].ver # None /\ Newer(f)
  /\ todo' = todo \ {f}
  /\ dirfiles' = dirfiles \cup {f}
  /\ reading' = [file |-> f, ver |-> orig[f].ver]
  /\ depot' = [depot EXCEPT ![f] = [ver |-> Partial, mtime |-> now]]
  /\ sync' = "encode"
  /\ late' = late \ {f}
  /\ UNCHANGED <<origVars, kills, lst, cutoff, nodeVars, whole, settled, fresh, updated>>

(* The copy is as old as the end of its encryption.                        *)
EndEncode ==
  /\ sync = "encode"
  /\ depot' = [depot EXCEPT ![reading.file] = [ver |-> reading.ver, mtime |-> now]]
  /\ reading' = NoFile
  /\ sync' = "scan"
  /\ UNCHANGED <<origVars, kills, lst, todo, dirfiles, cutoff, nodeVars, histVars>>

Scanned ==
  /\ sync = "scan" /\ todo = {}
  /\ sync' = "remove"
  /\ UNCHANGED <<origVars, kills, depot, lst, todo, dirfiles, reading, cutoff, nodeVars, histVars>>

(* Variant with a fault: nothing is removed.                               *)
OldFiles_None == {}

(* Files on the last list that were not found; none if nothing was found.  *)
OldFiles == IF dirfiles = {} THEN {} ELSE {f \in File : lst[f] # None} \ dirfiles

RemoveOldFiles ==
  /\ sync = "remove"
  /\ depot' = [f \in File |-> IF f \in OldFiles THEN NoCopy ELSE depot[f]]
  /\ late' = late \ OldFiles
  /\ sync' = "open"
  /\ UNCHANGED <<origVars, kills, lst, todo, dirfiles, reading, cutoff, nodeVars,
                 whole, settled, fresh, updated>>

(* genFileList empties the list ...                                        *)
OpenList ==
  /\ sync = "open"
  /\ lst' = [f \in File |-> None] /\ cutoff' = FALSE
  /\ sync' = "write"
  /\ UNCHANGED <<origVars, kills, depot, todo, dirfiles, reading, nodeVars, histVars>>

(* ... and writes a line for every file in the depot, with the checksum of *)
(* the original, or of the encrypted file if there is none (getFileInfo).  *)
Checksum(f) ==
  IF depot[f].ver = None THEN None
  ELSE IF orig[f].ver = None THEN Cipher ELSE orig[f].ver

WriteList ==
  /\ sync = "write"
  /\ lst' = [f \in File |-> Checksum(f)]
  /\ settled' = IF whole /\ settled < 2 THEN settled + 1 ELSE settled
  /\ sync' = "idle"
  /\ UNCHANGED <<origVars, kills, depot, todo, dirfiles, reading, cutoff, nodeVars,
                 late, whole, fresh, updated>>

(* The list, or, while it is being written, some of its lines; the last of *)
(* them may be cut off in its checksum, which then is that of no file.     *)
SomeLines(S, C) ==
  [f \in File |-> IF f \in S THEN Checksum(f)
                 ELSE IF f \in C /\ depot[f].ver # None THEN Cipher ELSE None]

Readable ==
  IF sync = "write"
  THEN UNION {{SomeLines(S, C) : S \in SUBSET File}
                : C \in {{}} \cup {{c} : c \in File}}
  ELSE {lst}

(* A kill leaves a copy or the list unfinished, or removes some files only. *)
KillSync ==
  /\ sync # "idle" /\ kills < MaxKills /\ kills' = kills + 1
  /\ sync' = "idle" /\ todo' = {} /\ reading' = NoFile
  /\ \E R \in SUBSET OldFiles :
       /\ R # {} => sync = "remove"
       /\ depot' = [f \in File |-> IF f \in R THEN NoCopy ELSE depot[f]]
       /\ late' = (late \ R) \cup {f \in File : sync = "encode" /\ reading.file = f}
  /\ lst' \in Readable
  /\ cutoff' \in IF sync = "write" THEN BOOLEAN ELSE {cutoff}
  /\ settled' = 0 /\ whole' = FALSE
  /\ UNCHANGED <<origVars, dirfiles, nodeVars, fresh, updated>>

---------------------------------------------------------------------------
(* The node: updateFiles                                                   *)

DownloadList ==
  /\ client = "idle" /\ ~cutoff
  /\ clist' \in Readable
  /\ fresh' = (sync = "idle")
  /\ client' = "compare"
  /\ UNCHANGED <<origVars, kills, syncVars, newfiles, part, node, os, late, whole, settled, updated>>

(* The result is not looked at: the client uses the list that it has.      *)
ListFails ==
  /\ MayFail /\ client = "idle"
  /\ fresh' = FALSE
  /\ client' = "compare"
  /\ UNCHANGED <<origVars, kills, syncVars, clist, newfiles, part, node, os, late, whole, settled, updated>>

(* A line that is cut off ends the client.                                 *)
BrokenLine ==
  /\ client = "idle" /\ (sync = "write" \/ cutoff)
  /\ clist' \in Readable
  /\ UNCHANGED <<origVars, kills, syncVars, client, newfiles, part, node, os, histVars>>

(* Variant with a fault: only what the node does not have.                 *)
Wanted_Missing(f) == node[f] = <<>>

(* __findOlderFiles: the checksum tells, and for files that are put        *)
(* together nothing does.                                                  *)
Wanted(f) == f \in Appended \/ node[f] # <<clist[f]>>

FindOlderFiles ==
  /\ client = "compare"
  /\ \E again \in {FALSE, TRUE} :
       newfiles' = {f \in File : clist[f] # None /\ (again \/ Wanted(f))}
  /\ client' = "get"
  /\ UNCHANGED <<origVars, kills, syncVars, clist, part, node, os, histVars>>

(* Variant with a fault: whatever was downloaded is installed.             *)
Matches_Any(f) == depot[f].ver # None

(* __getFile: a file that is not what the list says is thrown away.        *)
Matches(f) == depot[f].ver # None /\ depot[f].ver = clist[f]

(* __installNewFiles: a file of its own replaces the node's, one to be     *)
(* appended is put beside it ...                                           *)
GetFile(f) ==
  /\ client = "get" /\ f \in newfiles
  /\ newfiles' = newfiles \ {f}
  /\ IF ~Matches(f) THEN UNCHANGED <<node, part, client>>
     ELSE IF f \in Appended
     THEN /\ part' = [file |-> f, ver |-> depot[f].ver]
          /\ client' = "append"
          /\ UNCHANGED node
     ELSE node' = [node EXCEPT ![f] = <<depot[f].ver>>] /\ UNCHANGED <<part, client>>
  /\ UNCHANGED <<origVars, kills, syncVars, clist, os, histVars>>

(* ... and, when the node's own part was copied, which is done once, ...   *)
CopyOS ==
  /\ client = "append"
  /\ os' = [os EXCEPT ![part.file] = IF @ = <<>> THEN node[part.file] ELSE @]
  /\ client' = "combine"
  /\ UNCHANGED <<origVars, kills, syncVars, clist, newfiles, part, node, histVars>>

(* ... put after that.  A kill of the client does not end the cp or cat.   *)
Combine ==
  /\ client = "combine"
  /\ node' = [node EXCEPT ![part.file] = Append(os[part.file], part.ver)]
  /\ part' = NoFile
  /\ client' = "get"
  /\ UNCHANGED <<origVars, kills, syncVars, clist, newfiles, os, histVars>>

FileFails(f) ==
  /\ MayFail /\ client = "get" /\ f \in newfiles
  /\ newfiles' = newfiles \ {f}
  /\ fresh' = FALSE
  /\ UNCHANGED <<origVars, kills, syncVars, clist, client, part, node, os, late, whole, settled, updated>>

Finish ==
  /\ client = "get" /\ newfiles = {}
  /\ updated' = fresh
  /\ client' = "idle"
  /\ UNCHANGED <<origVars, kills, syncVars, clist, newfiles, part, node, os, late, whole, settled, fresh>>

KillClient ==
  /\ client # "idle" /\ kills < MaxKills /\ kills' = kills + 1
  /\ client' = "idle" /\ newfiles' = {} /\ part' = NoFile
  /\ UNCHANGED <<origVars, syncVars, clist, node, os, histVars>>

Next ==
  \/ Tick
  \/ \E f \in File : Remove(f) \/ \E mtime \in 1..MaxTime : Edit(f, mtime)
  \/ \E files \in BOOLEAN : StartSync(files)
  \/ \E f \in File : Skip(f) \/ BeginEncode(f)
  \/ EndEncode \/ Scanned \/ RemoveOldFiles \/ OpenList \/ WriteList \/ KillSync
  \/ DownloadList \/ ListFails \/ BrokenLine \/ FindOlderFiles \/ Finish \/ KillClient
  \/ \E f \in File : GetFile(f) \/ FileFails(f)
  \/ CopyOS \/ Combine

Spec == Init /\ [][Next]_vars

---------------------------------------------------------------------------
(* Properties                                                              *)

Content(f) == IF f \in Appended THEN <<Base, orig[f].ver>> ELSE <<orig[f].ver>>

(* A node that updates after a full synchronisation without an edit since  *)
(* has every file of the installer, with the node's own part before it, if *)
(* it is to be appended, once: whatever failed or was killed before, and   *)
(* whatever was listed while the depot held something else.  The exception *)
(* is a file that was edited in the second of its last copy, or while it   *)
(* was copied, or has a date before it, or whose copy was killed           *)
(* (updateCFMdir, updateFiles).                                            *)
NodeHasOriginals ==
  settled > 0 /\ updated =>
    \A f \in File : orig[f].ver # None /\ f \notin late => node[f] = Content(f)

(* A file that is removed at the installer is not offered any more, two    *)
(* synchronisations after the last kill at the latest, unless no file is   *)
(* left at all (removeOldFiles).                                           *)
RemovedAreGone ==
  settled = 2 /\ (\E f \in File : orig[f].ver # None) =>
    \A f \in File : orig[f].ver = None => depot[f].ver = None

(* A file of the installer that is not late is in the depot as it is, and  *)
(* listed with its checksum, so that nodes that ask will get it            *)
(* (updateCFMdir, genFileList).                                            *)
DepotAgreesWithList ==
  settled > 0 /\ sync = "idle" =>
    \A f \in File : orig[f].ver # None /\ f \notin late =>
      depot[f].ver = orig[f].ver /\ lst[f] = orig[f].ver
=============================================================================
