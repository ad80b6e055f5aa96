------------------------------ MODULE CfmMerge ------------------------------
(***************************************************************************)
(* Account files: /etc/passwd, /etc/group and /etc/shadow of a node have   *)
(* lines of their own and lines that the primary installer distributes.    *)
(* genMergeFiles (cfms.py) offers what was added at the installer since    *)
(* its first synchronisation; Merger.mergeFile (cfmclient.py) keeps the    *)
(* lines of the node in an OS copy, which it brings up to date by what has *)
(* changed since the last merge (the T0 copy), and puts the file together. *)
(* The commands of the node (useradd, userdel, usermod, passwd) do not     *)
(* wait for it, and it may be killed anywhere.                             *)
(*                                                                         *)
(* One such file of one node.  A line is a pair of a user and a value; the *)
(* order and the repetition of lines are left out, and what the installer  *)
(* offers arrives whole (CfmFiles has the transfer).                       *)
(***************************************************************************)
EXTENDS Naturals

CONSTANTS
  User, Value,
  Secret,       \* users whose lines are no node's own: root, in /etc/shadow
  MaxKills,     \* bound: kills of the client
  MaxChanges,   \* bound: changes at the installer
  MaxLocal      \* bound: changes on the node

ASSUME CfmMergeAssumption ==
  /\ Secret \subseteq User
  /\ MaxKills \in Nat /\ MaxChanges \in Nat /\ MaxLocal \in Nat

VARIABLES
  instcurr, instos,   \* the file at the installer, and its OS copy
  offered,            \* the .merge file that is distributed
  curr, os, t0,       \* the file on the node, its OS and its T0 copy
  merge,              \* the .merge file on the node
  pc,                 \* where mergeFile is
  added, removed,     \* what it found changed since the last merge
  changes, locals,    \* how often the two files were changed
  kills,              \* how often the client was killed
  local,              \* history: the lines that are the node's own
  merged,             \* history: the lines offered to the last merge
  unseen,             \* history: users changed when the client did not look
  interrupted         \* history: a kill, or a command during the cat, left a mess

instVars == <<instcurr, instos, offered, changes>>
fileVars == <<curr, os, t0, merge>>
histVars == <<merged, interrupted, kills>>
nodeVars == <<fileVars, pc, added, removed, locals, local, unseen, histVars>>
vars     == <<instVars, nodeVars>>

Line == User \X Value
File == [exists : BOOLEAN, lines : SUBSET Line]
Absent == [exists |-> FALSE, lines |-> {}]
Containing(lines) == [exists |-> TRUE, lines |-> lines]

LinesOf(U, lines) == {l \in lines : l[1] \in U}
UsersOf(lines) == {l[1] : l \in lines}

MergeTypeOK ==
  /\ instcurr \in SUBSET Line /\ instos \in File /\ offered \in SUBSET Line
  /\ curr \in SUBSET Line /\ os \in File /\ t0 \in File /\ merge \in File
  /\ pc \in {"idle", "save", "strip", "compare", "remove", "add",
             "empty", "write", "unlink", "copy"}
  /\ added \in SUBSET Line /\ removed \in SUBSET Line
  /\ changes \in 0..MaxChanges /\ locals \in 0..MaxLocal /\ kills \in 0..MaxKills
  /\ local \in SUBSET Line /\ merged \in SUBSET Line
  /\ unseen \in SUBSET User /\ interrupted \in BOOLEAN

(* Before the first synchronisation; every user has at most one line.      *)
OneLineEach(lines) == \A l, m \in lines : l[1] = m[1] => l = m

Init ==
  /\ instcurr \in {L \in SUBSET Line : OneLineEach(L)}
  /\ instos = Absent /\ offered = {}
  /\ curr \in {L \in SUBSET Line : OneLineEach(L)}
  /\ os = Absent /\ t0 = Absent /\ merge = Absent
  /\ pc = "idle" /\ added = {} /\ removed = {}
  /\ changes = 0 /\ locals = 0 /\ kills = 0
  /\ local = curr
  /\ merged = {} /\ unseen = {} /\ interrupted = FALSE

---------------------------------------------------------------------------
(* The installer                                                           *)

(* A user is added, changed or deleted.                                    *)
InstallerChange(u, lines) ==
  /\ changes < MaxChanges
  /\ changes' = changes + 1
  /\ instcurr' = (instcurr \ LinesOf({u}, instcurr)) \cup lines
  /\ UNCHANGED <<instos, offered, nodeVars>>

(* What was there at the first synchronisation is never offered, but for   *)
(* the line of root in /etc/shadow.                                        *)
GenMergeFiles ==
  /\ IF instos.exists
     THEN offered' = instcurr \ instos.lines /\ UNCHANGED instos
     ELSE instos' = Containing(instcurr \ LinesOf(Secret, instcurr)) /\ offered' = {}
  /\ UNCHANGED <<instcurr, changes, nodeVars>>

---------------------------------------------------------------------------
(* The commands of the node                                                *)

(* What the client sees of a change: all of it before it makes its OS      *)
(* copy; later only what differs from the T0 copy when it next compares.   *)
Watched(lines) ==
  \/ ~os.exists
  \/ pc \in {"idle", "save", "compare"} /\ t0.exists /\ lines \cap t0.lines = {}

ChangeFile(u, lines) ==
  /\ locals < MaxLocal
  /\ locals' = locals + 1
  /\ curr' = (curr \ LinesOf({u}, curr)) \cup lines
  /\ local' = (local \ LinesOf({u}, local)) \cup lines

(* useradd, userdel, usermod, or an editor, which change the file in place *)
(* or replace it; they refuse a user with two lines.                       *)
ChangeLocally(u, lines) ==
  /\ ChangeFile(u, lines)
  /\ unseen' = IF Watched(lines) THEN unseen ELSE unseen \cup {u}
  /\ UNCHANGED <<instVars, os, t0, merge, pc, added, removed, histVars>>

LocalAdd(u, v) == u \notin UsersOf(curr) /\ ChangeLocally(u, {<<u, v>>})
LocalDelete(u) == u \in UsersOf(curr) /\ ChangeLocally(u, {})
LocalChange(u, v) ==
  /\ u \in UsersOf(curr) /\ OneLineEach(LinesOf({u}, curr))
  /\ <<u, v>> \notin curr
  /\ ChangeLocally(u, {<<u, v>>})

(* A command that replaces the file after the shell has emptied it: the    *)
(* cat writes to a file without a name, and the other lines are gone.      *)
ReplaceFile(u, v) ==
  /\ pc = "write" /\ pc' = "unlink"
  /\ u \notin UsersOf(curr)
  /\ ChangeFile(u, {<<u, v>>})
  /\ unseen' = unseen \cup {u}
  /\ interrupted' = TRUE
  /\ UNCHANGED <<instVars, os, t0, merge, added, removed, merged, kills>>

---------------------------------------------------------------------------
(* The client: mergeFile                                                   *)

Step(from, to) == pc = from /\ pc' = to

(* __getFile has put the offered lines in place.                           *)
Download ==
  /\ Step("idle", "save")
  /\ merge' = Containing(offered)
  /\ UNCHANGED <<instVars, curr, os, t0, added, removed, locals, local, unseen, histVars>>

(* "If the saved OS copy does not exist".                                  *)
KeepOS ==
  /\ os.exists /\ Step("save", "compare")
  /\ UNCHANGED <<instVars, fileVars, added, removed, locals, local, unseen, histVars>>

SaveOS ==
  /\ ~os.exists /\ Step("save", "strip")
  /\ os' = Containing(curr)
  /\ UNCHANGED <<instVars, curr, t0, merge, added, removed, locals, local, unseen, histVars>>

(* "Remove the password entry for root from the OS file".                  *)
Strip ==
  /\ Step("strip", "compare")
  /\ os' = Containing(os.lines \ LinesOf(Secret, os.lines))
  /\ local' = local \ LinesOf(Secret, local)
  /\ UNCHANGED <<instVars, curr, t0, merge, added, removed, locals, unseen, histVars>>

(* Variants with a fault: the differences are swapped; what was removed is *)
(* not looked for.                                                         *)
LineChanges_Swapped ==
  IF t0.exists THEN <<t0.lines \ curr, curr \ t0.lines>> ELSE <<{}, {}>>
LineChanges_AddedOnly == <<IF t0.exists THEN curr \ t0.lines ELSE {}, {}>>

(* __getLineChanges: nothing has changed if nothing was merged before.     *)
LineChanges ==
  IF t0.exists THEN <<curr \ t0.lines, t0.lines \ curr>> ELSE <<{}, {}>>

Compare ==
  /\ Step("compare", "remove")
  /\ added' = LineChanges[1] /\ removed' = LineChanges[2]
  /\ UNCHANGED <<instVars, fileVars, locals, local, unseen, histVars>>

(* A line is removed by its user, with every other line of that user.      *)
RemoveLines ==
  /\ Step("remove", "add")
  /\ os' = Containing(os.lines \ LinesOf(UsersOf(removed), os.lines))
  /\ removed' = {}
  /\ UNCHANGED <<instVars, curr, t0, merge, added, locals, local, unseen, histVars>>

AddLines ==
  /\ Step("add", "empty")
  /\ os' = Containing(os.lines \cup added)
  /\ added' = {}
  /\ UNCHANGED <<instVars, curr, t0, merge, removed, locals, local, unseen, histVars>>

(* The shell empties the file before the cat runs ...                      *)
Empty ==
  /\ Step("empty", "write")
  /\ curr' = {}
  /\ UNCHANGED <<instVars, os, t0, merge, added, removed, locals, local, unseen, histVars>>

(* ... and the cat writes it.                                              *)
Write ==
  /\ Step("write", "unlink")
  /\ curr' = os.lines \cup merge.lines
  /\ merged' = merge.lines
  /\ UNCHANGED <<instVars, os, t0, merge, added, removed, locals, local, unseen, interrupted, kills>>

Unlink ==
  /\ Step("unlink", "copy")
  /\ merge' = Absent
  /\ UNCHANGED <<instVars, curr, os, t0, added, removed, locals, local, unseen, histVars>>

CopyT0 ==
  /\ Step("copy", "idle")
  /\ t0' = Containing(curr)
  /\ UNCHANGED <<instVars, curr, os, merge, added, removed, locals, local, unseen, histVars>>

(* A kill does no harm before the OS copy is changed.  Later it leaves     *)
(* copies that do not belong together, and one that is being written may   *)
(* be left empty.                                                          *)
Kill ==
  /\ kills < MaxKills /\ pc # "idle"
  /\ kills' = kills + 1
  /\ pc' = "idle"
  /\ \/ UNCHANGED <<os, t0>>
     \/ /\ pc \in IF os.exists THEN {"strip", "remove"} ELSE {"save"}
        /\ os' = Containing({}) /\ UNCHANGED t0
     \/ /\ pc = "copy"
        /\ t0' = Containing({}) /\ UNCHANGED os
  /\ interrupted' = IF pc \in {"save", "compare", "remove"} /\ os' = os
                    THEN interrupted ELSE TRUE
  /\ added' = {} /\ removed' = {}
  /\ UNCHANGED <<instVars, curr, merge, locals, local, unseen, merged>>

MergeFile ==
  \/ KeepOS \/ SaveOS \/ Strip \/ Compare \/ RemoveLines \/ AddLines
  \/ Empty \/ Write \/ Unlink \/ CopyT0

Next ==
  \/ \E u \in User : \/ InstallerChange(u, {})
                     \/ \E v \in Value : InstallerChange(u, {<<u, v>>})
  \/ GenMergeFiles
  \/ \E u \in User : \/ LocalDelete(u)
                     \/ \E v \in Value : \/ LocalAdd(u, v) \/ LocalChange(u, v)
                                       \/ ReplaceFile(u, v)
  \/ Download \/ MergeFile \/ Kill

Spec == Init /\ [][Next]_vars

---------------------------------------------------------------------------
(* Properties                                                              *)

Seen(lines) == {l \in lines : l[1] \notin unseen}

(* A line that a node's administrator has put there stays, however often   *)
(* the file is put together and whatever the installer offers, for every   *)
(* user that was not changed behind the client's back, unless the client   *)
(* was killed while its copies did not agree, or a command took the file   *)
(* away from the cat (mergeFile).                                          *)
LocalLinesStay == interrupted \/ pc = "write" \/ Seen(local) \subseteq curr

(* Nothing else stays: a line that is no longer offered is gone after the  *)
(* next merge, and root's password in /etc/shadow is the installer's       *)
(* (mergeFile, __removeSelectedLine).                                      *)
NothingLeftBehind ==
  interrupted \/ pc # "idle" \/ ~t0.exists \/ Seen(curr) \subseteq local \cup merged

(* What the client would take for the node's own lines if it compared now. *)
FoundLocal ==
  (os.lines \ LinesOf(UsersOf(t0.lines \ curr), os.lines)) \cup (curr \ t0.lines)

(* The inductive invariant behind the two: how the copies relate to the    *)
(* node's own lines at each place of mergeFile.                            *)
BeforeFirst == ~os.exists => pc \in {"idle", "save"} /\ ~t0.exists /\ local = curr

OwnLines ==
  /\ os.exists /\ pc \in {"idle", "save", "strip", "compare", "remove"} =>
       Seen(local) = Seen(IF t0.exists THEN FoundLocal ELSE os.lines)
  /\ pc = "strip" => os.exists /\ ~t0.exists
  /\ pc = "remove" => Seen(local) =
       Seen((os.lines \ LinesOf(UsersOf(removed), os.lines)) \cup added)
  /\ pc = "add" => Seen(local) = Seen(os.lines \cup added)
  /\ pc \in {"empty", "write", "unlink", "copy"} => Seen(local) = Seen(os.lines)

LastMerge ==
  /\ t0.exists /\ pc \in {"idle", "save", "compare", "remove"} =>
       Seen(os.lines) \subseteq t0.lines
  /\ \/ pc \in {"unlink", "copy"}
     \/ pc \in {"idle", "save", "compare", "remove"} /\ t0.exists
     => Seen(curr) \subseteq local \cup merged

MergeInv ==
  /\ MergeTypeOK /\ LocalLinesStay /\ NothingLeftBehind
  /\ interrupted \/ (BeforeFirst /\ OwnLines /\ LastMerge)
=============================================================================
