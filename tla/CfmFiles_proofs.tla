-------------------------- MODULE CfmFiles_proofs --------------------------
(***************************************************************************)
(* Files reach the nodes, for any number of files, edits, kills and        *)
(* synchronisations, however long they take.                               *)
(***************************************************************************)
EXTENDS CfmFiles, SequenceTheorems, TLAPS

Present(f) == orig[f].ver # None

(* A copy that is not older than its file, and not late, is a copy of the  *)
(* file as it is; or it is being made.  Only a file that was never copied, *)
(* or removed, has no copy.                                                *)
CopyOK(f) ==
  /\ orig[f].mtime <= now /\ depot[f].mtime <= now
  /\ Present(f) => orig[f].mtime >= 1
  /\ depot[f].ver = None => depot[f].mtime = 0
  /\ Present(f) /\ f \notin late =>
       IF sync = "encode" /\ reading.file = f THEN reading.ver = orig[f].ver
       ELSE Newer(f) \/ depot[f].ver = orig[f].ver

CopiesOK == \A f \in File : CopyOK(f)

(* What a full synchronisation knows of the files it has looked at, until  *)
(* a file is changed.                                                      *)
ScanOK ==
  /\ sync \notin {"scan", "encode"} => todo = {}
  /\ whole => \A f \in File :
       /\ f \in dirfiles => Present(f)
       /\ Present(f) /\ f \notin todo => f \in dirfiles /\ ~Newer(f)

(* After a full synchronisation there is nothing to be copied any more,    *)
(* and what is in the depot is listed, unless the list is being written.   *)
SettledOK ==
  settled > 0 =>
    /\ sync # "encode"
    /\ ~whole => dirfiles = {} /\ sync # "scan"
    /\ \A f \in File : Present(f) => ~Newer(f)
    /\ sync # "write" => \A f \in File :
         /\ Present(f) => lst[f] = orig[f].ver
         /\ depot[f].ver # None => lst[f] # None

(* The second full synchronisation removes what is gone: it is listed.     *)
RemovedOK ==
  /\ settled > 0 /\ whole /\ sync \in {"open", "write"} /\ (\E f \in File : Present(f)) =>
       \A f \in File : ~Present(f) => depot[f].ver = None
  /\ RemovedAreGone

(* The OS copy of an appended file is made when the first part is appended *)
(* to it.                                                                  *)
NodeOK ==
  /\ \A f \in File :
       /\ f \notin Appended => os[f] = <<>>
       /\ f \in Appended /\ os[f] = <<>> => node[f] = <<Base>>
  /\ client = "combine" => os[part.file] = <<Base>>

(* An update that nothing disturbed has the list as it is, and gets or has *)
(* what is on it.                                                          *)
UpdateOK ==
  /\ fresh => sync = "idle" /\ clist = lst
  /\ updated => sync = "idle"
  /\ fresh /\ settled > 0 /\ client \in {"get", "append", "combine"} =>
       \A f \in File : Present(f) /\ f \notin late =>
         \/ f \in newfiles \/ node[f] = Content(f)
         \/ client # "get" /\ part.file = f
  /\ settled > 0 /\ (fresh \/ updated) /\ client \in {"append", "combine"} =>
       (Present(part.file) /\ part.file \notin late => part.ver = orig[part.file].ver)
  /\ NodeHasOriginals

FilesInv ==
  FilesTypeOK /\ CopiesOK /\ ScanOK /\ SettledOK /\ RemovedOK /\ NodeOK /\ UpdateOK


---------------------------------------------------------------------------
(* What may be stored where.                                               *)
LEMMA Stored ==
  /\ NoCopy \in Original /\ NoCopy \in Copy
  /\ <<>> \in NodeFile /\ <<Base>> \in NodeFile
  /\ \A v \in Version : /\ <<v>> \in NodeFile /\ <<Base, v>> \in NodeFile
                        /\ Append(<<Base>>, v) = <<Base, v>>
  /\ \A v \in Version, t \in 0..MaxTime :
       [ver |-> v, mtime |-> t] \in Original /\ [ver |-> v, mtime |-> t] \in Copy
  /\ \A t \in 0..MaxTime : [ver |-> Partial, mtime |-> t] \in Copy
  /\ \A c \in Original : c.ver \in Version \cup {None} /\ c.mtime \in 0..MaxTime
  /\ \A c \in Copy : c.ver \in Version \cup {None, Partial} /\ c.mtime \in 0..MaxTime
<1>1. /\ <<>> \in NodeFile /\ <<Base>> \in NodeFile
      /\ \A v \in Version : <<v>> \in NodeFile /\ <<Base, v>> \in NodeFile
  BY Zenon DEF NodeFile
<1>2. ASSUME NEW v \in Version PROVE Append(<<Base>>, v) = <<Base, v>>
  <2> DEFINE s == Append(<<Base>>, v)
             t == <<Base, v>>
  <2>1. Base \in Nat /\ v \in Nat
    BY CfmFilesAssumption DEF Base, Version
  <2>2. s \in Seq(Nat) /\ Len(s) = 2 /\ s[1] = Base /\ s[2] = v
    BY <2>1
  <2>3. t \in Seq(Nat) /\ Len(t) = 2 /\ t[1] = Base /\ t[2] = v
    BY <2>1
  <2> HIDE DEF s, t
  <2>4. \A i \in 1..Len(s) : s[i] = t[i]
    BY <2>2, <2>3
  <2> QED BY <2>2, <2>3, <2>4, SeqEqual DEF s, t
<1> QED BY <1>1, <1>2, CfmFilesAssumption DEF NoCopy, Original, Copy, None

(* At the start nothing is managed and nothing runs.                       *)
LEMMA FilesInitInv == Init => FilesInv
<1> SUFFICES ASSUME Init PROVE FilesInv
  OBVIOUS
<1> USE CfmFilesAssumption, Stored DEF Init
<1>1. FilesTypeOK
  <2>1. whole \in BOOLEAN /\ fresh \in BOOLEAN /\ updated \in BOOLEAN
    BY Zenon
  <2>2. node \in [File -> NodeFile] /\ os \in [File -> {<<>>, <<Base>>}]
    OBVIOUS
  <2>3. cutoff \in BOOLEAN /\ client = "idle"
    BY Zenon
  <2>4. /\ now \in 1..MaxTime /\ edits \in 0..MaxEdits /\ kills \in 0..MaxKills
        /\ orig \in [File -> Original] /\ depot \in [File -> Copy]
        /\ lst \in [File -> Version \cup {None, Cipher}]
    OBVIOUS
  <2> QED BY <2>1, <2>2, <2>3, <2>4 DEF FilesTypeOK
<1>2. CopiesOK /\ ScanOK /\ SettledOK
  BY DEF CopiesOK, CopyOK, ScanOK, SettledOK, Present, Newer, NoCopy, None
<1>3. RemovedOK /\ NodeOK /\ UpdateOK
  BY DEF RemovedOK, RemovedAreGone, NodeOK, UpdateOK, NodeHasOriginals
<1> QED BY <1>1, <1>2, <1>3 DEF FilesInv

(* Every step keeps the types.                                             *)
LEMMA FilesStepType == FilesTypeOK /\ NodeOK /\ Next => FilesTypeOK'
<1> SUFFICES ASSUME FilesTypeOK, NodeOK, Next PROVE FilesTypeOK'
  OBVIOUS
<1> USE CfmFilesAssumption
    DEF FilesTypeOK, origVars, syncVars, nodeVars, histVars
<1>1. CASE Tick
  BY <1>1 DEF Tick
<1>2. ASSUME NEW f \in File, Remove(f) PROVE FilesTypeOK'
  <2>1. whole' \in BOOLEAN
    BY <1>2, Zenon DEF Remove
  <2> QED BY <1>2, <2>1, Stored DEF Remove
<1>3. ASSUME NEW f \in File, NEW mtime \in 1..MaxTime, Edit(f, mtime) PROVE FilesTypeOK'
  <2>1. edits + 1 \in Version /\ mtime \in 0..MaxTime /\ edits' \in 0..MaxEdits
    BY <1>3 DEF Edit, Version
  <2>2. [ver |-> edits + 1, mtime |-> mtime] \in Original
    BY <2>1, Stored
  <2>3. orig' \in [File -> Original]
    BY <1>3, <2>2 DEF Edit
  <2>4. late' \in SUBSET File
    BY <1>3 DEF Edit
  <2>5. whole' \in BOOLEAN
    BY <1>3, Zenon DEF Edit
  <2> QED BY <1>3, <2>1, <2>3, <2>4, <2>5 DEF Edit
<1>4. ASSUME NEW files \in BOOLEAN, StartSync(files) PROVE FilesTypeOK'
  BY <1>4 DEF StartSync
<1>5. ASSUME NEW f \in File, Skip(f) \/ BeginEncode(f) PROVE FilesTypeOK'
  <2>1. CASE Skip(f)
    BY <2>1 DEF Skip
  <2>2. CASE BeginEncode(f)
    BY <2>2, Stored DEF BeginEncode, None
  <2> QED BY <1>5, <2>1, <2>2
<1>6. CASE EndEncode
  BY <1>6, Stored DEF EndEncode
<1>7. CASE Scanned \/ RemoveOldFiles \/ OpenList
  <2>1. CASE Scanned
    BY <2>1 DEF Scanned
  <2>2. CASE RemoveOldFiles
    BY <2>2, Stored DEF RemoveOldFiles
  <2>3. CASE OpenList
    BY <2>3 DEF OpenList
  <2> QED BY <1>7, <2>1, <2>2, <2>3
<1>8. CASE WriteList
  BY <1>8, Stored DEF WriteList, Checksum, None, Partial, Cipher, Version
<1>9. \A list \in Readable : list \in [File -> Version \cup {None, Cipher}]
  <2>1. \A f \in File : Checksum(f) \in Version \cup {None, Cipher}
    BY Stored DEF Checksum, None, Partial, Cipher, Version
  <2>2. \A S, C : SomeLines(S, C) \in [File -> Version \cup {None, Cipher}]
    BY <2>1 DEF SomeLines
  <2>3. lst \in [File -> Version \cup {None, Cipher}]
    OBVIOUS
  <2>4. ASSUME NEW list \in Readable
        PROVE  list = lst \/ \E S, C : list = SomeLines(S, C)
    <3> HIDE CfmFilesAssumption DEF FilesTypeOK
    <3>1. CASE sync = "write"
      <4>1. \E C : list \in {SomeLines(S, C) : S \in SUBSET File}
        BY <2>4, <3>1 DEF Readable
      <4> QED BY <4>1
    <3>2. CASE sync # "write"
      BY <2>4, <3>2 DEF Readable
    <3> QED BY <3>1, <3>2
  <2> HIDE DEF FilesTypeOK
  <2> QED BY <2>2, <2>3, <2>4
<1>10. CASE KillSync
  <2>1. whole' \in BOOLEAN /\ cutoff' \in BOOLEAN
    BY <1>10, Zenon DEF KillSync
  <2>2. lst' \in [File -> Version \cup {None, Cipher}]
    BY <1>10, <1>9 DEF KillSync
  <2>3. depot' \in [File -> Copy] /\ late' \in SUBSET File
    BY <1>10, Stored DEF KillSync
  <2>4. kills' \in 0..MaxKills /\ sync' = "idle" /\ todo' = {} /\ settled' = 0
    BY <1>10 DEF KillSync
  <2> QED BY <1>10, <2>1, <2>2, <2>3, <2>4 DEF KillSync
<1>11. CASE DownloadList \/ ListFails \/ BrokenLine
  BY <1>9, <1>11 DEF DownloadList, ListFails, BrokenLine
<1>12. CASE FindOlderFiles \/ Finish \/ KillClient
  BY <1>12 DEF FindOlderFiles, Finish, KillClient
<1>13. ASSUME NEW f \in File, GetFile(f) PROVE FilesTypeOK'
  <2>1. CASE ~Matches(f)
    BY <1>13, <2>1 DEF GetFile
  <2>2. CASE Matches(f)
    <3>1. depot[f].ver \in Version
      BY <2>2, Stored DEF Matches, None, Partial, Cipher, Version
    <3>2. CASE f \in Appended
      <4>1. part' \in [file : Appended, ver : Version] /\ client' = "append" /\ node' = node
        BY <1>13, <2>2, <3>1, <3>2 DEF GetFile
      <4> QED BY <1>13, <4>1 DEF GetFile
    <3>3. CASE f \notin Appended
      <4>1. node' = [node EXCEPT ![f] = <<depot[f].ver>>] /\ UNCHANGED <<part, client, os>>
        BY <1>13, <2>2, <3>3, Zenon DEF GetFile
      <4>2. node' \in [File -> NodeFile]
        BY <3>1, <4>1, Stored
      <4>3. newfiles' \in SUBSET File
        BY <1>13 DEF GetFile
      <4>4. UNCHANGED <<origVars, kills, syncVars, clist, histVars>>
        BY <1>13, Zenon DEF GetFile
      <4> QED BY <4>1, <4>2, <4>3, <4>4
    <3> QED BY <3>2, <3>3
  <2> QED BY <2>1, <2>2
<1>14. ASSUME NEW f \in File, FileFails(f) PROVE FilesTypeOK'
  BY <1>14 DEF FileFails
<1>15. CASE CopyOS
  <2>1. part.file \in File /\ part.file \in Appended
    BY <1>15 DEF CopyOS
  <2>2. (IF os[part.file] = <<>> THEN node[part.file] ELSE os[part.file]) = <<Base>>
    BY <2>1 DEF NodeOK
  <2>3. os' = [os EXCEPT ![part.file] = <<Base>>]
    BY <1>15, <2>2 DEF CopyOS
  <2>4. os' \in [File -> {<<>>, <<Base>>}]
    BY <2>3
  <2> QED BY <1>15, <2>4 DEF CopyOS
<1>16. CASE Combine
  <2>1. part.file \in File /\ part.ver \in Version /\ os[part.file] = <<Base>>
    BY <1>16 DEF Combine, NodeOK
  <2>2. node' = [node EXCEPT ![part.file] = <<Base, part.ver>>]
    BY <1>16, <2>1, Stored DEF Combine
  <2>3. node' \in [File -> NodeFile]
    BY <2>1, <2>2, Stored
  <2> QED BY <1>16, <2>3 DEF Combine
<1> QED
  BY <1>1, <1>2, <1>3, <1>4, <1>5, <1>6, <1>7, <1>8, <1>10, <1>11, <1>12, <1>13, <1>14,
     <1>15, <1>16
  DEF Next


(* Copies and their files: a change of a file makes it newer than its copy,*)
(* or late.                                                                *)
LEMMA FilesStepCopies == FilesInv /\ Next => CopiesOK'
<1> SUFFICES ASSUME FilesInv, Next PROVE CopiesOK'
  OBVIOUS
<1> USE CfmFilesAssumption
    DEF FilesInv, FilesTypeOK, CopiesOK, CopyOK, Present, Newer, origVars, syncVars, nodeVars, histVars
<1>0. \A f \in File : /\ orig[f].mtime \in 0..MaxTime /\ depot[f].mtime \in 0..MaxTime
                      /\ orig[f].ver \in Version \cup {None}
  BY Stored
<1>1. CASE Tick
  BY <1>0, <1>1 DEF Tick
<1>2. ASSUME NEW f \in File, Remove(f) PROVE CopiesOK'
  BY <1>0, <1>2 DEF Remove, NoCopy
<1>3. ASSUME NEW f \in File, NEW mtime \in 1..MaxTime, Edit(f, mtime) PROVE CopiesOK'
  BY <1>0, <1>3 DEF Edit
<1>4. ASSUME NEW files \in BOOLEAN, StartSync(files) PROVE CopiesOK'
  BY <1>4 DEF StartSync
<1>5. ASSUME NEW f \in File, Skip(f) \/ BeginEncode(f) PROVE CopiesOK'
  <2>1. CASE Skip(f)
    BY <2>1 DEF Skip
  <2>2. CASE BeginEncode(f)
    BY <1>0, <2>2 DEF BeginEncode, Partial, None
  <2> QED BY <1>5, <2>1, <2>2
<1>6. CASE EndEncode
  <2>1. reading.file \in File /\ reading.ver \in Version /\ reading.ver # None
    BY <1>6 DEF EndEncode, Version, None
  <2>2. \A f \in File : depot'[f] = IF f = reading.file
                                   THEN [ver |-> reading.ver, mtime |-> now] ELSE depot[f]
    BY <1>6, <2>1 DEF EndEncode
  <2>3. UNCHANGED <<orig, now, late>>
    BY <1>6 DEF EndEncode
  <2>4. sync' # "encode"
    BY <1>6 DEF EndEncode
  <2> SUFFICES ASSUME NEW f \in File PROVE CopyOK(f)'
    BY DEF CopiesOK
  <2>5. CASE f = reading.file
    <3>1. Present(f) /\ f \notin late => reading.ver = orig[f].ver
      BY <1>6, <2>5 DEF EndEncode
    <3>2. depot'[f].ver = reading.ver /\ depot'[f].mtime = now
      BY <2>2, <2>5
    <3> QED BY <1>0, <2>1, <2>3, <2>4, <3>1, <3>2
  <2>6. CASE f # reading.file
    BY <2>2, <2>3, <2>4, <2>6
  <2> QED BY <2>5, <2>6
<1>7. CASE Scanned \/ OpenList \/ WriteList
  BY <1>7 DEF Scanned, OpenList, WriteList
<1>8. CASE RemoveOldFiles
  BY <1>0, <1>8 DEF RemoveOldFiles, NoCopy
<1>9. CASE KillSync
  <2> SUFFICES ASSUME NEW f \in File PROVE CopyOK(f)'
    BY DEF CopiesOK
  <2>1. /\ depot'[f] = NoCopy \/ (depot'[f] = depot[f] /\ (f \in late => f \in late'))
        /\ sync = "encode" /\ reading.file = f => f \in late'
        /\ sync' = "idle" /\ UNCHANGED <<orig, now>>
    BY <1>9 DEF KillSync
  <2> QED BY <1>0, <2>1 DEF NoCopy
<1>10. CASE DownloadList \/ ListFails \/ BrokenLine \/ FindOlderFiles \/ Finish \/ KillClient
  BY <1>10 DEF DownloadList, ListFails, BrokenLine, FindOlderFiles, Finish, KillClient
<1>11. CASE CopyOS \/ Combine
  BY <1>11 DEF CopyOS, Combine
<1>12. ASSUME NEW f \in File, GetFile(f) \/ FileFails(f) PROVE CopiesOK'
  BY <1>12 DEF GetFile, FileFails
<1> QED
  BY <1>1, <1>2, <1>3, <1>4, <1>5, <1>6, <1>7, <1>8, <1>9, <1>10, <1>11, <1>12 DEF Next

(* A scan looks at every file, once.                                       *)
LEMMA FilesStepScan == FilesInv /\ Next => ScanOK'
<1> SUFFICES ASSUME FilesInv, Next PROVE ScanOK'
  OBVIOUS
<1> USE CfmFilesAssumption
    DEF FilesInv, FilesTypeOK, ScanOK, CopiesOK, CopyOK, Present, Newer, origVars, syncVars, nodeVars, histVars
<1>0. \A f \in File : /\ orig[f].mtime \in 0..MaxTime /\ depot[f].mtime \in 0..MaxTime
                      /\ orig[f].ver \in Version \cup {None}
  BY Stored
<1>1. CASE Tick \/ \E f \in File : Remove(f) \/ \E mtime \in 1..MaxTime : Edit(f, mtime)
  BY <1>1 DEF Tick, Remove, Edit
<1>2. ASSUME NEW files \in BOOLEAN, StartSync(files) PROVE ScanOK'
  BY <1>2 DEF StartSync
<1>3. ASSUME NEW f \in File, Skip(f) \/ BeginEncode(f) PROVE ScanOK'
  <2>1. CASE Skip(f)
    BY <2>1 DEF Skip
  <2>2. CASE BeginEncode(f)
    BY <1>0, <2>2 DEF BeginEncode
  <2> QED BY <1>3, <2>1, <2>2
<1>4. CASE EndEncode
  BY <1>0, <1>4 DEF EndEncode
<1>5. CASE Scanned \/ OpenList \/ WriteList
  BY <1>5 DEF Scanned, OpenList, WriteList
<1>6. CASE RemoveOldFiles
  BY <1>0, <1>6 DEF RemoveOldFiles, OldFiles
<1>7. CASE KillSync
  BY <1>7 DEF KillSync
<1>8. CASE DownloadList \/ ListFails \/ BrokenLine \/ FindOlderFiles \/ Finish \/ KillClient
  BY <1>8 DEF DownloadList, ListFails, BrokenLine, FindOlderFiles, Finish, KillClient
<1>9. ASSUME NEW f \in File, GetFile(f) \/ FileFails(f) PROVE ScanOK'
  BY <1>9 DEF GetFile, FileFails
<1>10. CASE CopyOS \/ Combine
  BY <1>10 DEF CopyOS, Combine
<1> QED
  BY <1>1, <1>2, <1>3, <1>4, <1>5, <1>6, <1>7, <1>8, <1>9, <1>10 DEF Next


(* Nothing is copied or forgotten once everything has been synchronised.   *)
LEMMA FilesStepSettled == FilesInv /\ Next => SettledOK'
<1> SUFFICES ASSUME FilesInv, Next PROVE SettledOK'
  OBVIOUS
<1> USE CfmFilesAssumption
    DEF FilesInv, FilesTypeOK, SettledOK, Present, Newer, origVars, syncVars, nodeVars, histVars
<1>0. \A f \in File : /\ orig[f].mtime \in 0..MaxTime /\ depot[f].mtime \in 0..MaxTime
                      /\ orig[f].ver \in Version \cup {None}
  BY Stored
<1>1. CASE Tick \/ \E f \in File : Remove(f) \/ \E mtime \in 1..MaxTime : Edit(f, mtime)
  BY <1>1 DEF Tick, Remove, Edit
<1>2. ASSUME NEW files \in BOOLEAN, StartSync(files) PROVE SettledOK'
  BY <1>2 DEF StartSync
<1>3. ASSUME NEW f \in File, Skip(f) \/ BeginEncode(f) PROVE SettledOK'
  BY <1>3 DEF Skip, BeginEncode
<1>4. CASE EndEncode \/ Scanned \/ KillSync
  BY <1>4 DEF EndEncode, Scanned, KillSync
<1>5. CASE RemoveOldFiles
  <2>1. \A f \in File : Present(f) /\ settled > 0 => f \notin OldFiles
    BY <1>5 DEF RemoveOldFiles, OldFiles, ScanOK
  <2> QED BY <1>5, <2>1 DEF RemoveOldFiles, NoCopy
<1>6. CASE OpenList
  BY <1>6 DEF OpenList
<1>7. CASE WriteList
  <2>1. settled' > 0 => \A f \in File : Present(f) => ~Newer(f)
    BY <1>7 DEF WriteList, ScanOK
  <2>2. ASSUME settled' > 0, NEW f \in File
        PROVE  (Present(f) => lst'[f] = orig[f].ver) /\ (depot[f].ver # None => lst'[f] # None)
    <3>1. lst'[f] = Checksum(f)
      BY <1>7 DEF WriteList
    <3>2. Present(f) => depot[f].ver # None
      BY <1>0, <2>1, <2>2 DEF CopiesOK, CopyOK
    <3> QED BY <3>1, <3>2 DEF Checksum, Cipher, None
  <2>3. settled' > 0 /\ ~whole => settled > 0
    BY <1>7 DEF WriteList
  <2> QED BY <1>7, <2>1, <2>2, <2>3 DEF WriteList
<1>8. CASE DownloadList \/ ListFails \/ BrokenLine \/ FindOlderFiles \/ Finish \/ KillClient
  BY <1>8 DEF DownloadList, ListFails, BrokenLine, FindOlderFiles, Finish, KillClient
<1>9. ASSUME NEW f \in File, GetFile(f) \/ FileFails(f) PROVE SettledOK'
  BY <1>9 DEF GetFile, FileFails
<1>10. CASE CopyOS \/ Combine
  BY <1>10 DEF CopyOS, Combine
<1> QED
  BY <1>1, <1>2, <1>3, <1>4, <1>5, <1>6, <1>7, <1>8, <1>9, <1>10 DEF Next

(* What is gone stays gone, once it has been removed.                      *)
LEMMA FilesStepRemoved == FilesInv /\ Next => RemovedOK'
<1> SUFFICES ASSUME FilesInv, Next PROVE RemovedOK'
  OBVIOUS
<1> USE CfmFilesAssumption
    DEF FilesInv, FilesTypeOK, RemovedOK, RemovedAreGone, Present, Newer,
        origVars, syncVars, nodeVars, histVars
<1>1. CASE Tick \/ \E f \in File : Remove(f) \/ \E mtime \in 1..MaxTime : Edit(f, mtime)
  BY <1>1 DEF Tick, Remove, Edit
<1>2. ASSUME NEW files \in BOOLEAN, StartSync(files) PROVE RemovedOK'
  BY <1>2 DEF StartSync
<1>3. ASSUME NEW f \in File, Skip(f) \/ BeginEncode(f) PROVE RemovedOK'
  BY <1>3 DEF Skip, BeginEncode, SettledOK
<1>4. CASE EndEncode \/ Scanned \/ KillSync
  BY <1>4 DEF EndEncode, Scanned, KillSync, SettledOK
<1>5. CASE RemoveOldFiles
  <2>1. UNCHANGED <<orig, settled, whole>> /\ sync = "remove" /\ sync' = "open"
    BY <1>5 DEF RemoveOldFiles
  <2>2. \A f \in File : depot'[f] = IF f \in OldFiles THEN NoCopy ELSE depot[f]
    BY <1>5 DEF RemoveOldFiles
  <2>3. ASSUME settled > 0, whole, \E f \in File : Present(f), NEW f \in File, ~Present(f)
        PROVE  depot'[f].ver = None
    <3>1. dirfiles # {} /\ f \notin dirfiles
      BY <2>1, <2>3 DEF ScanOK
    <3>2. depot[f].ver = None \/ f \in OldFiles
      BY <2>1, <2>3, <3>1 DEF SettledOK, OldFiles
    <3> QED BY <2>2, <3>2 DEF NoCopy
  <2>4. ASSUME settled = 2, \E f \in File : orig[f].ver # None, NEW f \in File, orig[f].ver = None
        PROVE  depot'[f].ver = None
    BY <2>2, <2>4 DEF NoCopy
  <2> QED BY <2>1, <2>3, <2>4
<1>6. CASE OpenList \/ WriteList
  BY <1>6 DEF OpenList, WriteList
<1>7. CASE DownloadList \/ ListFails \/ BrokenLine \/ FindOlderFiles \/ Finish \/ KillClient
  BY <1>7 DEF DownloadList, ListFails, BrokenLine, FindOlderFiles, Finish, KillClient
<1>8. ASSUME NEW f \in File, GetFile(f) \/ FileFails(f) PROVE RemovedOK'
  BY <1>8 DEF GetFile, FileFails
<1>9. CASE CopyOS \/ Combine
  BY <1>9 DEF CopyOS, Combine
<1> QED
  BY <1>1, <1>2, <1>3, <1>4, <1>5, <1>6, <1>7, <1>8, <1>9 DEF Next

(* Only a file that is fetched changes the node.                           *)
LEMMA FilesStepNode == FilesInv /\ Next => NodeOK'
<1> SUFFICES ASSUME FilesInv, Next PROVE NodeOK'
  OBVIOUS
<1> USE CfmFilesAssumption
    DEF FilesInv, FilesTypeOK, NodeOK, origVars, syncVars, nodeVars, histVars
<1>1. ASSUME NEW f \in File, GetFile(f) PROVE NodeOK'
  BY <1>1 DEF GetFile
<1>2. CASE CopyOS
  <2>1. part.file \in File /\ part.file \in Appended
    BY <1>2 DEF CopyOS
  <2>2. (IF os[part.file] = <<>> THEN node[part.file] ELSE os[part.file]) = <<Base>>
    BY <2>1
  <2>3. os' = [os EXCEPT ![part.file] = <<Base>>]
    BY <1>2, <2>2 DEF CopyOS
  <2>4. <<Base>> # <<>>
    OBVIOUS
  <2>5. UNCHANGED <<node, part>>
    BY <1>2, Zenon DEF CopyOS
  <2>6. os'[part.file] = <<Base>> /\ \A g \in File \ {part.file} : os'[g] = os[g]
    BY <2>1, <2>3
  <2> QED BY <2>1, <2>4, <2>5, <2>6
<1>3. CASE Combine
  <2>0. client = "combine"
    BY <1>3 DEF Combine
  <2>1. <<Base>> # <<>>
    OBVIOUS
  <2>2. part.file \in File /\ os[part.file] = <<Base>> /\ os[part.file] # <<>>
    BY <2>0, <2>1
  <2>3. os' = os /\ client' = "get" /\ \A g \in File \ {part.file} : node'[g] = node[g]
    BY <1>3 DEF Combine
  <2> QED BY <2>2, <2>3
<1>4. CASE ~(CopyOS \/ Combine \/ \E f \in File : GetFile(f))
  <2>1. UNCHANGED <<node, os>>
    BY <1>4, Zenon DEF Next, Tick, Remove, Edit, StartSync, Skip, BeginEncode, EndEncode, Scanned,
        RemoveOldFiles, OpenList, WriteList, KillSync, DownloadList, ListFails, BrokenLine,
        FindOlderFiles, Finish, KillClient, FileFails
  <2>2. (client' = client /\ part' = part) \/ client' # "combine"
    BY <1>4, Zenon DEF Next, Tick, Remove, Edit, StartSync, Skip, BeginEncode, EndEncode, Scanned,
        RemoveOldFiles, OpenList, WriteList, KillSync, DownloadList, ListFails, BrokenLine,
        FindOlderFiles, Finish, KillClient, FileFails
  <2> QED BY <2>1, <2>2
<1> QED BY <1>1, <1>2, <1>3, <1>4


(* An update that is not disturbed gets what it does not have.             *)
LEMMA FilesStepUpdate == FilesInv /\ Next => UpdateOK'
<1> SUFFICES ASSUME FilesInv, Next PROVE UpdateOK'
  OBVIOUS
<1> USE CfmFilesAssumption
    DEF FilesInv, FilesTypeOK, UpdateOK, NodeHasOriginals, Content, Present,
        origVars, syncVars, nodeVars, histVars
<1>0. ASSUME settled > 0, sync = "idle", NEW f \in File, Present(f), f \notin late
      PROVE  depot[f].ver = orig[f].ver /\ lst[f] = orig[f].ver /\ orig[f].ver # None
  BY <1>0 DEF SettledOK, CopiesOK, CopyOK
<1>1. CASE Tick \/ \E f \in File : Remove(f) \/ \E mtime \in 1..MaxTime : Edit(f, mtime)
  BY <1>1 DEF Tick, Remove, Edit
<1>2. ASSUME NEW files \in BOOLEAN, StartSync(files) PROVE UpdateOK'
  BY <1>2 DEF StartSync
<1>3. ASSUME NEW f \in File, Skip(f) \/ BeginEncode(f) PROVE UpdateOK'
  BY <1>3 DEF Skip, BeginEncode
<1>4. CASE EndEncode \/ Scanned \/ RemoveOldFiles \/ OpenList \/ WriteList \/ KillSync
  BY <1>4 DEF EndEncode, Scanned, RemoveOldFiles, OpenList, WriteList, KillSync
<1>5. CASE DownloadList
  BY <1>5 DEF DownloadList, Readable
<1>6. CASE ListFails \/ BrokenLine
  BY <1>6 DEF ListFails, BrokenLine, Readable
<1>7. CASE FindOlderFiles
  <2>1. ASSUME fresh, settled > 0, NEW f \in File, Present(f), f \notin late
        PROVE  f \in newfiles' \/ node[f] = Content(f)
    <3>1. clist[f] = orig[f].ver /\ clist[f] # None
      BY <1>0, <2>1
    <3> QED BY <1>7, <3>1 DEF FindOlderFiles, Wanted
  <2> QED BY <1>7, <2>1 DEF FindOlderFiles
<1>8. CASE Finish \/ KillClient
  BY <1>8 DEF Finish, KillClient
<1>9. ASSUME NEW f \in File, GetFile(f) PROVE UpdateOK'
  <2>1. \A g \in File \ {f} : node'[g] = node[g]
    BY <1>9 DEF GetFile
  <2>2. ASSUME settled > 0, sync = "idle", Present(f), f \notin late,
               clist[f] = lst[f] \/ node[f] = Content(f)
        PROVE  \/ node'[f] = Content(f)
               \/ client' = "append" /\ part'.file = f
    <3>0. depot[f].ver = orig[f].ver /\ lst[f] = orig[f].ver /\ orig[f].ver # None
      BY <1>0, <2>2
    <3>1. CASE ~Matches(f)
      BY <1>9, <2>2, <3>0, <3>1 DEF GetFile, Matches
    <3>2. CASE Matches(f) /\ f \notin Appended
      BY <1>9, <3>0, <3>2 DEF GetFile
    <3>3. CASE Matches(f) /\ f \in Appended
      <4>1. client' = "append" /\ part' = [file |-> f, ver |-> depot[f].ver]
        BY <1>9, <3>3 DEF GetFile
      <4> QED BY <3>0, <4>1
    <3> QED BY <3>1, <3>2, <3>3
  <2>3. /\ UNCHANGED <<orig, depot, lst, sync, clist, late, settled, fresh, updated>>
        /\ newfiles' = newfiles \ {f} /\ client = "get"
    BY <1>9 DEF GetFile
  <2>4. UNCHANGED <<fresh, updated>>
    BY <1>9, Zenon DEF GetFile
  <2>5. updated /\ settled > 0 => node'[f] = Content(f) \/ ~Present(f) \/ f \in late
    <3>1. CASE f \in Appended
      BY <1>9, <3>1 DEF GetFile
    <3>2. CASE f \notin Appended
      BY <1>0, <1>9, <3>2 DEF GetFile, Matches
    <3> QED BY <3>1, <3>2
  <2>6. client' = "append" /\ settled > 0 /\ sync = "idle" /\ Present(part'.file)
          /\ part'.file \notin late => part'.ver = orig[part'.file].ver
    <3>1. CASE client' = "append"
      <4>1. part' = [file |-> f, ver |-> depot[f].ver]
        BY <1>9, <3>1 DEF GetFile
      <4> QED BY <1>0, <4>1
    <3> QED BY <3>1
  <2>7. client' \in {"get", "append"}
    BY <1>9 DEF GetFile
  <2> QED BY <2>1, <2>2, <2>3, <2>4, <2>5, <2>6, <2>7
<1>11. CASE CopyOS
  BY <1>11 DEF CopyOS
<1>12. CASE Combine
  <2>1. /\ part.file \in File /\ part.file \in Appended /\ part.ver \in Version
        /\ os[part.file] = <<Base>> /\ client = "combine"
    BY <1>12 DEF Combine, NodeOK
  <2>2. node' = [node EXCEPT ![part.file] = <<Base, part.ver>>]
    BY <1>12, <2>1, Stored DEF Combine
  <2>3. UNCHANGED <<orig, depot, lst, sync, clist, late, settled, fresh, updated, newfiles>>
    BY <1>12 DEF Combine
  <2>4. client' = "get"
    BY <1>12 DEF Combine
  <2>5. \A g \in File \ {part.file} : node'[g] = node[g]
    BY <2>2
  <2>6. part.ver = orig[part.file].ver => node'[part.file] = <<Base, orig[part.file].ver>>
    BY <2>1, <2>2
  <2> QED BY <2>1, <2>3, <2>4, <2>5, <2>6
<1>10. ASSUME NEW f \in File, FileFails(f) PROVE UpdateOK'
  BY <1>10 DEF FileFails
<1> QED
  BY <1>1, <1>2, <1>3, <1>4, <1>5, <1>6, <1>7, <1>8, <1>9, <1>10, <1>11, <1>12 DEF Next
---------------------------------------------------------------------------
(* The whole invariant, in every reachable state.                          *)
THEOREM FilesCorrect == Spec => []FilesInv
<1>1. FilesInv /\ [Next]_vars => FilesInv'
  <2> SUFFICES ASSUME FilesInv, [Next]_vars PROVE FilesInv'
    OBVIOUS
  <2>1. CASE Next
    BY <2>1, FilesStepType, FilesStepCopies, FilesStepScan, FilesStepSettled, FilesStepRemoved,
       FilesStepNode, FilesStepUpdate DEF FilesInv
  <2>2. CASE UNCHANGED vars
    BY <2>2 DEF vars, origVars, syncVars, nodeVars, histVars, FilesInv, FilesTypeOK, CopiesOK, CopyOK,
       ScanOK, SettledOK, RemovedOK, RemovedAreGone, NodeOK, UpdateOK, NodeHasOriginals, Present,
       Newer, Content
  <2> QED BY <2>1, <2>2
<1> QED BY FilesInitInv, <1>1, PTL DEF Spec

(* Every variable keeps its type, the files of the node among them: what a *)
(* node has is its own part, once, and one version of the installer's.     *)
THEOREM FilesTypeOKHolds == Spec => []FilesTypeOK
<1>1. FilesInv => FilesTypeOK
  BY DEF FilesInv
<1> QED BY <1>1, FilesCorrect, PTL

(* Whoever updates undisturbed after a synchronisation has the files of    *)
(* the installer (updateFiles, updateCFMdir).                              *)
THEOREM NodeHasOriginalsHolds == Spec => []NodeHasOriginals
<1>1. FilesInv => NodeHasOriginals
  BY DEF FilesInv, UpdateOK
<1> QED BY <1>1, FilesCorrect, PTL

(* What is removed at the installer is offered for two synchronisations at *)
(* most (removeOldFiles).                                                  *)
THEOREM RemovedAreGoneHolds == Spec => []RemovedAreGone
<1>1. FilesInv => RemovedAreGone
  BY DEF FilesInv, RemovedOK
<1> QED BY <1>1, FilesCorrect, PTL

(* The depot and the list say what the installer has (genFileList).        *)
THEOREM DepotAgreesWithListHolds == Spec => []DepotAgreesWithList
<1>1. FilesInv => DepotAgreesWithList
  BY DEF FilesInv, DepotAgreesWithList, SettledOK, CopiesOK, CopyOK, Present
<1> QED BY <1>1, FilesCorrect, PTL
=============================================================================
