-------------------------- MODULE CfmMerge_proofs --------------------------
(***************************************************************************)
(* What merging does to the account files of a node, for any users and     *)
(* values and any number of changes and kills.                             *)
(***************************************************************************)
EXTENDS CfmMerge, TLAPS

(* The part of the invariant that is about lines.                          *)
LinesInv ==
  interrupted \/ (BeforeFirst /\ OwnLines /\ LastMerge /\ LocalLinesStay)

LEMMA LinesInvFacts ==
  MergeInv <=> MergeTypeOK /\ LinesInv /\ LocalLinesStay /\ NothingLeftBehind
  BY DEF MergeInv, LinesInv

LEMMA MergeInitInv == Init => MergeInv
<1> SUFFICES ASSUME Init PROVE MergeInv
  OBVIOUS
<1> USE CfmMergeAssumption DEF Init, Absent
<1>1. MergeTypeOK
  <2>1. Absent \in File
    BY DEF File
  <2>2. instcurr \in SUBSET Line /\ curr \in SUBSET Line
    OBVIOUS
  <2>3. changes \in 0..MaxChanges /\ locals \in 0..MaxLocal /\ kills \in 0..MaxKills
    OBVIOUS
  <2> QED BY <2>1, <2>2, <2>3 DEF MergeTypeOK
<1>2. LocalLinesStay /\ NothingLeftBehind
  BY DEF LocalLinesStay, NothingLeftBehind, Seen
<1>3. BeforeFirst /\ OwnLines /\ LastMerge
  BY DEF BeforeFirst, OwnLines, LastMerge
<1> QED BY <1>1, <1>2, <1>3 DEF MergeInv

(* Every step keeps the types.                                             *)
LEMMA MergeStepType == MergeTypeOK /\ Next => MergeTypeOK'
<1> SUFFICES ASSUME MergeTypeOK, Next PROVE MergeTypeOK'
  OBVIOUS
<1> USE CfmMergeAssumption DEF MergeTypeOK, instVars, fileVars, histVars, nodeVars, Step
<1>0. Absent \in File /\ \A L \in SUBSET Line : Containing(L) \in File
  BY DEF Absent, Containing, File
<1>0a. \A f \in File : f.lines \in SUBSET Line
  BY DEF File
<1>0b. \A U, L : LinesOf(U, L) \subseteq L
  BY DEF LinesOf
<1>1. ASSUME NEW u \in User, NEW lines \in SUBSET Line, InstallerChange(u, lines)
      PROVE  MergeTypeOK'
  BY <1>1, <1>0b DEF InstallerChange
<1>2. CASE GenMergeFiles
  <2>1. instcurr \ LinesOf(Secret, instcurr) \in SUBSET Line
    BY <1>0b
  <2>2. instos' \in File /\ offered' \in SUBSET Line
    BY <1>2, <1>0, <2>1 DEF GenMergeFiles
  <2> QED BY <1>2, <2>2 DEF GenMergeFiles
<1>3. ASSUME NEW u \in User, NEW lines \in SUBSET Line, ChangeLocally(u, lines)
      PROVE  MergeTypeOK'
  BY <1>3, <1>0b DEF ChangeLocally, ChangeFile
<1>4. CASE Download \/ KeepOS \/ SaveOS \/ Empty \/ Unlink \/ CopyT0
  BY <1>4, <1>0 DEF Download, KeepOS, SaveOS, Empty, Unlink, CopyT0
<1>5. CASE Strip
  <2>1. os.lines \ LinesOf(Secret, os.lines) \in SUBSET Line
    BY <1>0a
  <2>2. local \ LinesOf(Secret, local) \in SUBSET Line
    BY <1>0b
  <2> QED BY <1>5, <1>0, <2>1, <2>2 DEF Strip
<1>6. CASE Compare
  <2>1. added' \in SUBSET Line /\ removed' \in SUBSET Line
    BY <1>6, <1>0a DEF Compare, LineChanges
  <2> QED BY <1>6, <2>1 DEF Compare
<1>7. CASE RemoveLines
  <2>1. os.lines \ LinesOf(UsersOf(removed), os.lines) \in SUBSET Line
    BY <1>0a
  <2> QED BY <1>7, <1>0, <2>1 DEF RemoveLines
<1>8. CASE AddLines
  <2>1. os.lines \cup added \in SUBSET Line
    BY <1>0a
  <2> QED BY <1>8, <1>0, <2>1 DEF AddLines
<1>9. CASE Write
  BY <1>9, <1>0a DEF Write
<1>10. CASE Kill
  <2>1. os' \in File /\ t0' \in File
    BY <1>10, <1>0 DEF Kill
  <2>2. kills' \in 0..MaxKills
    BY <1>10 DEF Kill
  <2> QED BY <1>10, <2>1, <2>2 DEF Kill
<1>11. \A u \in User, v \in Value : {<<u, v>>} \in SUBSET Line /\ {} \in SUBSET Line
  BY DEF Line
<1>12. ASSUME NEW u \in User, NEW v \in Value, ReplaceFile(u, v)
       PROVE  MergeTypeOK'
  <2>1. {<<u, v>>} \in SUBSET Line
    BY DEF Line
  <2>2. curr' \in SUBSET Line /\ local' \in SUBSET Line /\ locals' \in 0..MaxLocal
    BY <1>12, <1>0b, <2>1 DEF ReplaceFile, ChangeFile
  <2> QED BY <1>12, <2>2 DEF ReplaceFile
<1> QED
  BY <1>1, <1>2, <1>3, <1>4, <1>5, <1>6, <1>7, <1>8, <1>9, <1>10, <1>11,
     <1>12
  DEF Next, MergeFile, LocalAdd, LocalDelete, LocalChange

(* A command of the node that the client does not watch takes its user out *)
(* of the account; one that it watches is found when it next compares.     *)
LEMMA LocalStepInv ==
  ASSUME MergeInv, NEW u \in User, NEW lines \in SUBSET Line,
         \A l \in lines : l[1] = u,
         ChangeLocally(u, lines)
  PROVE  LinesInv' /\ NothingLeftBehind'
<1> SUFFICES ASSUME ~interrupted PROVE LinesInv' /\ NothingLeftBehind'
  BY DEF ChangeLocally, histVars, LinesInv, NothingLeftBehind
<1> USE DEF MergeInv, ChangeLocally, ChangeFile, histVars
<1>1. /\ ~interrupted' /\ UNCHANGED <<os, t0, pc, added, removed, merged>>
      /\ unseen \subseteq unseen' /\ unseen' \subseteq unseen \cup {u}
      /\ curr' = (curr \ LinesOf({u}, curr)) \cup lines
      /\ local' = (local \ LinesOf({u}, local)) \cup lines
      /\ ~Watched(lines) => u \in unseen'
  OBVIOUS
<1>2. BeforeFirst'
  BY <1>1 DEF BeforeFirst
<1>3. LocalLinesStay' /\ NothingLeftBehind'
  BY <1>1 DEF LocalLinesStay, NothingLeftBehind, Seen, LinesOf, LastMerge
<1>4. LastMerge'
  BY <1>1 DEF LastMerge, Seen, LinesOf
<1>5. CASE ~os.exists
  <2>1. pc \in {"idle", "save"} /\ ~os'.exists /\ pc' = pc
    BY <1>1, <1>5 DEF BeforeFirst
  <2> QED BY <1>1, <1>2, <1>3, <1>4, <2>1 DEF LinesInv, OwnLines
<1>6. CASE os.exists /\ u \in unseen'
  <2>1. \A l : l[1] # u => (l \in local' <=> l \in local) /\ (l \in curr' <=> l \in curr)
    BY <1>1 DEF LinesOf
  <2>2. \A l : l[1] # u => (l \in FoundLocal' <=> l \in FoundLocal)
    BY <1>1, <2>1 DEF FoundLocal, LinesOf, UsersOf
  <2>3. \A l : l[1] \notin unseen' => l[1] # u /\ l[1] \notin unseen
    BY <1>1, <1>6
  <2>4. \A L : Seen(local) = Seen(L) =>
              \A l : l[1] \notin unseen' => (l \in local' <=> l \in L)
    BY <2>1, <2>3 DEF Seen
  <2>5. OwnLines
    BY DEF LinesInv
  <2>6. pc \in {"idle", "save", "strip", "compare", "remove"} =>
          Seen(local)' = Seen(IF t0.exists THEN FoundLocal ELSE os.lines)'
    <3>1. CASE t0.exists /\ pc \in {"idle", "save", "strip", "compare", "remove"}
      <4>1. \A l : l[1] \notin unseen' => (l \in local' <=> l \in FoundLocal)
        BY <1>6, <2>4, <2>5, <3>1 DEF OwnLines
      <4>2. Seen(local)' = Seen(FoundLocal)'
        BY <2>2, <2>3, <4>1 DEF Seen
      <4> QED BY <1>1, <3>1, <4>2
    <3>2. CASE ~t0.exists /\ pc \in {"idle", "save", "strip", "compare", "remove"}
      <4>1. \A l : l[1] \notin unseen' => (l \in local' <=> l \in os.lines)
        BY <1>6, <2>4, <2>5, <3>2 DEF OwnLines
      <4> QED BY <1>1, <3>2, <4>1 DEF Seen
    <3> QED BY <3>1, <3>2
  <2>7. pc = "remove" => Seen(local)' =
          Seen((os.lines \ LinesOf(UsersOf(removed), os.lines)) \cup added)'
    <3> DEFINE L == (os.lines \ LinesOf(UsersOf(removed), os.lines)) \cup added
    <3>1. L' = L
      BY <1>1 DEF LinesOf, UsersOf
    <3>2. pc = "remove" => \A l : l[1] \notin unseen' => (l \in local' <=> l \in L)
      BY <2>4, <2>5 DEF OwnLines
    <3> HIDE DEF L
    <3>3. pc = "remove" => Seen(local)' = Seen(L)'
      BY <3>1, <3>2 DEF Seen
    <3> QED BY <3>3 DEF L
  <2>8. pc = "add" => Seen(local)' = Seen(os.lines \cup added)'
    <3>1. pc = "add" => \A l : l[1] \notin unseen' => (l \in local' <=> l \in os.lines \cup added)
      BY <2>4, <2>5 DEF OwnLines
    <3> QED BY <1>1, <3>1 DEF Seen
  <2>9. pc \in {"empty", "write", "unlink", "copy"} => Seen(local)' = Seen(os.lines)'
    <3>1. pc \in {"empty", "write", "unlink", "copy"} =>
            \A l : l[1] \notin unseen' => (l \in local' <=> l \in os.lines)
      BY <2>4, <2>5 DEF OwnLines
    <3> QED BY <1>1, <3>1 DEF Seen
  <2>10. OwnLines'
    BY <1>1, <2>5, <2>6, <2>7, <2>8, <2>9 DEF OwnLines
  <2> QED BY <1>2, <1>3, <1>4, <2>10 DEF LinesInv
<1>7. CASE os.exists /\ u \notin unseen'
  <2>1. /\ pc \in {"idle", "save", "compare"} /\ t0.exists /\ lines \cap t0.lines = {}
        /\ unseen' = unseen /\ u \notin unseen
    BY <1>1, <1>7 DEF Watched
  <2>2. Seen(local) = Seen(FoundLocal)
    BY <1>7, <2>1 DEF OwnLines
  <2>3. \A l : l[1] # u => (l \in local' <=> l \in local) /\ (l \in curr' <=> l \in curr)
    BY <1>1 DEF LinesOf
  <2>4. \A l : l[1] # u => (l \in FoundLocal' <=> l \in FoundLocal)
    BY <1>1, <2>3 DEF FoundLocal, LinesOf, UsersOf
  <2>5. \A l : l[1] = u => (l \in local' <=> l \in lines) /\ (l \in curr' <=> l \in lines)
    BY <1>1 DEF LinesOf
  <2>6. \A l \in os.lines : l[1] = u => l \in t0.lines /\ l \notin curr'
    BY <1>1, <2>1, <2>5 DEF LastMerge, Seen
  <2>7. \A l : l[1] = u => (l \in FoundLocal' <=> l \in lines)
    BY <1>1, <2>1, <2>5, <2>6 DEF FoundLocal, LinesOf, UsersOf
  <2>8. Seen(local)' = Seen(FoundLocal)'
    BY <2>1, <2>2, <2>3, <2>4, <2>5, <2>7 DEF Seen
  <2>9. OwnLines'
    BY <1>1, <1>7, <2>1, <2>8 DEF OwnLines
  <2> QED BY <1>2, <1>3, <1>4, <2>9 DEF LinesInv
<1> QED BY <1>3, <1>5, <1>6, <1>7

(* Before the file is put together the client only reads it, and brings    *)
(* the OS copy in line with what it found.                                 *)
LEMMA PrepareStepInv ==
  ASSUME MergeInv,
         Download \/ KeepOS \/ SaveOS \/ Strip \/ Compare \/ RemoveLines
           \/ AddLines \/ Empty
  PROVE  LinesInv' /\ NothingLeftBehind'
<1> SUFFICES ASSUME ~interrupted PROVE LinesInv' /\ NothingLeftBehind'
  BY DEF Download, KeepOS, SaveOS, Strip, Compare, RemoveLines, AddLines, Empty,
         histVars, LinesInv, NothingLeftBehind
<1> USE DEF MergeInv, LinesInv, NothingLeftBehind, BeforeFirst, LocalLinesStay,
            LastMerge, OwnLines, Step, histVars, fileVars, Containing
<1>1. CASE Download \/ KeepOS
  BY <1>1 DEF Download, KeepOS, Seen, FoundLocal
<1>2. CASE SaveOS
  BY <1>2 DEF SaveOS, Seen
<1>3. CASE Strip
  BY <1>3 DEF Strip, Seen, LinesOf
<1>4. CASE Compare
  BY <1>4 DEF Compare, LineChanges, Seen, FoundLocal, LinesOf, UsersOf
<1>5. CASE RemoveLines
  BY <1>5 DEF RemoveLines, Seen, LinesOf
<1>6. CASE AddLines
  BY <1>6 DEF AddLines, Seen
<1>7. CASE Empty
  BY <1>7 DEF Empty, Seen
<1> QED BY <1>1, <1>2, <1>3, <1>4, <1>5, <1>6, <1>7

(* The file is put together from the node's own lines and the offered.     *)
LEMMA PutTogetherStepInv ==
  ASSUME MergeInv, Write \/ Unlink \/ CopyT0
  PROVE  LinesInv' /\ NothingLeftBehind'
<1> SUFFICES ASSUME ~interrupted PROVE LinesInv' /\ NothingLeftBehind'
  BY DEF Write, Unlink, CopyT0, histVars, LinesInv, NothingLeftBehind
<1> USE DEF MergeInv, LinesInv, NothingLeftBehind, BeforeFirst, LocalLinesStay,
            LastMerge, OwnLines, Step, histVars, Containing
<1>1. CASE Write
  BY <1>1 DEF Write, Seen
<1>2. CASE Unlink
  BY <1>2 DEF Unlink, Seen
<1>3. CASE CopyT0
  BY <1>3 DEF CopyT0, Seen, FoundLocal, LinesOf, UsersOf
<1> QED BY <1>1, <1>2, <1>3

(* A kill that is not counted as a mess leaves the copies as they were.    *)
LEMMA KillStepInv ==
  ASSUME MergeInv, Kill
  PROVE  LinesInv' /\ NothingLeftBehind'
<1> SUFFICES ASSUME ~interrupted' PROVE LinesInv' /\ NothingLeftBehind'
  BY DEF LinesInv, NothingLeftBehind
<1>1. /\ ~interrupted /\ pc \in {"save", "compare", "remove"} /\ pc' = "idle"
      /\ UNCHANGED <<curr, os, t0, local, unseen, merged>>
  BY DEF Kill
<1> QED
  BY <1>1 DEF MergeInv, LinesInv, NothingLeftBehind, BeforeFirst, LocalLinesStay,
              LastMerge, OwnLines, Seen, FoundLocal

(* The installer does not touch the node.                                  *)
LEMMA InstallerStepInv ==
  ASSUME MergeInv, UNCHANGED nodeVars
  PROVE  LinesInv' /\ NothingLeftBehind'
  BY DEF nodeVars, fileVars, histVars, MergeInv, LinesInv, NothingLeftBehind,
         BeforeFirst, LocalLinesStay, LastMerge, OwnLines, Seen, FoundLocal

LEMMA MergeStepInv == MergeInv /\ [Next]_vars => MergeInv'
<1> SUFFICES ASSUME MergeInv, [Next]_vars PROVE MergeInv'
  OBVIOUS
<1>1. CASE UNCHANGED vars
  <2>1. UNCHANGED nodeVars /\ UNCHANGED instVars
    BY <1>1 DEF vars
  <2>2. MergeTypeOK'
    BY <2>1 DEF MergeInv, MergeTypeOK, nodeVars, instVars, fileVars, histVars
  <2> QED BY <2>1, <2>2, InstallerStepInv DEF MergeInv, LinesInv, LocalLinesStay
<1>2. CASE Next
  <2>1. MergeTypeOK'
    BY <1>2, MergeStepType DEF MergeInv
  <2>2. LinesInv' /\ NothingLeftBehind'
    <3>1. ASSUME NEW u \in User, NEW lines \in SUBSET Line, InstallerChange(u, lines)
          PROVE  LinesInv' /\ NothingLeftBehind'
      BY <3>1, InstallerStepInv DEF InstallerChange
    <3>2. CASE GenMergeFiles
      BY <3>2, InstallerStepInv DEF GenMergeFiles
    <3>3. ASSUME NEW u \in User,
                 \/ LocalDelete(u)
                 \/ \E v \in Value : LocalAdd(u, v) \/ LocalChange(u, v)
          PROVE  LinesInv' /\ NothingLeftBehind'
      <4>1. CASE LocalDelete(u)
        BY <4>1, LocalStepInv DEF LocalDelete
      <4>2. ASSUME NEW v \in Value, LocalAdd(u, v) \/ LocalChange(u, v)
            PROVE  LinesInv' /\ NothingLeftBehind'
        <5>1. {<<u, v>>} \in SUBSET Line /\ \A l \in {<<u, v>>} : l[1] = u
          BY DEF Line
        <5>2. ChangeLocally(u, {<<u, v>>})
          BY <4>2 DEF LocalAdd, LocalChange
        <5> QED BY <5>1, <5>2, LocalStepInv
      <4> QED BY <3>3, <4>1, <4>2
    <3>4. ASSUME NEW u \in User, NEW v \in Value, ReplaceFile(u, v)
          PROVE  LinesInv' /\ NothingLeftBehind'
      BY <3>4 DEF ReplaceFile, LinesInv, NothingLeftBehind
    <3>6. CASE Download \/ MergeFile \/ Kill
      BY <3>6, PrepareStepInv, PutTogetherStepInv, KillStepInv DEF MergeFile
    <3>5. \A u \in User, v \in Value : {<<u, v>>} \in SUBSET Line /\ {} \in SUBSET Line
      BY DEF Line
    <3> QED BY <1>2, <3>1, <3>2, <3>3, <3>4, <3>5, <3>6 DEF Next
  <2> QED BY <2>1, <2>2 DEF MergeInv, LinesInv, LocalLinesStay
<1> QED BY <1>1, <1>2 DEF vars

(* The copies of the client and the node's own lines agree in every state  *)
(* until a kill leaves a mess (mergeFile).                                 *)
THEOREM MergeCorrect == Spec => []MergeInv
  BY MergeInitInv, MergeStepInv, PTL DEF Spec

(* The lines of the node stay.                                             *)
THEOREM LocalLinesStayHolds == Spec => []LocalLinesStay
<1>1. MergeInv => LocalLinesStay
  BY DEF MergeInv
<1> QED BY <1>1, MergeCorrect, PTL

(* What is no longer offered goes.                                         *)
THEOREM NothingLeftBehindHolds == Spec => []NothingLeftBehind
<1>1. MergeInv => NothingLeftBehind
  BY DEF MergeInv
<1> QED BY <1>1, MergeCorrect, PTL
=============================================================================
