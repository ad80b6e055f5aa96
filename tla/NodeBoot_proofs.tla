-------------------------- MODULE NodeBoot_proofs --------------------------
(***************************************************************************)
(* PXE files and rows, rows and disks, PXE files and disks: how far they   *)
(* agree, for any nodes, administrators, CGIs, kernels and operations,     *)
(* any runs of kusu-boothost at the same time, kills and power losses.     *)
(***************************************************************************)
EXTENDS NodeBoot, TLAPS

DbRow == [state : {"Expired", "Installing", "Installed"},
          local : BOOLEAN, kernel : Kernel \cup {"none"}]

Machines == {"off", "contact", "asked", "installing",
             "installed", "reported", "up", "stuck"}

Mishaps == {"boot", "kernel", "file"}

(* What a process does next follows from its arguments.  For a group every *)
(* node is listed; a CGI works for its node alone.                         *)
JobOK(p) ==
  /\ at[p] = "idle" => todo[p] = {}
  /\ at[p] \in {"groupKernel", "list", "expire", "reset"} =>
       job[p].op \in {"group", "unsynced"} /\ job[p].kernel # "unset"
  /\ job[p].op = "group" /\ at[p] \in {"expire", "reset"} => todo[p] = Node
  /\ job[p].op \in {"nodes", "cgi"} => todo[p] \subseteq job[p].hosts
  /\ job[p].op = "cgi" => \A m \in job[p].hosts : job[p].hosts = {m}
  /\ at[p] \in {"query", "write"} => row[p].node \in todo[p]
  /\ at[p] = "write" => row[p].kernel \in Kernel

JobsOK == \A p \in Process : JobOK(p)

(* A PXE file is what it should be, or some process has yet to write it,   *)
(* or it is known to be stale; and what a process is about to write is     *)
(* what the file should be, or its row was crossed.                        *)
PxeOK(n) == n \in stale \/ pxe[n] = Wanted(n) \/ \E p \in Process : Ahead(p, n)

RowOK(p) ==
  at[p] = "write" /\ p \notin crossed =>
    \A n \in Node : n = row[p].node => Written(row[p]) = Wanted(n)

FilesOK == (\A n \in Node : PxeOK(n)) /\ (\A p \in Process : RowOK(p))

(* An installer was booted with a kernel, and leaves one on the disk.      *)
Wiping == {"contact", "asked", "installing"}

MachineOK(n) ==
  /\ machine[n] \in Wiping => booted[n] \in Kernel
  /\ machine[n] = "installed" => disk[n] \in Kernel

(* A node that has nothing on its disk, or soon will not, is not sent      *)
(* there.                                                                  *)
BlankOK(n) ==
  /\ mishap[n] \cap {"boot", "file"} = {}
  /\ disk[n] = "none" \/ machine[n] \in Wiping
  => ~db[n].local /\ ~pxe[n].local

StuckOK(n) == machine[n] = "stuck" => mishap[n] \cap {"boot", "file"} # {}

(* A node installs what the database has for it, and is sent to its disk   *)
(* when that is done, until the row, or that of the group, says otherwise: *)
(* a new kernel of the group is there a moment before the nodes expire.    *)
NewGroupKernel ==
  \E p \in Process : at[p] \in {"list", "expire"} /\ Changes(p)

CurrentOK(n) ==
  mishap[n] \cap {"boot", "kernel"} = {} =>
    /\ machine[n] \in Wiping => booted[n] = EffectiveKernel(n) /\ ~db[n].local
    /\ machine[n] = "installed" => disk[n] = EffectiveKernel(n)
    /\ db[n].local => disk[n] = EffectiveKernel(n) \/ NewGroupKernel

NodeOK(n) == MachineOK(n) /\ BlankOK(n) /\ StuckOK(n) /\ CurrentOK(n)

NodesOK == \A n \in Node : NodeOK(n)

---------------------------------------------------------------------------
(* What the statements make of a row.                                      *)
LEMMA ExpiredRows ==
  ASSUME NEW r \in DbRow, NEW k \in Kernel \cup {"same", "unset"}
  PROVE  ExpiredRow(r, k) \in DbRow /\ ~ExpiredRow(r, k).local
  BY DEF ExpiredRow, DbRow

LEMMA ReportedRows ==
  ASSUME NEW r \in DbRow, NEW state \in {"", "Installing", "Installed"},
         NEW boot \in {"unchanged", "disk"}
  PROVE  /\ NodeInfo(r, state, boot) \in DbRow
         /\ NodeInfo(r, state, boot).kernel = r.kernel
         /\ boot = "unchanged" => NodeInfo(r, state, boot).local = r.local
  BY DEF NodeInfo, DbRow

LEMMA NoJobTyped == NoJob \in Job /\ NoJob.op = "cgi" /\ NoJob.hosts = {}
  BY DEF NoJob, Job

LEMMA NoRowTyped == NoRow \in Row
  BY DEF NoRow, Row

(* Rows that are as before ask for the same PXE file.                      *)
LEMMA SameRow ==
  ASSUME NEW n \in Node, db'[n] = db[n], ngKernel' = ngKernel
  PROVE  Wanted(n)' = Wanted(n) /\ EffectiveKernel(n)' = EffectiveKernel(n)
  BY DEF Wanted, EffectiveKernel

(* What the history makes of a statement.                                  *)
LEMMA RowsChanged ==
  ASSUME NodeBootTypeOK, NEW p \in Process, RowsChangedBy(p)
  PROVE  /\ crossed' \subseteq Process
         /\ mishap' \in [Node -> SUBSET Mishaps]
         /\ crossed \subseteq crossed'
         /\ \A q \in Process, n \in Node :
              q # p /\ at[q] = "write" /\ n = row[q].node /\ q \notin crossed'
                => Wanted(n)' = Wanted(n)
         /\ \A n \in Node :
              /\ mishap[n] \subseteq mishap'[n]
              /\ machine[n] \in Installing /\ EffectiveKernel(n)' # EffectiveKernel(n)
                   => "kernel" \in mishap'[n]
<1>1. crossed' \subseteq Process /\ crossed \subseteq crossed'
  BY DEF RowsChangedBy, NodeBootTypeOK
<1>2. mishap' = [n \in Node |->
        mishap[n] \cup IF machine[n] \in Installing
                          /\ EffectiveKernel(n)' # EffectiveKernel(n)
                       THEN {"kernel"} ELSE {}]
  BY DEF RowsChangedBy
<1>3. \A n \in Node : mishap[n] \in SUBSET Mishaps
  BY DEF NodeBootTypeOK, Mishaps
<1>4. mishap' \in [Node -> SUBSET Mishaps]
  BY <1>2, <1>3 DEF Mishaps
<1>5. \A q \in Process, n \in Node :
        q # p /\ at[q] = "write" /\ n = row[q].node /\ q \notin crossed'
          => Wanted(n)' = Wanted(n)
  BY DEF RowsChangedBy
<1>6. \A n \in Node :
        /\ mishap[n] \subseteq mishap'[n]
        /\ machine[n] \in Installing /\ EffectiveKernel(n)' # EffectiveKernel(n)
             => "kernel" \in mishap'[n]
  BY <1>2
<1> QED BY <1>1, <1>4, <1>5, <1>6

---------------------------------------------------------------------------
(* Types and jobs.                                                         *)
LEMMA BootInit == Init => NodeBootTypeOK /\ JobsOK
<1> SUFFICES ASSUME Init PROVE NodeBootTypeOK /\ JobsOK
  OBVIOUS
<1> USE NodeBootAssumption DEF Init
<1>1. NodeBootTypeOK
  <2>1. job \in [Process -> Job] /\ row \in [Process -> Row]
    BY NoJobTyped, NoRowTyped
  <2>2. /\ db \in [Node -> [state : {"Expired", "Installing", "Installed"},
                           local : BOOLEAN, kernel : Kernel \cup {"none"}]]
        /\ pxe \in [Node -> [local : BOOLEAN, kernel : Kernel]]
    OBVIOUS
  <2>3. /\ machine \in [Node -> {"off", "contact", "asked", "installing",
                                 "installed", "reported", "up", "stuck"}]
        /\ booted \in [Node -> Kernel \cup {"none"}]
        /\ disk \in [Node -> Kernel \cup {"none"}]
        /\ asks \in [Node -> Slot \cup {"none"}]
        /\ at \in [Process -> Step] /\ todo \in [Process -> SUBSET Node]
    BY DEF Step
  <2>4. /\ ngKernel \in Kernel /\ disturbed \in 0..MaxDisturb
        /\ crossed \subseteq Process /\ stale \subseteq Node
        /\ mishap \in [Node -> SUBSET {"boot", "kernel", "file"}]
    OBVIOUS
  <2> QED BY <2>1, <2>2, <2>3, <2>4 DEF NodeBootTypeOK
<1>2. JobsOK
  BY NoJobTyped DEF JobsOK, JobOK
<1> QED BY <1>1, <1>2

(* The end of a process, as its variables see it.                          *)
LEMMA EndsTyped ==
  ASSUME NodeBootTypeOK, NEW p \in Process, NEW rebooted, Ends(p, rebooted)
  PROVE  /\ at' \in [Process -> Step] /\ job' \in [Process -> Job]
         /\ todo' \in [Process -> SUBSET Node] /\ row' \in [Process -> Row]
         /\ asks' \in [Node -> Slot \cup {"none"}] /\ crossed' \subseteq Process
         /\ at'[p] = "idle" /\ todo'[p] = {} /\ job'[p] = NoJob
         /\ \A q \in Process : q # p => /\ at'[q] = at[q] /\ todo'[q] = todo[q]
                                        /\ job'[q] = job[q] /\ row'[q] = row[q]
         /\ p \notin crossed' /\ \A q \in crossed : q # p => q \in crossed'
<1>1. NoJob \in Job /\ NoRow \in Row
  BY NoJobTyped, NoRowTyped
<1>2. /\ at' \in [Process -> Step] /\ at'[p] = "idle"
      /\ \A q \in Process : q # p => at'[q] = at[q]
  BY DEF Ends, Goto, NodeBootTypeOK, Step
<1>3. /\ job' \in [Process -> Job] /\ job'[p] = NoJob
      /\ \A q \in Process : q # p => job'[q] = job[q]
  BY <1>1 DEF Ends, NodeBootTypeOK
<1>4. /\ todo' \in [Process -> SUBSET Node] /\ todo'[p] = {}
      /\ \A q \in Process : q # p => todo'[q] = todo[q]
  BY DEF Ends, NodeBootTypeOK
<1>5. /\ row' \in [Process -> Row] /\ \A q \in Process : q # p => row'[q] = row[q]
  BY <1>1 DEF Ends, NodeBootTypeOK
<1>6. asks' \in [Node -> Slot \cup {"none"}]
  BY DEF Ends, NodeBootTypeOK
<1>7. /\ crossed' \subseteq Process /\ p \notin crossed'
      /\ \A q \in crossed : q # p => q \in crossed'
  BY DEF Ends, NodeBootTypeOK
<1> QED BY <1>2, <1>3, <1>4, <1>5, <1>6, <1>7

(* The CGI a node calls, as its variables see it.                          *)
Called(n, s, state, boot) ==
  LET p == <<n, s>>
  IN  /\ p \in Process /\ at[p] = "idle" /\ todo[p] = {}
      /\ db' \in [Node -> DbRow] /\ ngKernel' = ngKernel /\ pxe' = pxe
      /\ db'[n] = NodeInfo(db[n], state, boot)
      /\ \A m \in Node : m # n => db'[m] = db[m]
      /\ at' \in [Process -> Step] /\ job' \in [Process -> Job]
      /\ todo' \in [Process -> SUBSET Node] /\ row' = row
      /\ booted' = booted /\ disk' = disk /\ disturbed' = disturbed
      /\ stale' = stale
      /\ RowsChangedBy(p)
      /\ at'[p] = "update" /\ todo'[p] = {n}
      /\ job'[p].op = "cgi" /\ job'[p].hosts = {n} /\ job'[p].kernel = "same"
      /\ \A q \in Process : q # p => /\ at'[q] = at[q] /\ todo'[q] = todo[q]
                                     /\ job'[q] = job[q]

LEMMA RequestTyped ==
  ASSUME NodeBootTypeOK, JobsOK, NEW n \in Node, NEW s \in Slot,
         NEW state \in {"", "Installing", "Installed"},
         NEW boot \in {"unchanged", "disk"}, Request(n, s, state, boot)
  PROVE  Called(n, s, state, boot)
<1> DEFINE p == <<n, s>>
<1>1. p \in Process
  BY DEF Process
<1>2. /\ at[p] = "idle" /\ at' = [at EXCEPT ![p] = "update"]
      /\ todo' = [todo EXCEPT ![p] = {n}]
      /\ job' = [job EXCEPT ![p] = [NoJob EXCEPT !.hosts = {n}]]
      /\ db' = [db EXCEPT ![n] = NodeInfo(db[n], state, boot)]
      /\ RowsChangedBy(p)
      /\ UNCHANGED <<ngKernel, pxe, booted, disk, row, disturbed, stale>>
  BY DEF Request, Goto
<1>3. todo[p] = {}
  BY <1>1, <1>2 DEF JobsOK, JobOK
<1>4. db \in [Node -> DbRow]
  BY DEF NodeBootTypeOK, DbRow
<1>5. NodeInfo(db[n], state, boot) \in DbRow
  BY <1>4, ReportedRows
<1>6. /\ db' \in [Node -> DbRow] /\ db'[n] = NodeInfo(db[n], state, boot)
      /\ \A m \in Node : m # n => db'[m] = db[m]
  BY <1>2, <1>4, <1>5
<1>7. /\ [NoJob EXCEPT !.hosts = {n}] \in Job
      /\ [NoJob EXCEPT !.hosts = {n}].op = "cgi"
      /\ [NoJob EXCEPT !.hosts = {n}].hosts = {n}
      /\ [NoJob EXCEPT !.hosts = {n}].kernel = "same"
  BY DEF NoJob, Job
<1>8. /\ at' \in [Process -> Step] /\ at'[p] = "update"
      /\ \A q \in Process : q # p => at'[q] = at[q]
  BY <1>1, <1>2 DEF NodeBootTypeOK, Step
<1>9. /\ todo' \in [Process -> SUBSET Node] /\ todo'[p] = {n}
      /\ \A q \in Process : q # p => todo'[q] = todo[q]
  BY <1>1, <1>2 DEF NodeBootTypeOK
<1>10. /\ job' \in [Process -> Job]
       /\ job'[p].op = "cgi" /\ job'[p].hosts = {n} /\ job'[p].kernel = "same"
       /\ \A q \in Process : q # p => job'[q] = job[q]
  BY <1>1, <1>2, <1>7 DEF NodeBootTypeOK
<1> QED BY <1>1, <1>2, <1>3, <1>6, <1>8, <1>9, <1>10 DEF Called

(* The rows a statement expires boot from the network.                     *)
LEMMA Expired ==
  ASSUME NodeBootTypeOK, NEW N \in SUBSET Node, NEW k \in Kernel \cup {"same", "unset"},
         ExpireRows(N, k)
  PROVE  /\ db' \in [Node -> DbRow]
         /\ \A n \in N : ~db'[n].local
         /\ \A n \in Node \ N : db'[n] = db[n]
<1>1. db \in [Node -> DbRow]
  BY DEF NodeBootTypeOK, DbRow
<1>2. db' = [n \in Node |-> IF n \in N THEN ExpiredRow(db[n], k) ELSE db[n]]
  BY DEF ExpireRows
<1> QED BY <1>1, <1>2, ExpiredRows

(* Every step keeps the types.                                             *)
LEMMA BootHostTyped ==
  ASSUME NodeBootTypeOK, JobsOK, NEW p \in Process, BootHost(p) \/ Stop(p)
  PROVE  NodeBootTypeOK'
<1> USE NodeBootAssumption DEF database, nodes, boothost, history
<1>a. /\ job[p] \in Job /\ todo[p] \in SUBSET Node /\ row[p] \in Row
      /\ job[p].kernel \in Kernel \cup {"same", "unset"}
      /\ job[p].hosts \in SUBSET Node
  BY DEF NodeBootTypeOK, Job
<1>b. db \in [Node -> DbRow]
  BY DEF NodeBootTypeOK, DbRow
<1>c. ASSUME NEW step \in Step, Goto(p, step)
      PROVE  at' \in [Process -> Step]
  BY <1>c DEF Goto, NodeBootTypeOK
<1>1. CASE UpdateGroup(p)
  <2>1. ngKernel' \in Kernel
    BY <1>a, <1>1 DEF UpdateGroup, Changes, JobsOK, JobOK, NodeBootTypeOK
  <2>2. at' \in [Process -> Step]
    BY <1>c, <1>1 DEF UpdateGroup, Step
  <2>3. crossed' \subseteq Process /\ mishap' \in [Node -> SUBSET Mishaps]
    BY <1>1, RowsChanged DEF UpdateGroup
  <2> QED BY <1>1, <2>1, <2>2, <2>3 DEF UpdateGroup, NodeBootTypeOK, Mishaps
<1>2. CASE ListHosts(p)
  <2> DEFINE hosts == IF job[p].op = "unsynced"
                      THEN {n \in Node : db[n].state = "Expired"} ELSE Node
  <2>1. hosts \in SUBSET Node
    OBVIOUS
  <2>2. [job[p] EXCEPT !.hosts = hosts] \in Job
    BY <1>a, <2>1 DEF Job
  <2>3. job' = [job EXCEPT ![p] = [job[p] EXCEPT !.hosts = hosts]]
        /\ todo' = [todo EXCEPT ![p] = hosts]
    BY <1>2 DEF ListHosts
  <2> HIDE DEF hosts
  <2>4. job' \in [Process -> Job] /\ todo' \in [Process -> SUBSET Node]
    BY <2>1, <2>2, <2>3 DEF NodeBootTypeOK
  <2>5. at' \in [Process -> Step]
    BY <1>2, <1>c DEF ListHosts, Step
  <2> QED BY <1>2, <2>4, <2>5 DEF ListHosts, NodeBootTypeOK
<1>3. CASE ExpireGroup(p)
  <2>1. db' \in [Node -> DbRow]
    BY <1>3, <1>b, Expired DEF ExpireGroup
  <2>2. at' \in [Process -> Step]
    BY <1>3, <1>c DEF ExpireGroup, Step
  <2>3. crossed' \subseteq Process /\ mishap' \in [Node -> SUBSET Mishaps]
    BY <1>3, RowsChanged DEF ExpireGroup
  <2>4. stale' \subseteq Node
    BY <1>3 DEF ExpireGroup, LeftBy, NodeBootTypeOK
  <2> QED BY <1>3, <2>1, <2>2, <2>3, <2>4 DEF ExpireGroup, NodeBootTypeOK, DbRow, Mishaps
<1>4. CASE ResetCustom(p)
  <2>1. db' \in [Node -> DbRow]
    BY <1>4, Expired DEF ResetCustom
  <2>2. at' \in [Process -> Step]
    BY <1>4, <1>c DEF ResetCustom, Step
  <2>3. crossed' \subseteq Process /\ mishap' \in [Node -> SUBSET Mishaps]
    BY <1>4, RowsChanged DEF ResetCustom
  <2>4. stale' \subseteq Node
    BY <1>4 DEF ResetCustom, LeftBy, NodeBootTypeOK
  <2> QED BY <1>4, <2>1, <2>2, <2>3, <2>4 DEF ResetCustom, NodeBootTypeOK, DbRow, Mishaps
<1>5. ASSUME NEW n \in Node, UpdateNode(p, n) PROVE NodeBootTypeOK'
  <2>1. db' \in [Node -> DbRow]
    BY <1>5, <1>a, <1>b, Expired DEF UpdateNode
  <2>2. at' \in [Process -> Step]
    BY <1>5, <1>c DEF UpdateNode, Step
  <2>3. crossed' \subseteq Process /\ mishap' \in [Node -> SUBSET Mishaps]
    BY <1>5, RowsChanged DEF UpdateNode
  <2>4. [NoRow EXCEPT !.node = n] \in Row
    BY DEF NoRow, Row
  <2>5. row' \in [Process -> Row]
    BY <1>5, <2>4 DEF UpdateNode, NodeBootTypeOK
  <2> QED BY <1>5, <2>1, <2>2, <2>3, <2>5 DEF UpdateNode, NodeBootTypeOK, DbRow, Mishaps
<1>6. ASSUME NEW n \in Node, QueryNode(p, n) PROVE NodeBootTypeOK'
  <2>1. [node |-> n, local |-> db[n].local, kernel |-> EffectiveKernel(n)] \in Row
    BY <1>b DEF EffectiveKernel, Row, DbRow, NodeBootTypeOK
  <2>2. at' \in [Process -> Step]
    BY <1>6, <1>c DEF QueryNode, Step
  <2>3. row' \in [Process -> Row]
    BY <1>6, <2>1 DEF QueryNode, NodeBootTypeOK
  <2> QED BY <1>6, <2>2, <2>3 DEF QueryNode, NodeBootTypeOK
<1>7. ASSUME NEW n \in Node, MkPXEFile(p, n) PROVE NodeBootTypeOK'
  <2>1. Written(row[p]) \in [local : BOOLEAN, kernel : Kernel]
    BY <1>7, <1>a DEF MkPXEFile, Written, Row, JobsOK, JobOK
  <2>2. pxe' \in [Node -> [local : BOOLEAN, kernel : Kernel]]
    BY <1>7, <2>1 DEF MkPXEFile, NodeBootTypeOK
  <2>3. stale' \subseteq Node
    BY <1>7 DEF MkPXEFile, NodeBootTypeOK
  <2>4. mishap' \in [Node -> SUBSET {"boot", "kernel", "file"}]
    <3>1. mishap[n] \cup {"file"} \in SUBSET {"boot", "kernel", "file"}
      BY DEF NodeBootTypeOK
    <3>2. mishap' = mishap \/ mishap' = [mishap EXCEPT ![n] = mishap[n] \cup {"file"}]
      BY <1>7 DEF MkPXEFile
    <3>3. mishap \in [Node -> SUBSET {"boot", "kernel", "file"}]
      BY DEF NodeBootTypeOK
    <3> QED BY <3>1, <3>2, <3>3
  <2>5. /\ at' \in [Process -> Step] /\ job' \in [Process -> Job]
        /\ todo' \in [Process -> SUBSET Node] /\ row' \in [Process -> Row]
        /\ asks' \in [Node -> Slot \cup {"none"}] /\ crossed' \subseteq Process
    <3>1. CASE job[p].op = "cgi"
      BY <1>7, <3>1, EndsTyped DEF MkPXEFile
    <3>2. CASE job[p].op # "cgi"
      <4>1. /\ Goto(p, "update")
            /\ todo' = [todo EXCEPT ![p] = @ \ {n}]
            /\ row' = [row EXCEPT ![p] = NoRow]
            /\ crossed' = crossed \ {p}
            /\ UNCHANGED <<job, asks>>
        BY <1>7, <3>2 DEF MkPXEFile
      <4>2. at' \in [Process -> Step]
        BY <4>1, <1>c DEF Step
      <4>3. todo' \in [Process -> SUBSET Node] /\ row' \in [Process -> Row]
        BY <1>a, <4>1, NoRowTyped DEF NodeBootTypeOK
      <4> QED BY <4>1, <4>2, <4>3 DEF NodeBootTypeOK
    <3> QED BY <3>1, <3>2
  <2>6. UNCHANGED <<database, machine, booted, disk, disturbed>>
    BY <1>7 DEF MkPXEFile
  <2> QED BY <2>2, <2>3, <2>4, <2>5, <2>6 DEF NodeBootTypeOK
<1>8. CASE Finish(p)
  <2> DEFINE rebooted == {n \in job[p].hosts : job[p].reinstall /\ machine[n] = "up"}
  <2>1. /\ machine' = [n \in Node |-> IF n \in rebooted THEN "off" ELSE machine[n]]
        /\ Ends(p, rebooted)
        /\ UNCHANGED <<database, pxe, booted, disk, disturbed, stale, mishap>>
    BY <1>8 DEF Finish
  <2>2. machine' \in [Node -> {"off", "contact", "asked", "installing",
                               "installed", "reported", "up", "stuck"}]
    BY <2>1 DEF NodeBootTypeOK
  <2> HIDE DEF rebooted
  <2> QED BY <2>1, <2>2, EndsTyped DEF NodeBootTypeOK
<1>9. CASE Stop(p)
  <2>1. stale' \subseteq Node /\ disturbed' \in 0..MaxDisturb
    BY <1>9 DEF Stop, NodeBootTypeOK
  <2>2. mishap' \in [Node -> SUBSET {"boot", "kernel", "file"}]
    BY <1>9 DEF Stop, NodeBootTypeOK
  <2>3. Ends(p, {}) /\ UNCHANGED <<database, pxe, machine, booted, disk>>
    BY <1>9 DEF Stop
  <2> QED BY <2>1, <2>2, <2>3, EndsTyped DEF NodeBootTypeOK
<1> QED BY <1>1, <1>2, <1>3, <1>4, <1>5, <1>6, <1>7, <1>8, <1>9 DEF BootHost

LEMMA RequestKeepsTypes ==
  ASSUME NodeBootTypeOK, JobsOK, NEW n \in Node, NEW s \in Slot,
         RetrieveNII(n, s) \/ UpdateState(n, s) \/ CfmUpdate(n, s) \/ UpdateNic(n, s)
  PROVE  NodeBootTypeOK'
<1>1. PICK state \in {"", "Installing", "Installed"}, boot \in {"unchanged", "disk"} :
        Request(n, s, state, boot)
  BY DEF RetrieveNII, UpdateState, CfmUpdate, UpdateNic
<1>c. Called(n, s, state, boot)
  BY <1>1, RequestTyped
<1>2. crossed' \subseteq Process /\ mishap' \in [Node -> SUBSET Mishaps]
  BY <1>c, RowsChanged DEF Called
<1>3. asks' \in [Node -> Slot \cup {"none"}]
  BY DEF RetrieveNII, UpdateState, CfmUpdate, UpdateNic, WaitFor, NodeBootTypeOK
<1>4. machine' \in [Node -> Machines]
  <2>1. \/ machine' = [machine EXCEPT ![n] = "asked"]
        \/ machine' = [machine EXCEPT ![n] = "reported"]
        \/ machine' = machine
    BY DEF RetrieveNII, UpdateState, CfmUpdate, UpdateNic, Becomes
  <2>2. machine \in [Node -> Machines]
    BY DEF NodeBootTypeOK, Machines
  <2> QED BY <2>1, <2>2 DEF Machines
<1> QED BY <1>c, <1>2, <1>3, <1>4 DEF Called, NodeBootTypeOK, DbRow, Mishaps, Machines

LEMMA NodeAloneTyped ==
  ASSUME NodeBootTypeOK, NEW n \in Node,
         Boot(n) \/ Partition(n) \/ Install(n) \/ Restart(n) \/ KillClient(n)
           \/ PowerCycle(n)
  PROVE  NodeBootTypeOK'
<1> USE NodeBootAssumption
    DEF NodeBootTypeOK, database, nodes, boothost, history, Becomes
<1>1. CASE Boot(n)
  <2>1. pxe[n].kernel \in Kernel
    OBVIOUS
  <2>2. booted' \in [Node -> Kernel \cup {"none"}]
    BY <1>1, <2>1 DEF Boot
  <2>3. mishap' \in [Node -> SUBSET {"boot", "kernel", "file"}]
    BY <1>1 DEF Boot
  <2>4. machine' \in [Node -> {"off", "contact", "asked", "installing",
                               "installed", "reported", "up", "stuck"}]
    BY <1>1 DEF Boot
  <2> QED BY <1>1, <2>2, <2>3, <2>4 DEF Boot
<1>2. CASE Partition(n)
  BY <1>2 DEF Partition
<1>3. CASE Install(n)
  BY <1>3 DEF Install
<1>4. CASE Restart(n)
  BY <1>4 DEF Restart
<1>5. CASE KillClient(n)
  BY <1>5 DEF KillClient
<1>6. CASE PowerCycle(n)
  BY <1>6 DEF PowerCycle
<1> QED BY <1>1, <1>2, <1>3, <1>4, <1>5, <1>6

LEMMA StartTyped ==
  ASSUME NodeBootTypeOK, NEW a \in Admin, NEW op \in Ops, NEW N \in SUBSET Node,
         NEW k \in Kernel \cup {"same", "unset"}, NEW reinstall \in BOOLEAN,
         StartAdmin(a, op, N, k, reinstall)
  PROVE  /\ NodeBootTypeOK'
         /\ a \in Process /\ at[a] = "idle" /\ todo'[a] = N
         /\ job'[a] = [op |-> op, hosts |-> N, kernel |-> k, reinstall |-> reinstall]
         /\ at'[a] = IF op = "nodes" THEN "update" ELSE "groupKernel"
         /\ \A q \in Process : q # a => /\ at'[q] = at[q] /\ todo'[q] = todo[q]
                                        /\ job'[q] = job[q]
<1> USE NodeBootAssumption DEF NodeBootTypeOK, database, nodes, history
<1>1. a \in Process
  BY DEF Process
<1>2. [op |-> op, hosts |-> N, kernel |-> k, reinstall |-> reinstall] \in Job
  BY DEF Job
<1>3. /\ job' = [job EXCEPT ![a] = [op |-> op, hosts |-> N, kernel |-> k,
                                    reinstall |-> reinstall]]
      /\ todo' = [todo EXCEPT ![a] = N]
      /\ at' = [at EXCEPT ![a] = IF op = "nodes" THEN "update" ELSE "groupKernel"]
      /\ at[a] = "idle" /\ disturbed' \in 0..MaxDisturb
      /\ UNCHANGED <<database, pxe, nodes, row, history>>
  BY DEF StartAdmin, Goto
<1>4. job' \in [Process -> Job] /\ todo' \in [Process -> SUBSET Node]
  BY <1>1, <1>2, <1>3
<1>5. at' \in [Process -> Step]
  BY <1>1, <1>3 DEF Step
<1>6. NodeBootTypeOK'
  BY <1>3, <1>4, <1>5
<1> QED BY <1>1, <1>3, <1>6

LEMMA BootTypeStep == NodeBootTypeOK /\ JobsOK /\ Next => NodeBootTypeOK'
  BY BootHostTyped, RequestKeepsTypes, NodeAloneTyped, StartTyped
     DEF Next, NodeStep

(* A process goes on as its arguments say.                                 *)
LEMMA JobsOfOthers ==
  ASSUME JobsOK, NEW p \in Process, JobOK(p)',
         \A q \in Process : q # p => /\ at'[q] = at[q] /\ job'[q] = job[q]
                                     /\ todo'[q] = todo[q] /\ row'[q] = row[q]
  PROVE  JobsOK'
  BY DEF JobsOK, JobOK

LEMMA BootHostJobs ==
  ASSUME NodeBootTypeOK, JobsOK, NEW p \in Process, BootHost(p) \/ Stop(p)
  PROVE  JobsOK'
<1> USE NodeBootAssumption DEF database, nodes, boothost, history
<1>j. JobOK(p)
  BY DEF JobsOK
<1>t. /\ at \in [Process -> Step] /\ job \in [Process -> Job]
      /\ todo \in [Process -> SUBSET Node] /\ row \in [Process -> Row]
  BY DEF NodeBootTypeOK
<1>op. job[p].op \in {"nodes", "group", "unsynced", "cgi"}
  BY <1>t DEF Job
<1>1. CASE UpdateGroup(p)
  <2>1. JobOK(p)'
    BY <1>1, <1>j, <1>t DEF UpdateGroup, Goto, JobOK
  <2> QED BY <1>1, <1>t, <2>1, JobsOfOthers DEF UpdateGroup, Goto
<1>2. CASE ListHosts(p)
  <2> DEFINE hosts == IF job[p].op = "unsynced"
                      THEN {n \in Node : db[n].state = "Expired"} ELSE Node
  <2>1. /\ job'[p] = [job[p] EXCEPT !.hosts = hosts] /\ todo'[p] = hosts
        /\ at'[p] = "expire" /\ row' = row
        /\ \A q \in Process : q # p => /\ job'[q] = job[q] /\ todo'[q] = todo[q]
                                       /\ at'[q] = at[q]
    BY <1>2, <1>t DEF ListHosts, Goto
  <2>2. job'[p].op = job[p].op /\ job'[p].kernel = job[p].kernel
    BY <1>t, <2>1 DEF Job
  <2>3. job[p].op \in {"group", "unsynced"} /\ job[p].kernel # "unset"
    BY <1>2, <1>j DEF ListHosts, JobOK
  <2>4. job[p].op = "group" => hosts = Node
    OBVIOUS
  <2> HIDE DEF hosts
  <2>5. JobOK(p)'
    BY <2>1, <2>2, <2>3, <2>4 DEF JobOK
  <2> QED BY <2>1, <2>5, JobsOfOthers
<1>3. CASE ExpireGroup(p)
  <2>1. JobOK(p)'
    BY <1>3, <1>j, <1>t DEF ExpireGroup, Goto, JobOK
  <2> QED BY <1>3, <1>t, <2>1, JobsOfOthers DEF ExpireGroup, Goto
<1>4. CASE ResetCustom(p)
  <2>1. JobOK(p)'
    BY <1>4, <1>j, <1>t DEF ResetCustom, Goto, JobOK
  <2> QED BY <1>4, <1>t, <2>1, JobsOfOthers DEF ResetCustom, Goto
<1>5. ASSUME NEW n \in Node, UpdateNode(p, n) PROVE JobsOK'
  <2>1. [NoRow EXCEPT !.node = n].node = n
    BY DEF NoRow
  <2>2. /\ row'[p].node = n /\ at'[p] = "query" /\ job' = job /\ todo' = todo
        /\ n \in todo[p] /\ job[p].op = "nodes"
        /\ \A q \in Process : q # p => row'[q] = row[q] /\ at'[q] = at[q]
    BY <1>5, <1>t, <2>1 DEF UpdateNode, Goto, SetsColumns
  <2>3. JobOK(p)'
    BY <1>j, <2>2 DEF JobOK
  <2> QED BY <2>2, <2>3, JobsOfOthers
<1>6. ASSUME NEW n \in Node, QueryNode(p, n) PROVE JobsOK'
  <2>1. /\ row'[p] = [node |-> n, local |-> db[n].local, kernel |-> EffectiveKernel(n)]
        /\ at'[p] = "write" /\ job' = job /\ todo' = todo
        /\ \A q \in Process : q # p => row'[q] = row[q] /\ at'[q] = at[q]
    BY <1>6, <1>t DEF QueryNode, Goto
  <2>2. n \in todo[p]
    BY <1>6, <1>j DEF QueryNode, JobOK
  <2>3. EffectiveKernel(n) \in Kernel
    BY DEF EffectiveKernel, NodeBootTypeOK
  <2>4. JobOK(p)'
    BY <1>j, <2>1, <2>2, <2>3 DEF JobOK
  <2> QED BY <2>1, <2>4, JobsOfOthers
<1>7. ASSUME NEW n \in Node, MkPXEFile(p, n) PROVE JobsOK'
  <2>1. CASE job[p].op = "cgi"
    <3>1. Ends(p, {})
      BY <1>7, <2>1 DEF MkPXEFile
    <3> QED BY <3>1, EndsTyped, NoJobTyped, JobsOfOthers DEF JobOK
  <2>2. CASE job[p].op # "cgi"
    <3>1. /\ at'[p] = "update" /\ todo'[p] = todo[p] \ {n} /\ job' = job
          /\ \A q \in Process : q # p => /\ at'[q] = at[q] /\ todo'[q] = todo[q]
                                         /\ row'[q] = row[q]
      BY <1>7, <1>t, <2>2 DEF MkPXEFile, Goto
    <3>2. JobOK(p)'
      BY <1>j, <2>2, <3>1 DEF JobOK
    <3> QED BY <3>1, <3>2, JobsOfOthers
  <2> QED BY <2>1, <2>2
<1>8. CASE Finish(p)
  <2>1. PICK rebooted : Ends(p, rebooted)
    BY <1>8 DEF Finish
  <2> QED BY <2>1, EndsTyped, NoJobTyped, JobsOfOthers DEF JobOK
<1>9. CASE Stop(p)
  <2>1. Ends(p, {})
    BY <1>9 DEF Stop
  <2> QED BY <2>1, EndsTyped, NoJobTyped, JobsOfOthers DEF JobOK
<1> QED BY <1>1, <1>2, <1>3, <1>4, <1>5, <1>6, <1>7, <1>8, <1>9 DEF BootHost

LEMMA JobsStep == NodeBootTypeOK /\ JobsOK /\ Next => JobsOK'
<1> SUFFICES ASSUME NodeBootTypeOK, JobsOK, Next PROVE JobsOK'
  OBVIOUS
<1>1. ASSUME NEW p \in Process, BootHost(p) \/ Stop(p) PROVE JobsOK'
  BY <1>1, BootHostJobs
<1>2. ASSUME NEW a \in Admin, NEW op \in Ops, NEW N \in SUBSET Node,
             NEW k \in Kernel \cup {"same", "unset"}, NEW reinstall \in BOOLEAN,
             StartAdmin(a, op, N, k, reinstall)
      PROVE JobsOK'
  <2>1. row' = row /\ op \in {"nodes", "group", "unsynced"}
        /\ (op # "nodes" => k # "unset")
    BY <1>2, NodeBootAssumption DEF StartAdmin
  <2>2. /\ a \in Process /\ todo'[a] = N
        /\ job'[a] = [op |-> op, hosts |-> N, kernel |-> k, reinstall |-> reinstall]
        /\ at'[a] = IF op = "nodes" THEN "update" ELSE "groupKernel"
        /\ \A q \in Process : q # a => /\ at'[q] = at[q] /\ todo'[q] = todo[q]
                                       /\ job'[q] = job[q]
    BY <1>2, StartTyped
  <2>3. JobOK(a)'
    BY <2>1, <2>2 DEF JobOK
  <2> QED BY <2>1, <2>2, <2>3, JobsOfOthers
<1>3. ASSUME NEW n \in Node, NEW s \in Slot,
             RetrieveNII(n, s) \/ UpdateState(n, s) \/ CfmUpdate(n, s) \/ UpdateNic(n, s)
      PROVE JobsOK'
  <2>1. PICK state \in {"", "Installing", "Installed"}, boot \in {"unchanged", "disk"} :
          Request(n, s, state, boot)
    BY <1>3 DEF RetrieveNII, UpdateState, CfmUpdate, UpdateNic
  <2>2. Called(n, s, state, boot)
    BY <2>1, RequestTyped
  <2> DEFINE p == <<n, s>>
  <2>3. JobOK(p)'
    BY <2>2 DEF Called, JobOK
  <2> QED BY <2>2, <2>3, JobsOfOthers DEF Called
<1>4. ASSUME NEW n \in Node,
             Boot(n) \/ Partition(n) \/ Install(n) \/ Restart(n) \/ KillClient(n)
               \/ PowerCycle(n)
      PROVE JobsOK'
  <2>1. UNCHANGED <<at, job, todo, row>>
    BY <1>4 DEF Boot, Partition, Install, Restart, KillClient, PowerCycle, boothost
  <2> QED BY <2>1 DEF JobsOK, JobOK
<1> QED BY <1>1, <1>2, <1>3, <1>4 DEF Next, NodeStep

(* Types and jobs.                                                         *)
THEOREM NodeBootTypeCorrect == Spec => [](NodeBootTypeOK /\ JobsOK)
<1>1. NodeBootTypeOK /\ JobsOK /\ UNCHANGED vars => (NodeBootTypeOK /\ JobsOK)'
  BY DEF NodeBootTypeOK, JobsOK, JobOK, vars, database, nodes, boothost, history
<1> QED BY <1>1, BootInit, BootTypeStep, JobsStep, PTL DEF Spec

---------------------------------------------------------------------------
(* The PXE files.                                                          *)
LEMMA FilesInit == Init => FilesOK
<1> SUFFICES ASSUME Init PROVE FilesOK
  OBVIOUS
<1>1. \A n \in Node : pxe[n] = Wanted(n)
  BY DEF Init, Wanted, EffectiveKernel
<1>2. \A p \in Process : at[p] = "idle"
  BY DEF Init
<1> QED BY <1>1, <1>2 DEF FilesOK, PxeOK, RowOK

(* A statement crosses the rows it changes.                                *)
LEMMA RowsCrossed ==
  ASSUME NodeBootTypeOK, JobsOK, FilesOK, NEW p \in Process, RowsChangedBy(p),
         at'[p] # "write",
         \A q \in Process : q # p => at'[q] = at[q] /\ row'[q] = row[q]
  PROVE  \A q \in Process : RowOK(q)'
<1> SUFFICES ASSUME NEW q \in Process, at'[q] = "write", q \notin crossed',
                    NEW n \in Node, n = row'[q].node
             PROVE  Written(row'[q]) = Wanted(n)'
  BY DEF RowOK
<1>1. q # p /\ at[q] = "write" /\ row'[q] = row[q]
  OBVIOUS
<1>2. q \notin crossed /\ Wanted(n)' = Wanted(n)
  BY <1>1, RowsChanged
<1>3. Written(row[q]) = Wanted(n)
  BY <1>1, <1>2 DEF FilesOK, RowOK
<1> QED BY <1>1, <1>2, <1>3

(* Where no row changes, a process holds what it held.                     *)
LEMMA RowsHeld ==
  ASSUME FilesOK, NEW p \in Process, db' = db, ngKernel' = ngKernel,
         RowOK(p)', \A q \in crossed : q # p => q \in crossed',
         \A q \in Process : q # p => at'[q] = at[q] /\ row'[q] = row[q]
  PROVE  \A q \in Process : RowOK(q)'
<1> SUFFICES ASSUME NEW q \in Process, q # p, at'[q] = "write", q \notin crossed',
                    NEW n \in Node, n = row'[q].node
             PROVE  Written(row'[q]) = Wanted(n)'
  BY DEF RowOK
<1>1. Wanted(n)' = Wanted(n)
  BY SameRow
<1>2. Written(row[q]) = Wanted(n)
  BY DEF FilesOK, RowOK
<1> QED BY <1>1, <1>2

(* A file stays as good as it is, and others may have yet to write it.     *)
LEMMA PxeKept ==
  ASSUME NEW n \in Node, PxeOK(n), NEW p \in Process,
         n \in stale => n \in stale', pxe'[n] = pxe[n], Wanted(n)' = Wanted(n),
         Ahead(p, n) => Ahead(p, n)' \/ n \in stale' \/ pxe[n] = Wanted(n),
         \A q \in Process : q # p => at'[q] = at[q] /\ todo'[q] = todo[q]
  PROVE  PxeOK(n)'
  BY DEF PxeOK, Ahead

LEMMA BootHostFiles ==
  ASSUME NodeBootTypeOK, JobsOK, FilesOK, NEW p \in Process, BootHost(p) \/ Stop(p)
  PROVE  FilesOK'
<1> USE DEF database, nodes, boothost, history
<1>j. JobOK(p)
  BY DEF JobsOK
<1>t. /\ at \in [Process -> Step] /\ job \in [Process -> Job]
      /\ todo \in [Process -> SUBSET Node] /\ row \in [Process -> Row]
      /\ pxe \in [Node -> [local : BOOLEAN, kernel : Kernel]]
      /\ stale \subseteq Node
  BY DEF NodeBootTypeOK
<1>op. job[p].op \in {"nodes", "group", "unsynced", "cgi"}
       /\ job[p].kernel \in Kernel \cup {"same", "unset"}
  BY <1>t DEF Job
<1>1. CASE UpdateGroup(p)
  <2>1. /\ RowsChangedBy(p) /\ at'[p] = "list" /\ row' = row
        /\ \A q \in Process : q # p => at'[q] = at[q]
    BY <1>1, <1>t DEF UpdateGroup, Goto
  <2>2. \A n \in Node : PxeOK(n)'
    BY <2>1 DEF PxeOK, Ahead
  <2> QED BY <2>1, <2>2, RowsCrossed DEF FilesOK
<1>2. CASE ListHosts(p)
  <2>1. /\ at'[p] = "expire" /\ row' = row /\ db' = db /\ ngKernel' = ngKernel
        /\ crossed' = crossed
        /\ \A q \in Process : q # p => at'[q] = at[q]
    BY <1>2, <1>t DEF ListHosts, Goto
  <2>2. \A n \in Node : PxeOK(n)'
    BY <2>1 DEF PxeOK, Ahead
  <2>3. RowOK(p)'
    BY <2>1 DEF RowOK
  <2> QED BY <2>1, <2>2, <2>3, RowsHeld DEF FilesOK
<1>3. CASE ExpireGroup(p) \/ ResetCustom(p)
  <2>1. /\ RowsChangedBy(p) /\ at'[p] \in {"reset", "update"} /\ row' = row
        /\ todo' = todo /\ pxe' = pxe /\ stale' = stale \cup LeftBy(p)
        /\ at[p] \in {"expire", "reset"}
        /\ \A q \in Process : q # p => at'[q] = at[q]
    BY <1>3, <1>t DEF ExpireGroup, ResetCustom, Goto
  <2>2. ASSUME NEW n \in Node PROVE PxeOK(n)'
    <3>1. CASE n \in todo[p]
      BY <2>1, <3>1 DEF PxeOK, Ahead
    <3>2. CASE n \notin todo[p]
      <4>1. job[p].op = "unsynced"
        BY <1>j, <2>1, <3>2 DEF JobOK
      <4>2. pxe'[n] = Wanted(n)' \/ n \in LeftBy(p)
        BY <2>1, <3>2, <4>1 DEF LeftBy
      <4> QED BY <2>1, <4>2 DEF PxeOK
    <3> QED BY <3>1, <3>2
  <2> QED BY <2>1, <2>2, RowsCrossed DEF FilesOK
<1>5. ASSUME NEW m \in Node, UpdateNode(p, m) PROVE FilesOK'
  <2>1. /\ RowsChangedBy(p) /\ at'[p] = "query" /\ m \in todo[p] /\ at[p] = "update"
        /\ todo' = todo /\ pxe' = pxe /\ stale' = stale /\ ngKernel' = ngKernel
        /\ \A q \in Process : q # p => at'[q] = at[q] /\ row'[q] = row[q]
    BY <1>5, <1>t DEF UpdateNode, Goto
  <2>2. ASSUME NEW n \in Node PROVE PxeOK(n)'
    <3>1. CASE n = m
      BY <2>1, <3>1 DEF PxeOK, Ahead
    <3>2. CASE n # m
      <4>1. db'[n] = db[n]
        <5>1. CASE ExpireRows({m}, job[p].kernel)
          <6>1. {m} \in SUBSET Node /\ n \in Node \ {m}
            BY <3>2
          <6> QED BY <1>op, <5>1, <6>1, Expired
        <5>2. CASE db' = db
          BY <5>2
        <5> QED BY <1>5, <5>1, <5>2 DEF UpdateNode
      <4>2. Wanted(n)' = Wanted(n)
        BY <2>1, <4>1, SameRow
      <4>3. Ahead(p, n) => Ahead(p, n)'
        BY <2>1 DEF Ahead
      <4> QED BY <2>1, <4>2, <4>3, PxeKept DEF FilesOK
    <3> QED BY <3>1, <3>2
  <2> QED BY <2>1, <2>2, RowsCrossed DEF FilesOK
<1>6. ASSUME NEW m \in Node, QueryNode(p, m) PROVE FilesOK'
  <2>1. /\ row'[p] = [node |-> m, local |-> db[m].local, kernel |-> EffectiveKernel(m)]
        /\ at'[p] = "write" /\ at[p] \in {"query", "update"} /\ todo' = todo
        /\ pxe' = pxe /\ stale' = stale /\ crossed' = crossed
        /\ db' = db /\ ngKernel' = ngKernel
        /\ \A q \in Process : q # p => at'[q] = at[q] /\ row'[q] = row[q]
    BY <1>6, <1>t DEF QueryNode, Goto
  <2>2. \A n \in Node : Wanted(n)' = Wanted(n)
    BY <2>1, SameRow
  <2>3. \A n \in Node : Ahead(p, n) => Ahead(p, n)'
    BY <2>1 DEF Ahead
  <2>4. \A n \in Node : PxeOK(n)'
    BY <2>1, <2>2, <2>3, PxeKept DEF FilesOK
  <2>5. Written(row'[p]) = Wanted(m)
    BY <2>1 DEF Written, Wanted
  <2>6. RowOK(p)'
    BY <2>1, <2>2, <2>5 DEF RowOK
  <2> QED BY <2>1, <2>4, <2>6, RowsHeld DEF FilesOK
<1>7. ASSUME NEW m \in Node, MkPXEFile(p, m) PROVE FilesOK'
  <2>1. /\ at[p] = "write" /\ m = row[p].node
        /\ pxe' = [pxe EXCEPT ![m] = Written(row[p])]
        /\ db' = db /\ ngKernel' = ngKernel
        /\ stale' = IF p \in crossed /\ Written(row[p]) # Wanted(m)
                    THEN stale \cup {m} ELSE stale \ {m}
    BY <1>7 DEF MkPXEFile
  <2>2. /\ at'[p] # "write"
        /\ \A n \in todo[p] : n # m => n \in todo'[p]
        /\ \A q \in crossed : q # p => q \in crossed'
        /\ \A q \in Process : q # p => /\ at'[q] = at[q] /\ todo'[q] = todo[q]
                                       /\ row'[q] = row[q]
    <3>1. CASE job[p].op = "cgi"
      <4>1. Ends(p, {})
        BY <1>7, <3>1 DEF MkPXEFile
      <4>2. \A n \in todo[p] : n = m
        BY <1>j, <2>1, <3>1 DEF JobOK
      <4> QED BY <4>1, <4>2, EndsTyped
    <3>2. CASE job[p].op # "cgi"
      BY <1>7, <1>t, <3>2 DEF MkPXEFile, Goto
    <3> QED BY <3>1, <3>2
  <2>3. \A n \in Node : Wanted(n)' = Wanted(n)
    BY <2>1, SameRow
  <2>4. ASSUME NEW n \in Node PROVE PxeOK(n)'
    <3>1. CASE n = m
      <4>1. p \notin crossed => Written(row[p]) = Wanted(m)
        BY <2>1 DEF FilesOK, RowOK
      <4>2. pxe'[m] = Written(row[p])
        BY <1>t, <2>1
      <4> QED BY <2>1, <2>3, <3>1, <4>1, <4>2 DEF PxeOK
    <3>2. CASE n # m
      <4>1. pxe'[n] = pxe[n] /\ (n \in stale => n \in stale')
        BY <1>t, <2>1, <3>2
      <4>2. Ahead(p, n) => Ahead(p, n)'
        BY <2>1, <2>2, <3>2 DEF Ahead
      <4> QED BY <2>2, <2>3, <4>1, <4>2, PxeKept DEF FilesOK
    <3> QED BY <3>1, <3>2
  <2>5. RowOK(p)'
    BY <2>2 DEF RowOK
  <2> QED BY <2>1, <2>2, <2>4, <2>5, RowsHeld DEF FilesOK
<1>8. CASE Finish(p) \/ Stop(p)
  <2>1. /\ db' = db /\ ngKernel' = ngKernel /\ pxe' = pxe
        /\ \A n \in Node : n \in stale => n \in stale'
        /\ \A n \in Node : Ahead(p, n) => n \in stale' \/ pxe[n] = Wanted(n)
    <3>1. CASE Finish(p)
      BY <3>1 DEF Finish, Ahead
    <3>2. CASE Stop(p)
      BY <3>2 DEF Stop
    <3> QED BY <1>8, <3>1, <3>2
  <2>2. PICK rebooted : Ends(p, rebooted)
    BY <1>8 DEF Finish, Stop
  <2>3. \A n \in Node : Wanted(n)' = Wanted(n)
    BY <2>1, SameRow
  <2>4. /\ at'[p] = "idle" /\ \A q \in crossed : q # p => q \in crossed'
        /\ \A q \in Process : q # p => /\ at'[q] = at[q] /\ todo'[q] = todo[q]
                                       /\ row'[q] = row[q]
    BY <2>2, EndsTyped
  <2>5. \A n \in Node : PxeOK(n)'
    BY <2>1, <2>3, <2>4, PxeKept DEF FilesOK
  <2>6. RowOK(p)'
    BY <2>4 DEF RowOK
  <2> QED BY <2>1, <2>4, <2>5, <2>6, RowsHeld DEF FilesOK
<1> QED BY <1>1, <1>2, <1>3, <1>5, <1>6, <1>7, <1>8 DEF BootHost

LEMMA FilesStep == NodeBootTypeOK /\ JobsOK /\ FilesOK /\ Next => FilesOK'
<1> SUFFICES ASSUME NodeBootTypeOK, JobsOK, FilesOK, Next PROVE FilesOK'
  OBVIOUS
<1>1. ASSUME NEW p \in Process, BootHost(p) \/ Stop(p) PROVE FilesOK'
  BY <1>1, BootHostFiles
<1>2. ASSUME NEW a \in Admin, NEW op \in Ops, NEW N \in SUBSET Node,
             NEW k \in Kernel \cup {"same", "unset"}, NEW reinstall \in BOOLEAN,
             StartAdmin(a, op, N, k, reinstall)
      PROVE FilesOK'
  <2>1. /\ a \in Process /\ at[a] = "idle" /\ at'[a] # "write"
        /\ \A q \in Process : q # a => at'[q] = at[q] /\ todo'[q] = todo[q]
    <3>1. a \in Process /\ at[a] = "idle"
      BY <1>2 DEF StartAdmin, Process
    <3>2. at' = [at EXCEPT ![a] = IF op = "nodes" THEN "update" ELSE "groupKernel"]
          /\ todo' = [todo EXCEPT ![a] = N]
      BY <1>2 DEF StartAdmin, Goto
    <3>3. at \in [Process -> Step] /\ todo \in [Process -> SUBSET Node]
      BY DEF NodeBootTypeOK
    <3> QED BY <3>1, <3>2, <3>3
  <2>2. /\ db' = db /\ ngKernel' = ngKernel /\ pxe' = pxe /\ row' = row
        /\ stale' = stale /\ crossed' = crossed
    BY <1>2 DEF StartAdmin, database, history
  <2>3. \A n \in Node : Wanted(n)' = Wanted(n)
    BY <2>2, SameRow
  <2>4. \A n \in Node : ~Ahead(a, n)
    BY <2>1 DEF Ahead, JobsOK, JobOK
  <2>5. \A n \in Node : PxeOK(n)'
    BY <2>1, <2>2, <2>3, <2>4, PxeKept DEF FilesOK
  <2>6. RowOK(a)'
    BY <2>1 DEF RowOK
  <2> QED BY <2>1, <2>2, <2>5, <2>6, RowsHeld DEF FilesOK
<1>3. ASSUME NEW n \in Node, NEW s \in Slot,
             RetrieveNII(n, s) \/ UpdateState(n, s) \/ CfmUpdate(n, s) \/ UpdateNic(n, s)
      PROVE FilesOK'
  <2>1. PICK state \in {"", "Installing", "Installed"}, boot \in {"unchanged", "disk"} :
          Request(n, s, state, boot)
    BY <1>3 DEF RetrieveNII, UpdateState, CfmUpdate, UpdateNic
  <2>c. Called(n, s, state, boot)
    BY <2>1, RequestTyped
  <2> DEFINE p == <<n, s>>
  <2>2. /\ p \in Process /\ at[p] = "idle" /\ todo[p] = {} /\ RowsChangedBy(p)
        /\ ngKernel' = ngKernel /\ pxe' = pxe /\ stale' = stale /\ row' = row
        /\ \A m \in Node : m # n => db'[m] = db[m]
        /\ at'[p] = "update" /\ todo'[p] = {n}
        /\ \A q \in Process : q # p => at'[q] = at[q] /\ todo'[q] = todo[q]
    BY <2>c DEF Called
  <2> HIDE DEF p
  <2>3. ASSUME NEW m \in Node PROVE PxeOK(m)'
    <3>1. CASE m = n
      BY <2>2, <3>1 DEF PxeOK, Ahead
    <3>2. CASE m # n
      <4>1. Wanted(m)' = Wanted(m)
        BY <2>2, <3>2, SameRow
      <4>2. ~Ahead(p, m)
        BY <2>2 DEF Ahead
      <4> QED BY <2>2, <4>1, <4>2, PxeKept DEF FilesOK
    <3> QED BY <3>1, <3>2
  <2> QED BY <2>2, <2>3, RowsCrossed DEF FilesOK
<1>4. ASSUME NEW n \in Node,
             Boot(n) \/ Partition(n) \/ Install(n) \/ Restart(n) \/ KillClient(n)
               \/ PowerCycle(n)
      PROVE FilesOK'
  <2>1. /\ UNCHANGED <<db, ngKernel, pxe, at, todo, row, stale, crossed>>
    BY <1>4 DEF Boot, Partition, Install, Restart, KillClient, PowerCycle,
                database, boothost, history
  <2> QED BY <2>1 DEF FilesOK, PxeOK, RowOK, Ahead, Wanted, EffectiveKernel
<1> QED BY <1>1, <1>2, <1>3, <1>4 DEF Next, NodeStep

---------------------------------------------------------------------------
(* The nodes.                                                              *)
LEMMA NodesInit == Init => NodesOK
<1> SUFFICES ASSUME Init, NEW n \in Node PROVE NodeOK(n)
  BY DEF NodesOK
<1>1. /\ ~db[n].local /\ ~pxe[n].local /\ machine[n] = "off"
  BY DEF Init
<1> QED BY <1>1 DEF NodeOK, MachineOK, BlankOK, StuckOK, CurrentOK, Wiping

(* What kusu-boothost leaves as it is, or makes better, for a node that    *)
(* goes on as before.                                                      *)
LEMMA NodeKept ==
  ASSUME NEW n \in Node, NodeOK(n),
         machine'[n] = machine[n] \/ machine'[n] \in {"off", "reported"},
         disk'[n] = disk[n], booted'[n] = booted[n],
         mishap[n] \subseteq mishap'[n],
         db'[n].local => db[n].local,
         pxe'[n].local => pxe[n].local \/ db[n].local \/ "file" \in mishap'[n],
         \/ EffectiveKernel(n)' = EffectiveKernel(n)
         \/ /\ machine[n] \in Installing => "kernel" \in mishap'[n]
            /\ db'[n].local => NewGroupKernel',
         NewGroupKernel /\ db'[n].local => NewGroupKernel' \/ "kernel" \in mishap'[n]
  PROVE  NodeOK(n)'
<1> USE DEF NodeOK
<1>1. MachineOK(n)'
  BY DEF MachineOK, Wiping
<1>2. BlankOK(n)'
  BY DEF BlankOK, Wiping
<1>3. StuckOK(n)'
  BY DEF StuckOK
<1>4. CurrentOK(n)'
  BY DEF CurrentOK, Wiping, Installing
<1> QED BY <1>1, <1>2, <1>3, <1>4

LEMMA BootHostNodes ==
  ASSUME NodeBootTypeOK, JobsOK, FilesOK, NodesOK, NEW p \in Process,
         BootHost(p) \/ Stop(p)
  PROVE  NodesOK'
<1> USE DEF database, nodes, boothost, history
<1> SUFFICES ASSUME NEW n \in Node PROVE NodeOK(n)'
  BY DEF NodesOK
<1>j. JobOK(p)
  BY DEF JobsOK
<1>t. /\ at \in [Process -> Step] /\ job \in [Process -> Job]
      /\ db \in [Node -> DbRow]
      /\ pxe \in [Node -> [local : BOOLEAN, kernel : Kernel]]
      /\ mishap \in [Node -> SUBSET Mishaps]
      /\ machine \in [Node -> Machines]
  BY DEF NodeBootTypeOK, DbRow, Mishaps, Machines
<1>op. job[p].kernel \in Kernel \cup {"same", "unset"}
  BY <1>t DEF Job
<1>n. NodeOK(n)
  BY DEF NodesOK
<1>1. CASE UpdateGroup(p)
  <2>1. /\ RowsChangedBy(p) /\ at'[p] = "list" /\ job' = job /\ db' = db
        /\ machine' = machine /\ disk' = disk /\ booted' = booted /\ pxe' = pxe
        /\ Changes(p) \/ ngKernel' = ngKernel
        /\ at[p] = "groupKernel"
        /\ \A q \in Process : q # p => at'[q] = at[q]
    BY <1>1, <1>t DEF UpdateGroup, Goto
  <2>2. Changes(p) => NewGroupKernel'
    BY <2>1 DEF NewGroupKernel, Changes
  <2>3. NewGroupKernel => NewGroupKernel'
    BY <2>1 DEF NewGroupKernel, Changes
  <2>4. ~Changes(p) => EffectiveKernel(n)' = EffectiveKernel(n)
    BY <2>1, SameRow
  <2> QED BY <1>n, <2>1, <2>2, <2>3, <2>4, RowsChanged, NodeKept
<1>2. CASE ListHosts(p)
  <2>1. /\ at'[p] = "expire" /\ db' = db /\ ngKernel' = ngKernel
        /\ machine' = machine /\ disk' = disk /\ booted' = booted /\ pxe' = pxe
        /\ mishap' = mishap /\ at[p] = "list"
        /\ \A q \in Process : q # p => at'[q] = at[q] /\ job'[q] = job[q]
    BY <1>2, <1>t DEF ListHosts, Goto
  <2>2. job'[p].kernel = job[p].kernel
    BY <1>2, <1>t DEF ListHosts, Job
  <2>3. NewGroupKernel => NewGroupKernel'
    BY <2>1, <2>2 DEF NewGroupKernel, Changes
  <2>4. EffectiveKernel(n)' = EffectiveKernel(n)
    BY <2>1, SameRow
  <2> QED BY <1>n, <2>1, <2>3, <2>4, NodeKept
<1>3. CASE ExpireGroup(p) \/ ResetCustom(p)
  <2>1. /\ RowsChangedBy(p) /\ job' = job /\ ngKernel' = ngKernel
        /\ machine' = machine /\ disk' = disk /\ booted' = booted /\ pxe' = pxe
        /\ \A q \in Process : q # p => at'[q] = at[q]
    BY <1>3, <1>t DEF ExpireGroup, ResetCustom, Goto
  <2>2. ~db'[n].local \/ db'[n] = db[n]
    <3>1. CASE ExpireGroup(p)
      BY <3>1, Expired DEF ExpireGroup
    <3>2. CASE ResetCustom(p)
      BY <3>2, Expired DEF ResetCustom
    <3> QED BY <1>3, <3>1, <3>2
  <2>3. NewGroupKernel /\ db'[n].local => NewGroupKernel'
    <3>1. CASE ExpireGroup(p)
      <4>1. Changes(p) => ~db'[n].local
        BY <3>1, Expired DEF ExpireGroup
      <4>2. ~Changes(p) /\ NewGroupKernel => NewGroupKernel'
        BY <2>1 DEF NewGroupKernel, Changes
      <4> QED BY <4>1, <4>2
    <3>2. CASE ResetCustom(p)
      <4>1. at[p] = "reset"
        BY <3>2 DEF ResetCustom
      <4> QED BY <2>1, <4>1 DEF NewGroupKernel, Changes
    <3> QED BY <1>3, <3>1, <3>2
  <2>4. db'[n] = db[n] => EffectiveKernel(n)' = EffectiveKernel(n)
    BY <2>1, SameRow
  <2> QED BY <1>n, <2>1, <2>2, <2>3, <2>4, RowsChanged, NodeKept
<1>5. ASSUME NEW m \in Node, UpdateNode(p, m) PROVE NodeOK(n)'
  <2>1. /\ RowsChangedBy(p) /\ job' = job /\ ngKernel' = ngKernel
        /\ machine' = machine /\ disk' = disk /\ booted' = booted /\ pxe' = pxe
        /\ at[p] = "update"
        /\ \A q \in Process : q # p => at'[q] = at[q]
    BY <1>5, <1>t DEF UpdateNode, Goto
  <2>2. ~db'[n].local \/ db'[n] = db[n]
    <3>1. CASE ExpireRows({m}, job[p].kernel)
      <4>1. {m} \in SUBSET Node
        OBVIOUS
      <4> QED BY <1>op, <3>1, <4>1, Expired
    <3>2. CASE db' = db
      BY <3>2
    <3> QED BY <1>5, <3>1, <3>2 DEF UpdateNode
  <2>3. NewGroupKernel => NewGroupKernel'
    BY <2>1 DEF NewGroupKernel, Changes
  <2>4. db'[n] = db[n] => EffectiveKernel(n)' = EffectiveKernel(n)
    BY <2>1, SameRow
  <2> QED BY <1>n, <2>1, <2>2, <2>3, <2>4, RowsChanged, NodeKept
<1>6. ASSUME NEW m \in Node, QueryNode(p, m) PROVE NodeOK(n)'
  <2>1. /\ db' = db /\ ngKernel' = ngKernel /\ pxe' = pxe /\ mishap' = mishap
        /\ machine' = machine /\ disk' = disk /\ booted' = booted /\ job' = job
        /\ at[p] \in {"query", "update"}
        /\ \A q \in Process : q # p => at'[q] = at[q]
    BY <1>6, <1>t DEF QueryNode, Goto
  <2>2. NewGroupKernel => NewGroupKernel'
    BY <2>1 DEF NewGroupKernel, Changes
  <2>3. EffectiveKernel(n)' = EffectiveKernel(n)
    BY <2>1, SameRow
  <2> QED BY <1>n, <2>1, <2>2, <2>3, NodeKept
<1>7. ASSUME NEW m \in Node, MkPXEFile(p, m) PROVE NodeOK(n)'
  <2>1. /\ at[p] = "write" /\ m = row[p].node
        /\ pxe' = [pxe EXCEPT ![m] = Written(row[p])]
        /\ db' = db /\ ngKernel' = ngKernel
        /\ machine' = machine /\ disk' = disk /\ booted' = booted
        /\ mishap' = IF p \in crossed /\ Written(row[p]) # Wanted(m)
                     THEN [mishap EXCEPT ![m] = @ \cup {"file"}] ELSE mishap
    BY <1>7 DEF MkPXEFile
  <2>2. \A q \in Process : q # p => at'[q] = at[q] /\ job'[q] = job[q]
    <3>1. CASE job[p].op = "cgi"
      BY <1>7, <3>1, EndsTyped DEF MkPXEFile
    <3>2. CASE job[p].op # "cgi"
      BY <1>7, <1>t, <3>2 DEF MkPXEFile, Goto
    <3> QED BY <3>1, <3>2
  <2>3. NewGroupKernel => NewGroupKernel'
    BY <2>1, <2>2 DEF NewGroupKernel, Changes
  <2>4. EffectiveKernel(n)' = EffectiveKernel(n)
    BY <2>1, SameRow
  <2>5. mishap[n] \subseteq mishap'[n]
    BY <1>t, <2>1
  <2>6. pxe'[n].local => pxe[n].local \/ db[n].local \/ "file" \in mishap'[n]
    <3>1. CASE n = m
      <4>1. pxe'[n] = Written(row[p])
        BY <1>t, <2>1, <3>1
      <4>2. CASE Written(row[p]) = Wanted(m)
        BY <3>1, <4>1, <4>2 DEF Wanted
      <4>3. CASE Written(row[p]) # Wanted(m)
        <5>1. p \in crossed
          BY <2>1, <4>3 DEF FilesOK, RowOK
        <5> QED BY <1>t, <2>1, <3>1, <4>3, <5>1
      <4> QED BY <4>2, <4>3
    <3>2. CASE n # m
      BY <1>t, <2>1, <3>2
    <3> QED BY <3>1, <3>2
  <2> QED BY <1>n, <2>1, <2>3, <2>4, <2>5, <2>6, NodeKept
<1>8. CASE Finish(p)
  <2>1. /\ db' = db /\ ngKernel' = ngKernel /\ pxe' = pxe /\ mishap' = mishap
        /\ disk' = disk /\ booted' = booted /\ at[p] = "update"
        /\ machine'[n] \in {machine[n], "off"}
    BY <1>8 DEF Finish
  <2>2. PICK rebooted : Ends(p, rebooted)
    BY <1>8 DEF Finish
  <2>3. \A q \in Process : q # p => at'[q] = at[q] /\ job'[q] = job[q]
    BY <2>2, EndsTyped
  <2>4. NewGroupKernel => NewGroupKernel'
    BY <2>1, <2>3 DEF NewGroupKernel, Changes
  <2>5. EffectiveKernel(n)' = EffectiveKernel(n)
    BY <2>1, SameRow
  <2> QED BY <1>n, <2>1, <2>4, <2>5, NodeKept
<1>9. CASE Stop(p)
  <2>1. /\ db' = db /\ ngKernel' = ngKernel /\ pxe' = pxe
        /\ disk' = disk /\ booted' = booted /\ machine' = machine
        /\ mishap[n] \subseteq mishap'[n]
        /\ at[p] \in {"list", "expire"} /\ Changes(p) => "kernel" \in mishap'[n]
        /\ Ends(p, {})
    BY <1>9 DEF Stop
  <2>2. \A q \in Process : q # p => at'[q] = at[q] /\ job'[q] = job[q]
    BY <2>1, EndsTyped
  <2>3. NewGroupKernel => NewGroupKernel' \/ "kernel" \in mishap'[n]
    BY <2>1, <2>2 DEF NewGroupKernel, Changes
  <2>4. EffectiveKernel(n)' = EffectiveKernel(n)
    BY <2>1, SameRow
  <2> QED BY <1>n, <2>1, <2>3, <2>4, NodeKept
<1> QED BY <1>1, <1>2, <1>3, <1>5, <1>6, <1>7, <1>8, <1>9 DEF BootHost

LEMMA NodesStep ==
  NodeBootTypeOK /\ JobsOK /\ FilesOK /\ NodesOK /\ Next => NodesOK'
<1> USE DEF database, nodes, boothost, history
<1> SUFFICES ASSUME NodeBootTypeOK, JobsOK, FilesOK, NodesOK, Next, NEW m \in Node
             PROVE  NodeOK(m)'
  BY DEF NodesOK
<1>t. /\ machine \in [Node -> Machines] /\ mishap \in [Node -> SUBSET Mishaps]
      /\ booted \in [Node -> Kernel \cup {"none"}]
      /\ disk \in [Node -> Kernel \cup {"none"}]
      /\ pxe \in [Node -> [local : BOOLEAN, kernel : Kernel]]
  BY DEF NodeBootTypeOK, Machines, Mishaps
<1>n. NodeOK(m)
  BY DEF NodesOK
<1>1. ASSUME NEW p \in Process, BootHost(p) \/ Stop(p) PROVE NodeOK(m)'
  BY <1>1, BootHostNodes DEF NodesOK
<1>2. ASSUME NEW a \in Admin, NEW op \in Ops, NEW N \in SUBSET Node,
             NEW k \in Kernel \cup {"same", "unset"}, NEW reinstall \in BOOLEAN,
             StartAdmin(a, op, N, k, reinstall)
      PROVE NodeOK(m)'
  <2>1. /\ db' = db /\ ngKernel' = ngKernel /\ pxe' = pxe /\ mishap' = mishap
        /\ machine' = machine /\ disk' = disk /\ booted' = booted
    BY <1>2 DEF StartAdmin
  <2>2. EffectiveKernel(m)' = EffectiveKernel(m)
    BY <2>1, SameRow
  <2>3. NewGroupKernel => NewGroupKernel'
    <3>1. a \in Process /\ at[a] = "idle"
      BY <1>2 DEF StartAdmin, Process
    <3>2. \A q \in Process : q # a => at'[q] = at[q] /\ job'[q] = job[q]
      BY <1>2, <3>1 DEF StartAdmin, Goto, NodeBootTypeOK
    <3> QED BY <3>1, <3>2 DEF NewGroupKernel, Changes
  <2> QED BY <1>n, <2>1, <2>2, <2>3, NodeKept
<1>3. ASSUME NEW n \in Node, NEW s \in Slot,
             NEW state \in {"", "Installing", "Installed"},
             NEW boot \in {"unchanged", "disk"}, Request(n, s, state, boot)
      PROVE  /\ pxe' = pxe /\ disk' = disk /\ booted' = booted
             /\ EffectiveKernel(m)' = EffectiveKernel(m)
             /\ boot = "unchanged" \/ m # n => db'[m].local = db[m].local
             /\ mishap[m] \subseteq mishap'[m]
             /\ NewGroupKernel => NewGroupKernel'
  <2> DEFINE p == <<n, s>>
  <2>1. Called(n, s, state, boot)
    BY <1>3, RequestTyped
  <2>2. /\ p \in Process /\ at[p] = "idle" /\ RowsChangedBy(p)
        /\ pxe' = pxe /\ disk' = disk /\ booted' = booted /\ ngKernel' = ngKernel
        /\ db'[n] = NodeInfo(db[n], state, boot)
        /\ m # n => db'[m] = db[m]
        /\ \A q \in Process : q # p => at'[q] = at[q] /\ job'[q] = job[q]
    BY <2>1 DEF Called
  <2> HIDE DEF p
  <2>3. db[n] \in DbRow
    BY DEF NodeBootTypeOK, DbRow
  <2>4. db'[n].kernel = db[n].kernel /\ (boot = "unchanged" => db'[n].local = db[n].local)
    <3> DEFINE r == db[n]
    <3>1. r \in DbRow
      BY <2>3
    <3> HIDE DEF r
    <3>2. /\ NodeInfo(r, state, boot).kernel = r.kernel
          /\ boot = "unchanged" => NodeInfo(r, state, boot).local = r.local
      BY <3>1, ReportedRows
    <3> QED BY <2>2, <3>2 DEF r
  <2>5. EffectiveKernel(m)' = EffectiveKernel(m)
    BY <2>2, <2>4 DEF EffectiveKernel
  <2>6. NewGroupKernel => NewGroupKernel'
    BY <2>2 DEF NewGroupKernel, Changes
  <2> QED BY <2>2, <2>4, <2>5, <2>6, RowsChanged
<1>4. ASSUME NEW n \in Node, NEW s \in Slot, RetrieveNII(n, s) PROVE NodeOK(m)'
  <2>1. /\ Request(n, s, "Installing", "unchanged") /\ machine[n] = "contact"
        /\ machine' = [machine EXCEPT ![n] = "asked"]
    BY <1>4 DEF RetrieveNII, Becomes
  <2>2. /\ pxe' = pxe /\ disk' = disk /\ booted' = booted
        /\ EffectiveKernel(m)' = EffectiveKernel(m)
        /\ db'[m].local = db[m].local
        /\ mishap[m] \subseteq mishap'[m]
        /\ NewGroupKernel => NewGroupKernel'
    BY <1>3, <2>1
  <2>3. CASE m # n
    BY <1>n, <1>t, <2>1, <2>2, <2>3, NodeKept
  <2>4. CASE m = n
    <3>1. machine[m] = "contact" /\ machine'[m] = "asked"
      BY <1>t, <2>1, <2>4
    <3> QED BY <1>n, <2>2, <3>1 DEF NodeOK, MachineOK, BlankOK, StuckOK, CurrentOK, Wiping
  <2> QED BY <2>3, <2>4
<1>5. ASSUME NEW n \in Node, NEW s \in Slot, UpdateState(n, s) PROVE NodeOK(m)'
  <2>1. /\ Request(n, s, "Installed", "disk") /\ machine[n] = "installed"
        /\ machine' = [machine EXCEPT ![n] = "reported"]
    BY <1>5 DEF UpdateState, Becomes
  <2>2. /\ pxe' = pxe /\ disk' = disk /\ booted' = booted
        /\ EffectiveKernel(m)' = EffectiveKernel(m)
        /\ m # n => db'[m].local = db[m].local
        /\ mishap[m] \subseteq mishap'[m]
        /\ NewGroupKernel => NewGroupKernel'
    BY <1>3, <2>1
  <2>3. CASE m # n
    BY <1>n, <1>t, <2>1, <2>2, <2>3, NodeKept
  <2>4. CASE m = n
    <3>1. machine[m] = "installed" /\ machine'[m] = "reported"
      BY <1>t, <2>1, <2>4
    <3>2. disk[m] \in Kernel /\ "none" \notin Kernel
      BY <1>n, <3>1, NodeBootAssumption DEF NodeOK, MachineOK
    <3> QED BY <1>n, <2>2, <3>1, <3>2
            DEF NodeOK, MachineOK, BlankOK, StuckOK, CurrentOK, Wiping
  <2> QED BY <2>3, <2>4
<1>6. ASSUME NEW n \in Node, NEW s \in Slot, CfmUpdate(n, s) \/ UpdateNic(n, s)
      PROVE NodeOK(m)'
  <2>1. PICK state \in {"", "Installed"} : Request(n, s, state, "unchanged")
    BY <1>6 DEF CfmUpdate, UpdateNic
  <2>2. /\ pxe' = pxe /\ disk' = disk /\ booted' = booted
        /\ EffectiveKernel(m)' = EffectiveKernel(m)
        /\ db'[m].local = db[m].local
        /\ mishap[m] \subseteq mishap'[m]
        /\ NewGroupKernel => NewGroupKernel'
    BY <1>3, <2>1
  <2>3. machine' = machine
    BY <1>6 DEF CfmUpdate, UpdateNic
  <2> QED BY <1>n, <2>2, <2>3, NodeKept
<1>7. ASSUME NEW n \in Node,
             Boot(n) \/ Partition(n) \/ Install(n) \/ Restart(n) \/ KillClient(n)
               \/ PowerCycle(n)
      PROVE NodeOK(m)'
  <2>1. /\ db' = db /\ ngKernel' = ngKernel /\ pxe' = pxe
        /\ at' = at /\ job' = job
    BY <1>7 DEF Boot, Partition, Install, Restart, KillClient, PowerCycle
  <2>2. EffectiveKernel(m)' = EffectiveKernel(m) /\ Wanted(m)' = Wanted(m)
    BY <2>1, SameRow
  <2>3. NewGroupKernel' <=> NewGroupKernel
    BY <2>1 DEF NewGroupKernel, Changes
  <2>4. CASE m # n
    <3>1. /\ machine'[m] = machine[m] /\ disk'[m] = disk[m]
          /\ booted'[m] = booted[m] /\ mishap'[m] = mishap[m]
      BY <1>7, <1>t, <2>4
         DEF Boot, Partition, Install, Restart, KillClient, PowerCycle, Becomes
    <3> QED BY <1>n, <2>1, <2>2, <2>3, <3>1, NodeKept
  <2>5. CASE m = n
    <3> USE <1>n, <1>t, <2>1, <2>2, <2>3, <2>5
    <3>1. CASE Boot(n)
      <4>1. CASE pxe[n].local
        <5>1. /\ machine'[m] = (IF disk[m] = "none" THEN "stuck" ELSE "up")
              /\ UNCHANGED <<booted, mishap, disk>>
          BY <3>1, <4>1 DEF Boot, Becomes
        <5> QED BY <4>1, <5>1
                DEF NodeOK, MachineOK, BlankOK, StuckOK, CurrentOK, Wiping
      <4>2. CASE ~pxe[n].local
        <5>1. /\ machine'[m] = "contact" /\ booted'[m] = pxe[m].kernel
              /\ pxe[m].kernel \in Kernel /\ disk' = disk
              /\ mishap'[m] = IF pxe[m] = Wanted(m) THEN {} ELSE {"boot"}
          BY <3>1, <4>2 DEF Boot, Becomes
        <5>2. Wanted(m) = [local |-> db[m].local, kernel |-> EffectiveKernel(m)]
          BY DEF Wanted
        <5>3. CASE pxe[m] = Wanted(m)
          <6>1. ~db[m].local /\ pxe[m].kernel = EffectiveKernel(m)
            BY <4>2, <5>2, <5>3
          <6> QED BY <4>2, <5>1, <5>3, <6>1
                  DEF NodeOK, MachineOK, BlankOK, StuckOK, CurrentOK, Wiping
        <5>4. CASE pxe[m] # Wanted(m)
          <6>1. mishap'[m] = {"boot"}
            BY <5>1, <5>4
          <6> QED BY <5>1, <6>1
                  DEF NodeOK, MachineOK, BlankOK, StuckOK, CurrentOK, Wiping
        <5> QED BY <5>3, <5>4
      <4> QED BY <4>1, <4>2
    <3>2. CASE Partition(n)
      <4>1. /\ machine[m] = "asked" /\ machine'[m] = "installing"
            /\ disk'[m] = "none" /\ booted' = booted /\ mishap' = mishap
        BY <3>2 DEF Partition, Becomes
      <4> QED BY <4>1 DEF NodeOK, MachineOK, BlankOK, StuckOK, CurrentOK, Wiping
    <3>3. CASE Install(n)
      <4>1. /\ machine[m] = "installing" /\ machine'[m] = "installed"
            /\ disk'[m] = booted[m] /\ mishap' = mishap
        BY <3>3 DEF Install, Becomes
      <4>2. "none" \notin Kernel
        BY NodeBootAssumption
      <4> QED BY <4>1, <4>2 DEF NodeOK, MachineOK, BlankOK, StuckOK, CurrentOK, Wiping
    <3>4. CASE Restart(n)
      BY <3>4, NodeKept DEF Restart, Becomes
    <3>5. CASE KillClient(n)
      BY <3>5, NodeKept DEF KillClient
    <3>6. CASE PowerCycle(n)
      <4>1. machine'[m] = "off" /\ disk' = disk /\ mishap' = mishap
        BY <3>6 DEF PowerCycle, Becomes
      <4> QED BY <4>1 DEF NodeOK, MachineOK, BlankOK, StuckOK, CurrentOK, Wiping
    <3> QED BY <1>7, <3>1, <3>2, <3>3, <3>4, <3>5, <3>6
  <2> QED BY <2>4, <2>5
<1> QED BY <1>1, <1>2, <1>4, <1>5, <1>6, <1>7 DEF Next, NodeStep

---------------------------------------------------------------------------
(* What follows.                                                           *)

(* The inductive invariant: every PXE file is right, known to be stale, or *)
(* about to be written by a process; what a process is about to write is   *)
(* right unless its row was crossed; and the disks hold what the database  *)
(* has, but for the mishaps.                                               *)
THEOREM NodeBootCorrect == Spec => [](NodeBootTypeOK /\ JobsOK /\ FilesOK /\ NodesOK)
<1> DEFINE Inv == NodeBootTypeOK /\ JobsOK /\ FilesOK /\ NodesOK
<1>1. Init => Inv
  BY BootInit, FilesInit, NodesInit
<1>2. Inv /\ Next => Inv'
  BY BootTypeStep, JobsStep, FilesStep, NodesStep
<1>3. Inv /\ UNCHANGED vars => Inv'
  <2> SUFFICES ASSUME Inv, UNCHANGED vars PROVE Inv'
    OBVIOUS
  <2> USE DEF vars, database, nodes, boothost, history
  <2>1. NodeBootTypeOK' /\ JobsOK'
    BY DEF NodeBootTypeOK, JobsOK, JobOK
  <2>2. FilesOK'
    BY DEF FilesOK, PxeOK, RowOK, Ahead, Wanted, EffectiveKernel
  <2>3. NodesOK'
    BY DEF NodesOK, NodeOK, MachineOK, BlankOK, StuckOK, CurrentOK, NewGroupKernel,
           Changes, EffectiveKernel
  <2> QED BY <2>1, <2>2, <2>3
<1> HIDE DEF Inv
<1>4. Spec => []Inv
  BY <1>1, <1>2, <1>3, PTL DEF Spec
<1> QED BY <1>4 DEF Inv

(* The variables keep their types.                                         *)
THEOREM NodeBootTypeOKHolds == Spec => []NodeBootTypeOK
  BY NodeBootCorrect, PTL

(* When no process is at work for a node, its PXE file says what the       *)
(* database says, whatever ran at the same time, but for a file that was   *)
(* written from a row changed since, left out by -s, or not written by a   *)
(* process that was stopped.                                               *)
THEOREM PxeFollowsDbHolds == Spec => []PxeFollowsDb
<1>1. NodeBootTypeOK /\ JobsOK /\ FilesOK => PxeFollowsDb
  <2> SUFFICES ASSUME NodeBootTypeOK, JobsOK, FilesOK,
                      NEW n \in Node, Settled(n), n \notin stale
               PROVE  pxe[n] = Wanted(n)
    BY DEF PxeFollowsDb
  <2>1. ASSUME NEW p \in Process, Ahead(p, n) PROVE FALSE
    <3>1. /\ JobOK(p) /\ ~Working(p, n)
          /\ job[p].op \in {"nodes", "group", "unsynced", "cgi"}
      BY DEF JobsOK, Settled, NodeBootTypeOK, Job
    <3> QED BY <2>1, <3>1 DEF Ahead, JobOK, Working
  <2> QED BY <2>1 DEF FilesOK, PxeOK
<1> QED BY <1>1, NodeBootCorrect, PTL

(* A node the database sends to its disk was last installed with the       *)
(* kernel the database has for it, but for an installer that was booted by *)
(* another file, or a kernel that changed while it installed or by a       *)
(* process that was stopped before it expired the nodes.                   *)
THEOREM DiskIsCurrentHolds == Spec => []DiskIsCurrent
<1>1. JobsOK /\ NodesOK => DiskIsCurrent
  <2> SUFFICES ASSUME JobsOK, NodesOK, NEW n \in Node, Settled(n), db[n].local,
                      mishap[n] \cap {"boot", "kernel"} = {}
               PROVE  disk[n] = EffectiveKernel(n)
    BY DEF DiskIsCurrent
  <2>1. CurrentOK(n)
    BY DEF NodesOK, NodeOK
  <2>2. ~NewGroupKernel
    BY DEF NewGroupKernel, Settled, Working, JobsOK, JobOK
  <2> QED BY <2>1, <2>2 DEF CurrentOK
<1> QED BY <1>1, NodeBootCorrect, PTL

(* A node is never sent to a disk that an interrupted installation wiped,  *)
(* but after one of the two mishaps that make it so.                       *)
THEOREM NeverStuckHolds == Spec => []NeverStuck
<1>1. NodesOK => NeverStuck
  BY DEF NodesOK, NodeOK, StuckOK, NeverStuck
<1> QED BY <1>1, NodeBootCorrect, PTL
============================================================================
