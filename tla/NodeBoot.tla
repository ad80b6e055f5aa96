----------------------------- MODULE NodeBoot -----------------------------
(***************************************************************************)
(* Who boots from where: the rows of the nodes in the database, the PXE    *)
(* files that kusu-boothost writes from them, and the nodes, which boot by *)
(* their PXE file, install, and report to nodeboot.cgi.  The CGI changes   *)
(* the row of its node and runs "kusu-boothost -m <node>"; administrators  *)
(* run kusu-boothost for nodes (-m), for the node group (-n) or for its    *)
(* unsynchronised nodes (-s).  Nothing locks the rows or the files, nobody *)
(* waits for anybody, the database is in autocommit mode (db.py), and each *)
(* statement and each file is a step of its own.                           *)
(*                                                                         *)
(* The nodes are package based and in one node group.  A member of Kernel  *)
(* stands for a kernel, an initrd and kernel parameters, which every       *)
(* statement below treats alike.                                           *)
(***************************************************************************)
EXTENDS Naturals

CONSTANTS
  Node,
  Admin,        \* runs of kusu-boothost by administrators
  Slot,         \* bound: the CGIs that may run for a node at a time
  Kernel,
  Ops,          \* what administrators do: "nodes", "group", "unsynced"
  MaxDisturb    \* bound: administrators' runs, restarts, kills

ASSUME NodeBootAssumption ==
  /\ Admin \cap (Node \X Slot) = {}
  /\ "none" \notin Node \cup Slot
  /\ {"none", "same", "unset"} \cap Kernel = {}
  /\ Ops \subseteq {"nodes", "group", "unsynced"}
  /\ MaxDisturb \in Nat

VARIABLES
  db,         \* nodes: state, local (bootfrom), kernel (its own, or "none")
  ngKernel,   \* nodegroups: the kernel of the group
  pxe,        \* node -> its PXE file: local, kernel
  machine,    \* node -> what it is doing
  booted,     \* node -> the kernel its installer was booted with, or "none"
  disk,       \* node -> the kernel it was last installed with, or "none"
  asks,       \* node -> the slot of the CGI it waits for, or "none"
  at,         \* process -> the step kusu-boothost is at
  job,        \* process -> its arguments
  todo,       \* process -> the nodes whose PXE file it has still to write
  row,        \* process -> the row it read last
  disturbed,  \* administrators' runs, restarts and kills so far
  crossed,    \* history: processes whose row was changed after they read it
  stale,      \* history: nodes whose file was written from such a row, or
              \* left as it was by -s or by a process that was stopped
  mishap      \* history: node -> what went wrong since its installer booted

database == <<db, ngKernel>>
nodes    == <<machine, booted, disk, asks>>
boothost == <<at, job, todo, row>>
history  == <<crossed, stale, mishap>>
vars     == <<database, pxe, nodes, boothost, disturbed, history>>

(* A node has its CGIs, which run kusu-boothost as well.  A CGI does not   *)
(* end when its node does.                                                 *)
Process == Admin \cup (Node \X Slot)

Step == {"idle", "groupKernel", "list", "expire", "reset",
         "update", "query", "write"}

Row == [node : Node \cup {"none"}, local : BOOLEAN, kernel : Kernel \cup {"none"}]

Job == [op : {"nodes", "group", "unsynced", "cgi"}, hosts : SUBSET Node,
        kernel : Kernel \cup {"same", "unset"}, reinstall : BOOLEAN]

NodeBootTypeOK ==
  /\ db \in [Node -> [state : {"Expired", "Installing", "Installed"},
                      local : BOOLEAN, kernel : Kernel \cup {"none"}]]
  /\ ngKernel \in Kernel
  /\ pxe \in [Node -> [local : BOOLEAN, kernel : Kernel]]
  /\ machine \in [Node -> {"off", "contact", "asked", "installing",
                           "installed", "reported", "up", "stuck"}]
  /\ booted \in [Node -> Kernel \cup {"none"}]
  /\ disk \in [Node -> Kernel \cup {"none"}]
  /\ asks \in [Node -> Slot \cup {"none"}]
  /\ at \in [Process -> Step]
  /\ job \in [Process -> Job]
  /\ todo \in [Process -> SUBSET Node]
  /\ row \in [Process -> Row]
  /\ disturbed \in 0..MaxDisturb
  /\ crossed \subseteq Process
  /\ stale \subseteq Node
  /\ mishap \in [Node -> SUBSET {"boot", "kernel", "file"}]

EffectiveKernel(n) == IF db[n].kernel = "none" THEN ngKernel ELSE db[n].kernel

(* What the PXE file of a node should say.                                 *)
Wanted(n) == [local |-> db[n].local, kernel |-> EffectiveKernel(n)]

NoJob == [op |-> "cgi", hosts |-> {}, kernel |-> "same", reinstall |-> FALSE]

NoRow == [node |-> "none", local |-> FALSE, kernel |-> "none"]

(* A node is added Expired and booting from the network (nodefun.py), and  *)
(* its PXE file is written.                                                *)
Init ==
  /\ ngKernel \in Kernel
  /\ db = [n \in Node |->
             [state |-> "Expired", local |-> FALSE, kernel |-> "none"]]
  /\ pxe = [n \in Node |-> [local |-> FALSE, kernel |-> ngKernel]]
  /\ machine = [n \in Node |-> "off"]
  /\ booted = [n \in Node |-> "none"]
  /\ disk = [n \in Node |-> "none"]
  /\ asks = [n \in Node |-> "none"]
  /\ at = [p \in Process |-> "idle"]
  /\ job = [p \in Process |-> NoJob]
  /\ todo = [p \in Process |-> {}]
  /\ row = [p \in Process |-> NoRow]
  /\ disturbed = 0
  /\ crossed = {}
  /\ stale = {}
  /\ mishap = [n \in Node |-> {}]

---------------------------------------------------------------------------
(* History                                                                 *)

Installing == {"contact", "asked", "installing", "installed"}

(* A statement that changes rows: the processes other than p that hold an  *)
(* older row now, and the nodes whose kernel changes under the installer.  *)
RowsChangedBy(p) ==
  /\ crossed' = crossed \cup
       {q \in Process \ {p} : /\ at[q] = "write"
                              /\ \E n \in Node : /\ n = row[q].node
                                                 /\ Wanted(n)' # Wanted(n)}
  /\ mishap' = [n \in Node |->
       mishap[n] \cup IF machine[n] \in Installing
                         /\ EffectiveKernel(n)' # EffectiveKernel(n)
                      THEN {"kernel"} ELSE {}]

---------------------------------------------------------------------------
(* kusu-boothost                                                           *)

Goto(p, step) == at' = [at EXCEPT ![p] = step]

Changes(p) == job[p].kernel # "same"

(* Variants with a fault, for checking that the properties see it: a new   *)
(* kernel leaves bootfrom alone; every group update lists the nodes as -s. *)
ExpiredRow_KeepsBoot(r, k) ==
  [state |-> "Expired", local |-> r.local,
   kernel |-> CASE k = "same"  -> r.kernel
                [] k = "unset" -> "none"
                [] OTHER       -> k]

ListHosts_Expired(p) ==
  /\ at[p] = "list"
  /\ LET hosts == {n \in Node : db[n].state = "Expired"}
     IN  /\ todo' = [todo EXCEPT ![p] = hosts]
         /\ job' = [job EXCEPT ![p].hosts = hosts]
  /\ Goto(p, "expire")
  /\ UNCHANGED <<database, pxe, nodes, row, disturbed, history>>

(* __mkUpdateSql on a row: a new kernel expires the node and makes it boot *)
(* from the network, and so does -r.                                       *)
ExpiredRow(r, k) ==
  [state |-> "Expired", local |-> FALSE,
   kernel |-> CASE k = "same"  -> r.kernel
                [] k = "unset" -> "none"
                [] OTHER       -> k]

(* One UPDATE of the rows of a set of nodes.                               *)
ExpireRows(N, k) ==
  db' = [n \in Node |-> IF n \in N THEN ExpiredRow(db[n], k) ELSE db[n]]

(* genNodeGrpPXE: the kernel of the group.                                 *)
UpdateGroup(p) ==
  /\ at[p] = "groupKernel"
  /\ ngKernel' = IF Changes(p) THEN job[p].kernel ELSE ngKernel
  /\ Goto(p, "list")
  /\ UNCHANGED <<db, pxe, nodes, job, todo, row, disturbed, stale>>
  /\ RowsChangedBy(p)

(* genNodeGrpPXE: the nodes whose files it will write; with -s only those  *)
(* that are Expired.                                                       *)
ListHosts(p) ==
  /\ at[p] = "list"
  /\ LET hosts == IF job[p].op = "unsynced"
                  THEN {n \in Node : db[n].state = "Expired"} ELSE Node
     IN  /\ todo' = [todo EXCEPT ![p] = hosts]
         /\ job' = [job EXCEPT ![p].hosts = hosts]
  /\ Goto(p, "expire")
  /\ UNCHANGED <<database, pxe, nodes, row, disturbed, history>>

(* The nodes that -s has not listed, and whose rows are other ones now.    *)
LeftBy(p) ==
  {n \in Node \ todo[p] : job[p].op = "unsynced" /\ pxe[n] # Wanted(n)'}

(* genNodeGrpPXE: a new kernel expires every node of the group, whether it *)
(* is listed or not, and -r does; a new kernel skips the reset.            *)
ExpireGroup(p) ==
  /\ at[p] = "expire"
  /\ IF Changes(p)            THEN ExpireRows(Node, "unset")
     ELSE IF job[p].reinstall THEN ExpireRows(Node, "same")
     ELSE UNCHANGED db
  /\ Goto(p, IF Changes(p) THEN "update" ELSE "reset")
  /\ UNCHANGED <<ngKernel, pxe, nodes, job, todo, row, disturbed>>
  /\ RowsChangedBy(p)
  /\ stale' = stale \cup LeftBy(p)

(* genNodeGrpPXE: a node with a kernel of its own loses it.                *)
ResetCustom(p) ==
  /\ at[p] = "reset"
  /\ ExpireRows({n \in Node : db[n].kernel # "none"}, "unset")
  /\ Goto(p, "update")
  /\ UNCHANGED <<ngKernel, pxe, nodes, job, todo, row, disturbed>>
  /\ RowsChangedBy(p)
  /\ stale' = stale \cup LeftBy(p)

(* __genNodesPXE, the update of the row of the next node: with -m only,    *)
(* and only when there is something to set.  An UPDATE that fails is       *)
(* reported, and that is all.                                              *)
SetsColumns(p) == job[p].op = "nodes" /\ (Changes(p) \/ job[p].reinstall)

UpdateNode(p, n) ==
  /\ at[p] = "update"
  /\ n \in todo[p]
  /\ SetsColumns(p)
  /\ ExpireRows({n}, job[p].kernel) \/ UNCHANGED db
  /\ row' = [row EXCEPT ![p] = [NoRow EXCEPT !.node = n]]
  /\ Goto(p, "query")
  /\ UNCHANGED <<ngKernel, pxe, nodes, job, todo, disturbed, stale>>
  /\ RowsChangedBy(p)

(* __genNodesPXE, the SELECT: the row joined with that of the group.       *)
QueryNode(p, n) ==
  /\ \/ at[p] = "query" /\ n = row[p].node
     \/ at[p] = "update" /\ n \in todo[p] /\ ~SetsColumns(p)
  /\ row' = [row EXCEPT ![p] = [node |-> n, local |-> db[n].local,
                                kernel |-> EffectiveKernel(n)]]
  /\ Goto(p, "write")
  /\ UNCHANGED <<database, pxe, nodes, job, todo, disturbed, history>>

(* The process is gone; a node that waits for its CGI has its answer, and  *)
(* a node that was rebooted waits no longer.                               *)
Ends(p, rebooted) ==
  /\ Goto(p, "idle")
  /\ job' = [job EXCEPT ![p] = NoJob]
  /\ todo' = [todo EXCEPT ![p] = {}]
  /\ row' = [row EXCEPT ![p] = NoRow]
  /\ asks' = [n \in Node |->
                IF n \in rebooted \/ p = <<n, asks[n]>> THEN "none" ELSE asks[n]]
  /\ crossed' = crossed \ {p}

(* mkPXEFile: written from the row that was read, whatever the row is now. *)
Written(r) == [local |-> r.local, kernel |-> r.kernel]

(* A CGI has one file to write, and ends with it.                          *)
MkPXEFile(p, n) ==
  /\ at[p] = "write"
  /\ n = row[p].node
  /\ pxe' = [pxe EXCEPT ![n] = Written(row[p])]
  /\ LET old == p \in crossed /\ Written(row[p]) # Wanted(n)
     IN  /\ stale' = IF old THEN stale \cup {n} ELSE stale \ {n}
         /\ mishap' = IF old THEN [mishap EXCEPT ![n] = @ \cup {"file"}] ELSE mishap
  /\ IF job[p].op = "cgi"
     THEN Ends(p, {})
     ELSE /\ Goto(p, "update")
          /\ todo' = [todo EXCEPT ![p] = @ \ {n}]
          /\ row' = [row EXCEPT ![p] = NoRow]
          /\ crossed' = crossed \ {p}
          /\ UNCHANGED <<job, asks>>
  /\ UNCHANGED <<database, machine, booted, disk, disturbed>>

(* run: when all files are written, -r reboots, by pdsh, the nodes that    *)
(* were listed; only a node that is up answers.                            *)
Finish(p) ==
  /\ at[p] = "update"
  /\ todo[p] = {}
  /\ LET rebooted == {n \in job[p].hosts : job[p].reinstall /\ machine[n] = "up"}
     IN  /\ machine' = [n \in Node |-> IF n \in rebooted THEN "off" ELSE machine[n]]
         /\ Ends(p, rebooted)
  /\ UNCHANGED <<database, pxe, booted, disk, disturbed, stale, mishap>>

(* The nodes whose file p has still to write, as its database steps say:   *)
(* all of the group while it is being listed and expired.                  *)
Ahead(p, n) == at[p] \in {"list", "expire"} \/ n \in todo[p]

(* kusu-boothost is killed, or ends on an error of the database, which     *)
(* most of its statements do; the group may be left with a new kernel and  *)
(* its nodes without.                                                      *)
Stop(p) ==
  /\ at[p] # "idle"
  /\ disturbed < MaxDisturb
  /\ disturbed' = disturbed + 1
  /\ Ends(p, {})
  /\ stale' = stale \cup {n \in Node : Ahead(p, n) /\ pxe[n] # Wanted(n)}
  /\ mishap' = [n \in Node |->
       mishap[n] \cup IF at[p] \in {"list", "expire"} /\ Changes(p)
                      THEN {"kernel"} ELSE {}]
  /\ UNCHANGED <<database, pxe, machine, booted, disk>>

BootHost(p) ==
  \/ UpdateGroup(p) \/ ListHosts(p) \/ ExpireGroup(p) \/ ResetCustom(p)
  \/ \E n \in Node : UpdateNode(p, n) \/ QueryNode(p, n) \/ MkPXEFile(p, n)
  \/ Finish(p)

---------------------------------------------------------------------------
(* The administrators                                                      *)

(* parseargs and run.  -p NULL unsets the parameters of a node.            *)
StartAdmin(a, op, N, k, reinstall) ==
  /\ at[a] = "idle"
  /\ disturbed < MaxDisturb
  /\ op \in Ops
  /\ op = "nodes" => N # {}
  /\ op # "nodes" => N = {} /\ k # "unset"
  /\ job' = [job EXCEPT ![a] = [op |-> op, hosts |-> N, kernel |-> k,
                                reinstall |-> reinstall]]
  /\ todo' = [todo EXCEPT ![a] = N]
  /\ Goto(a, IF op = "nodes" THEN "update" ELSE "groupKernel")
  /\ disturbed' = disturbed + 1
  /\ UNCHANGED <<database, pxe, nodes, row, history>>

---------------------------------------------------------------------------
(* The nodes and nodeboot.cgi                                              *)

Becomes(n, what) == machine' = [machine EXCEPT ![n] = what]

(* Variants with a fault: a bootfrom that is not given, -1, is stored as   *)
(* true; a state that is not given is stored; bootfrom is never stored.    *)
NodeInfo_Unguarded(r, state, boot) ==
  [r EXCEPT !.state = IF state = "" THEN @ ELSE state, !.local = boot # "network"]

NodeInfo_NoState(r, state, boot) ==
  [r EXCEPT !.state = state,
            !.local = IF boot = "unchanged" THEN @ ELSE boot = "disk"]

NodeInfo_NoBoot(r, state, boot) ==
  [r EXCEPT !.state = IF state = "" THEN @ ELSE state]

(* setNodeInfo: a state that is given, and a bootfrom that is given.       *)
NodeInfo(r, state, boot) ==
  [r EXCEPT !.state = IF state = "" THEN @ ELSE state,
            !.local = IF boot = "unchanged" THEN @ ELSE boot = "disk"]

(* Slots are alike: one that is free.                                      *)
FreeSlot(n) == CHOOSE s \in Slot : at[<<n, s>>] = "idle"

(* The CGI: setNodeInfo, and then regenPXE, which runs kusu-boothost.  It  *)
(* runs it for a request with no state and no bootfrom as well: bootfrom   *)
(* is then -1, which run() takes for true.                                 *)
Request(n, s, state, boot) ==
  /\ at[<<n, s>>] = "idle"
  /\ s = FreeSlot(n)
  /\ db' = [db EXCEPT ![n] = NodeInfo(@, state, boot)]
  /\ job' = [job EXCEPT ![<<n, s>>] = [NoJob EXCEPT !.hosts = {n}]]
  /\ todo' = [todo EXCEPT ![<<n, s>>] = {n}]
  /\ Goto(<<n, s>>, "update")
  /\ UNCHANGED <<ngKernel, pxe, booted, disk, row, disturbed, stale>>
  /\ RowsChangedBy(<<n, s>>)

(* The node waits for the answer.                                          *)
WaitFor(n, s) == asks[n] = "none" /\ asks' = [asks EXCEPT ![n] = s]

(* The template of the PXE file: the local disk, or the installer.         *)
Boot(n) ==
  /\ machine[n] = "off"
  /\ IF pxe[n].local
     THEN /\ Becomes(n, IF disk[n] = "none" THEN "stuck" ELSE "up")
          /\ UNCHANGED <<booted, mishap>>
     ELSE /\ Becomes(n, "contact")
          /\ booted' = [booted EXCEPT ![n] = pxe[n].kernel]
          /\ mishap' = [mishap EXCEPT
                          ![n] = IF pxe[n] = Wanted(n) THEN {} ELSE {"boot"}]
  /\ UNCHANGED <<database, pxe, disk, asks, boothost, disturbed, crossed, stale>>

(* retrieveNII: the installer asks for the node's information.             *)
RetrieveNII(n, s) ==
  /\ machine[n] = "contact"
  /\ Request(n, s, "Installing", "unchanged")
  /\ WaitFor(n, s)
  /\ Becomes(n, "asked")

(* The installation starts with the answer, and wipes the disk.            *)
Partition(n) ==
  /\ machine[n] = "asked"
  /\ asks[n] = "none"
  /\ Becomes(n, "installing")
  /\ disk' = [disk EXCEPT ![n] = "none"]
  /\ UNCHANGED <<database, pxe, booted, asks, boothost, disturbed, history>>

Install(n) ==
  /\ machine[n] = "installing"
  /\ Becomes(n, "installed")
  /\ disk' = [disk EXCEPT ![n] = booted[n]]
  /\ booted' = [booted EXCEPT ![n] = "none"]
  /\ UNCHANGED <<database, pxe, asks, boothost, disturbed, history>>

(* updatestate, which anaconda runs after an installation that succeeded.  *)
UpdateState(n, s) ==
  /\ machine[n] = "installed"
  /\ Request(n, s, "Installed", "disk")
  /\ WaitFor(n, s)
  /\ Becomes(n, "reported")

Restart(n) ==
  /\ machine[n] = "reported"
  /\ asks[n] = "none"
  /\ Becomes(n, "off")
  /\ UNCHANGED <<database, pxe, booted, disk, asks, boothost, disturbed, history>>

(* cfmclient, after an update of the packages.                             *)
CfmUpdate(n, s) ==
  /\ machine[n] = "up"
  /\ Request(n, s, "Installed", "unchanged")
  /\ WaitFor(n, s)
  /\ UNCHANGED machine

(* updatenic, a plugin of cfmclient, only asks for the node's information. *)
UpdateNic(n, s) ==
  /\ machine[n] = "up"
  /\ Request(n, s, "", "unchanged")
  /\ WaitFor(n, s)
  /\ UNCHANGED machine

(* cfmd kills the cfmclient that waits.                                    *)
KillClient(n) ==
  /\ machine[n] = "up"
  /\ asks[n] # "none"
  /\ disturbed < MaxDisturb
  /\ disturbed' = disturbed + 1
  /\ asks' = [asks EXCEPT ![n] = "none"]
  /\ UNCHANGED <<database, pxe, machine, booted, disk, boothost, history>>

(* A node is restarted or loses power, wherever it is.  The CGI it may     *)
(* have asked for goes on.                                                 *)
PowerCycle(n) ==
  /\ machine[n] # "off"
  /\ disturbed < MaxDisturb
  /\ disturbed' = disturbed + 1
  /\ Becomes(n, "off")
  /\ asks' = [asks EXCEPT ![n] = "none"]
  /\ booted' = [booted EXCEPT ![n] = "none"]
  /\ UNCHANGED <<database, pxe, disk, boothost, history>>

(* What a node does on its way up.                                         *)
NodeStep(n) ==
  \/ Boot(n) \/ Partition(n) \/ Install(n) \/ Restart(n)
  \/ \E s \in Slot : RetrieveNII(n, s) \/ UpdateState(n, s)

Next ==
  \/ \E p \in Process : BootHost(p) \/ Stop(p)
  \/ \E a \in Admin, op \in Ops, N \in SUBSET Node,
        k \in Kernel \cup {"same", "unset"}, reinstall \in BOOLEAN :
       StartAdmin(a, op, N, k, reinstall)
  \/ \E n \in Node : \/ NodeStep(n) \/ KillClient(n) \/ PowerCycle(n)
                    \/ \E s \in Slot : CfmUpdate(n, s) \/ UpdateNic(n, s)

Spec == Init /\ [][Next]_vars

(* A process that was started runs on, and a node on its way up goes on.   *)
(* Administrators need not do anything.                                    *)
FairSpec == /\ Spec
            /\ \A p \in Process : WF_vars(BootHost(p))
            /\ \A n \in Node : WF_vars(NodeStep(n))

---------------------------------------------------------------------------
(* Properties                                                              *)

Working(p, n) == at[p] # "idle" /\ (job[p].op \in {"group", "unsynced"}
                                    \/ n \in job[p].hosts)

Settled(n) == \A p \in Process : ~Working(p, n)

(* The man page of kusu-boothost: "The command will read the database and  *)
(* regenerate the booting PXE file".  When no process is at work for a     *)
(* node, its PXE file says what the database says, whatever ran at the     *)
(* same time, unless it was written from a row that had changed since, or  *)
(* was left out by -s or by a process that was stopped.                    *)
PxeFollowsDb ==
  \A n \in Node : Settled(n) /\ n \notin stale => pxe[n] = Wanted(n)

(* A node the database sends to its disk was last installed with the       *)
(* kernel the database has for it, unless its installer was booted by      *)
(* another PXE file than its row asked for, or the kernel was changed      *)
(* during the installation or by a process that was stopped before it      *)
(* expired the nodes.                                                      *)
DiskIsCurrent ==
  \A n \in Node : /\ Settled(n)
                  /\ db[n].local
                  /\ mishap[n] \cap {"boot", "kernel"} = {}
    => disk[n] = EffectiveKernel(n)

(* A node is never sent to a disk that an interrupted installation wiped,  *)
(* from where nothing but an administrator gets it (updatestate is the     *)
(* last step), unless its installer was booted by another PXE file than    *)
(* its row asked for, or an older row was written over the file since.     *)
NeverStuck ==
  \A n \in Node : machine[n] = "stuck" => mishap[n] \cap {"boot", "file"} # {}

(* __mkUpdateSql: "A reinstall has to occur if the kernel, initrd, or      *)
(* kparams changes."  A node whose PXE file sends it to its disk, with     *)
(* nobody at work for it, was installed with the kernel it has now.        *)
ReinstallOccurs ==
  \A n \in Node : Settled(n) /\ pxe[n].local => disk[n] = EffectiveKernel(n)

(* Every node comes up, again after each restart, whatever administrators  *)
(* and kills do meanwhile: it does not install for ever.                   *)
NodeComesUp == \A n \in Node : []<>(machine[n] \in {"up", "stuck"})
===========================================================================
