------------------------------ MODULE AddHost ------------------------------
(***************************************************************************)
(* Hosts of the cluster: kusu-addhost adds, removes and replaces them      *)
(* (kusu-base-installer/sbin/kusu-addhost.py, lib/kusu/nodefun.py).        *)
(*                                                                         *)
(* A host is a row of nodes, a row of nics, a host in the DHCP server and  *)
(* a PXE file (its plugins, kit-base/plugins/addhost).  Every statement is *)
(* committed at once.  A NodeFun reads the addresses, MACs and names in    *)
(* use when it is made: that of the program is made when the program is    *)
(* loaded, before the lock is looked at, that of a listener anew for every *)
(* node it discovers.                                                      *)
(*                                                                         *)
(* One node group besides "unmanaged", names without a rack, one network,  *)
(* whose addresses are numbered from its startip, no names in the file of  *)
(* an import and no preserved addresses.  The primary installer has no row *)
(* here; its name is Installer.  Other programs with a lock of their own   *)
(* do not run, and no statement fails but for a unique column, a foreign   *)
(* key (a nic is of a node) or a missing row.                              *)
(***************************************************************************)
EXTENDS Naturals, Sequences, FiniteSets, Functions

CONSTANTS
  Proc,      \* the runs of kusu-addhost that go on at once
  Mac,
  NoMac,     \* NULL
  MaxIp,     \* bound on the addresses of the network
  MaxRank,   \* bound on ranks
  MaxNid,    \* bound on the rows ever inserted
  Request,   \* what kusu-addhost may be asked: records [kind, todo, name, hint],
             \* todo the MACs of the file or the names to remove, name the host
             \* to add or replace or the rank to start from, hint the address
             \* given with it (0: none)
  MaxRuns,   \* bound on the runs of kusu-addhost
  MaxKills   \* bound on killed processes

Ip == 1..MaxIp
Rank == 0..MaxRank
Nid == 1..MaxNid
Installer == MaxRank + 1

Kind == {"import", "listen", "static", "remove", "replace"}

ASSUME AddHostAssumption ==
  /\ NoMac \notin Mac
  /\ MaxIp \in Nat /\ MaxRank \in Nat /\ MaxNid \in Nat
  /\ MaxRuns \in Nat /\ MaxKills \in Nat
  /\ \A r \in Request :
       /\ r.kind \in Kind /\ r.name \in Rank /\ r.hint \in Ip \cup {0}
       /\ r.kind = "import" => r.todo \in Seq(Mac)
       /\ r.kind = "remove" => r.todo \in Seq(Rank \cup {Installer})
       /\ r.kind \notin {"import", "remove"} => r.todo = <<>>
       /\ r.kind = "static" => r.hint \in Ip

VARIABLES
  nodes,     \* nid -> its name and whether its node group is a managed one
  nics,      \* nid -> its address and MAC
  lease,     \* name -> the host the DHCP server has been told of
  pxe,       \* the MACs that have a PXE file
  nextNid,
  lockFile,  \* is there /var/lock/subsys/kusu-addhost
  run,       \* what each process is doing
  runs, kills,
  doubtful,  \* history: rows of nics whose inserter had not seen others' rows
  cut,       \* history: names a process was interrupted on or refused
  overlap    \* history: have two processes ever worked at the same time

db == <<nodes, nics, nextNid>>
boot == <<lease, pxe>>
bounds == <<runs, kills>>
history == <<doubtful, cut, overlap>>
vars == <<db, boot, lockFile, run, bounds, history>>

(* What a process keeps: where it is, the request, the host it is at, what *)
(* its NodeFun has read (ips, macs, names, and the address given last),    *)
(* the names done, and whether the installer was among the names asked for *)
(* so far (_isMasterInstaller).  behind is history: have others inserted nics     *)
(* since this process read them.                                           *)
Idle == [at |-> "idle", kind |-> "none", todo |-> <<>>, start |-> 0, hint |-> 0,
         name |-> 0, mac |-> NoMac, nid |-> 0, ips |-> {}, macs |-> {},
         names |-> {}, last |-> 1, again |-> FALSE, done |-> <<>>,
         master |-> FALSE, behind |-> FALSE]

At(p, place) == run[p].at = place
Kinds(p, kinds) == run[p].kind \in kinds
Adding == {"import", "listen"}
Working(p) == run[p].at \notin {"idle", "check", "lock"}
Step(p, place) == run' = [run EXCEPT ![p].at = place]

(* f with v for k; the first of the numbers S.                             *)
With(f, k, v) == [x \in DOMAIN f \cup {k} |-> IF x = k THEN v ELSE f[x]]
Least(x, S) == x \in S /\ \A y \in S : x <= y

(* The name of a managed node is its rank.                                 *)
Ranks == {nodes[i].name : i \in {j \in DOMAIN nodes : nodes[j].managed}}
Names == {nodes[i].name : i \in DOMAIN nodes}
Macs == {nics[i].mac : i \in DOMAIN nics} \ {NoMac}
Ips == {nics[i].ip : i \in DOMAIN nics}

(* getClusterHostNames joins nodes with nics: a row without is not seen.   *)
Reserved == {nodes[i].name : i \in DOMAIN nics}
NidOf(n) == CHOOSE i \in DOMAIN nodes : nodes[i].name = n

AddHostTypeOK ==
  /\ DOMAIN nodes \subseteq Nid /\ DOMAIN nics \subseteq DOMAIN nodes
  /\ \A i \in DOMAIN nodes : nodes[i] \in [name : Rank, managed : BOOLEAN]
  /\ \A i \in DOMAIN nics : nics[i] \in [ip : Ip, mac : Mac \cup {NoMac}]
  /\ \A i, j \in DOMAIN nodes : nodes[i].name = nodes[j].name => i = j
  /\ \A i, j \in DOMAIN nics :
       nics[i].mac = nics[j].mac /\ nics[i].mac # NoMac => i = j
  /\ DOMAIN lease \subseteq Rank
  /\ \A n \in DOMAIN lease : lease[n] \in [ip : Ip, mac : Mac]
  /\ pxe \subseteq Mac
  /\ nextNid \in 1..(MaxNid + 1)
  /\ lockFile \in BOOLEAN
  /\ \A p \in Proc : run[p] = Idle \/ run[p].kind \in Kind
  /\ doubtful \subseteq Nid /\ cut \subseteq Rank /\ overlap \in BOOLEAN

Init ==
  /\ nodes = <<>> /\ nics = <<>> /\ nextNid = 1
  /\ lease = <<>> /\ pxe = {}
  /\ lockFile = FALSE
  /\ run = [p \in Proc |-> Idle]
  /\ runs = 0 /\ kills = 0
  /\ doubtful = {} /\ cut = {} /\ overlap = FALSE

----------------------------------------------------------------------------
(* A run begins and ends.                                                  *)

(* The module is loaded: myNode reads every row of nodes and nics, the     *)
(* installer's too.                                                        *)
Start(p, r) ==
  /\ At(p, "idle") /\ runs < MaxRuns
  /\ runs' = runs + 1
  /\ run' = [run EXCEPT ![p] =
       [Idle EXCEPT !.at = "check", !.kind = r.kind, !.todo = r.todo,
          !.start = r.name, !.name = r.name, !.hint = r.hint, !.ips = Ips,
          !.macs = Macs, !.names = Names \cup {Installer}]]
  /\ UNCHANGED <<db, boot, lockFile, kills, history>>

(* parse: a bad value of -n removes the lock file, whoever's it is.        *)
BadOption ==
  /\ runs < MaxRuns
  /\ runs' = runs + 1
  /\ lockFile' = FALSE
  /\ UNCHANGED <<db, boot, run, kills, history>>

(* initAction: the test of the lock, and a moment later the lock.          *)
Check(p) ==
  /\ At(p, "check")
  /\ run' = [run EXCEPT ![p] = IF lockFile THEN Idle ELSE [@ EXCEPT !.at = "lock"]]
  /\ UNCHANGED <<db, boot, lockFile, bounds, history>>

Lock(p) ==
  /\ At(p, "lock")
  /\ lockFile' = TRUE
  /\ overlap' = (overlap \/ \E q \in Proc : Working(q))
  /\ Step(p, "work")
  /\ UNCHANGED <<db, boot, bounds, doubtful, cut>>

(* exitSuccessAndUnlock, exitFailedAndUnlock, and the exits in nodefun.    *)
ExitAndUnlock(p) ==
  /\ run' = [run EXCEPT ![p] = Idle]
  /\ lockFile' = FALSE

(* What p leaves half done: the host it is at, and when it imports those   *)
(* whose PXE files the end of the import would write.                      *)
Unfinished(p) ==
  (IF Working(p) /\ run[p].at \notin {"work", "load", "pick", "row"}
   THEN {run[p].name} ELSE {})
    \cup (IF Kinds(p, {"import"}) THEN Range(run[p].done) ELSE {})

(* An exception nobody catches, a plugin's for one, or a killed process:   *)
(* the lock file stays.                                                    *)
Dies(p) ==
  /\ run' = [run EXCEPT ![p] = Idle]
  /\ cut' = cut \cup Unfinished(p)

Kill(p) ==
  /\ ~At(p, "idle") /\ kills < MaxKills
  /\ kills' = kills + 1
  /\ Dies(p)
  /\ UNCHANGED <<db, boot, lockFile, runs, doubtful, overlap>>

(* "Delete the lockfile to run": the administrator, when nothing works.    *)
RemoveLockFile ==
  /\ lockFile /\ \A p \in Proc : ~Working(p)
  /\ lockFile' = FALSE
  /\ UNCHANGED <<db, boot, run, bounds, history>>

----------------------------------------------------------------------------
(* Adding nodes, from a file of MACs or as they are discovered.            *)

(* doImportMacs: the next line of the file.                                *)
ImportLine(p) ==
  /\ At(p, "work") /\ Kinds(p, {"import"}) /\ run[p].todo # <<>>
  /\ LET m == Head(run[p].todo) IN
     run' = [run EXCEPT ![p].todo = Tail(@), ![p].mac = m, ![p].name = run[p].start,
               ![p].at = IF m \in run[p].macs THEN "work" ELSE "pick"]
  /\ UNCHANGED <<db, boot, lockFile, bounds, history>>

(* scanSyslogForPXEReqs: a DHCPDISCOVER from a MAC a new NodeFun has not.  *)
(* An address asked for (-x) must be free when the program begins; after   *)
(* the host that gets it only those of the same batch of lines are added.  *)
Discover(p, m) ==
  /\ At(p, "work") /\ Kinds(p, {"listen"}) /\ m \notin Macs
  /\ run[p].done = <<>> => run[p].hint \notin run[p].ips
  /\ run' = [run EXCEPT ![p].at = "load", ![p].mac = m]
  /\ UNCHANGED <<db, boot, lockFile, bounds, history>>

(* A second new NodeFun, that of the node group, adds the node.  Without   *)
(* a screen the first call of addNode fails before it does anything.       *)
Load(p) ==
  /\ At(p, "load")
  /\ \E again \in BOOLEAN :
       run' = [run EXCEPT ![p] = [@ EXCEPT !.at = "pick", !.ips = Ips, !.macs = Macs,
                 !.names = Ranks, !.last = 1, !.name = run[p].start, !.again = again,
                 !.behind = FALSE]]
  /\ UNCHANGED <<db, boot, lockFile, bounds, history>>

(* The ranks addNode tries: from the one asked for, or, when that is the   *)
(* lowest in use, from the first free one above it; _genHostName skips     *)
(* the names of hosts.                                                     *)
Candidates(start) ==
  {r \in Rank \ Reserved :
     /\ start <= r
     /\ Least(start, Ranks) => \E free \in start..r : free \notin Ranks}

(* Then those NodeFun has read are skipped, as many as it has read but one.*)
Chosen(p) ==
  LET cand == Candidates(run[p].name)
      skips == IF run[p].names = {} THEN 0 ELSE Cardinality(run[p].names) - 1
  IN {r \in cand : r \notin run[p].names \/ Cardinality({d \in cand : d < r}) >= skips}

PickName(p) ==
  /\ At(p, "pick")
  /\ \E r \in Rank :
       Least(r, Chosen(p)) /\ run' = [run EXCEPT ![p].at = "row", ![p].name = r]
  /\ UNCHANGED <<db, boot, lockFile, bounds, history>>

(* An exception before there is a row: the listener calls addNode again.   *)
Fails(p) ==
  IF Kinds(p, {"listen"}) /\ ~run[p].again
  THEN /\ run' = [run EXCEPT ![p].at = "pick", ![p].again = TRUE]
       /\ UNCHANGED cut
  ELSE Dies(p)

Inserted(p, managed) ==
  /\ nextNid <= MaxNid
  /\ nodes' = With(nodes, nextNid, [name |-> run[p].name, managed |-> managed])
  /\ nextNid' = nextNid + 1
  /\ run' = [run EXCEPT ![p].at = "address", ![p].nid = nextNid,
               ![p].names = @ \cup {run[p].name}]
  /\ cut' = cut \ {run[p].name}

(* _createNodeEntry: nothing when the name has been read.                  *)
InsertRow(p) ==
  /\ At(p, "row") /\ Kinds(p, Adding)
  /\ \/ /\ run[p].name \in run[p].names
        /\ Step(p, "plugin")
        /\ UNCHANGED <<nodes, nextNid, cut>>
     \/ /\ run[p].name \notin run[p].names /\ run[p].name \in Names
        /\ Fails(p)
        /\ UNCHANGED <<nodes, nextNid>>
     \/ /\ run[p].name \notin run[p].names \cup Names
        /\ Inserted(p, TRUE)
  /\ UNCHANGED <<nics, boot, lockFile, bounds, doubtful, overlap>>

(* The address asked for, or the first from the one given last that has    *)
(* not been read or given; the listener looks from the one asked for.      *)
Addresses(p) ==
  LET from == IF Kinds(p, {"listen"}) /\ run[p].hint # 0
              THEN run[p].hint ELSE run[p].last
  IN IF Kinds(p, {"import"}) /\ run[p].hint \in Ip \ run[p].ips
     THEN {run[p].hint}
     ELSE {i \in from..MaxIp : i \notin run[p].ips}

(* The listener gives the nic no MAC when the MAC has been read.           *)
MacFor(p) ==
  IF Kinds(p, {"listen"}) /\ run[p].mac \in run[p].macs THEN NoMac ELSE run[p].mac

(* Mutant: the address given is not added to those that were read.         *)
NicInserted_NotCached(p, place, ip, mac) ==
  /\ nics' = With(nics, run[p].nid, [ip |-> ip, mac |-> mac])
  /\ UNCHANGED doubtful
  /\ run' = [q \in Proc |->
       IF q = p
       THEN [run[p] EXCEPT !.at = place, !.last = ip, !.mac = mac,
               !.macs = @ \cup {run[p].mac}]
       ELSE [run[q] EXCEPT !.behind = ~At(q, "idle")]]

(* The row, and _addUsedIP.                                                *)
NicInserted(p, place, ip, mac) ==
  /\ nics' = With(nics, run[p].nid, [ip |-> ip, mac |-> mac])
  /\ doubtful' = IF run[p].behind THEN doubtful \cup {run[p].nid} ELSE doubtful
  /\ run' = [q \in Proc |->
       IF q = p
       THEN [run[p] EXCEPT !.at = place, !.ips = @ \cup {ip}, !.last = ip,
               !.macs = @ \cup {run[p].mac}, !.mac = mac]
       ELSE [run[q] EXCEPT !.behind = ~At(q, "idle")]]

(* Nothing when the node is gone; a nic without a MAC is not missed.       *)
InsertNic(p) ==
  /\ At(p, "address") /\ Kinds(p, Adding)
  /\ \E ip \in Ip :
     /\ Least(ip, Addresses(p))
     /\ LET may == MacFor(p) \notin Macs /\ run[p].nid \in DOMAIN nodes
            read == [run EXCEPT ![p].ips = @ \cup {ip}, ![p].last = ip,
                       ![p].macs = @ \cup {run[p].mac}]
        IN
        \/ /\ may
           /\ NicInserted(p, "lease", ip, MacFor(p))
           /\ UNCHANGED cut
        \/ /\ ~may /\ MacFor(p) = NoMac
           /\ run' = [read EXCEPT ![p].at = "lease", ![p].mac = NoMac]
           /\ UNCHANGED <<nics, doubtful, cut>>
        \/ /\ ~may /\ MacFor(p) # NoMac
           /\ LET retry == Kinds(p, {"listen"}) /\ ~run[p].again IN
              /\ run' = IF retry
                        THEN [read EXCEPT ![p].at = "pick", ![p].again = TRUE]
                        ELSE [run EXCEPT ![p] = Idle]
              /\ cut' = cut \cup (IF retry THEN {run[p].name} ELSE Unfinished(p))
           /\ UNCHANGED <<nics, doubtful>>
  /\ UNCHANGED <<nodes, nextNid, boot, lockFile, bounds, overlap>>

(* No address is left: an import takes the row back, the listener does     *)
(* not (os._exit).                                                         *)
Overflow(p) ==
  /\ At(p, "address") /\ Kinds(p, Adding) /\ Addresses(p) = {}
  /\ nodes' = IF Kinds(p, {"import"})
              THEN Restrict(nodes, DOMAIN nodes \ {run[p].nid}) ELSE nodes
  /\ cut' = cut \cup Unfinished(p)
  /\ ExitAndUnlock(p)
  /\ UNCHANGED <<nics, nextNid, boot, bounds, doubtful, overlap>>

(* Mutant: a nic without a MAC is a host of the DHCP server's too.         *)
WriteLease_NoMac(p) ==
  /\ At(p, "lease")
  /\ lease' = IF run[p].name \in DOMAIN lease THEN lease
              ELSE With(lease, run[p].name, [ip |-> run[p].last, mac |-> run[p].mac])
  /\ run' = [run EXCEPT ![p].at = "plugin"]
  /\ UNCHANGED <<db, pxe, lockFile, bounds, history>>

(* _writeDHCPLease: omshell does nothing about a name it knows.            *)
WriteLease(p) ==
  /\ At(p, "lease")
  /\ lease' = IF run[p].mac = NoMac \/ run[p].name \in DOMAIN lease THEN lease
              ELSE With(lease, run[p].name, [ip |-> run[p].last, mac |-> run[p].mac])
  /\ run' = [run EXCEPT ![p].at = "plugin"]
  /\ UNCHANGED <<db, pxe, lockFile, bounds, history>>

(* boothost -m: the PXE file of a host.                                    *)
PxeOf(n) == {nics[i].mac : i \in {j \in DOMAIN nics : nodes[j].name = n}} \ {NoMac}

(* The names done, each once: a replacement has but one.                   *)
Done(p) ==
  IF Kinds(p, {"replace"}) THEN <<run[p].name>> ELSE Append(run[p].done, run[p].name)

(* plugins_add, plugins_replaced.  The added() of the plugins wants a row  *)
(* of nics, and the end of an import writes the PXE file.                  *)
Plugins(p) ==
  /\ At(p, "plugin")
  /\ \/ /\ run[p].name \in Reserved
        /\ pxe' = IF Kinds(p, {"listen"}) THEN pxe \cup PxeOf(run[p].name) ELSE pxe
        /\ run' = [run EXCEPT ![p].at = "work", ![p].done = Done(p)]
        /\ UNCHANGED cut
     \/ /\ run[p].name \notin Reserved
        /\ Dies(p)
        /\ UNCHANGED pxe
  /\ UNCHANGED <<db, lease, lockFile, bounds, doubtful, overlap>>

----------------------------------------------------------------------------
(* A host with an address of its own (addUnmanagedStaticDevice).           *)

AddStatic(p) ==
  /\ At(p, "work") /\ Kinds(p, {"static"}) /\ run[p].done = <<>>
  /\ \/ /\ run[p].name \in Reserved \/ run[p].hint \in run[p].ips
        /\ ExitAndUnlock(p)
        /\ UNCHANGED <<nodes, nextNid, cut>>
     \/ /\ run[p].name \notin Reserved /\ run[p].hint \notin run[p].ips
        /\ UNCHANGED lockFile
        /\ \/ /\ run[p].name \in Names
              /\ Dies(p)
              /\ UNCHANGED <<nodes, nextNid>>
           \/ /\ run[p].name \notin Names
              /\ Inserted(p, FALSE)
  /\ UNCHANGED <<nics, boot, bounds, doubtful, overlap>>

StaticNic(p) ==
  /\ At(p, "address") /\ Kinds(p, {"static"})
  /\ \/ /\ run[p].nid \in DOMAIN nodes
        /\ NicInserted(p, "plugin", run[p].hint, NoMac)
        /\ UNCHANGED cut
     \/ /\ run[p].nid \notin DOMAIN nodes
        /\ Dies(p)
        /\ UNCHANGED <<nics, doubtful>>
  /\ UNCHANGED <<nodes, nextNid, boot, lockFile, bounds, overlap>>

----------------------------------------------------------------------------
(* Removing hosts (doDelNodes, deleteNode): the plugins first, then the    *)
(* DHCP server, the nics and the node.                                     *)

(* The next name: one that is not known is passed over, and so is the      *)
(* installer, after which getNodeID remembers that it was asked for.       *)
RemoveName(p) ==
  /\ At(p, "work") /\ Kinds(p, {"remove"}) /\ run[p].todo # <<>>
  /\ LET n == Head(run[p].todo)
         rest == [run EXCEPT ![p].todo = Tail(@)]
     IN \/ /\ n = Installer
           /\ run' = [rest EXCEPT ![p].master = TRUE]
           /\ UNCHANGED pxe
        \/ /\ n # Installer /\ n \notin Reserved
           /\ run' = rest
           /\ UNCHANGED pxe
        \/ /\ n \in Reserved
           /\ pxe' = pxe \ PxeOf(n)
           /\ run' = [rest EXCEPT ![p].at = "delete", ![p].name = n]
  /\ UNCHANGED <<db, lease, lockFile, bounds, history>>

(* After the installer a host is refused, its PXE file gone.               *)
DeleteLease(p) ==
  /\ At(p, "delete")
  /\ \/ /\ run[p].master
        /\ Step(p, "work")
        /\ cut' = cut \cup {run[p].name}
        /\ UNCHANGED lease
     \/ /\ ~run[p].master /\ run[p].name \notin Names
        /\ Step(p, "work")
        /\ UNCHANGED <<lease, cut>>
     \/ /\ ~run[p].master /\ run[p].name \in Names
        /\ run' = [run EXCEPT ![p].at = "nics", ![p].nid = NidOf(run[p].name)]
        /\ lease' = Restrict(lease, DOMAIN lease \ {run[p].name})
        /\ UNCHANGED cut
  /\ UNCHANGED <<db, pxe, lockFile, bounds, doubtful, overlap>>

DeleteNics(p) ==
  /\ At(p, "nics")
  /\ nics' = Restrict(nics, DOMAIN nics \ {run[p].nid})
  /\ Step(p, "nodes")
  /\ UNCHANGED <<nodes, nextNid, boot, lockFile, bounds, history>>

(* The key of a nic that was inserted meanwhile forbids it.                *)
DeleteNode(p) ==
  /\ At(p, "nodes")
  /\ \/ /\ run[p].nid \notin DOMAIN nics
        /\ nodes' = Restrict(nodes, DOMAIN nodes \ {run[p].nid})
        /\ run' = [run EXCEPT ![p].at = "work", ![p].done = Append(@, run[p].name)]
        /\ UNCHANGED cut
     \/ /\ run[p].nid \in DOMAIN nics
        /\ Dies(p)
        /\ UNCHANGED nodes
  /\ UNCHANGED <<nics, nextNid, boot, lockFile, bounds, doubtful, overlap>>

----------------------------------------------------------------------------
(* Replacing a host (replaceNodeEntry, replaceNICBootEntry): a new machine *)
(* takes the row of an old one.                                            *)

Replaceable(n) == \E i \in DOMAIN nics : nodes[i] = [name |-> n, managed |-> TRUE]

(* After a replacement the rest of the batch of lines is still gone        *)
(* through: another machine in it takes the row once more.                 *)
DiscoverNew(p, m) ==
  /\ At(p, "work") /\ Kinds(p, {"replace"})
  /\ m \notin Macs /\ Replaceable(run[p].name)
  /\ pxe' = pxe \ PxeOf(run[p].name)
  /\ run' = [run EXCEPT ![p].at = "forget", ![p].mac = m, ![p].nid = NidOf(run[p].name)]
  /\ UNCHANGED <<db, lease, lockFile, bounds, history>>

(* Mutant: the DHCP server is not told; the new host is not entered.       *)
ForgetLease_Not(p) ==
  /\ At(p, "forget")
  /\ Step(p, "clear")
  /\ UNCHANGED <<db, boot, lockFile, bounds, history>>

ForgetLease(p) ==
  /\ At(p, "forget")
  /\ lease' = Restrict(lease, DOMAIN lease \ {run[p].name})
  /\ Step(p, "clear")
  /\ UNCHANGED <<db, pxe, lockFile, bounds, history>>

(* UPDATE nics: no row, no change.                                         *)
ClearMac(p) ==
  /\ At(p, "clear")
  /\ nics' = [i \in DOMAIN nics |->
                IF i = run[p].nid THEN [nics[i] EXCEPT !.mac = NoMac] ELSE nics[i]]
  /\ Step(p, "set")
  /\ UNCHANGED <<nodes, nextNid, boot, lockFile, bounds, history>>

SetMac(p) ==
  /\ At(p, "set")
  /\ \/ /\ run[p].nid \in DOMAIN nics /\ run[p].mac \notin Macs
        /\ nics' = [nics EXCEPT ![run[p].nid].mac = run[p].mac]
        /\ run' = [run EXCEPT ![p].at = "boot", ![p].last = nics[run[p].nid].ip]
        /\ UNCHANGED cut
     \/ /\ run[p].nid \notin DOMAIN nics \/ run[p].mac \in Macs
        /\ Dies(p)
        /\ UNCHANGED nics
  /\ UNCHANGED <<nodes, nextNid, boot, lockFile, bounds, doubtful, overlap>>

BootHost(p) ==
  /\ At(p, "boot")
  /\ pxe' = pxe \cup PxeOf(run[p].name)
  /\ Step(p, "lease")
  /\ UNCHANGED <<db, lease, lockFile, bounds, history>>

----------------------------------------------------------------------------
(* plugins_finished and the end: after an import boothost -n writes the    *)
(* PXE files of the node group of the first host imported, if it is there. *)
GroupPxe(p) ==
  IF Kinds(p, {"import"}) /\ run[p].done # <<>> /\ Head(run[p].done) \in Names
  THEN {nics[i].mac : i \in {j \in DOMAIN nics : nodes[j].managed}} \ {NoMac}
  ELSE {}

(* A listener, that for a replacement too, may be ended whenever it waits. *)
Finish(p) ==
  /\ At(p, "work")
  /\ Kinds(p, {"import", "remove"}) => run[p].todo = <<>>
  /\ Kinds(p, {"static"}) => run[p].done # <<>>
  /\ pxe' = pxe \cup GroupPxe(p)
  /\ ExitAndUnlock(p)
  /\ UNCHANGED <<db, lease, bounds, history>>

Next ==
  \/ BadOption \/ RemoveLockFile
  \/ \E p \in Proc :
       \/ \E r \in Request : Start(p, r)
       \/ \E m \in Mac : Discover(p, m) \/ DiscoverNew(p, m)
       \/ Check(p) \/ Lock(p) \/ Kill(p) \/ Finish(p)
       \/ ImportLine(p) \/ Load(p) \/ PickName(p) \/ InsertRow(p)
       \/ InsertNic(p) \/ Overflow(p) \/ WriteLease(p) \/ Plugins(p)
       \/ AddStatic(p) \/ StaticNic(p)
       \/ RemoveName(p) \/ DeleteLease(p) \/ DeleteNics(p) \/ DeleteNode(p)
       \/ ForgetLease(p) \/ ClearMac(p) \/ SetMac(p) \/ BootHost(p)

Spec == Init /\ [][Next]_vars

----------------------------------------------------------------------------
(* What is kept.                                                           *)

(* No address is given twice (isIPUsed, _addUsedIP), but by a process that *)
(* had read the addresses before another wrote one.                        *)
AddressesUnique ==
  \A i, j \in DOMAIN nics :
    i # j /\ nics[i].ip = nics[j].ip => {i, j} \cap doubtful # {}

(* While no two processes work at once, the stores agree at every moment   *)
(* one way: what the DHCP server and the PXE directory hold is the address *)
(* and MAC of a row, of that name.  The other way they agree between runs: *)
(* a row has a nic, and a managed one a MAC, a PXE file and a DHCP host,   *)
(* but for the names a process was interrupted on or refused.              *)
StoresAgree ==
  ~overlap =>
    /\ \A n \in DOMAIN lease :
         \E i \in DOMAIN nics : nodes[i].name = n /\ nics[i] = lease[n]
    /\ pxe \subseteq Macs
    /\ (\A p \in Proc : ~Working(p)) =>
         \A i \in DOMAIN nodes : nodes[i].name \notin cut =>
           /\ i \in DOMAIN nics
           /\ nodes[i].managed => /\ nics[i].mac \in pxe
                                  /\ nodes[i].name \in DOMAIN lease
===========================================================================
