------------------------------- MODULE Cfmd -------------------------------
(***************************************************************************)
(* The CFM client daemon, kusu-base-node/cfm/cfmd.c: one process per node  *)
(* that listens for update notifications and runs cfmclient.  The state of *)
(* a node is what survives a crash (the file CFM_SEQUENCE) and what does   *)
(* not (the local variables of main, the socket's receive queue, the       *)
(* child).  The network is arbitrary here: Deliver may hand any packet to  *)
(* any set of nodes, so packets may be lost, repeated and reordered.       *)
(* CfmNotify composes this module with the senders of CfmNet.              *)
(***************************************************************************)
EXTENDS Naturals, Sequences

CONSTANTS
  Node,         \* the nodes that run a daemon
  Ngid,         \* node -> NII_NGID of its /etc/profile.nii, 0 if damaged
  HasNii,       \* node -> does /etc/profile.nii exist to name an installer
  Packet,       \* the packets the arbitrary network of DaemonSpec delivers
  MaxRuntime,   \* MAXRUNTIME, the seconds a client may run
  QueueLimit,   \* packets the socket's receive buffer holds
  MayCrash,     \* may the daemon be stopped and the node be reset
  MayFail       \* may a client fail, or run longer than MAXRUNTIME

Kind == {"UPDATEFILE", "UPDATEPACKAGE", "FORCEFILES", "UPDATEREPO"}

(* A packet names the installers to download from, or none.                *)
AnyPacket == [seq : Nat, ngid : Nat, kinds : SUBSET Kind, inst : BOOLEAN]

ASSUME CfmdAssumption ==
  /\ Ngid \in [Node -> Nat]
  /\ HasNii \in [Node -> BOOLEAN]
  /\ Packet \subseteq AnyPacket
  /\ MaxRuntime \in Nat \ {0}
  /\ QueueLimit \in Nat
  /\ MayCrash \in BOOLEAN
  /\ MayFail \in BOOLEAN

VARIABLES
  pc,         \* where main() of the node's daemon is, "off" if not running
  sequence,   \* main's local variable: the last sequence number accepted
  seqfile,    \* CFM_SEQUENCE: its first line and whether installers follow
  saved,      \* what setSequence/setInstallers read before reopening it
  dpack,      \* the packet being handled
  bound,      \* is the UDP socket bound
  queue,      \* packets in the socket's receive buffer
  child,      \* the cfmclient process runUpdate waits for
  waited,     \* seconds runUpdate has waited
  orphans,    \* clients whose daemon was stopped: the kinds of each update
  performed,  \* history: packets a client was run for since the start
  everRun,    \* history: sequence numbers a client was ever run for
  spoiled     \* history: the file may lack the number of an update that ran

daemonVars == <<pc, sequence, seqfile, saved, dpack, bound, queue, child,
                waited, orphans, performed, everRun, spoiled>>

(* A missing file has first line 0 for getSequence and no installers, as   *)
(* has the empty file a crash after fopen(.., "w") leaves.                 *)
SeqFile == [exists : BOOLEAN, seq : Nat, inst : BOOLEAN]
NoFile == [exists |-> FALSE, seq |-> 0, inst |-> FALSE]
EmptyFile == [exists |-> TRUE, seq |-> 0, inst |-> FALSE]

(* The program points at which the daemon can be interrupted.              *)
Recording == {"setSequence", "writeSequence", "setInstallers",
              "writeInstallers"}
Location == {"off", "update", "setupSocket", "listen", "randSleep"}
              \cup Recording

NoPacket == [seq |-> 0, ngid |-> 0, kinds |-> {}, inst |-> FALSE]

DaemonTypeOK ==
  /\ pc \in [Node -> Location]
  /\ sequence \in [Node -> Nat]
  /\ seqfile \in [Node -> SeqFile]
  /\ saved \in [Node -> SeqFile]
  /\ dpack \in [Node -> AnyPacket]
  /\ bound \in [Node -> BOOLEAN]
  /\ queue \in [Node -> Seq(AnyPacket)]
  /\ child \in [Node -> {"none", "running", "updated", "exited"}]
  /\ waited \in [Node -> Nat]
  /\ orphans \in [Node -> SUBSET SUBSET Kind]
  /\ performed \in [Node -> SUBSET AnyPacket]
  /\ everRun \in [Node -> SUBSET Nat]
  /\ spoiled \in [Node -> BOOLEAN]

(* A node that has just been installed: no daemon, no sequence file.       *)
DaemonInit ==
  /\ pc = [n \in Node |-> "off"]
  /\ sequence = [n \in Node |-> 0]
  /\ seqfile = [n \in Node |-> NoFile]
  /\ saved = [n \in Node |-> NoFile]
  /\ dpack = [n \in Node |-> NoPacket]
  /\ bound = [n \in Node |-> FALSE]
  /\ queue = [n \in Node |-> << >>]
  /\ child = [n \in Node |-> "none"]
  /\ waited = [n \in Node |-> 0]
  /\ orphans = [n \in Node |-> {}]
  /\ performed = [n \in Node |-> {}]
  /\ everRun = [n \in Node |-> {}]
  /\ spoiled = [n \in Node |-> FALSE]

Goto(n, loc) == pc' = [pc EXCEPT ![n] = loc]

fileVars == <<seqfile, saved, spoiled>>
clientVars == <<child, waited, orphans>>
historyVars == <<performed, everRun>>

---------------------------------------------------------------------------
(* main, before the loop                                                   *)

(* The kinds of the update main runs before it listens.                    *)
StartupKinds(n) ==
  IF seqfile[n].inst THEN {"UPDATEFILE", "UPDATEPACKAGE"}
  ELSE IF HasNii[n] THEN {"UPDATEFILE", "UPDATEPACKAGE", "FORCEFILES"}
  ELSE {}

(* runUpdate forks; when fork fails there is no child to wait for, and a   *)
(* child that is given no installer gives up.                              *)
Fork(n, inst) ==
  /\ \/ child' = [child EXCEPT ![n] = IF inst THEN "running" ELSE "exited"]
     \/ MayFail /\ child' = [child EXCEPT ![n] = "none"]
  /\ waited' = [waited EXCEPT ![n] = 0]
  /\ UNCHANGED orphans

(* main reads the sequence file and the node group, and updates once.      *)
Start(n) ==
  /\ pc[n] = "off"
  /\ Ngid[n] # 0
  /\ sequence' = [sequence EXCEPT ![n] = seqfile[n].seq]
  /\ dpack' = [dpack EXCEPT ![n] = [NoPacket EXCEPT !.kinds = StartupKinds(n)]]
  /\ IF StartupKinds(n) # {}
       THEN Goto(n, "update") /\ Fork(n, TRUE)
       ELSE Goto(n, "setupSocket") /\ UNCHANGED clientVars
  /\ performed' = [performed EXCEPT ![n] = {}]
  /\ UNCHANGED <<bound, queue, everRun, fileVars>>

(* setupSocket binds the socket; main exits when it cannot.  A packet      *)
(* broadcast before this point reaches no queue of the node.               *)
SetupSocket(n) ==
  /\ pc[n] = "setupSocket"
  /\ \/ Goto(n, "listen") /\ bound' = [bound EXCEPT ![n] = TRUE]
     \/ MayCrash /\ Goto(n, "off") /\ UNCHANGED bound
  /\ UNCHANGED <<sequence, dpack, queue, fileVars, clientVars, historyVars>>

---------------------------------------------------------------------------
(* main, the loop: listen4packet and the tests on the packet               *)

NextPacket(n) == Head(queue[n])

(* Is the packet older than, or the same as, the last one accepted?        *)
Stale_Equal(n, p) == p.seq < sequence[n]
Stale(n, p) == p.seq <= sequence[n]

ForMe(n, p) == p.ngid \in {0, Ngid[n]}

Listen(n) ==
  /\ pc[n] = "listen"
  /\ queue[n] # << >>
  /\ queue' = [queue EXCEPT ![n] = Tail(@)]
  /\ dpack' = [dpack EXCEPT ![n] = NextPacket(n)]
  /\ UNCHANGED <<bound, clientVars, historyVars>>

IgnoreDuplicate(n) ==
  /\ Listen(n)
  /\ Stale(n, NextPacket(n))
  /\ UNCHANGED <<pc, sequence, fileVars>>

IgnoreOtherGroup(n) ==
  /\ Listen(n)
  /\ ~Stale(n, NextPacket(n)) /\ ~ForMe(n, NextPacket(n))
  /\ UNCHANGED <<pc, sequence, fileVars>>

Accept(n) ==
  /\ Listen(n)
  /\ ~Stale(n, NextPacket(n)) /\ ForMe(n, NextPacket(n))
  /\ sequence' = [sequence EXCEPT ![n] = NextPacket(n).seq]
  /\ Goto(n, "setSequence")
  /\ UNCHANGED fileVars

---------------------------------------------------------------------------
(* setSequence and setInstallers: each reads the file, truncates it with   *)
(* fopen(.., "w") and writes it back at fclose, so a crash in between      *)
(* leaves it empty.                                                        *)

(* setSequence gives up when the file does not exist.                      *)
SetSequenceNoFile(n) ==
  /\ pc[n] = "setSequence"
  /\ ~seqfile[n].exists
  /\ spoiled' = [spoiled EXCEPT ![n] = TRUE]
  /\ Goto(n, "setInstallers")
  /\ UNCHANGED <<sequence, dpack, seqfile, saved, bound, queue, clientVars,
                 historyVars>>

(* The reading half of a rewrite: remember the contents, empty the file.   *)
Reopen(n, loc) ==
  /\ saved' = [saved EXCEPT ![n] = seqfile[n]]
  /\ seqfile' = [seqfile EXCEPT ![n] = EmptyFile]
  /\ Goto(n, loc)
  /\ UNCHANGED <<sequence, dpack, bound, queue, spoiled, clientVars,
                 historyVars>>

SetSequence(n) ==
  /\ pc[n] = "setSequence"
  /\ seqfile[n].exists
  /\ Reopen(n, "writeSequence")

(* What setSequence writes: the new number above the old installers.       *)
SequenceWritten_Next(n) ==
  [saved[n] EXCEPT !.exists = TRUE, !.seq = sequence[n] + 1]
SequenceWritten(n) == [saved[n] EXCEPT !.exists = TRUE, !.seq = sequence[n]]

WriteSequence(n) ==
  /\ pc[n] = "writeSequence"
  /\ seqfile' = [seqfile EXCEPT ![n] = SequenceWritten(n)]
  /\ spoiled' = [spoiled EXCEPT ![n] =
                   @ /\ \E r \in everRun[n] : r >= sequence[n]]
  /\ Goto(n, "setInstallers")
  /\ UNCHANGED <<sequence, dpack, saved, bound, queue, clientVars, historyVars>>

SetInstallers(n) ==
  /\ pc[n] = "setInstallers"
  /\ Reopen(n, "writeInstallers")

(* What setInstallers writes: getSequence() above the installers of the    *)
(* packet.                                                                 *)
InstallersWritten_NoNumber(n) ==
  [exists |-> TRUE, seq |-> 0, inst |-> dpack[n].inst]
InstallersWritten(n) ==
  [exists |-> TRUE, seq |-> saved[n].seq, inst |-> dpack[n].inst]

WriteInstallers(n) ==
  /\ pc[n] = "writeInstallers"
  /\ seqfile' = [seqfile EXCEPT ![n] = InstallersWritten(n)]
  /\ Goto(n, "randSleep")
  /\ UNCHANGED <<sequence, dpack, saved, spoiled, bound, queue, clientVars,
                 historyVars>>

---------------------------------------------------------------------------
(* randSleep and runUpdate                                                 *)

RunUpdate(n) ==
  /\ pc[n] = "randSleep"
  /\ Fork(n, dpack[n].inst)
  /\ performed' = [performed EXCEPT ![n] = @ \cup {dpack[n]}]
  /\ everRun' = [everRun EXCEPT ![n] = @ \cup {dpack[n].seq}]
  /\ Goto(n, "update")
  /\ UNCHANGED <<sequence, dpack, bound, queue, fileVars>>

(* The client installs what the installer offers at that moment ...        *)
ClientWork(n) ==
  /\ child[n] = "running"
  /\ child' = [child EXCEPT ![n] = "updated"]
  /\ UNCHANGED <<pc, sequence, dpack, bound, queue, waited, orphans, fileVars,
                 historyVars>>

(* ... and exits; it may also fail before it has installed anything.       *)
ClientExit(n) ==
  /\ child[n] = "updated" \/ (MayFail /\ child[n] = "running")
  /\ child' = [child EXCEPT ![n] = "exited"]
  /\ UNCHANGED <<pc, sequence, dpack, bound, queue, waited, orphans, fileVars,
                 historyVars>>

(* A client whose daemon was stopped works, or fails.                      *)
OrphanEnds(n, kinds) ==
  /\ kinds \in orphans[n]
  /\ orphans' = [orphans EXCEPT ![n] = @ \ {kinds}]
  /\ UNCHANGED <<pc, sequence, dpack, bound, queue, child, waited, fileVars,
                 historyVars>>

ClientAlive(n) == child[n] \in {"running", "updated"}

(* runUpdate returns to the loop, or to main before the socket is bound.   *)
Finish(n) ==
  /\ child' = [child EXCEPT ![n] = "none"]
  /\ Goto(n, IF bound[n] THEN "listen" ELSE "setupSocket")

Poll(n) ==
  /\ pc[n] = "update"
  /\ ClientAlive(n)
  /\ waited[n] + 1 < MaxRuntime
  /\ waited' = [waited EXCEPT ![n] = @ + 1]
  /\ UNCHANGED <<pc, sequence, dpack, bound, queue, child, orphans, fileVars,
                 historyVars>>

(* After MAXRUNTIME polls: SIGTERM, and SIGKILL if that is not obeyed; a   *)
(* client that is killed is reaped by the next poll.                       *)
PollTimeout_NoKill(n) ==
  /\ pc[n] = "update"
  /\ MayFail
  /\ ClientAlive(n)
  /\ waited[n] + 1 >= MaxRuntime
  /\ Finish(n)
  /\ child[n] = "updated"
  /\ UNCHANGED <<sequence, dpack, bound, queue, waited, orphans, fileVars,
                 historyVars>>

PollTimeout(n) ==
  /\ pc[n] = "update"
  /\ MayFail
  /\ ClientAlive(n)
  /\ waited[n] + 1 >= MaxRuntime
  /\ \/ Finish(n)
     \/ child' = [child EXCEPT ![n] = "exited"] /\ UNCHANGED pc
  /\ UNCHANGED <<sequence, dpack, bound, queue, waited, orphans, fileVars,
                 historyVars>>

PollDone(n) ==
  /\ pc[n] = "update"
  /\ ~ClientAlive(n)
  /\ Finish(n)
  /\ UNCHANGED <<sequence, dpack, bound, queue, waited, orphans, fileVars,
                 historyVars>>

---------------------------------------------------------------------------
(* The environment: the init script or a reset stops the daemon, and the   *)
(* network fills the receive buffers of bound sockets.                     *)

(* The init script stops the daemon only; its client goes on.              *)
Orphaned(n) ==
  orphans[n] \cup IF child[n] = "running" THEN {dpack[n].kinds} ELSE {}

Crash(n) ==
  /\ MayCrash
  /\ pc[n] # "off"
  /\ Goto(n, "off")
  /\ bound' = [bound EXCEPT ![n] = FALSE]
  /\ queue' = [queue EXCEPT ![n] = << >>]
  /\ child' = [child EXCEPT ![n] = "none"]
  /\ \/ orphans' = [orphans EXCEPT ![n] = Orphaned(n)]
     \/ orphans' = [orphans EXCEPT ![n] = {}]
  /\ spoiled' = [spoiled EXCEPT ![n] = @ \/ pc[n] \in Recording]
  /\ UNCHANGED <<sequence, dpack, waited, seqfile, saved, historyVars>>

Deliver(p, R) ==
  /\ queue' = [n \in Node |->
                 IF n \in R /\ bound[n] /\ Len(queue[n]) < QueueLimit
                   THEN Append(queue[n], p) ELSE queue[n]]
  /\ UNCHANGED <<pc, sequence, dpack, bound, fileVars, clientVars,
                 historyVars>>

(* The steps main takes by itself.                                         *)
DaemonStep(n) ==
  \/ SetupSocket(n)
  \/ IgnoreDuplicate(n) \/ IgnoreOtherGroup(n) \/ Accept(n)
  \/ SetSequenceNoFile(n) \/ SetSequence(n) \/ WriteSequence(n)
  \/ SetInstallers(n) \/ WriteInstallers(n)
  \/ RunUpdate(n)
  \/ Poll(n) \/ PollTimeout(n) \/ PollDone(n)

NodeStep(n) ==
  \/ Start(n) \/ DaemonStep(n)
  \/ ClientWork(n) \/ ClientExit(n)
  \/ \E kinds \in SUBSET Kind : OrphanEnds(n, kinds)
  \/ Crash(n)

DaemonNext ==
  \/ \E n \in Node : NodeStep(n)
  \/ \E p \in Packet, R \in SUBSET Node : Deliver(p, R)

DaemonSpec ==
  /\ DaemonInit /\ [][DaemonNext]_daemonVars
  /\ \A n \in Node : WF_daemonVars(DaemonStep(n))

---------------------------------------------------------------------------
(* Properties                                                              *)

(* The sequence number a restart would read, were the rewrite in progress  *)
(* to be completed or undone.                                              *)
Recorded(n) ==
  IF pc[n] \in {"writeSequence", "writeInstallers"}
    THEN saved[n].seq ELSE seqfile[n].seq

(* An update is run at most once, and in the order of the sequence         *)
(* numbers, for as long as the daemon lives, whatever the network repeats  *)
(* or reorders (main, the test on dpack.sequence).                         *)
InOrderOnce ==
  [][\A n \in Node : \A p \in performed'[n] \ performed[n] :
        \A q \in performed[n] : q.seq < p.seq]_daemonVars

(* The file never holds a number the daemon has not accepted: a restart    *)
(* may make it repeat an update, it never makes it skip one it has not     *)
(* seen (setSequence, setInstallers, getSequence).                         *)
NeverAhead ==
  \A n \in Node : pc[n] # "off" =>
    Recorded(n) <= sequence[n] /\ seqfile[n].seq <= sequence[n]

(* Across restarts too, the daemon repeats no update, unless a number was  *)
(* accepted while there was no sequence file, or a crash cut the rewriting *)
(* of the file, and no greater number has been stored since (main,         *)
(* setSequence, getSequence).                                              *)
NoRepeatUnlessSpoiled ==
  [][\A n \in Node :
        pc[n] = "randSleep" /\ pc'[n] = "update"
          /\ dpack[n].seq \in everRun[n] => spoiled[n]]_daemonVars

(* What makes that true: the number of every update ever run is still on   *)
(* file, or in the hands of the function that is rewriting it.             *)
RunIsRecorded ==
  \A n \in Node : ~spoiled[n] => \A r \in everRun[n] : r <= Recorded(n)

(* The inductive invariant behind the four: what the packet handled, the   *)
(* local variable, the file and the history say of each other at every     *)
(* point of main.                                                          *)
NumbersAgree(n) ==
  /\ pc[n] # "off" => \A p \in performed[n] : p.seq <= sequence[n]
  /\ pc[n] \in Recording \cup {"randSleep"} =>
       /\ dpack[n].seq = sequence[n]
       /\ \A p \in performed[n] : p.seq < sequence[n]

FileAgrees(n) ==
  ~spoiled[n] =>
    /\ pc[n] \in {"setSequence", "writeSequence"} => Recorded(n) < sequence[n]
    /\ pc[n] \notin {"off", "setSequence", "writeSequence"} =>
         Recorded(n) = sequence[n]
    /\ pc[n] \in Recording \cup {"randSleep"} =>
         \A r \in everRun[n] : r < sequence[n]

DaemonInv ==
  /\ DaemonTypeOK
  /\ NeverAhead
  /\ RunIsRecorded
  /\ \A n \in Node : NumbersAgree(n) /\ FileAgrees(n)

(* runUpdate ends, whatever the client does: it is killed after            *)
(* MAXRUNTIME (runUpdate, the comment "allow it to run for a time, then    *)
(* kill it if it has not finished").                                       *)
UpdateEnds == \A n \in Node : pc[n] = "update" ~> pc[n] # "update"
=============================================================================
