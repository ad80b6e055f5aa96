----------------------------- MODULE CfmNotify -----------------------------
(***************************************************************************)
(* Update notification end to end: the senders of CfmNet broadcast to the  *)
(* daemons of Cfmd.  A broadcast reaches the nodes whose socket is bound   *)
(* and whose queue has room, less those that UDP loses it for; a queue is  *)
(* handled in order.  A client that works installs the depot as it is at   *)
(* that moment.                                                            *)
(***************************************************************************)
EXTENDS CfmNet, Cfmd

CONSTANT MayLose   \* may a broadcast be lost on the way to a node

ASSUME CfmNotifyAssumption == MayLose \in BOOLEAN

VARIABLES
  have,    \* per kind, the depot version each node has installed
  wanted   \* per kind, the newest version announced to each node

vars == <<netVars, daemonVars, have, wanted>>

(* The nodes a request is meant for.                                       *)
Addressed(s) == {n \in Node : Request[s].ngid \in {0, Ngid[n]}}

Init ==
  /\ NetInit /\ DaemonInit
  /\ have = [n \in Node |-> [k \in SendKind |-> 0]]
  /\ wanted = [n \in Node |-> [k \in SendKind |-> 0]]

(* __sendBroadcast: one packet to everybody, R are those it arrives at.    *)
Broadcast(s, R) ==
  /\ MayLose \/ R = Node
  /\ Send(s)
  /\ Deliver(PacketOf(s), R)
  /\ UNCHANGED <<have, wanted>>

(* sendPacket returns: its nodes have been told of the version it prepared. *)
Announced(s) ==
  /\ Finished(s)
  /\ wanted' = [n \in Node |-> [k \in SendKind |->
                  IF /\ n \in Addressed(s) /\ k \in Request[s].kinds
                     /\ version[s] > wanted[n][k]
                    THEN version[s] ELSE wanted[n][k]]]
  /\ UNCHANGED <<daemonVars, have>>

Install(n) ==
  /\ ClientWork(n)
  /\ have' = [have EXCEPT ![n] = [k \in SendKind |->
                 IF k \in dpack[n].kinds THEN depot ELSE @[k]]]
  /\ UNCHANGED <<netVars, wanted>>

(* A client whose daemon was stopped installs it as well.                  *)
InstallOrphan(n, kinds) ==
  /\ OrphanEnds(n, kinds)
  /\ have' = [have EXCEPT ![n] = [k \in SendKind |->
                 IF k \in kinds THEN depot ELSE @[k]]]
  /\ UNCHANGED <<netVars, wanted>>

SenderAction(s) ==
  \/ /\ \/ ConsolidatedSync(s)
        \/ ReadSequence(s) \/ ReadMixed(s) \/ OpenSequence(s) \/ StoreSequence(s)
        \/ Kill(s)
     /\ UNCHANGED <<daemonVars, have, wanted>>
  \/ \E R \in SUBSET Node : Broadcast(s, R)
  \/ Announced(s)

NodeAction(n) ==
  \/ /\ \/ Start(n) \/ DaemonStep(n) \/ ClientExit(n) \/ Crash(n)
        \/ \E kinds \in SUBSET Kind : OrphanEnds(n, kinds)
     /\ UNCHANGED <<netVars, have, wanted>>
  \/ Install(n)
  \/ \E kinds \in SUBSET Kind : InstallOrphan(n, kinds)

Next ==
  \/ \E s \in Sender : SenderAction(s)
  \/ \E n \in Node : NodeAction(n)

(* A daemon that can take a step takes it, and a client that does not fail *)
(* works and exits; a sender, once run, gets to the end of sendPacket.     *)
(* The init script starts the daemon when the node boots.  Nothing forces  *)
(* a sender to be run, or anything to be stopped or killed.                *)
Fairness ==
  /\ \A s \in Sender : WF_vars(at[s] # "idle" /\ SenderAction(s))
  /\ \A n \in Node : WF_vars(Start(n) /\ UNCHANGED <<netVars, have, wanted>>)
  /\ \A n \in Node : WF_vars(DaemonStep(n) /\ UNCHANGED <<netVars, have, wanted>>)
  /\ \A n \in Node : WF_vars(Install(n))
  /\ \A n \in Node : WF_vars(ClientExit(n) /\ UNCHANGED <<netVars, have, wanted>>)

Spec == Init /\ [][Next]_vars /\ Fairness

---------------------------------------------------------------------------
(* Properties                                                              *)

(* Nothing is made up: what is broadcast, queued, handled or performed was *)
(* published, and the daemon handles only what addresses its node.         *)
FromPublished(n) ==
  /\ \A i \in 1..Len(queue[n]) : queue[n][i] \in published
  /\ pc[n] \in Recording \cup {"randSleep"} =>
       dpack[n] \in published /\ ForMe(n, dpack[n])
  /\ performed[n] \subseteq published

(* The invariant of the composition: those of its parts hold in it, and    *)
(* every packet a daemon has came from a sender (sendPacket,               *)
(* listen4packet).                                                         *)
NotifyInv ==
  /\ NetInv /\ DaemonInv
  /\ have \in [Node -> [SendKind -> Nat]]
  /\ wanted \in [Node -> [SendKind -> Nat]]
  /\ \A s \in Sender : at[s] = "sending" => PacketOf(s) \in published
  /\ \A n \in Node : FromPublished(n)

(* Every update a node has been told of is eventually installed there      *)
(* (the help of cfmsync, po/en_US.po:731).                                 *)
EventuallyCurrent ==
  \A n \in Node, k \in SendKind : []<>(have[n][k] >= wanted[n][k])

(* What the daemons do with the packets is what CfmPromise allows.         *)
Promise == INSTANCE CfmPromise WITH handled <- performed

PromiseSpec == Promise!Spec
=============================================================================
