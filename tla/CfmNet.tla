------------------------------ MODULE CfmNet ------------------------------
(***************************************************************************)
(* The sending side of CFM on the primary installer: processes that        *)
(* prepare the depot (PackBuilder.consolidatedSync) and then notify the    *)
(* nodes (PackBuilder.signalUpdate, CFMNet.sendPacket).  A process is a    *)
(* kusu-cfmsync or a kusu-kitops upgrade; no lock keeps two of them apart, *)
(* and they share the file that holds the next sequence number.            *)
(***************************************************************************)
EXTENDS Integers

CONSTANTS
  Sender,        \* the processes
  Request,       \* sender -> what it was run for, and does the database
                 \* name an installer to download from
  FirstSequence, \* the number in the sequence file at the start, 0 if absent
  FirstRest,     \* what two processes may have left below it, 0 for nothing
  Resends,       \* CFMNet.resends, the times a packet is broadcast
  MaxRounds,     \* bound: how many times each process is run
  MayKill        \* may a process be killed at any point

SendKind == {"UPDATEFILE", "UPDATEPACKAGE", "UPDATEREPO"}

ASSUME CfmNetAssumption ==
  /\ Request \in [Sender -> [ngid : Nat, kinds : SUBSET SendKind,
                            inst : BOOLEAN]]
  /\ FirstSequence \in Nat
  /\ FirstRest \in Nat
  /\ Resends \in Nat \ {0}
  /\ MaxRounds \in Nat
  /\ MayKill \in BOOLEAN

VARIABLES
  seqno,      \* /etc/.cfm.sequence: 0 when it is absent or empty
  rest,       \* the longer number whose end is left in it below seqno, or 0
  at,         \* where each process is
  mySeq,      \* CFMNet.sequence of each process
  left,       \* broadcasts it has still to send
  rounds,     \* how often it has been run
  depot,      \* the version of what the installer offers to download
  version,    \* the version each process prepared
  published,  \* history: every packet that got a sequence number
  disturbed   \* history: two updates of the file overlapped or one was cut

netVars == <<seqno, rest, at, mySeq, left, rounds, depot, version, published,
             disturbed>>

Place == {"idle", "synced", "read", "opened", "sending"}

(* A process is between reading the sequence number and storing the next.  *)
Updating == {"read", "opened"}

SentPacket == [seq : Nat, ngid : Nat, kinds : SUBSET SendKind, inst : BOOLEAN]

NetTypeOK ==
  /\ seqno \in Nat
  /\ rest \in Nat
  /\ at \in [Sender -> Place]
  /\ mySeq \in [Sender -> Nat]
  /\ left \in [Sender -> 0..Resends]
  /\ rounds \in [Sender -> 0..MaxRounds]
  /\ depot \in Nat
  /\ version \in [Sender -> Nat]
  /\ published \in SUBSET SentPacket
  /\ disturbed \in BOOLEAN

NetInit ==
  /\ seqno = FirstSequence
  /\ rest \in {0, FirstRest}
  /\ at = [s \in Sender |-> "idle"]
  /\ mySeq = [s \in Sender |-> 0]
  /\ left = [s \in Sender |-> 0]
  /\ rounds = [s \in Sender |-> 0]
  /\ depot = 0
  /\ version = [s \in Sender |-> 0]
  /\ published = {}
  /\ disturbed = (rest # 0)

PacketOf(s) == [seq |-> mySeq[s], ngid |-> Request[s].ngid,
                kinds |-> Request[s].kinds, inst |-> Request[s].inst]

Move(s, place) == at' = [at EXCEPT ![s] = place]

(* consolidatedSync: the depot now offers what the request is about.       *)
ConsolidatedSync(s) ==
  /\ at[s] = "idle" /\ rounds[s] < MaxRounds
  /\ rounds' = [rounds EXCEPT ![s] = @ + 1]
  /\ depot' = depot + 1
  /\ version' = [version EXCEPT ![s] = depot']
  /\ Move(s, "synced")
  /\ UNCHANGED <<seqno, rest, mySeq, left, published, disturbed>>

(* __updateSequence in its three steps: read the number, ...               *)
ReadSequence(s) ==
  /\ at[s] = "synced"
  /\ rest = 0
  /\ mySeq' = [mySeq EXCEPT ![s] = seqno]
  /\ disturbed' = (disturbed \/ \E t \in Sender : at[t] \in Updating)
  /\ Move(s, "read")
  /\ UNCHANGED <<seqno, rest, left, rounds, depot, version, published>>

(* The digits of a number as a line of the file.                           *)
Digits(x) == CHOOSE d \in 1..(x + 1) : 10^d > x /\ (d > 1 => 10^(d - 1) <= x)

(* The last digits of the longer number, but for one, where seqno's line   *)
(* ends, stand on a line of their own.                                     *)
IsEnd(x) ==
  LET digits == Digits(rest) - Digits(seqno) - 1
  IN  digits > 0 /\ x = rest % 10^digits

(* A file that two processes had opened may have a second line.  It is     *)
(* empty, or no number, and the process exits; or it is the end of the     *)
(* longer number, which the process takes.                                 *)
ReadMixed(s) ==
  /\ at[s] = "synced"
  /\ rest # 0
  /\ \/ Move(s, "idle") /\ UNCHANGED mySeq
     \/ /\ Move(s, "read")
        /\ \E x \in 0..rest : /\ IsEnd(x)
                              /\ mySeq' = [mySeq EXCEPT ![s] = x]
  /\ disturbed' = (disturbed \/ \E t \in Sender : at[t] \in Updating)
  /\ UNCHANGED <<seqno, rest, left, rounds, depot, version, published>>

(* ... open the file for writing, which empties it, ...                    *)
OpenSequence(s) ==
  /\ at[s] = "read"
  /\ seqno' = 0
  /\ rest' = 0
  /\ Move(s, "opened")
  /\ UNCHANGED <<mySeq, left, rounds, depot, version, published, disturbed>>

(* ... and store the next number; the packet carries the one that was read. *)
NextNumber_Same(s) == mySeq[s]
NextNumber(s) == mySeq[s] + 1

(* What another process stored meanwhile and is longer: its end stays.     *)
Uncovered(s) == {x \in {seqno, rest} : x # 0 /\ Digits(x) > Digits(NextNumber(s))}

StoreSequence(s) ==
  /\ at[s] = "opened"
  /\ seqno' = NextNumber(s)
  /\ rest' \in IF Uncovered(s) = {} THEN {0} ELSE Uncovered(s)
  /\ left' = [left EXCEPT ![s] = Resends]
  /\ published' = published \cup {PacketOf(s)}
  /\ Move(s, "sending")
  /\ UNCHANGED <<mySeq, rounds, depot, version, disturbed>>

(* One turn of sendPacket's loop: a broadcast on every network.            *)
Send(s) ==
  /\ at[s] = "sending" /\ left[s] > 0
  /\ left' = [left EXCEPT ![s] = @ - 1]
  /\ UNCHANGED <<seqno, rest, at, mySeq, rounds, depot, version, published,
                 disturbed>>

Finished(s) ==
  /\ at[s] = "sending" /\ left[s] = 0
  /\ Move(s, "idle")
  /\ UNCHANGED <<seqno, rest, mySeq, left, rounds, depot, version, published,
                 disturbed>>

(* A killed process leaves the sequence file as it is.                     *)
Kill(s) ==
  /\ MayKill
  /\ at[s] # "idle"
  /\ Move(s, "idle")
  /\ disturbed' = (disturbed \/ at[s] = "opened")
  /\ UNCHANGED <<seqno, rest, mySeq, left, rounds, depot, version, published>>

SenderStep(s) ==
  \/ ConsolidatedSync(s)
  \/ ReadSequence(s) \/ ReadMixed(s) \/ OpenSequence(s) \/ StoreSequence(s)
  \/ Finished(s) \/ Kill(s)

NetNext == \E s \in Sender : SenderStep(s) \/ Send(s)

NetSpec == NetInit /\ [][NetNext]_netVars

---------------------------------------------------------------------------
(* Properties                                                              *)

(* As long as no two processes update the sequence file at the same time   *)
(* and none is killed in the middle, every packet gets a number above all  *)
(* numbers given before (CFMNet.__updateSequence, "update the file to a    *)
(* new sequence number").                                                  *)
NewNumber ==
  [][\A s \in Sender : at[s] = "opened" /\ at'[s] = "sending" =>
        disturbed \/ \A p \in published : p.seq < mySeq[s]]_netVars

(* The inductive invariant behind it.  As long as nothing was disturbed,   *)
(* one process at most is in __updateSequence, what it has read is what is *)
(* on file, and the numbers given before are below the one on file, or     *)
(* below the one in hand while the file is empty.                          *)
OneUpdates ==
  \A s, t \in Sender : at[s] \in Updating /\ at[t] \in Updating => s = t

NumbersBelow ==
  /\ rest = 0
  /\ (\E s \in Sender : at[s] = "opened") => seqno = 0
  /\ \A s \in Sender : at[s] = "read" => mySeq[s] = seqno
  /\ \A s \in Sender : at[s] = "opened" => \A p \in published : p.seq < mySeq[s]
  /\ (\A s \in Sender : at[s] # "opened") => \A p \in published : p.seq < seqno

NetInv == NetTypeOK /\ (~disturbed => OneUpdates /\ NumbersBelow)
=============================================================================
