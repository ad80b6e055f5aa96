------------------------- MODULE CfmNotify_proofs -------------------------
(***************************************************************************)
(* Update notification keeps the promise of CfmPromise, for any number of  *)
(* nodes and senders, any repetitions, losses, crashes and kills.  First   *)
(* the daemons alone, on any network: their files agree with what they ran *)
(* and the order they ran it in.  Then the senders alone: every packet     *)
(* gets a new number as long as no two processes are in __updateSequence   *)
(* at once and none is killed there.  Then both together.                  *)
(***************************************************************************)
EXTENDS CfmNotify, TLAPS

----------------------------------------------------------------------------
(* The daemons (Cfmd).                                                     *)

(* The facts a step on one node leaves alone for all others.               *)
NodeInv(n) ==
  /\ pc[n] # "off" =>
       Recorded(n) <= sequence[n] /\ seqfile[n].seq <= sequence[n]
  /\ ~spoiled[n] => \A r \in everRun[n] : r <= Recorded(n)
  /\ NumbersAgree(n)
  /\ FileAgrees(n)

(* The invariant of the daemons is typing and, for each node, the relation *)
(* of its files (getSequence, setSequence) to its memory and history.      *)
LEMMA DaemonInvSplit == DaemonInv <=> DaemonTypeOK /\ \A n \in Node : NodeInv(n)
  BY DEF DaemonInv, NeverAhead, RunIsRecorded, NodeInv

(* A node that was just installed has no sequence file, no history and no  *)
(* packets waiting (main, before its loop).                                *)
LEMMA DaemonInitInv == DaemonInit => DaemonInv
<1> SUFFICES ASSUME DaemonInit PROVE DaemonTypeOK /\ \A n \in Node : NodeInv(n)
  BY DaemonInvSplit
<1> USE DEF DaemonInit
<1>1. DaemonTypeOK
  BY DEF DaemonTypeOK, Location, Recording, SeqFile, NoFile, AnyPacket, NoPacket, Kind
<1>2. ASSUME NEW n \in Node PROVE NodeInv(n)
  BY DEF NodeInv, NumbersAgree, FileAgrees, Recorded, Recording, NoFile
<1> QED BY <1>1, <1>2

(* listen4packet takes a packet from the socket and leaves packets there.  *)
LEMMA ListenType ==
  ASSUME NEW n \in Node, DaemonTypeOK, Listen(n)
  PROVE  /\ NextPacket(n) \in AnyPacket
         /\ queue' \in [Node -> Seq(AnyPacket)]
         /\ dpack' \in [Node -> AnyPacket]
<1>1. queue[n] \in Seq(AnyPacket) /\ queue[n] # << >>
  BY DEF DaemonTypeOK, Listen
<1>2. Head(queue[n]) \in AnyPacket /\ Tail(queue[n]) \in Seq(AnyPacket)
  BY <1>1
<1> QED BY <1>2 DEF DaemonTypeOK, Listen, NextPacket

(* Types are preserved by every step of a node (cfmd, client, init script).*)
LEMMA NodeStepType ==
  ASSUME NEW n \in Node, DaemonTypeOK, NodeStep(n) PROVE DaemonTypeOK'
<1> USE CfmdAssumption DEF DaemonTypeOK, Goto, fileVars, clientVars, historyVars
<1>1. CASE Start(n)
  <2>1. dpack' \in [Node -> AnyPacket]
    BY <1>1 DEF Start, StartupKinds, AnyPacket, NoPacket, Kind
  <2>2. sequence' \in [Node -> Nat]
    BY <1>1 DEF Start, SeqFile
  <2>3. /\ pc' \in [Node -> Location]
        /\ child' \in [Node -> {"none", "running", "updated", "exited"}]
        /\ waited' \in [Node -> Nat] /\ orphans' = orphans
    <3>1. CASE StartupKinds(n) # {}
      <4>1. pc' = [pc EXCEPT ![n] = "update"] /\ Fork(n, TRUE)
        BY <1>1, <3>1 DEF Start
      <4>2. pc' \in [Node -> Location]
        BY <4>1 DEF Location
      <4>3. /\ child' \in [Node -> {"none", "running", "updated", "exited"}]
            /\ waited' \in [Node -> Nat] /\ orphans' = orphans
        BY <4>1 DEF Fork
      <4> QED BY <4>2, <4>3
    <3>2. CASE StartupKinds(n) = {}
      BY <1>1, <3>2 DEF Start, Location
    <3> QED BY <3>1, <3>2
  <2>4. performed' \in [Node -> SUBSET AnyPacket]
    BY <1>1 DEF Start
  <2>5. /\ seqfile' = seqfile /\ saved' = saved /\ spoiled' = spoiled
        /\ bound' = bound /\ queue' = queue /\ everRun' = everRun
    BY <1>1 DEF Start
  <2> QED BY <2>1, <2>2, <2>3, <2>4, <2>5, Zenon
<1>2. CASE SetupSocket(n)
  BY <1>2 DEF SetupSocket, Location
<1>3. CASE IgnoreDuplicate(n)
  BY <1>3, ListenType DEF IgnoreDuplicate, Listen
<1>4. CASE IgnoreOtherGroup(n)
  BY <1>4, ListenType DEF IgnoreOtherGroup, Listen
<1>5. CASE Accept(n)
  BY <1>5, ListenType DEF Accept, Listen, Location, Recording, AnyPacket
<1>6. CASE SetSequenceNoFile(n)
  BY <1>6 DEF SetSequenceNoFile, Location, Recording
<1>7. CASE SetSequence(n)
  BY <1>7 DEF SetSequence, Reopen, Location, Recording, SeqFile, EmptyFile
<1>8. CASE WriteSequence(n)
  BY <1>8, ZenonT(60) DEF WriteSequence, SequenceWritten, Location, Recording, SeqFile
<1>9. CASE SetInstallers(n)
  BY <1>9 DEF SetInstallers, Reopen, Location, Recording, SeqFile, EmptyFile
<1>10. CASE WriteInstallers(n)
  <2>1. InstallersWritten(n) \in SeqFile
    BY DEF InstallersWritten, SeqFile, AnyPacket
  <2> QED BY <1>10, <2>1 DEF WriteInstallers, Location, Recording
<1>11. CASE RunUpdate(n)
  <2>1. performed' \in [Node -> SUBSET AnyPacket]
    BY <1>11 DEF RunUpdate
  <2>2. everRun' \in [Node -> SUBSET Nat]
    BY <1>11 DEF RunUpdate, AnyPacket
  <2>3. /\ child' \in [Node -> {"none", "running", "updated", "exited"}]
        /\ waited' \in [Node -> Nat] /\ orphans' = orphans
    BY <1>11 DEF RunUpdate, Fork
  <2> QED BY <1>11, <2>1, <2>2, <2>3 DEF RunUpdate, Location
<1>12. CASE Poll(n) \/ PollTimeout(n) \/ PollDone(n)
  <2>1. CASE Poll(n)
    BY <2>1 DEF Poll
  <2>2. CASE PollTimeout(n)
    BY <2>2 DEF PollTimeout, Finish, Location
  <2>3. CASE PollDone(n)
    BY <2>3 DEF PollDone, Finish, Location
  <2> QED BY <1>12, <2>1, <2>2, <2>3
<1>13. CASE ClientWork(n) \/ ClientExit(n)
  BY <1>13 DEF ClientWork, ClientExit
<1>14. CASE Crash(n)
  <2>1. dpack[n].kinds \in SUBSET Kind
    BY DEF AnyPacket
  <2>2. Orphaned(n) \in SUBSET SUBSET Kind
    BY <2>1 DEF Orphaned
  <2>3. orphans' \in [Node -> SUBSET SUBSET Kind]
    <3>1. orphans \in [Node -> SUBSET SUBSET Kind] /\ {} \in SUBSET SUBSET Kind
      OBVIOUS
    <3> HIDE DEF DaemonTypeOK
    <3> QED BY <1>14, <2>2, <3>1 DEF Crash
  <2> QED BY <1>14, <2>3 DEF Crash, Location
<1>15. ASSUME NEW kinds \in SUBSET Kind, OrphanEnds(n, kinds) PROVE DaemonTypeOK'
  BY <1>15 DEF OrphanEnds
<1> QED
  BY <1>1, <1>2, <1>3, <1>4, <1>5, <1>6, <1>7, <1>8, <1>9, <1>10, <1>11,
     <1>12, <1>13, <1>14, <1>15 DEF NodeStep, DaemonStep

(* A step of the daemon of one node does not disturb another node: they    *)
(* share nothing but the network.                                          *)
LEMMA OtherNode ==
  ASSUME NEW n \in Node, NEW m \in Node, m # n, DaemonTypeOK, NodeStep(n),
         NodeInv(m)
  PROVE  NodeInv(m)'
<1> USE DEF DaemonTypeOK, Goto, fileVars, clientVars, historyVars
<1>1. /\ pc'[m] = pc[m] /\ sequence'[m] = sequence[m]
      /\ seqfile'[m] = seqfile[m] /\ saved'[m] = saved[m]
      /\ dpack'[m] = dpack[m] /\ performed'[m] = performed[m]
      /\ everRun'[m] = everRun[m] /\ spoiled'[m] = spoiled[m]
  BY DEF NodeStep, DaemonStep, Start, SetupSocket, IgnoreDuplicate,
         IgnoreOtherGroup, Accept, Listen, SetSequenceNoFile, SetSequence,
         WriteSequence, SetInstallers, Reopen, WriteInstallers, RunUpdate,
         Poll, PollTimeout, PollDone, Finish, Fork, ClientWork, ClientExit,
         OrphanEnds, Crash
<1> QED
  BY <1>1 DEF NodeInv, NumbersAgree, FileAgrees, Recorded

(* Each step of main, of setSequence and setInstallers, of runUpdate and of*)
(* its client keeps the invariant of its own node: one case per action.    *)
LEMMA SameNode ==
  ASSUME NEW n \in Node, DaemonTypeOK, DaemonTypeOK', NodeStep(n), NodeInv(n)
  PROVE  NodeInv(n)'
<1>0. /\ sequence[n] \in Nat /\ seqfile[n] \in SeqFile /\ saved[n] \in SeqFile
      /\ everRun[n] \in SUBSET Nat /\ performed[n] \in SUBSET AnyPacket
      /\ dpack[n] \in AnyPacket /\ spoiled[n] \in BOOLEAN
  BY DEF DaemonTypeOK
<1> USE <1>0 DEF DaemonTypeOK, Goto, fileVars, clientVars, historyVars,
              NodeInv, NumbersAgree, FileAgrees, Recorded, Recording, SeqFile,
              AnyPacket
<1>1. CASE Start(n)
  <2>1. pc'[n] \in {"update", "setupSocket"}
    <3>1. CASE StartupKinds(n) # {}
      BY <1>1, <3>1 DEF Start
    <3>2. CASE StartupKinds(n) = {}
      BY <1>1, <3>2 DEF Start
    <3> QED BY <3>1, <3>2
  <2>2. /\ pc[n] = "off" /\ performed'[n] = {} /\ everRun'[n] = everRun[n]
        /\ sequence'[n] = seqfile[n].seq
        /\ seqfile'[n] = seqfile[n] /\ spoiled'[n] = spoiled[n]
    BY <1>1 DEF Start
  <2>3. pc'[n] \notin {"off", "randSleep", "setSequence", "writeSequence",
                      "setInstallers", "writeInstallers"}
    BY <2>1
  <2>4. /\ Recorded(n) = seqfile[n].seq /\ Recorded(n)' = seqfile[n].seq
    BY <2>2, <2>3
  <2>5. NumbersAgree(n)' /\ FileAgrees(n)'
    <3> HIDE DEF Recorded
    <3> QED BY <2>2, <2>3, <2>4
  <2> QED
    <3> HIDE DEF Recorded, NumbersAgree, FileAgrees
    <3> QED BY <2>2, <2>4, <2>5
<1>2. CASE SetupSocket(n)
  BY <1>2 DEF SetupSocket
<1>3. CASE IgnoreDuplicate(n)
  BY <1>3 DEF IgnoreDuplicate, Listen
<1>4. CASE IgnoreOtherGroup(n)
  BY <1>4 DEF IgnoreOtherGroup, Listen
<1>5. CASE Accept(n)
  <2>1. NextPacket(n) \in AnyPacket
    BY <1>5, ListenType DEF Accept
  <2>2. /\ pc[n] = "listen" /\ pc'[n] = "setSequence"
        /\ sequence'[n] = NextPacket(n).seq /\ dpack'[n] = NextPacket(n)
        /\ NextPacket(n).seq \in Nat /\ sequence[n] < NextPacket(n).seq
    BY <1>5, <2>1 DEF Accept, Listen, Stale
  <2>3. /\ seqfile'[n] = seqfile[n] /\ spoiled'[n] = spoiled[n]
        /\ everRun'[n] = everRun[n] /\ performed'[n] = performed[n]
    BY <1>5 DEF Accept, Listen
  <2>4. seqfile[n].seq \in Nat /\ \A p \in performed[n] : p.seq \in Nat
    BY <1>0
  <2>5. /\ Recorded(n) = seqfile[n].seq /\ Recorded(n)' = seqfile[n].seq
        /\ seqfile[n].seq <= sequence[n] /\ \A p \in performed[n] : p.seq <= sequence[n]
        /\ ~spoiled[n] => /\ seqfile[n].seq = sequence[n]
                          /\ \A r \in everRun[n] : r <= seqfile[n].seq
    BY <2>2, <2>3
  <2>6. NumbersAgree(n)'
    <3> HIDE DEF Recorded, FileAgrees, NodeInv
    <3> QED BY <2>2, <2>3, <2>4, <2>5, SMTT(30)
  <2>7. FileAgrees(n)'
    <3> HIDE DEF Recorded
    <3> QED BY <2>2, <2>3, <2>4, <2>5
  <2> QED
    <3> HIDE DEF Recorded, NumbersAgree, FileAgrees
    <3> QED BY <2>2, <2>3, <2>4, <2>5, <2>6, <2>7
<1>6. CASE SetSequenceNoFile(n)
  BY <1>6 DEF SetSequenceNoFile
<1>7. CASE SetSequence(n)
  BY <1>7 DEF SetSequence, Reopen, EmptyFile
<1>8. CASE WriteSequence(n)
  <2>1. /\ pc[n] = "writeSequence" /\ pc'[n] = "setInstallers"
        /\ sequence'[n] = sequence[n] /\ dpack'[n] = dpack[n]
        /\ performed'[n] = performed[n] /\ everRun'[n] = everRun[n]
        /\ seqfile'[n].seq = sequence[n]
        /\ spoiled'[n] = (spoiled[n] /\ \E r \in everRun[n] : r >= sequence[n])
    BY <1>8 DEF WriteSequence, SequenceWritten
  <2>2. \A r \in everRun[n] : r \in Nat
    BY <1>0
  <2>3. Recorded(n)' = sequence[n]
    BY <2>1
  <2>4. /\ dpack[n].seq = sequence[n]
        /\ \A p \in performed[n] : p.seq < sequence[n] /\ p.seq \in Nat
    BY <1>0, <2>1
  <2>5. ~spoiled'[n] => \A r \in everRun[n] : r < sequence[n]
    <3>1. spoiled[n] \/ \A r \in everRun[n] : r < sequence[n]
      BY <2>1
    <3> QED BY <1>0, <2>1, <2>2, <3>1
  <2> HIDE DEF Recorded
  <2>6. NumbersAgree(n)' /\ FileAgrees(n)'
    BY <1>0, <2>1, <2>2, <2>3, <2>4, <2>5
  <2> QED
    <3> HIDE DEF NumbersAgree, FileAgrees
    <3> QED BY <1>0, <2>1, <2>2, <2>3, <2>5, <2>6
<1>9. CASE SetInstallers(n)
  BY <1>9 DEF SetInstallers, Reopen, EmptyFile
<1>10. CASE WriteInstallers(n)
  BY <1>10 DEF WriteInstallers, InstallersWritten
<1>11. CASE RunUpdate(n)
  BY <1>11 DEF RunUpdate
<1>12. CASE Poll(n) \/ PollTimeout(n) \/ PollDone(n)
  BY <1>12, ZenonT(60) DEF Poll, PollTimeout, PollDone, Finish
<1>13. CASE ClientWork(n) \/ ClientExit(n)
  BY <1>13 DEF ClientWork, ClientExit
<1>14. CASE Crash(n)
  BY <1>14 DEF Crash
<1>15. ASSUME NEW kinds \in SUBSET Kind, OrphanEnds(n, kinds) PROVE NodeInv(n)'
  BY <1>15 DEF OrphanEnds
<1> QED
  BY <1>1, <1>2, <1>3, <1>4, <1>5, <1>6, <1>7, <1>8, <1>9, <1>10, <1>11,
     <1>12, <1>13, <1>14, <1>15 DEF NodeStep, DaemonStep

(* The network delivers packets to the sockets and touches nothing else.   *)
LEMMA DeliverInv ==
  ASSUME NEW p \in AnyPacket, NEW R, DaemonInv, Deliver(p, R) PROVE DaemonInv'
<1> USE DEF fileVars, clientVars, historyVars
<1>1. DaemonTypeOK'
  <2>1. queue' \in [Node -> Seq(AnyPacket)]
    <3>1. queue \in [Node -> Seq(AnyPacket)]
      BY DEF DaemonInv, DaemonTypeOK
    <3>2. \A n \in Node : Append(queue[n], p) \in Seq(AnyPacket)
      BY <3>1
    <3>3. \A n \in Node : queue[n] \in Seq(AnyPacket)
      BY <3>1
    <3>4. queue' = [n \in Node |->
                 IF n \in R /\ bound[n] /\ Len(queue[n]) < QueueLimit
                   THEN Append(queue[n], p) ELSE queue[n]]
      BY DEF Deliver
    <3> QED BY <3>2, <3>3, <3>4, Zenon
  <2> QED BY <2>1 DEF Deliver, DaemonInv, DaemonTypeOK
<1>2. ASSUME NEW n \in Node, NodeInv(n) PROVE NodeInv(n)'
  BY <1>2 DEF Deliver, NodeInv, NumbersAgree, FileAgrees, Recorded
<1>3. \A n \in Node : NodeInv(n)
  BY DaemonInvSplit
<1> QED BY <1>1, <1>2, <1>3 DEF DaemonInv, NeverAhead, RunIsRecorded, NodeInv

(* Every step of cfmd, of its client or of its init script on one node keeps*)
(* the invariant of all nodes.                                             *)
LEMMA NodeStepInv ==
  ASSUME NEW n \in Node, DaemonInv, NodeStep(n) PROVE DaemonInv'
<1>1. DaemonTypeOK /\ \A m \in Node : NodeInv(m)
  BY DaemonInvSplit
<1>2. DaemonTypeOK'
  BY <1>1, NodeStepType
<1>3. ASSUME NEW m \in Node PROVE NodeInv(m)'
  BY <1>1, <1>2, SameNode, OtherNode
<1> QED BY <1>2, <1>3 DEF DaemonInv, NeverAhead, RunIsRecorded, NodeInv

(* A step that changes nothing of the daemons keeps their invariant: the   *)
(* composition with the senders takes such steps (CFMNet).                 *)
LEMMA StutterInv == DaemonInv /\ UNCHANGED daemonVars => DaemonInv'
  BY DEF DaemonInv, DaemonTypeOK, NeverAhead, RunIsRecorded, NumbersAgree,
         FileAgrees, Recorded, daemonVars

(* Types, the numbers on file, and the history agree in every reachable    *)
(* state (main, setSequence, setInstallers, getSequence).                  *)
THEOREM DaemonCorrect == DaemonSpec => []DaemonInv
<1>1. DaemonInv /\ [DaemonNext]_daemonVars => DaemonInv'
  BY NodeStepInv, DeliverInv, StutterInv, CfmdAssumption DEF DaemonNext
<1> QED BY DaemonInitInv, <1>1, PTL DEF DaemonSpec

(* Neither the file nor the number read back from it (getSequence) is ever *)
(* above the number the running daemon has accepted (setSequence).         *)
THEOREM NeverAheadHolds == DaemonSpec => []NeverAhead
  BY DaemonCorrect, PTL DEF DaemonInv

(* The number of every update that was run is on file, since setSequence   *)
(* comes before runUpdate, unless a crash or a first run spoiled the file. *)
THEOREM RunIsRecordedHolds == DaemonSpec => []RunIsRecorded
  BY DaemonCorrect, PTL DEF DaemonInv

(* An update is run at most once in a life of the daemon, in the order of  *)
(* the sequence numbers.                                                   *)
THEOREM RunInOrderOnce == DaemonSpec => InOrderOnce
<1> DEFINE Step == \A n \in Node : \A p \in performed'[n] \ performed[n] :
                     \A q \in performed[n] : q.seq < p.seq
<1>1. ASSUME DaemonInv, DaemonNext PROVE Step
  <2>1. ASSUME NEW n \in Node, NodeStep(n) PROVE Step
    <3>1. /\ performed \in [Node -> SUBSET AnyPacket]
          /\ dpack[n] \in AnyPacket /\ sequence[n] \in Nat
      BY <1>1 DEF DaemonInv, DaemonTypeOK
    <3>2. CASE RunUpdate(n)
      <4>1. /\ dpack[n].seq = sequence[n]
            /\ \A q \in performed[n] : q.seq < sequence[n]
        BY <1>1, <3>2 DEF RunUpdate, DaemonInv, NumbersAgree
      <4>2. performed' = [performed EXCEPT ![n] = @ \cup {dpack[n]}]
        BY <3>2 DEF RunUpdate
      <4>3. \A m \in Node : performed'[m] \ performed[m] \subseteq
                              (IF m = n THEN {dpack[n]} ELSE {})
        BY <3>1, <4>2
      <4> QED BY <4>1, <4>3
    <3>3. CASE Start(n)
      <4>1. performed' = [performed EXCEPT ![n] = {}]
        BY <3>3 DEF Start
      <4>2. \A m \in Node : performed'[m] \subseteq performed[m]
        BY <3>1, <4>1
      <4> QED BY <4>2
    <3>4. CASE ~RunUpdate(n) /\ ~Start(n)
      <4>1. performed' = performed
        BY <2>1, <3>4 DEF NodeStep, DaemonStep, SetupSocket, IgnoreDuplicate,
           IgnoreOtherGroup, Accept, Listen, SetSequenceNoFile, SetSequence,
           WriteSequence, SetInstallers, Reopen, WriteInstallers, Poll,
           PollTimeout, PollDone, ClientWork, ClientExit, OrphanEnds, Crash,
           historyVars
      <4> QED BY <4>1
    <3> QED BY <3>2, <3>3, <3>4
  <2>2. ASSUME NEW p \in Packet, NEW R \in SUBSET Node, Deliver(p, R) PROVE Step
    BY <2>2 DEF Deliver, historyVars
  <2> QED BY <1>1, <2>1, <2>2 DEF DaemonNext
<1>2. DaemonInv /\ [DaemonNext]_daemonVars => [Step]_daemonVars
  BY <1>1
<1> QED BY <1>2, DaemonCorrect, PTL DEF DaemonSpec, InOrderOnce

(* Across restarts, an update is repeated only if its number was not kept. *)
THEOREM NoRepeat == DaemonSpec => NoRepeatUnlessSpoiled
<1> DEFINE Step == \A n \in Node :
                     pc[n] = "randSleep" /\ pc'[n] = "update"
                       /\ dpack[n].seq \in everRun[n] => spoiled[n]
<1>1. DaemonInv => Step
  BY DEF DaemonInv, DaemonTypeOK, AnyPacket, NumbersAgree, FileAgrees, Recording
<1> QED BY <1>1, DaemonCorrect, PTL DEF DaemonSpec, NoRepeatUnlessSpoiled


----------------------------------------------------------------------------
(* The senders (CfmNet).                                                   *)

(* Processes that are idle, and a file with any number, or a disturbed one.*)
LEMMA NetInitInv == NetInit => NetInv
  <1> SUFFICES ASSUME NetInit PROVE NetInv
    OBVIOUS
  <1>1. NetTypeOK
    <2>1. /\ FirstSequence \in Nat /\ FirstRest \in Nat
          /\ 0 \in 0..Resends /\ 0 \in 0..MaxRounds
      BY CfmNetAssumption
    <2>2. seqno \in Nat /\ rest \in Nat /\ depot \in Nat /\ published \in SUBSET SentPacket
          /\ disturbed \in BOOLEAN
      BY <2>1 DEF NetInit
    <2>3. at \in [Sender -> Place] /\ mySeq \in [Sender -> Nat]
          /\ version \in [Sender -> Nat]
      BY DEF NetInit, Place
    <2>4. left \in [Sender -> 0..Resends] /\ rounds \in [Sender -> 0..MaxRounds]
      BY <2>1 DEF NetInit
    <2> QED BY <2>2, <2>3, <2>4 DEF NetTypeOK
  <1>2. ~disturbed => OneUpdates /\ NumbersBelow
    BY DEF NetInit, OneUpdates, NumbersBelow, Updating
  <1> QED BY <1>1, <1>2 DEF NetInv

(* The packet of a sender is a packet.                                     *)
LEMMA PacketType ==
  ASSUME NetTypeOK, NEW s \in Sender PROVE PacketOf(s) \in SentPacket
  BY CfmNetAssumption DEF NetTypeOK, PacketOf, SentPacket

(* Reading the number: from then on this process is the only one in        *)
(* __updateSequence, or the update is disturbed.                           *)
LEMMA ReadInv ==
  ASSUME NetInv, NEW s \in Sender, ReadSequence(s) PROVE NetInv'
  <1>1. NetTypeOK'
    BY DEF NetInv, NetTypeOK, ReadSequence, Move, Place
  <1>2. ASSUME ~disturbed' PROVE OneUpdates' /\ NumbersBelow'
    <2>1. ~disturbed /\ \A t \in Sender : at[t] \notin Updating
      BY <1>2 DEF ReadSequence
    <2>2. at' = [at EXCEPT ![s] = "read"] /\ mySeq' = [mySeq EXCEPT ![s] = seqno]
          /\ seqno' = seqno /\ rest' = rest /\ published' = published
      BY DEF ReadSequence, Move
    <2>3. \A t \in Sender : at[t] # "opened" /\ at[t] # "read"
      BY <2>1 DEF Updating
    <2>4. OneUpdates'
      BY <2>1, <2>2 DEF OneUpdates, NetInv, NetTypeOK
    <2>5. NumbersBelow'
      BY <2>1, <2>2, <2>3 DEF NumbersBelow, NetInv, NetTypeOK
    <2> QED BY <2>4, <2>5
  <1> QED BY <1>1, <1>2 DEF NetInv

(* A file with a second line is one that was disturbed; the process exits  *)
(* or takes a number from it.                                              *)
LEMMA ReadMixedInv ==
  ASSUME NetInv, NEW s \in Sender, ReadMixed(s) PROVE NetInv'
  <1>1. NetTypeOK'
    <2>1. at' \in [Sender -> Place]
      BY DEF NetInv, NetTypeOK, ReadMixed, Move, Place
    <2>2. mySeq' \in [Sender -> Nat]
      <3>1. \A x \in 0..rest : x \in Nat
        BY DEF NetInv, NetTypeOK
      <3> QED BY <3>1 DEF NetInv, NetTypeOK, ReadMixed
    <2> QED BY <2>1, <2>2 DEF NetInv, NetTypeOK, ReadMixed
  <1>2. disturbed'
    BY DEF NetInv, NumbersBelow, ReadMixed
  <1> QED BY <1>1, <1>2 DEF NetInv

(* Emptying the file: the numbers given before are below the one in hand.  *)
LEMMA OpenInv ==
  ASSUME NetInv, NEW s \in Sender, OpenSequence(s) PROVE NetInv'
  <1>1. NetTypeOK'
    BY DEF NetInv, NetTypeOK, OpenSequence, Move, Place
  <1>2. ASSUME ~disturbed' PROVE OneUpdates' /\ NumbersBelow'
    <2>1. ~disturbed /\ at[s] = "read" /\ at' = [at EXCEPT ![s] = "opened"]
          /\ mySeq' = mySeq /\ published' = published
          /\ seqno' = 0 /\ rest' = 0
      BY <1>2 DEF OpenSequence, Move
    <2>2. \A t \in Sender : at[t] \in Updating => t = s
      BY <2>1 DEF NetInv, OneUpdates, Updating
    <2>3. \A t \in Sender : at'[t] \in Updating => t = s
      BY <2>1, <2>2 DEF NetInv, NetTypeOK, Updating
    <2>4. \A p \in published : p.seq < mySeq[s]
      BY <2>1, <2>2 DEF NetInv, NumbersBelow, Updating
    <2>5. at'[s] = "opened"
      BY <2>1 DEF NetInv, NetTypeOK
    <2>6. OneUpdates'
      BY <2>3 DEF OneUpdates
    <2>7. NumbersBelow'
      BY <2>1, <2>3, <2>4, <2>5 DEF NumbersBelow, Updating
    <2> QED BY <2>6, <2>7
  <1> QED BY <1>1, <1>2 DEF NetInv

(* Storing the next number, which is above the one that is given.          *)
LEMMA StoreInv ==
  ASSUME NetInv, NEW s \in Sender, StoreSequence(s) PROVE NetInv'
  <1>0. PacketOf(s) \in SentPacket /\ PacketOf(s).seq = mySeq[s]
    BY PacketType DEF NetInv, PacketOf
  <1>1. NetTypeOK'
    <2>1. rest' \in Nat
      BY DEF NetInv, NetTypeOK, StoreSequence, Uncovered
    <2> QED
      BY <1>0, <2>1, CfmNetAssumption
      DEF NetInv, NetTypeOK, StoreSequence, Move, Place, NextNumber
  <1>2. ASSUME ~disturbed' PROVE OneUpdates' /\ NumbersBelow'
    <2>1. ~disturbed /\ at[s] = "opened" /\ at' = [at EXCEPT ![s] = "sending"]
          /\ mySeq' = mySeq /\ published' = published \cup {PacketOf(s)}
          /\ seqno' = mySeq[s] + 1
      BY <1>2 DEF StoreSequence, Move, NextNumber
    <2>2. \A t \in Sender : at[t] \in Updating => t = s
      BY <2>1 DEF NetInv, OneUpdates, Updating
    <2>3. \A t \in Sender : at'[t] \notin Updating
      BY <2>1, <2>2 DEF NetInv, NetTypeOK, Updating
    <2>4. \A p \in published : p.seq < mySeq[s]
      BY <2>1 DEF NetInv, NumbersBelow
    <2>5. mySeq[s] \in Nat /\ \A p \in published : p.seq \in Nat
      BY DEF NetInv, NetTypeOK, SentPacket
    <2>6. \A p \in published' : p.seq < seqno'
      BY <1>0, <2>1, <2>4, <2>5
    <2>7. rest' = 0
      <3>1. seqno = 0 /\ rest = 0
        BY <2>1 DEF NetInv, NumbersBelow
      <3>2. Uncovered(s) = {}
        BY <3>1 DEF Uncovered
      <3> QED BY <3>2 DEF StoreSequence
    <2>8. OneUpdates' /\ NumbersBelow'
      BY <2>3, <2>6, <2>7 DEF OneUpdates, NumbersBelow, Updating
    <2> QED BY <2>8
  <1> QED BY <1>1, <1>2 DEF NetInv

(* The other steps of a sender leave the file, the numbers read and what   *)
(* was published alone, and bring no process into __updateSequence; a kill *)
(* that leaves the file empty is a disturbance.                            *)
LEMMA OtherInv ==
  ASSUME NetInv, NEW s \in Sender,
         ConsolidatedSync(s) \/ Send(s) \/ Finished(s) \/ Kill(s)
  PROVE  NetInv'
  <1>1. NetTypeOK'
    <2>1. CASE ConsolidatedSync(s)
      BY <2>1, CfmNetAssumption DEF NetInv, NetTypeOK, ConsolidatedSync, Move, Place
    <2>2. CASE Send(s)
      BY <2>2, CfmNetAssumption DEF NetInv, NetTypeOK, Send
    <2>3. CASE Finished(s) \/ Kill(s)
      BY <2>3 DEF NetInv, NetTypeOK, Finished, Kill, Move, Place
    <2> QED BY <2>1, <2>2, <2>3
  <1>2. ASSUME ~disturbed' PROVE OneUpdates' /\ NumbersBelow'
    <2>0. ~disturbed
      <3>1. CASE Kill(s)
        BY <1>2, <3>1 DEF Kill
      <3>2. CASE ConsolidatedSync(s) \/ Send(s) \/ Finished(s)
        BY <1>2, <3>2 DEF ConsolidatedSync, Send, Finished
      <3> QED BY <3>1, <3>2
    <2>1. /\ seqno' = seqno /\ rest' = rest
          /\ mySeq' = mySeq /\ published' = published
      BY DEF ConsolidatedSync, Send, Finished, Kill
    <2>2. \A t \in Sender : at'[t] = at[t] \/ (at[t] # "opened" /\ at'[t] \notin Updating)
      <3>0. Kill(s) => at[s] # "opened"
        BY <1>2 DEF Kill
      <3>1. at' = at \/ (at[s] # "opened" /\ at' = [at EXCEPT ![s] = "synced"])
                     \/ (at[s] # "opened" /\ at' = [at EXCEPT ![s] = "idle"])
        BY <3>0 DEF ConsolidatedSync, Send, Finished, Kill, Move
      <3> QED BY <3>1 DEF Updating, NetInv, NetTypeOK
    <2>3. OneUpdates'
      BY <2>0, <2>2 DEF NetInv, OneUpdates
    <2>4. NumbersBelow'
      <3>1. \A t \in Sender : /\ at'[t] = "read" => at[t] = "read"
                              /\ at'[t] = "opened" <=> at[t] = "opened"
        BY <2>2 DEF Updating
      <3> QED BY <2>0, <2>1, <3>1 DEF NetInv, NumbersBelow
    <2> QED BY <2>3, <2>4
  <1> QED BY <1>1, <1>2 DEF NetInv

(* Every step of the senders keeps the invariant.                          *)
LEMMA NetStepInv == NetInv /\ [NetNext]_netVars => NetInv'
  <1> SUFFICES ASSUME NetInv, [NetNext]_netVars PROVE NetInv'
    OBVIOUS
  <1>1. CASE UNCHANGED netVars
    BY <1>1 DEF netVars, NetInv, NetTypeOK, OneUpdates, NumbersBelow
  <1>2. ASSUME NEW s \in Sender, SenderStep(s) \/ Send(s) PROVE NetInv'
    BY <1>2, ReadInv, ReadMixedInv, OpenInv, StoreInv, OtherInv DEF SenderStep
  <1> QED BY <1>1, <1>2 DEF NetNext

(* The invariant of the senders holds in every state they reach.           *)
THEOREM NetCorrect == NetSpec => []NetInv
  BY NetInitInv, NetStepInv, PTL DEF NetSpec

(* A packet's number is above all numbers given before, unless two updates *)
(* of the sequence file overlapped or one was cut (__updateSequence).      *)
THEOREM NewNumberHolds == NetSpec => NewNumber
  <1>1. NetInv /\ [NetNext]_netVars =>
          [\A s \in Sender : at[s] = "opened" /\ at'[s] = "sending" =>
             disturbed \/ \A p \in published : p.seq < mySeq[s]]_netVars
    BY DEF NetInv, NumbersBelow
  <1> QED BY <1>1, NetCorrect, PTL DEF NetSpec, NewNumber

----------------------------------------------------------------------------
(* The composition.                                                        *)

(* The part of the invariant that is about what nodes have installed.      *)
VersionsOK ==
  /\ have \in [Node -> [SendKind -> Nat]]
  /\ wanted \in [Node -> [SendKind -> Nat]]

(* A sender that is sending has published its packet.                      *)
SendsPublished == \A s \in Sender : at[s] = "sending" => PacketOf(s) \in published

(* The invariant of the composition: that of the senders, that of the      *)
(* daemons, and that packets come from CFMNet and nowhere else.            *)
LEMMA NotifyInvSplit ==
  NotifyInv <=> /\ NetInv /\ DaemonInv /\ VersionsOK /\ SendsPublished
                /\ \A n \in Node : FromPublished(n)
  BY DEF NotifyInv, VersionsOK, SendsPublished

(* At the start nothing is published, queued or performed.                 *)
LEMMA NotifyInitInv == Init => NotifyInv
  <1> SUFFICES ASSUME Init PROVE NotifyInv
    OBVIOUS
  <1>1. NetInv /\ DaemonInv
    BY NetInitInv, DaemonInitInv DEF Init
  <1>2. VersionsOK
    BY DEF Init, VersionsOK
  <1>3. SendsPublished
    BY DEF Init, NetInit, SendsPublished
  <1>4. ASSUME NEW n \in Node PROVE FromPublished(n)
    BY DEF Init, DaemonInit, FromPublished, Recording
  <1> QED BY <1>1, <1>2, <1>3, <1>4, NotifyInvSplit

(* What a sender does keeps its packet published, and forgets none.        *)
LEMMA SenderPublishes ==
  ASSUME NetInv, SendsPublished, NEW s \in Sender, SenderStep(s) \/ Send(s)
  PROVE  SendsPublished' /\ published \subseteq published'
  <1> USE DEF NetInv, NetTypeOK, Place
  <1>1. CASE StoreSequence(s)
    BY <1>1 DEF StoreSequence, Move, SendsPublished, PacketOf
  <1>2. CASE ReadSequence(s) \/ ReadMixed(s)
    <2>1. /\ at[s] = "synced" /\ published' = published
          /\ \A t \in Sender : t # s => at'[t] = at[t] /\ mySeq'[t] = mySeq[t]
          /\ at'[s] \in {"idle", "read"}
      BY <1>2 DEF ReadSequence, ReadMixed, Move
    <2> QED BY <2>1 DEF SendsPublished, PacketOf
  <1>3. CASE OpenSequence(s) \/ ConsolidatedSync(s) \/ Finished(s) \/ Kill(s)
    BY <1>3 DEF OpenSequence, ConsolidatedSync, Finished, Kill, Move,
                SendsPublished, PacketOf
  <1>4. CASE Send(s)
    BY <1>4 DEF Send, SendsPublished, PacketOf
  <1> QED BY <1>1, <1>2, <1>3, <1>4 DEF SenderStep

(* A daemon that stands still still has what was published.                *)
LEMMA StillPublished ==
  ASSUME NEW n \in Node, FromPublished(n), published \subseteq published',
         UNCHANGED daemonVars
  PROVE  FromPublished(n)'
  BY DEF FromPublished, ForMe, daemonVars

(* A step of a node takes packets from its queue, to the packet handled,   *)
(* to those performed.                                                     *)
LEMMA NodePublished ==
  ASSUME DaemonTypeOK, NEW n \in Node, NodeStep(n), UNCHANGED netVars,
         NEW m \in Node, FromPublished(m)
  PROVE  FromPublished(m)'
  <1> USE DEF DaemonTypeOK, Goto, fileVars, clientVars, historyVars
  <1>0. published' = published
    BY DEF netVars
  <1>1. CASE m # n
    <2>1. /\ pc'[m] = pc[m] /\ queue'[m] = queue[m]
          /\ dpack'[m] = dpack[m] /\ performed'[m] = performed[m]
      BY <1>1 DEF NodeStep, DaemonStep, Start, SetupSocket, IgnoreDuplicate,
           IgnoreOtherGroup, Accept, Listen, SetSequenceNoFile, SetSequence,
           WriteSequence, SetInstallers, Reopen, WriteInstallers, RunUpdate,
           Poll, PollTimeout, PollDone, Finish, Fork, ClientWork, ClientExit,
         OrphanEnds, Crash
    <2> QED BY <1>0, <2>1 DEF FromPublished, ForMe
  <1>2. CASE m = n
    <2>1. CASE IgnoreDuplicate(n) \/ IgnoreOtherGroup(n) \/ Accept(n)
      <3>0. Listen(n)
        BY <2>1 DEF IgnoreDuplicate, IgnoreOtherGroup, Accept
      <3>1. queue[n] \in Seq(AnyPacket) /\ queue[n] # << >>
        BY <3>0 DEF Listen
      <3>2. /\ queue'[n] = Tail(queue[n]) /\ dpack'[n] = Head(queue[n])
            /\ performed'[n] = performed[n]
        BY <3>0 DEF Listen, NextPacket
      <3>3. \A i \in 1..Len(queue'[n]) :
              i + 1 \in 1..Len(queue[n]) /\ queue'[n][i] = queue[n][i + 1]
        BY <3>1, <3>2
      <3>4. \A i \in 1..Len(queue'[n]) : queue'[n][i] \in published
        BY <1>2, <3>3 DEF FromPublished
      <3>5. dpack'[n] \in published
        <4>1. 1 \in 1..Len(queue[n]) /\ Head(queue[n]) = queue[n][1]
          BY <3>1
        <4> QED BY <1>2, <3>2, <4>1 DEF FromPublished
      <3>6. pc[n] = "listen" /\ (pc' = pc \/ Accept(n))
        BY <2>1 DEF Listen, IgnoreDuplicate, IgnoreOtherGroup, Accept
      <3>7. pc'[n] \in Recording \cup {"randSleep"} => ForMe(n, dpack'[n])
        BY <3>2, <3>6 DEF Accept, NextPacket, Recording
      <3>8. \A i \in 1..Len(queue'[n]) : queue'[n][i] \in published'
        BY <1>0, <3>4
      <3>9. pc'[n] \in Recording \cup {"randSleep"} =>
              dpack'[n] \in published' /\ ForMe(n, dpack'[n])
        BY <1>0, <3>5, <3>7
      <3>10. performed'[n] \subseteq published'
        BY <1>0, <1>2, <3>2 DEF FromPublished
      <3>11. FromPublished(n)'
        BY <3>8, <3>9, <3>10 DEF FromPublished, ForMe
      <3> QED BY <1>2, <3>11
    <2>2. CASE Start(n)
      <3>1. pc'[n] \in {"update", "setupSocket"}
        <4>1. CASE StartupKinds(n) # {}
          BY <2>2, <4>1 DEF Start
        <4>2. CASE StartupKinds(n) = {}
          BY <2>2, <4>2 DEF Start
        <4> QED BY <4>1, <4>2
      <3>2. queue'[n] = queue[n] /\ performed'[n] = {}
        BY <2>2 DEF Start
      <3> QED BY <1>0, <1>2, <3>1, <3>2 DEF FromPublished, Recording
    <2>3. CASE RunUpdate(n)
      <3>1. pc[n] = "randSleep" /\ pc'[n] = "update" /\ queue' = queue
            /\ performed'[n] = performed[n] \cup {dpack[n]}
        BY <2>3 DEF RunUpdate
      <3> QED BY <1>0, <1>2, <3>1 DEF FromPublished, Recording
    <2>4. CASE SetSequenceNoFile(n) \/ SetSequence(n) \/ WriteSequence(n)
               \/ SetInstallers(n) \/ WriteInstallers(n)
      <3>1. pc[n] \in Recording /\ queue' = queue /\ dpack' = dpack
            /\ performed' = performed
        BY <2>4 DEF SetSequenceNoFile, SetSequence, Reopen, WriteSequence,
             SetInstallers, WriteInstallers, Recording
      <3> QED BY <1>0, <1>2, <3>1 DEF FromPublished, ForMe
    <2>5. CASE SetupSocket(n) \/ Poll(n) \/ PollTimeout(n) \/ PollDone(n)
               \/ ClientWork(n) \/ ClientExit(n)
               \/ \E kinds \in SUBSET Kind : OrphanEnds(n, kinds)
      <3>1. queue' = queue /\ dpack' = dpack /\ performed' = performed
        BY <2>5 DEF SetupSocket, Poll, PollTimeout, PollDone, ClientWork,
             ClientExit, OrphanEnds
      <3>2. pc'[n] = pc[n] \/ pc'[n] \in {"listen", "off", "setupSocket"}
        BY <2>5 DEF SetupSocket, Poll, PollTimeout, PollDone, Finish,
             ClientWork, ClientExit, OrphanEnds
      <3> QED BY <1>0, <1>2, <3>1, <3>2 DEF FromPublished, ForMe, Recording
    <2>6. CASE Crash(n)
      <3>1. pc'[n] = "off" /\ queue'[n] = << >> /\ performed' = performed
        BY <2>6 DEF Crash
      <3> QED BY <1>0, <1>2, <3>1 DEF FromPublished, Recording
    <2> QED
      BY <2>1, <2>2, <2>3, <2>4, <2>5, <2>6
      DEF NodeStep, DaemonStep
  <1> QED BY <1>1, <1>2

(* A broadcast appends the sender's packet to queues.                      *)
LEMMA BroadcastPublished ==
  ASSUME DaemonTypeOK, NEW p \in published, NEW R, Deliver(p, R),
         published' = published, NEW n \in Node, FromPublished(n)
  PROVE  FromPublished(n)'
  <1> USE DEF fileVars, clientVars, historyVars
  <1>1. pc' = pc /\ dpack' = dpack /\ performed' = performed
    BY DEF Deliver
  <1>2. queue[n] \in Seq(AnyPacket)
    BY DEF DaemonTypeOK
  <1>3. queue'[n] = queue[n] \/ queue'[n] = Append(queue[n], p)
    BY DEF Deliver
  <1>4. ASSUME NEW i \in 1..Len(queue'[n]) PROVE queue'[n][i] \in published
    <2>1. CASE queue'[n] = queue[n]
      BY <2>1, <1>4 DEF FromPublished
    <2>2. CASE queue'[n] = Append(queue[n], p)
      <3>1. \/ i \in 1..Len(queue[n]) /\ queue'[n][i] = queue[n][i]
            \/ queue'[n][i] = p
        BY <2>2, <1>2, <1>4
      <3> QED BY <3>1 DEF FromPublished
    <2> QED BY <1>3, <2>1, <2>2
  <1> QED BY <1>1, <1>4 DEF FromPublished, ForMe

(* Every step of the composition keeps the invariant.                      *)
LEMMA NotifyStepInv == NotifyInv /\ [Next]_vars => NotifyInv'
  <1> SUFFICES ASSUME NotifyInv, [Next]_vars PROVE NotifyInv'
    OBVIOUS
  <1>0. /\ NetInv /\ DaemonInv /\ VersionsOK /\ SendsPublished
        /\ \A n \in Node : FromPublished(n)
        /\ DaemonTypeOK /\ NetTypeOK
    BY NotifyInvSplit DEF DaemonInv, NetInv
  <1>1. ASSUME UNCHANGED vars PROVE NotifyInv'
    <2>1. UNCHANGED netVars /\ UNCHANGED daemonVars /\ UNCHANGED <<have, wanted>>
      BY <1>1 DEF vars
    <2>2. NetInv' /\ published' = published
      BY <1>0, <2>1, NetStepInv DEF netVars
    <2>3. DaemonInv'
      BY <1>0, <2>1, StutterInv
    <2>4. VersionsOK' /\ SendsPublished'
      BY <1>0, <2>1 DEF netVars, VersionsOK, SendsPublished, PacketOf
    <2>5. ASSUME NEW n \in Node PROVE FromPublished(n)'
      BY <1>0, <2>1, <2>2, StillPublished
    <2> QED BY <2>2, <2>3, <2>4, <2>5, NotifyInvSplit DEF NotifyInv, VersionsOK, SendsPublished
  <1>2. ASSUME NEW s \in Sender, SenderAction(s) PROVE NotifyInv'
    <2>1. SenderStep(s) \/ Send(s)
      BY <1>2 DEF SenderAction, SenderStep, Broadcast, Announced
    <2>2. NetInv'
      BY <1>0, <2>1, NetStepInv DEF NetNext
    <2>3. SendsPublished' /\ published \subseteq published'
      BY <1>0, <2>1, SenderPublishes
    <2>4. VersionsOK'
      <3>1. version[s] \in Nat
        BY <1>0 DEF NetTypeOK
      <3>2. CASE Announced(s)
        BY <1>0, <3>1, <3>2 DEF Announced, VersionsOK
      <3>3. CASE ~Announced(s)
        BY <1>0, <1>2, <3>3 DEF SenderAction, Broadcast, VersionsOK
      <3> QED BY <3>2, <3>3
    <2>5. CASE UNCHANGED daemonVars
      <3>1. DaemonInv' /\ \A n \in Node : FromPublished(n)'
        BY <1>0, <2>3, <2>5, StutterInv, StillPublished
      <3> QED BY <2>2, <2>3, <2>4, <3>1 DEF NotifyInv, VersionsOK, SendsPublished
    <2>6. ASSUME NEW R \in SUBSET Node, Broadcast(s, R) PROVE NotifyInv'
      <3>1. Send(s) /\ Deliver(PacketOf(s), R)
        BY <2>6 DEF Broadcast
      <3>2. PacketOf(s) \in published /\ published' = published
        BY <1>0, <3>1 DEF Send, SendsPublished
      <3>3. PacketOf(s) \in AnyPacket
        BY <1>0, PacketType DEF SentPacket, AnyPacket, SendKind, Kind
      <3>4. DaemonInv'
        BY <1>0, <3>1, <3>3, DeliverInv
      <3>5. \A n \in Node : FromPublished(n)'
        BY <1>0, <3>1, <3>2, BroadcastPublished
      <3> QED BY <2>2, <2>3, <2>4, <3>4, <3>5 DEF NotifyInv, VersionsOK, SendsPublished
    <2> QED BY <1>2, <2>5, <2>6 DEF SenderAction, Announced
  <1>3. ASSUME NEW n \in Node, NodeAction(n) PROVE NotifyInv'
    <2>1. NodeStep(n) /\ UNCHANGED netVars
      BY <1>3 DEF NodeAction, NodeStep, Install, InstallOrphan
    <2>2. NetInv' /\ SendsPublished'
      BY <1>0, <2>1, NetStepInv DEF netVars, SendsPublished, PacketOf
    <2>3. DaemonInv'
      BY <1>0, <2>1, NodeStepInv
    <2>4. \A m \in Node : FromPublished(m)'
      BY <1>0, <2>1, NodePublished
    <2>5. VersionsOK'
      <3>1. CASE Install(n)
        BY <1>0, <3>1 DEF Install, VersionsOK, NetTypeOK
      <3>2. CASE UNCHANGED <<have, wanted>>
        BY <1>0, <3>2 DEF VersionsOK
      <3>3. ASSUME NEW kinds \in SUBSET Kind, InstallOrphan(n, kinds)
            PROVE  VersionsOK'
        BY <1>0, <3>3 DEF InstallOrphan, VersionsOK, NetTypeOK
      <3> QED BY <1>3, <3>1, <3>2, <3>3 DEF NodeAction
    <2> QED BY <2>2, <2>3, <2>4, <2>5 DEF NotifyInv, VersionsOK, SendsPublished
  <1> QED BY <1>1, <1>2, <1>3 DEF Next

(* The invariants of the senders and of the daemons hold in their          *)
(* composition, and daemons have only packets that were published.         *)
THEOREM NotifyCorrect == Spec => []NotifyInv
  BY NotifyInitInv, NotifyStepInv, PTL DEF Spec

---------------------------------------------------------------------------
(* The steps of the promise                                                *)

(* Storing the sequence number publishes the update; nothing else does.    *)
LEMMA SenderKeepsPromise ==
  ASSUME NotifyInv, NEW s \in Sender, SenderAction(s)
  PROVE  Promise!Next \/ UNCHANGED Promise!vars
  <1>1. performed' = performed
    BY DEF SenderAction, Broadcast, Announced, Deliver, daemonVars, historyVars
  <1>2. CASE StoreSequence(s)
    <2>1. PacketOf(s) \in Promise!Update
      BY PacketType DEF NotifyInv, NetInv, SentPacket, SendKind, Promise!Update
    <2>2. published' = published \cup {PacketOf(s)}
      BY <1>2 DEF StoreSequence
    <2>3. Promise!Publish
      BY <1>1, <2>1, <2>2 DEF Promise!Publish
    <2> QED BY <2>3 DEF Promise!Next
  <1>3. CASE ~StoreSequence(s)
    BY <1>1, <1>3
    DEF SenderAction, Broadcast, Announced, ConsolidatedSync, ReadSequence,
        ReadMixed, OpenSequence, Kill, Send, Finished, Promise!vars
  <1> QED BY <1>2, <1>3

(* Forking the client handles the update, starting the daemon forgets.     *)
LEMMA NodeKeepsPromise ==
  ASSUME NotifyInv, NEW n \in Node, NodeAction(n)
  PROVE  Promise!Next \/ UNCHANGED Promise!vars
  <1>1. NodeStep(n) /\ published' = published
    BY DEF NodeAction, NodeStep, Install, InstallOrphan, netVars
  <1>2. CASE RunUpdate(n)
    <2>1. pc[n] = "randSleep"
          /\ performed' = [performed EXCEPT ![n] = @ \cup {dpack[n]}]
      BY <1>2 DEF RunUpdate
    <2>2. dpack[n] \in published /\ dpack[n].ngid \in {0, Ngid[n]}
      BY <2>1 DEF NotifyInv, FromPublished, ForMe
    <2>3. \A q \in performed[n] : q.seq < dpack[n].seq
      BY <2>1 DEF NotifyInv, DaemonInv, NumbersAgree
    <2>4. Promise!Handle(n)
      BY <1>1, <2>1, <2>2, <2>3 DEF Promise!Handle
    <2> QED BY <2>4 DEF Promise!Next
  <1>3. CASE Start(n)
    <2>1. Promise!Forget(n)
      BY <1>1, <1>3 DEF Start, Promise!Forget
    <2> QED BY <2>1 DEF Promise!Next
  <1>4. CASE ~RunUpdate(n) /\ ~Start(n)
    <2>1. performed' = performed
      BY <1>1, <1>4 DEF NodeStep, DaemonStep, SetupSocket, IgnoreDuplicate,
         IgnoreOtherGroup, Accept, Listen, SetSequenceNoFile, SetSequence,
         WriteSequence, SetInstallers, Reopen, WriteInstallers, Poll,
         PollTimeout, PollDone, ClientWork, ClientExit, OrphanEnds, Crash,
           historyVars
    <2> QED BY <1>1, <2>1 DEF Promise!vars
  <1> QED BY <1>2, <1>3, <1>4

(* The senders and the daemons together keep the promise: a node handles   *)
(* only updates that were published and address it, each at most once and  *)
(* in order, until its daemon is restarted.                                *)
THEOREM NotifyKeepsPromise == Spec => PromiseSpec
  <1>1. Init => Promise!Init
    BY DEF Init, NetInit, DaemonInit, Promise!Init
  <1>2. NotifyInv /\ [Next]_vars => [Promise!Next]_(Promise!vars)
    <2> SUFFICES ASSUME NotifyInv, [Next]_vars
                 PROVE  Promise!Next \/ UNCHANGED Promise!vars
      OBVIOUS
    <2>1. CASE UNCHANGED vars
      BY <2>1 DEF vars, netVars, daemonVars, Promise!vars
    <2> QED BY <2>1, SenderKeepsPromise, NodeKeepsPromise DEF Next
  <1> QED BY <1>1, <1>2, NotifyCorrect, PTL DEF Spec, PromiseSpec, Promise!Spec
===========================================================================
