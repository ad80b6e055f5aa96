---------------------------- MODULE MCCfmNotify ----------------------------
(* Two processes, of which the first asks node group 1 for files and the   *)
(* second everybody for packages; node n1 is of group 1, n2 of group 2.    *)
EXTENDS CfmNotify, TLC

CONSTANTS s1, s2, n1, n2

MCRequest == [s \in Sender |->
  IF s = s1 THEN [ngid |-> 1, kinds |-> {"UPDATEFILE"}, inst |-> TRUE]
            ELSE [ngid |-> 0, kinds |-> {"UPDATEPACKAGE", "UPDATEREPO"},
                  inst |-> TRUE]]
MCNgid == [n \in Node |-> IF n = n1 THEN 1 ELSE 2]
MCHasNii == [n \in Node |-> TRUE]

(* A cluster that is running: every daemon listens, nothing is outstanding. *)
RunningInit ==
  /\ NetInit
  /\ pc = [n \in Node |-> "listen"]
  /\ bound = [n \in Node |-> TRUE]
  /\ sequence = [n \in Node |-> 0]
  /\ seqfile = [n \in Node |-> NoFile]
  /\ saved = [n \in Node |-> NoFile]
  /\ dpack = [n \in Node |-> NoPacket]
  /\ queue = [n \in Node |-> << >>]
  /\ child = [n \in Node |-> "none"]
  /\ waited = [n \in Node |-> 0]
  /\ orphans = [n \in Node |-> {}]
  /\ performed = [n \in Node |-> {}]
  /\ everRun = [n \in Node |-> {}]
  /\ spoiled = [n \in Node |-> FALSE]
  /\ have = [n \in Node |-> [k \in SendKind |-> 0]]
  /\ wanted = [n \in Node |-> [k \in SendKind |-> 0]]

RunningSpec == RunningInit /\ [][Next]_vars /\ Fairness
=============================================================================
