----------------------------- MODULE CfmPromise -----------------------------
(***************************************************************************)
(* What update notification promises, without files, sockets or processes: *)
(* a node only handles updates that were published and that address its    *)
(* node group, each at most once and in the order of their numbers, until  *)
(* its daemon is restarted and forgets.                                    *)
(***************************************************************************)
EXTENDS Naturals

CONSTANTS Node, Ngid

VARIABLES
  published,   \* the updates published so far
  handled      \* per node, those handled since its daemon was started

Update == [seq : Nat, ngid : Nat,
           kinds : SUBSET {"UPDATEFILE", "UPDATEPACKAGE", "UPDATEREPO"},
           inst : BOOLEAN]

vars == <<published, handled>>

Init ==
  /\ published = {}
  /\ handled = [n \in Node |-> {}]

Publish ==
  /\ \E p \in published' :
       /\ p \in Update
       /\ published' = published \cup {p}
  /\ UNCHANGED handled

Handle(n) ==
  /\ \E p \in published :
       /\ p.ngid \in {0, Ngid[n]}
       /\ \A q \in handled[n] : q.seq < p.seq
       /\ handled' = [handled EXCEPT ![n] = @ \cup {p}]
  /\ UNCHANGED published

Forget(n) ==
  /\ handled' = [handled EXCEPT ![n] = {}]
  /\ UNCHANGED published

Next == Publish \/ \E n \in Node : Handle(n) \/ Forget(n)

Spec == Init /\ [][Next]_vars
=============================================================================
