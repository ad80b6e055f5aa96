--------------------------- MODULE AddHost_proofs ---------------------------
(***************************************************************************)
(* Hosts have addresses of their own, and database, DHCP server and PXE    *)
(* files tell of the same hosts, for any number of processes, of requests, *)
(* of MACs, addresses and ranks and of kills.                              *)
(***************************************************************************)
EXTENDS AddHost, TLAPS

Place == {"idle", "check", "lock", "work", "load", "pick", "row", "address",
          "lease", "plugin", "delete", "nics", "nodes", "forget", "clear", "set",
          "boot"}

RunRecord ==
  [at : Place, kind : Kind \cup {"none"},
   todo : Seq(Mac \cup Rank \cup {Installer}), start : Rank,
   hint : Ip \cup {0}, name : Rank, mac : Mac \cup {NoMac}, nid : Nid \cup {0},
   ips : SUBSET Ip, macs : SUBSET (Mac \cup {NoMac}),
   names : SUBSET (Rank \cup {Installer}), last : Ip \cup {1},
   again : BOOLEAN, done : Seq(Rank), master : BOOLEAN, behind : BOOLEAN]

(* Where a process is goes with what it was asked for and has in hand.     *)
PlaceOK(r) ==
  /\ r.at = "idle" => r = Idle
  /\ r.at # "idle" => r.kind \in Kind
  /\ r.kind = "import" => r.todo \in Seq(Mac)
  /\ r.kind = "remove" => r.todo \in Seq(Rank \cup {Installer})
  /\ r.kind = "static" => r.hint \in Ip
  /\ r.at \in {"check", "lock"} => r.done = <<>>
  /\ r.at = "load" => r.kind = "listen"
  /\ r.at \in {"pick", "row"} => r.kind \in Adding
  /\ r.at = "address" => r.kind \in Adding \cup {"static"}
  /\ r.at = "lease" => r.kind \in Adding \cup {"replace"}
  /\ r.at = "plugin" => r.kind \in Adding \cup {"static", "replace"}
  /\ r.at \in {"delete", "nics", "nodes"} => r.kind = "remove"
  /\ r.at \in {"forget", "clear", "set", "boot"} => r.kind = "replace"
  /\ r.at \in {"load", "pick", "row"} => r.mac \in Mac
  /\ r.at = "address" /\ r.kind \in Adding => r.mac \in Mac
  /\ r.at \in {"forget", "clear", "set", "boot"} => r.mac \in Mac
  /\ r.at \in {"lease", "boot"} => r.last \in Ip
  /\ r.at \in {"address", "nics", "nodes", "forget", "clear", "set", "boot"} => r.nid \in Nid

Run == {r \in RunRecord : PlaceOK(r)}
RunsOK == run \in [Proc -> Run]

(* The row a process has just inserted has no nic, and is that of no other *)
(* process.                                                                *)
NewRowsOK ==
  /\ \A i \in DOMAIN nodes : i < nextNid
  /\ \A p \in Proc : At(p, "address") =>
       /\ run[p].nid < nextNid /\ run[p].nid \notin DOMAIN nics
       /\ \A q \in Proc : At(q, "address") /\ run[q].nid = run[p].nid => q = p

(* The parts of the type invariant.                                        *)
RowsTyped ==
  /\ DOMAIN nodes \subseteq Nid /\ DOMAIN nics \subseteq DOMAIN nodes
  /\ \A i \in DOMAIN nodes : nodes[i] \in [name : Rank, managed : BOOLEAN]
  /\ \A i \in DOMAIN nics : nics[i] \in [ip : Ip, mac : Mac \cup {NoMac}]
  /\ \A i, j \in DOMAIN nodes : nodes[i].name = nodes[j].name => i = j
  /\ \A i, j \in DOMAIN nics :
       nics[i].mac = nics[j].mac /\ nics[i].mac # NoMac => i = j

BootTyped ==
  /\ DOMAIN lease \subseteq Rank
  /\ \A n \in DOMAIN lease : lease[n] \in [ip : Ip, mac : Mac]
  /\ pxe \subseteq Mac

RestTyped ==
  /\ nextNid \in 1..(MaxNid + 1)
  /\ lockFile \in BOOLEAN
  /\ doubtful \subseteq Nid /\ cut \subseteq Rank /\ overlap \in BOOLEAN

TypeInv == RunsOK /\ RowsTyped /\ BootTyped /\ RestTyped /\ NewRowsOK

(* A process that nobody was faster than has seen every address.           *)
SeenOK(p) ==
  /\ ~At(p, "idle") /\ ~run[p].behind => Ips \subseteq run[p].ips
  /\ At(p, "address") /\ Kinds(p, {"static"}) => run[p].hint \notin run[p].ips

AddressInv == AddressesUnique /\ \A p \in Proc : SeenOK(p)

(* The stores while no two processes work at once.                         *)
AloneOK == \A p, q \in Proc : Working(p) /\ Working(q) => p = q

LeasesOK ==
  \A n \in DOMAIN lease : \E i \in DOMAIN nics : nodes[i].name = n /\ nics[i] = lease[n]

(* A host all stores know, and one that wants its PXE file only.           *)
Complete(i) ==
  /\ i \in DOMAIN nics
  /\ nodes[i].managed => nics[i].mac \in pxe /\ nodes[i].name \in DOMAIN lease
HalfDone(i) ==
  /\ i \in DOMAIN nics
  /\ nodes[i].managed => nics[i].mac # NoMac /\ nodes[i].name \in DOMAIN lease

Named(n) == {i \in DOMAIN nodes : nodes[i].name = n}

(* What a process knows of the host it is at.                              *)
HostOK(p) ==
  LET n == run[p].name
      i == run[p].nid
      place == run[p].at
  IN
  /\ place \in {"address", "lease", "nics", "nodes", "forget", "clear", "set", "boot"} =>
       i \in Named(n)
  /\ place \in {"address", "nics", "nodes", "clear", "set", "boot"} => n \notin DOMAIN lease
  /\ place \in {"delete", "nics", "forget", "clear", "set"} => PxeOf(n) \cap pxe = {}
  /\ place = "address" /\ Kinds(p, {"static"}) => ~nodes[i].managed
  /\ place \in {"lease", "boot"} =>
       /\ i \in DOMAIN nics /\ nics[i] = [ip |-> run[p].last, mac |-> run[p].mac]
       /\ run[p].mac \in Mac
  /\ place = "lease" /\ Kinds(p, {"replace"}) => run[p].mac \in pxe
  /\ place = "nodes" => i \notin DOMAIN nics
  /\ place = "plugin" => n \in cut \/ \A j \in Named(n) :
       IF Kinds(p, Adding) THEN HalfDone(j) ELSE Complete(j)
  /\ place \in {"load", "pick", "row", "address"} /\ Kinds(p, {"listen"}) =>
       run[p].mac \notin Macs /\ (place # "load" => run[p].mac \notin run[p].macs)

(* What an import has done wants PXE files only.                           *)
DoneOK(p) ==
  Kinds(p, {"import"}) =>
    \A n \in Range(run[p].done) :
      n \in Names /\ (n \in cut \/ \A j \in Named(n) : HalfDone(j))

(* No row is incomplete but for a name cut or in somebody's hands.         *)
Rows(names) == \A i \in DOMAIN nodes : nodes[i].name \in names \/ Complete(i)
InHand == UNION {Unfinished(p) : p \in Proc}

StoresInv ==
  ~overlap =>
    /\ AloneOK
    /\ LeasesOK /\ pxe \subseteq Macs
    /\ \A p \in Proc : Working(p) => HostOK(p) /\ DoneOK(p)
    /\ Rows(cut \cup InHand)

----------------------------------------------------------------------------
(* What a process is doing, changed.                                       *)
LEMMA Bounds ==
  /\ Nid \subseteq Nat /\ Ip \subseteq Nat /\ Rank \subseteq Nat /\ 0 \in Rank
  /\ NoMac \notin Mac /\ 0 \notin Nid /\ 0 \notin Ip /\ Installer \in Nat
  /\ Installer \notin Rank
  /\ MaxNid \in Nat
  BY AddHostAssumption DEF Nid, Ip, Rank, Installer

LEMMA IdleTyped == Idle \in Run /\ Idle.at = "idle" /\ Idle.kind = "none" /\ Idle.done = <<>>
  <1>1. <<>> \in Seq(Mac \cup Rank \cup {Installer}) /\ <<>> \in Seq(Rank)
    OBVIOUS
  <1>2. Idle \in RunRecord
    BY <1>1, Bounds DEF Idle, RunRecord, Place
  <1>3. Idle.at = "idle" /\ Idle.kind = "none" /\ Idle.done = <<>>
    BY DEF Idle
  <1>4. PlaceOK(Idle)
    BY <1>3 DEF PlaceOK, Adding
  <1> QED BY <1>2, <1>3, <1>4 DEF Run

Others(p) == \A q \in Proc : q # p => run'[q] = run[q]

LEMMA Moves ==
  ASSUME RunsOK, NEW p \in Proc, NEW r \in Run, run' = [run EXCEPT ![p] = r]
  PROVE  RunsOK' /\ run'[p] = r /\ Others(p)
  BY DEF RunsOK, Others

LEMMA ToIdle ==
  ASSUME RunsOK, NEW p \in Proc, run' = [run EXCEPT ![p] = Idle]
  PROVE  RunsOK' /\ run'[p] = Idle /\ Others(p)
  BY Moves, IdleTyped

(* What stays of what p keeps.                                             *)
AskedKept(p) == run'[p].kind = run[p].kind /\ run'[p].hint = run[p].hint
HostKept(p) == run'[p].name = run[p].name /\ run'[p].mac = run[p].mac /\ run'[p].nid = run[p].nid
ReadKept(p) ==
  /\ run'[p].ips = run[p].ips /\ run'[p].macs = run[p].macs /\ run'[p].last = run[p].last
  /\ run'[p].behind = run[p].behind
DoneKept(p) == run'[p].done = run[p].done

LEMMA StepMoves ==
  ASSUME RunsOK, NEW p \in Proc, NEW place \in Place, run' = [run EXCEPT ![p].at = place],
         PlaceOK([run[p] EXCEPT !.at = place])
  PROVE  /\ RunsOK' /\ run'[p].at = place /\ Others(p)
         /\ AskedKept(p) /\ HostKept(p) /\ ReadKept(p) /\ DoneKept(p)
  <1> DEFINE r == [run[p] EXCEPT !.at = place]
  <1>1. run[p] \in RunRecord
    BY DEF RunsOK, Run
  <1>2. r \in Run
    BY <1>1 DEF Run, RunRecord
  <1>3. run' = [run EXCEPT ![p] = r]
    OBVIOUS
  <1>4. RunsOK' /\ run'[p] = r /\ Others(p)
    <2> HIDE DEF r
    <2> QED BY <1>2, <1>3, Moves
  <1> QED BY <1>1, <1>4 DEF RunRecord, AskedKept, HostKept, ReadKept, DoneKept

LEMMA RunIs ==
  ASSUME RunsOK, NEW p \in Proc PROVE run[p] \in RunRecord /\ PlaceOK(run[p]) /\ run[p] \in Run
  BY DEF RunsOK, Run

(* Steps that change the place only.                                       *)
LEMMA LockMoves ==
  ASSUME RunsOK, NEW p \in Proc, At(p, "lock"), Step(p, "work")
  PROVE  /\ RunsOK' /\ run'[p].at = "work" /\ Others(p)
         /\ AskedKept(p) /\ HostKept(p) /\ ReadKept(p) /\ DoneKept(p)
  <1>1. PlaceOK([run[p] EXCEPT !.at = "work"])
    BY RunIs DEF PlaceOK, RunRecord, At
  <1> QED BY <1>1, StepMoves DEF Step, Place

LEMMA RowMoves ==
  ASSUME RunsOK, NEW p \in Proc, At(p, "row"), Kinds(p, Adding), Step(p, "plugin")
  PROVE  /\ RunsOK' /\ run'[p].at = "plugin" /\ Others(p)
         /\ AskedKept(p) /\ HostKept(p) /\ ReadKept(p) /\ DoneKept(p)
  <1>1. PlaceOK([run[p] EXCEPT !.at = "plugin"])
    BY RunIs DEF PlaceOK, RunRecord, At, Kinds
  <1> QED BY <1>1, StepMoves DEF Step, Place

LEMMA LeaseMoves ==
  ASSUME RunsOK, NEW p \in Proc, WriteLease(p)
  PROVE  /\ RunsOK' /\ run'[p].at = "plugin" /\ Others(p)
         /\ AskedKept(p) /\ HostKept(p) /\ ReadKept(p) /\ DoneKept(p)
  <1>1. PlaceOK([run[p] EXCEPT !.at = "plugin"])
    BY RunIs DEF WriteLease, PlaceOK, RunRecord, At, Adding
  <1> QED BY <1>1, StepMoves DEF WriteLease, Place

LEMMA DeleteMoves ==
  ASSUME RunsOK, NEW p \in Proc, At(p, "delete"), Step(p, "work")
  PROVE  /\ RunsOK' /\ run'[p].at = "work" /\ Others(p)
         /\ AskedKept(p) /\ HostKept(p) /\ ReadKept(p) /\ DoneKept(p)
  <1>1. PlaceOK([run[p] EXCEPT !.at = "work"])
    BY RunIs DEF PlaceOK, RunRecord, At
  <1> QED BY <1>1, StepMoves DEF Step, Place

LEMMA NicsMoves ==
  ASSUME RunsOK, NEW p \in Proc, At(p, "nics"), Step(p, "nodes")
  PROVE  /\ RunsOK' /\ run'[p].at = "nodes" /\ Others(p)
         /\ AskedKept(p) /\ HostKept(p) /\ ReadKept(p) /\ DoneKept(p)
  <1>1. PlaceOK([run[p] EXCEPT !.at = "nodes"])
    BY RunIs DEF PlaceOK, RunRecord, At
  <1> QED BY <1>1, StepMoves DEF Step, Place

LEMMA ReplaceMoves ==
  ASSUME RunsOK, NEW p \in Proc, NEW place \in {"clear", "set"},
         At(p, "forget") \/ At(p, "clear"), Step(p, place)
  PROVE  /\ RunsOK' /\ run'[p].at = place /\ Others(p)
         /\ AskedKept(p) /\ HostKept(p) /\ ReadKept(p) /\ DoneKept(p)
  <1>1. PlaceOK([run[p] EXCEPT !.at = place])
    BY RunIs DEF PlaceOK, RunRecord, At
  <1> QED BY <1>1, StepMoves DEF Step, Place

LEMMA BootMoves ==
  ASSUME RunsOK, NEW p \in Proc, At(p, "boot"), Step(p, "lease")
  PROVE  /\ RunsOK' /\ run'[p].at = "lease" /\ Others(p)
         /\ AskedKept(p) /\ HostKept(p) /\ ReadKept(p) /\ DoneKept(p)
  <1>1. PlaceOK([run[p] EXCEPT !.at = "lease"])
    BY RunIs DEF PlaceOK, RunRecord, At, Adding
  <1> QED BY <1>1, StepMoves DEF Step, Place

(* A run begins.                                                           *)
LEMMA StartMoves ==
  ASSUME RunsOK, RowsTyped, NEW p \in Proc, NEW r \in Request, Start(p, r)
  PROVE  /\ RunsOK' /\ run'[p].at = "check" /\ Others(p)
         /\ run'[p].done = <<>> /\ run'[p].ips = Ips /\ At(p, "idle")
  <1> DEFINE s == [Idle EXCEPT !.at = "check", !.kind = r.kind, !.todo = r.todo,
                     !.start = r.name, !.name = r.name, !.hint = r.hint, !.ips = Ips,
                     !.macs = Macs, !.names = Names \cup {Installer}]
  <1>1. /\ r.kind \in Kind /\ r.name \in Rank /\ r.hint \in Ip \cup {0}
        /\ r.kind = "import" => r.todo \in Seq(Mac)
        /\ r.kind = "remove" => r.todo \in Seq(Rank \cup {Installer})
        /\ r.kind = "static" => r.hint \in Ip
    BY AddHostAssumption
  <1>9. r.todo \in Seq(Mac \cup Rank \cup {Installer})
    <2>1. CASE r.kind = "import"
      BY <1>1, <2>1
    <2>2. CASE r.kind = "remove"
      BY <1>1, <2>2
    <2>3. CASE r.kind \notin {"import", "remove"}
      <3>1. r.todo = <<>>
        BY <2>3, AddHostAssumption
      <3> QED BY <3>1
    <2> QED BY <2>1, <2>2, <2>3
  <1>2. Ips \subseteq Ip /\ Macs \subseteq Mac \cup {NoMac} /\ Names \subseteq Rank
    BY DEF RowsTyped, Ips, Macs, Names
  <1>3. Idle \in RunRecord /\ Idle.done = <<>>
    BY IdleTyped DEF Run
  <1>4. s \in RunRecord
    BY <1>1, <1>2, <1>3, <1>9 DEF RunRecord, Place
  <1>5. s.at = "check" /\ s.kind = r.kind /\ s.todo = r.todo /\ s.hint = r.hint
        /\ s.done = <<>> /\ s.ips = Ips
    BY <1>3 DEF RunRecord
  <1>6. s \in Run
    <2>1. PlaceOK(s)
      <3> HIDE DEF s
      <3> QED BY <1>1, <1>5 DEF PlaceOK
    <2> QED BY <1>4, <2>1 DEF Run
  <1>7. run' = [run EXCEPT ![p] = s] /\ At(p, "idle")
    BY DEF Start
  <1> HIDE DEF s
  <1> QED BY <1>5, <1>6, <1>7, Moves

LEMMA CheckMoves ==
  ASSUME RunsOK, NEW p \in Proc, Check(p)
  PROVE  /\ RunsOK' /\ Others(p) /\ run[p].at = "check"
         /\ \/ run'[p] = Idle
            \/ /\ run'[p].at = "lock"
               /\ AskedKept(p) /\ HostKept(p) /\ ReadKept(p) /\ DoneKept(p)
  <1>1. CASE lockFile
    BY <1>1, ToIdle DEF Check, At
  <1>2. CASE ~lockFile
    <2>1. run' = [run EXCEPT ![p].at = "lock"] /\ run[p].at = "check"
      BY <1>2 DEF Check, At
    <2>2. PlaceOK([run[p] EXCEPT !.at = "lock"])
      BY <2>1, RunIs DEF PlaceOK, RunRecord
    <2> QED BY <2>1, <2>2, StepMoves DEF Place
  <1> QED BY <1>1, <1>2

(* Adding.                                                                 *)
LEMMA ImportMoves ==
  ASSUME RunsOK, NEW p \in Proc, ImportLine(p)
  PROVE  /\ RunsOK' /\ run'[p].at \in {"work", "pick"} /\ Others(p)
         /\ run[p].at = "work" /\ run[p].kind = "import"
         /\ AskedKept(p) /\ ReadKept(p) /\ DoneKept(p)
  <1> DEFINE m == Head(run[p].todo)
             place == IF m \in run[p].macs THEN "work" ELSE "pick"
             r == [run[p] EXCEPT !.todo = Tail(@), !.mac = m, !.name = run[p].start,
                     !.at = place]
  <1>1. /\ run[p].at = "work" /\ run[p].kind = "import" /\ run[p].todo # <<>>
        /\ run' = [run EXCEPT ![p] = r]
    BY DEF ImportLine, At, Kinds
  <1>2. run[p] \in RunRecord /\ PlaceOK(run[p])
    BY RunIs
  <1>3. run[p].todo \in Seq(Mac)
    BY <1>1, <1>2 DEF PlaceOK
  <1>4. m \in Mac /\ Tail(run[p].todo) \in Seq(Mac)
    BY <1>1, <1>3
  <1>5. Tail(run[p].todo) \in Seq(Mac \cup Rank \cup {Installer})
    BY <1>4
  <1>6. r \in RunRecord
    <2>1. place \in Place /\ run[p].start \in Rank
      BY <1>2 DEF RunRecord, Place
    <2> HIDE DEF place, m
    <2> QED BY <1>2, <1>4, <1>5, <2>1 DEF RunRecord
  <1>7. /\ r.at = place /\ r.kind = "import" /\ r.mac = m /\ r.todo = Tail(run[p].todo)
        /\ r.hint = run[p].hint /\ r.ips = run[p].ips /\ r.macs = run[p].macs
        /\ r.last = run[p].last /\ r.behind = run[p].behind /\ r.done = run[p].done
    BY <1>1, <1>2 DEF RunRecord
  <1>8. place \in {"work", "pick"}
    OBVIOUS
  <1>9. r \in Run
    <2> HIDE DEF r, m, place
    <2>1. PlaceOK(r)
      BY <1>4, <1>7, <1>8 DEF PlaceOK, Adding, Kind
    <2> QED BY <1>6, <2>1 DEF Run
  <1> HIDE DEF r, m, place
  <1>10. RunsOK' /\ run'[p] = r /\ Others(p)
    BY <1>1, <1>9, Moves
  <1> QED BY <1>1, <1>7, <1>8, <1>10 DEF AskedKept, ReadKept, DoneKept

LEMMA DiscoverMoves ==
  ASSUME RunsOK, NEW p \in Proc, NEW m \in Mac, Discover(p, m)
  PROVE  /\ RunsOK' /\ run'[p].at = "load" /\ Others(p)
         /\ run[p].at = "work" /\ run[p].kind = "listen" /\ run'[p].mac = m
         /\ AskedKept(p) /\ ReadKept(p) /\ DoneKept(p)
  <1> DEFINE r == [run[p] EXCEPT !.at = "load", !.mac = m]
  <1>1. run' = [run EXCEPT ![p] = r] /\ run[p].at = "work" /\ run[p].kind = "listen"
    BY DEF Discover, At, Kinds
  <1>2. run[p] \in RunRecord /\ PlaceOK(run[p])
    BY RunIs
  <1>3. r \in RunRecord
    BY <1>2 DEF RunRecord, Place
  <1>4. PlaceOK(r)
    BY <1>1, <1>2 DEF PlaceOK, RunRecord
  <1>5. /\ r.at = "load" /\ r.kind = run[p].kind /\ r.mac = m /\ r.hint = run[p].hint
        /\ r.ips = run[p].ips /\ r.macs = run[p].macs /\ r.last = run[p].last
        /\ r.behind = run[p].behind /\ r.done = run[p].done
    BY <1>2 DEF RunRecord
  <1> HIDE DEF r
  <1>6. RunsOK' /\ run'[p] = r /\ Others(p)
    BY <1>1, <1>3, <1>4, Moves DEF Run
  <1> QED BY <1>1, <1>5, <1>6 DEF AskedKept, ReadKept, DoneKept

LEMMA LoadMoves ==
  ASSUME RunsOK, RowsTyped, NEW p \in Proc, Load(p)
  PROVE  /\ RunsOK' /\ run'[p].at = "pick" /\ Others(p)
         /\ run[p].at = "load" /\ run[p].kind = "listen"
         /\ run'[p].mac = run[p].mac /\ run'[p].ips = Ips /\ run'[p].macs = Macs
         /\ AskedKept(p) /\ DoneKept(p)
  <1> PICK again \in BOOLEAN :
        run' = [run EXCEPT ![p] = [@ EXCEPT !.at = "pick", !.ips = Ips, !.macs = Macs,
                  !.names = Ranks, !.last = 1, !.name = run[p].start, !.again = again,
                  !.behind = FALSE]]
    BY DEF Load
  <1> DEFINE r == [run[p] EXCEPT !.at = "pick", !.ips = Ips, !.macs = Macs,
                     !.names = Ranks, !.last = 1, !.name = run[p].start, !.again = again,
                     !.behind = FALSE]
  <1>1. run' = [run EXCEPT ![p] = r] /\ run[p].at = "load"
    BY DEF Load, At
  <1>2. run[p] \in RunRecord /\ PlaceOK(run[p])
    BY RunIs
  <1>3. run[p].kind = "listen" /\ run[p].mac \in Mac
    BY <1>1, <1>2 DEF PlaceOK
  <1>4. Ips \subseteq Ip /\ Macs \subseteq Mac \cup {NoMac} /\ Ranks \subseteq Rank
    BY DEF RowsTyped, Ips, Macs, Ranks
  <1>5. r \in RunRecord
    BY <1>2, <1>4 DEF RunRecord, Place
  <1>6. /\ r.at = "pick" /\ r.kind = run[p].kind /\ r.mac = run[p].mac
        /\ r.hint = run[p].hint /\ r.ips = Ips /\ r.macs = Macs /\ r.done = run[p].done
        /\ r.todo = run[p].todo
    BY <1>2 DEF RunRecord
  <1>7. r \in Run
    <2> HIDE DEF r
    <2>1. PlaceOK(r)
      BY <1>3, <1>6 DEF PlaceOK, Adding, Kind
    <2> QED BY <1>5, <2>1 DEF Run
  <1> HIDE DEF r
  <1>8. RunsOK' /\ run'[p] = r /\ Others(p)
    BY <1>1, <1>7, Moves
  <1> QED BY <1>1, <1>3, <1>6, <1>8 DEF AskedKept, DoneKept

LEMMA PickMoves ==
  ASSUME RunsOK, NEW p \in Proc, PickName(p)
  PROVE  /\ RunsOK' /\ run'[p].at = "row" /\ Others(p)
         /\ run[p].at = "pick" /\ run'[p].mac = run[p].mac
         /\ AskedKept(p) /\ ReadKept(p) /\ DoneKept(p)
  <1> PICK n \in Rank : run' = [run EXCEPT ![p].at = "row", ![p].name = n]
    BY DEF PickName
  <1> DEFINE r == [run[p] EXCEPT !.at = "row", !.name = n]
  <1>1. run' = [run EXCEPT ![p] = r] /\ run[p].at = "pick"
    BY DEF PickName, At
  <1>2. run[p] \in RunRecord /\ PlaceOK(run[p])
    BY RunIs
  <1>3. r \in RunRecord
    BY <1>2 DEF RunRecord, Place
  <1>4. PlaceOK(r)
    BY <1>1, <1>2 DEF PlaceOK, RunRecord
  <1>5. /\ r.at = "row" /\ r.kind = run[p].kind /\ r.mac = run[p].mac /\ r.hint = run[p].hint
        /\ r.ips = run[p].ips /\ r.macs = run[p].macs /\ r.last = run[p].last
        /\ r.behind = run[p].behind /\ r.done = run[p].done
    BY <1>2 DEF RunRecord
  <1> HIDE DEF r
  <1>6. RunsOK' /\ run'[p] = r /\ Others(p)
    BY <1>1, <1>3, <1>4, Moves DEF Run
  <1> QED BY <1>1, <1>5, <1>6 DEF AskedKept, ReadKept, DoneKept

LEMMA InsertedMoves ==
  ASSUME RunsOK, RestTyped, NEW p \in Proc, NEW managed \in BOOLEAN,
         Inserted(p, managed), At(p, "row") \/ At(p, "work"), Kinds(p, Adding \cup {"static"}),
         At(p, "row") \/ Kinds(p, {"static"})
  PROVE  /\ RunsOK' /\ run'[p].at = "address" /\ Others(p)
         /\ run'[p].nid = nextNid /\ nextNid \in Nid
         /\ run'[p].name = run[p].name /\ run'[p].mac = run[p].mac
         /\ AskedKept(p) /\ ReadKept(p) /\ DoneKept(p)
  <1> DEFINE r == [run[p] EXCEPT !.at = "address", !.nid = nextNid,
                     !.names = @ \cup {run[p].name}]
  <1>1. run' = [run EXCEPT ![p] = r] /\ nextNid \in Nid
    <2>1. run' = [run EXCEPT ![p] = r]
      BY DEF Inserted
    <2>2. nextNid \in Nid
      BY Bounds DEF Inserted, RestTyped, Nid
    <2> QED BY <2>1, <2>2
  <1>2. run[p] \in RunRecord /\ PlaceOK(run[p])
    BY RunIs
  <1>3. r \in RunRecord
    BY <1>1, <1>2 DEF RunRecord, Place
  <1>4. /\ r.at = "address" /\ r.nid = nextNid /\ r.name = run[p].name /\ r.mac = run[p].mac
        /\ r.kind = run[p].kind /\ r.hint = run[p].hint /\ r.todo = run[p].todo
        /\ r.ips = run[p].ips /\ r.macs = run[p].macs /\ r.last = run[p].last
        /\ r.behind = run[p].behind /\ r.done = run[p].done
    BY <1>2 DEF RunRecord
  <1> HIDE DEF r
  <1>5. PlaceOK(r)
    BY <1>1, <1>2, <1>4 DEF PlaceOK, At, Kinds, Adding
  <1>6. RunsOK' /\ run'[p] = r /\ Others(p)
    BY <1>1, <1>3, <1>5, Moves DEF Run
  <1> QED BY <1>1, <1>4, <1>6 DEF AskedKept, ReadKept, DoneKept

LEMMA FailsMoves ==
  ASSUME RunsOK, NEW p \in Proc, At(p, "row"), Fails(p)
  PROVE  /\ RunsOK' /\ Others(p)
         /\ \/ /\ run'[p].at = "pick" /\ run[p].kind = "listen" /\ UNCHANGED cut
               /\ AskedKept(p) /\ HostKept(p) /\ ReadKept(p) /\ DoneKept(p)
            \/ Dies(p)
  <1>1. CASE Kinds(p, {"listen"}) /\ ~run[p].again
    <2> DEFINE r == [run[p] EXCEPT !.at = "pick", !.again = TRUE]
    <2>1. run' = [run EXCEPT ![p] = r] /\ UNCHANGED cut /\ run[p].kind = "listen"
      BY <1>1 DEF Fails, Kinds
    <2>2. run[p] \in RunRecord /\ PlaceOK(run[p]) /\ run[p].at = "row"
      BY RunIs DEF At
    <2>3. r \in RunRecord
      BY <2>2 DEF RunRecord, Place
    <2>4. PlaceOK(r)
      BY <2>1, <2>2 DEF PlaceOK, RunRecord
    <2>5. /\ r.at = "pick" /\ r.kind = run[p].kind /\ r.name = run[p].name
          /\ r.nid = run[p].nid /\ r.mac = run[p].mac /\ r.hint = run[p].hint
          /\ r.ips = run[p].ips /\ r.macs = run[p].macs /\ r.last = run[p].last
          /\ r.behind = run[p].behind /\ r.done = run[p].done
      BY <2>2 DEF RunRecord
    <2> HIDE DEF r
    <2>6. RunsOK' /\ run'[p] = r /\ Others(p)
      BY <2>1, <2>3, <2>4, Moves DEF Run
    <2> QED BY <2>1, <2>5, <2>6 DEF AskedKept, HostKept, ReadKept, DoneKept
  <1>2. CASE ~(Kinds(p, {"listen"}) /\ ~run[p].again)
    <2>1. Dies(p)
      BY <1>2 DEF Fails
    <2> QED BY <2>1, ToIdle DEF Dies
  <1> QED BY <1>1, <1>2

(* A nic is inserted: the others are behind.                               *)
OthersBehind(p) ==
  \A q \in Proc : q # p =>
    /\ run'[q].at = run[q].at /\ run'[q].kind = run[q].kind /\ run'[q].name = run[q].name
    /\ run'[q].nid = run[q].nid /\ run'[q].mac = run[q].mac /\ run'[q].hint = run[q].hint
    /\ run'[q].ips = run[q].ips /\ run'[q].macs = run[q].macs /\ run'[q].done = run[q].done
    /\ run[q].at # "idle" => run'[q].behind

LEMMA NicMoves ==
  ASSUME RunsOK, NEW p \in Proc, At(p, "address"), NEW place \in {"lease", "plugin"},
         IF place = "lease" THEN Kinds(p, Adding) ELSE Kinds(p, {"static"}),
         NEW ip \in Ip, NEW mac \in Mac \cup {NoMac}, NicInserted(p, place, ip, mac)
  PROVE  /\ RunsOK' /\ run'[p].at = place /\ OthersBehind(p)
         /\ run'[p].ips = run[p].ips \cup {ip} /\ run'[p].last = ip /\ run'[p].mac = mac
         /\ run'[p].name = run[p].name /\ run'[p].nid = run[p].nid
         /\ run'[p].behind = run[p].behind
         /\ AskedKept(p) /\ DoneKept(p)
  <1> DEFINE r == [run[p] EXCEPT !.at = place, !.ips = @ \cup {ip}, !.last = ip,
                     !.macs = @ \cup {run[p].mac}, !.mac = mac]
             s(q) == [run[q] EXCEPT !.behind = ~At(q, "idle")]
  <1>1. run' = [q \in Proc |-> IF q = p THEN r ELSE s(q)]
    BY DEF NicInserted
  <1>2. run[p] \in RunRecord /\ PlaceOK(run[p]) /\ run[p].at = "address"
    BY RunIs DEF At
  <1>3. r \in RunRecord
    BY <1>2, ZenonT(60) DEF RunRecord, Place
  <1>4. /\ r.at = place /\ r.kind = run[p].kind /\ r.name = run[p].name
        /\ r.nid = run[p].nid /\ r.mac = mac /\ r.hint = run[p].hint /\ r.todo = run[p].todo
        /\ r.ips = run[p].ips \cup {ip} /\ r.last = ip
        /\ r.behind = run[p].behind /\ r.done = run[p].done
    BY <1>2 DEF RunRecord
  <1>5. r \in Run
    <2> HIDE DEF r
    <2>1. PlaceOK(r)
      BY <1>2, <1>4 DEF PlaceOK, Kinds, Adding
    <2> QED BY <1>3, <2>1 DEF Run
  <1>6. ASSUME NEW q \in Proc PROVE
          /\ s(q) \in Run
          /\ s(q).at = run[q].at /\ s(q).kind = run[q].kind /\ s(q).name = run[q].name
          /\ s(q).nid = run[q].nid /\ s(q).mac = run[q].mac /\ s(q).hint = run[q].hint
          /\ s(q).ips = run[q].ips /\ s(q).macs = run[q].macs /\ s(q).done = run[q].done
          /\ run[q].at # "idle" => s(q).behind
    <2>1. run[q] \in RunRecord /\ PlaceOK(run[q])
      BY RunIs
    <2>2. CASE At(q, "idle")
      <3>1. run[q] = Idle
        BY <2>1, <2>2 DEF PlaceOK, At
      <3>2. s(q) = run[q]
        <4>1. [Idle EXCEPT !.behind = FALSE] = Idle
          <5>1. Idle \in RunRecord /\ Idle.behind = FALSE
            BY IdleTyped DEF Idle, Run
          <5> HIDE DEF Idle
          <5> QED BY <5>1 DEF RunRecord
        <4>2. (~At(q, "idle")) = FALSE
          BY <2>2
        <4>3. s(q) = [Idle EXCEPT !.behind = FALSE]
          BY <3>1, <4>2, Zenon
        <4> QED BY <3>1, <4>1, <4>3
      <3> HIDE DEF s
      <3> QED BY <2>2, <3>1, <3>2, IdleTyped DEF At
    <2>3. CASE ~At(q, "idle")
      <3>1. s(q) = [run[q] EXCEPT !.behind = TRUE]
        BY <2>3
      <3>2. s(q) \in RunRecord
        BY <2>1, <3>1, ZenonT(60) DEF RunRecord
      <3>3. /\ s(q).at = run[q].at /\ s(q).kind = run[q].kind /\ s(q).name = run[q].name
            /\ s(q).nid = run[q].nid /\ s(q).mac = run[q].mac /\ s(q).hint = run[q].hint
            /\ s(q).ips = run[q].ips /\ s(q).macs = run[q].macs /\ s(q).done = run[q].done
            /\ s(q).todo = run[q].todo /\ s(q).last = run[q].last
        BY <2>1, <3>1 DEF RunRecord
      <3>4. s(q).behind = TRUE
        BY <2>1, <3>1 DEF RunRecord
      <3> HIDE DEF s
      <3>5. PlaceOK(s(q))
        BY <2>1, <2>3, <3>3 DEF PlaceOK, At
      <3> QED BY <3>2, <3>3, <3>4, <3>5 DEF Run
    <2> QED BY <2>2, <2>3
  <1> HIDE DEF r, s
  <1>7. run'[p] = r /\ \A q \in Proc : q # p => run'[q] = s(q)
    BY <1>1
  <1>8. RunsOK'
    BY <1>1, <1>5, <1>6 DEF RunsOK
  <1>9. OthersBehind(p)
    BY <1>6, <1>7 DEF OthersBehind
  <1> QED BY <1>4, <1>7, <1>8, <1>9 DEF AskedKept, DoneKept

LEMMA NoAddressMoves ==
  ASSUME RunsOK, NEW p \in Proc, At(p, "address"), Kinds(p, {"listen"}), NEW ip \in Ip,
         run' = [[run EXCEPT ![p].ips = @ \cup {ip}, ![p].last = ip,
                   ![p].macs = @ \cup {run[p].mac}]
                  EXCEPT ![p].at = "pick", ![p].again = TRUE]
  PROVE  /\ RunsOK' /\ run'[p].at = "pick" /\ Others(p)
         /\ run'[p].ips = run[p].ips \cup {ip} /\ run'[p].behind = run[p].behind
         /\ AskedKept(p) /\ HostKept(p) /\ DoneKept(p)
  <1> DEFINE r == [run[p] EXCEPT !.ips = @ \cup {ip}, !.last = ip,
                     !.macs = @ \cup {run[p].mac}, !.at = "pick", !.again = TRUE]
  <1>1. run[p] \in RunRecord /\ PlaceOK(run[p]) /\ run[p].at = "address"
        /\ run[p].kind = "listen"
    BY RunIs DEF At, Kinds
  <1>2. run' = [run EXCEPT ![p] = r]
    <2> DEFINE s == [run[p] EXCEPT !.ips = @ \cup {ip}, !.last = ip,
                       !.macs = @ \cup {run[p].mac}]
               f == [run EXCEPT ![p] = s]
    <2>1. run' = [f EXCEPT ![p].at = "pick", ![p].again = TRUE]
      OBVIOUS
    <2>2. f \in [Proc -> {s} \cup Run] /\ f[p] = s
      BY DEF RunsOK
    <2>3. run' = [f EXCEPT ![p] = [s EXCEPT !.at = "pick", !.again = TRUE]]
      <3> HIDE DEF s, f
      <3> QED BY <2>1, <2>2
    <2>4. run' = [run EXCEPT ![p] = [s EXCEPT !.at = "pick", !.again = TRUE]]
      <3> HIDE DEF s
      <3> QED BY <2>3 DEF RunsOK
    <2>5. [s EXCEPT !.at = "pick", !.again = TRUE] = r
      BY <1>1 DEF RunRecord
    <2> QED BY <2>4, <2>5
  <1>3. r \in RunRecord
    BY <1>1 DEF RunRecord, Place
  <1>4. /\ r.at = "pick" /\ r.kind = run[p].kind /\ r.name = run[p].name
        /\ r.nid = run[p].nid /\ r.mac = run[p].mac /\ r.hint = run[p].hint
        /\ r.todo = run[p].todo /\ r.ips = run[p].ips \cup {ip}
        /\ r.behind = run[p].behind /\ r.done = run[p].done
    BY <1>1 DEF RunRecord
  <1> HIDE DEF r
  <1>5. PlaceOK(r)
    BY <1>1, <1>4 DEF PlaceOK, Adding
  <1>6. RunsOK' /\ run'[p] = r /\ Others(p)
    BY <1>2, <1>3, <1>5, Moves DEF Run
  <1> QED BY <1>1, <1>4, <1>6 DEF AskedKept, HostKept, DoneKept

LEMMA NoNicMoves ==
  ASSUME RunsOK, NEW p \in Proc, At(p, "address"), Kinds(p, {"listen"}), NEW ip \in Ip,
         run' = [[run EXCEPT ![p].ips = @ \cup {ip}, ![p].last = ip,
                   ![p].macs = @ \cup {run[p].mac}]
                  EXCEPT ![p].at = "lease", ![p].mac = NoMac]
  PROVE  /\ RunsOK' /\ run'[p].at = "lease" /\ Others(p)
         /\ run'[p].ips = run[p].ips \cup {ip} /\ run'[p].behind = run[p].behind
         /\ AskedKept(p) /\ DoneKept(p)
  <1> DEFINE r == [run[p] EXCEPT !.ips = @ \cup {ip}, !.last = ip,
                     !.macs = @ \cup {run[p].mac}, !.at = "lease", !.mac = NoMac]
  <1>1. run[p] \in RunRecord /\ PlaceOK(run[p]) /\ run[p].at = "address"
        /\ run[p].kind = "listen"
    BY RunIs DEF At, Kinds
  <1>2. run' = [run EXCEPT ![p] = r]
    <2> DEFINE s == [run[p] EXCEPT !.ips = @ \cup {ip}, !.last = ip,
                       !.macs = @ \cup {run[p].mac}]
               f == [run EXCEPT ![p] = s]
    <2>1. run' = [f EXCEPT ![p].at = "lease", ![p].mac = NoMac]
      OBVIOUS
    <2>2. f \in [Proc -> {s} \cup Run] /\ f[p] = s
      BY DEF RunsOK
    <2>3. run' = [f EXCEPT ![p] = [s EXCEPT !.at = "lease", !.mac = NoMac]]
      <3> HIDE DEF s, f
      <3> QED BY <2>1, <2>2
    <2>4. run' = [run EXCEPT ![p] = [s EXCEPT !.at = "lease", !.mac = NoMac]]
      <3> HIDE DEF s
      <3> QED BY <2>3 DEF RunsOK
    <2>5. [s EXCEPT !.at = "lease", !.mac = NoMac] = r
      BY <1>1 DEF RunRecord
    <2> QED BY <2>4, <2>5
  <1>3. r \in RunRecord
    BY <1>1 DEF RunRecord, Place
  <1>4. /\ r.at = "lease" /\ r.kind = run[p].kind /\ r.hint = run[p].hint
        /\ r.todo = run[p].todo /\ r.ips = run[p].ips \cup {ip} /\ r.last = ip
        /\ r.behind = run[p].behind /\ r.done = run[p].done
    BY <1>1 DEF RunRecord
  <1> HIDE DEF r
  <1>5. PlaceOK(r)
    BY <1>1, <1>4 DEF PlaceOK, Adding
  <1>6. RunsOK' /\ run'[p] = r /\ Others(p)
    BY <1>2, <1>3, <1>5, Moves DEF Run
  <1> QED BY <1>1, <1>4, <1>6 DEF AskedKept, DoneKept

(* A host is done.                                                         *)
LEMMA DoneMoves ==
  ASSUME RunsOK, NEW p \in Proc, At(p, "plugin") \/ At(p, "nodes"),
         \/ run' = [run EXCEPT ![p].at = "work", ![p].done = Done(p)]
         \/ run' = [run EXCEPT ![p].at = "work", ![p].done = Append(@, run[p].name)]
  PROVE  /\ RunsOK' /\ run'[p].at = "work" /\ Others(p)
         /\ run[p].kind = "import" => run'[p].done = Append(run[p].done, run[p].name)
         /\ AskedKept(p) /\ HostKept(p) /\ ReadKept(p)
  <1> DEFINE d == run'[p].done
             r == [run[p] EXCEPT !.at = "work", !.done = d]
  <1>1. /\ run' = [run EXCEPT ![p] = r]
        /\ d \in {Append(run[p].done, run[p].name), <<run[p].name>>}
        /\ run[p].kind = "import" => d = Append(run[p].done, run[p].name)
    <2> DEFINE e == Append(run[p].done, run[p].name)
               r1 == [run[p] EXCEPT !.at = "work", !.done = Done(p)]
               r2 == [run[p] EXCEPT !.at = "work", !.done = e]
    <2>1. DOMAIN run = Proc /\ run[p] \in RunRecord /\ run = [q \in Proc |-> run[q]]
      BY RunIs DEF RunsOK
    <2>2. Done(p) \in {e, <<run[p].name>>} /\ (run[p].kind = "import" => Done(p) = e)
      BY DEF Done, Kinds
    <2>3. \/ run' = [run EXCEPT ![p] = r1]
          \/ run' = [run EXCEPT ![p] = r2]
      OBVIOUS
    <2>4. r1.done = Done(p) /\ r2.done = e
      BY <2>1 DEF RunRecord
    <2> HIDE DEF e, r1, r2
    <2>5. \/ run'[p] = r1 /\ d = Done(p)
          \/ run'[p] = r2 /\ d = e
      BY <2>1, <2>3, <2>4
    <2> QED BY <2>1, <2>2, <2>3, <2>5 DEF e, r1, r2
  <1>2. run[p] \in RunRecord /\ PlaceOK(run[p]) /\ run[p].at \in {"plugin", "nodes"}
    BY RunIs DEF At
  <1>3. run[p].done \in Seq(Rank) /\ run[p].name \in Rank
    BY <1>2 DEF RunRecord
  <1>4. d \in Seq(Rank)
    <2>1. Append(run[p].done, run[p].name) \in Seq(Rank)
      BY <1>3
    <2>2. <<run[p].name>> \in Seq(Rank)
      BY <1>3
    <2> QED BY <1>1, <2>1, <2>2
  <1> HIDE DEF d
  <1>5. r \in RunRecord
    BY <1>2, <1>4 DEF RunRecord, Place
  <1>6. /\ r.at = "work" /\ r.kind = run[p].kind /\ r.name = run[p].name
        /\ r.nid = run[p].nid /\ r.mac = run[p].mac /\ r.hint = run[p].hint
        /\ r.todo = run[p].todo /\ r.ips = run[p].ips /\ r.macs = run[p].macs
        /\ r.last = run[p].last /\ r.behind = run[p].behind
    BY <1>2 DEF RunRecord
  <1> HIDE DEF r
  <1>7. PlaceOK(r)
    BY <1>2, <1>6 DEF PlaceOK
  <1>8. RunsOK' /\ run'[p] = r /\ Others(p)
    BY <1>1, <1>5, <1>7, Moves DEF Run
  <1> QED BY <1>1, <1>6, <1>8 DEF d, AskedKept, HostKept, ReadKept

LEMMA RemoveMoves ==
  ASSUME RunsOK, RowsTyped, NEW p \in Proc, RemoveName(p)
  PROVE  /\ RunsOK' /\ Others(p) /\ run[p].at = "work" /\ run[p].kind = "remove"
         /\ AskedKept(p) /\ ReadKept(p) /\ DoneKept(p)
         /\ \/ run'[p].at = "work" /\ UNCHANGED pxe
            \/ /\ run'[p].at = "delete" /\ run'[p].name \in Reserved
               /\ pxe' = pxe \ PxeOf(run'[p].name)
  <1> DEFINE n == Head(run[p].todo)
             t == Tail(run[p].todo)
             rest == [run EXCEPT ![p].todo = t]
  <1>1. /\ run[p].at = "work" /\ run[p].kind = "remove" /\ run[p].todo # <<>>
        /\ run[p] \in RunRecord /\ PlaceOK(run[p])
    BY RunIs DEF RemoveName, At, Kinds
  <1>2. run[p].todo \in Seq(Rank \cup {Installer})
    BY <1>1 DEF PlaceOK
  <1>3. n \in Rank \cup {Installer} /\ t \in Seq(Rank \cup {Installer})
    BY <1>1, <1>2
  <1>4. t \in Seq(Mac \cup Rank \cup {Installer})
    BY <1>3
  <1>5. CASE UNCHANGED pxe /\ (run' = rest \/ run' = [rest EXCEPT ![p].master = TRUE])
    <2> DEFINE r(master) == [run[p] EXCEPT !.todo = t, !.master = master]
    <2>1. PICK master \in BOOLEAN : run' = [run EXCEPT ![p] = r(master)]
      <3>1. CASE run' = rest
        <4>1. run[p].master \in BOOLEAN /\ r(run[p].master) = [run[p] EXCEPT !.todo = t]
          BY <1>1 DEF RunRecord
        <4>2. run' = [run EXCEPT ![p] = [run[p] EXCEPT !.todo = t]]
          BY <3>1
        <4> QED BY <4>1, <4>2
      <3>2. CASE run' = [rest EXCEPT ![p].master = TRUE]
        <4> DEFINE s == [run[p] EXCEPT !.todo = t]
        <4>1. rest \in [Proc -> {s} \cup Run] /\ rest[p] = s
          BY DEF RunsOK
        <4>2. rest = [run EXCEPT ![p] = s]
          OBVIOUS
        <4>3. run' = [rest EXCEPT ![p] = [s EXCEPT !.master = TRUE]]
          <5> HIDE DEF rest, s
          <5> QED BY <3>2, <4>1
        <4>4. run' = [run EXCEPT ![p] = [s EXCEPT !.master = TRUE]]
          <5> HIDE DEF rest, s
          <5> QED BY <4>2, <4>3 DEF RunsOK
        <4>5. [s EXCEPT !.master = TRUE] = r(TRUE)
          BY <1>1 DEF RunRecord
        <4> QED BY <4>4, <4>5
      <3> QED BY <1>5, <3>1, <3>2
    <2>2. r(master) \in RunRecord
      BY <1>1, <1>4 DEF RunRecord
    <2>3. /\ r(master).at = "work" /\ r(master).kind = "remove"
          /\ r(master).todo = t /\ r(master).hint = run[p].hint
          /\ r(master).ips = run[p].ips /\ r(master).macs = run[p].macs
          /\ r(master).last = run[p].last /\ r(master).behind = run[p].behind
          /\ r(master).done = run[p].done
      BY <1>1 DEF RunRecord
    <2> HIDE DEF r, t
    <2>4. PlaceOK(r(master))
      BY <1>3, <2>3 DEF PlaceOK, Kind
    <2>5. RunsOK' /\ run'[p] = r(master) /\ Others(p)
      BY <2>1, <2>2, <2>4, Moves DEF Run
    <2> QED BY <1>1, <1>5, <2>3, <2>5 DEF AskedKept, ReadKept, DoneKept
  <1>6. CASE /\ n \in Reserved /\ pxe' = pxe \ PxeOf(n)
             /\ run' = [rest EXCEPT ![p].at = "delete", ![p].name = n]
    <2> DEFINE r == [run[p] EXCEPT !.todo = t, !.at = "delete", !.name = n]
               s == [run[p] EXCEPT !.todo = t]
    <2>1. rest \in [Proc -> {s} \cup Run] /\ rest[p] = s /\ rest = [run EXCEPT ![p] = s]
      BY DEF RunsOK
    <2>2. run' = [rest EXCEPT ![p] = [s EXCEPT !.at = "delete", !.name = n]]
      <3> HIDE DEF rest, s, n
      <3> QED BY <1>6, <2>1
    <2>3. run' = [run EXCEPT ![p] = [s EXCEPT !.at = "delete", !.name = n]]
      <3> HIDE DEF rest, s, n
      <3> QED BY <2>1, <2>2 DEF RunsOK
    <2>4. [s EXCEPT !.at = "delete", !.name = n] = r
      BY <1>1 DEF RunRecord
    <2>5. n \in Rank
      BY <1>6 DEF Reserved, RowsTyped
    <2>6. r \in RunRecord
      <3> HIDE DEF n
      <3> QED BY <1>1, <1>4, <2>5 DEF RunRecord, Place
    <2>7. /\ r.at = "delete" /\ r.kind = "remove" /\ r.name = n
          /\ r.todo = t /\ r.hint = run[p].hint
          /\ r.ips = run[p].ips /\ r.macs = run[p].macs
          /\ r.last = run[p].last /\ r.behind = run[p].behind
          /\ r.done = run[p].done
      BY <1>1 DEF RunRecord
    <2>8. run' = [run EXCEPT ![p] = r]
      BY <2>3, <2>4
    <2> HIDE DEF r, t, n
    <2>9. PlaceOK(r)
      BY <1>3, <2>7 DEF PlaceOK, Kind
    <2>10. RunsOK' /\ run'[p] = r /\ Others(p)
      BY <2>6, <2>8, <2>9, Moves DEF Run
    <2> QED BY <1>1, <1>6, <2>7, <2>10 DEF AskedKept, ReadKept, DoneKept
  <1> QED BY <1>5, <1>6 DEF RemoveName

LEMMA NidOfIs ==
  ASSUME NEW n \in Names PROVE NidOf(n) \in DOMAIN nodes /\ nodes[NidOf(n)].name = n
  <1>1. \E i \in DOMAIN nodes : nodes[i].name = n
    BY DEF Names
  <1> QED BY <1>1 DEF NidOf

LEMMA GoneMoves ==
  ASSUME RunsOK, RowsTyped, NEW p \in Proc, At(p, "delete"), run[p].name \in Names,
         run' = [run EXCEPT ![p].at = "nics", ![p].nid = NidOf(run[p].name)]
  PROVE  /\ RunsOK' /\ run'[p].at = "nics" /\ Others(p)
         /\ run'[p].name = run[p].name /\ run'[p].nid = NidOf(run[p].name)
         /\ AskedKept(p) /\ ReadKept(p) /\ DoneKept(p)
  <1> DEFINE nid == NidOf(run[p].name)
             r == [run[p] EXCEPT !.at = "nics", !.nid = nid]
  <1>1. run' = [run EXCEPT ![p] = r]
    OBVIOUS
  <1>2. run[p] \in RunRecord /\ PlaceOK(run[p]) /\ run[p].at = "delete"
    BY RunIs DEF At
  <1>3. nid \in Nid
    BY NidOfIs DEF RowsTyped
  <1> HIDE DEF nid
  <1>4. r \in RunRecord
    BY <1>2, <1>3 DEF RunRecord, Place
  <1>5. /\ r.at = "nics" /\ r.kind = run[p].kind /\ r.name = run[p].name
        /\ r.nid = nid /\ r.hint = run[p].hint
        /\ r.todo = run[p].todo /\ r.ips = run[p].ips /\ r.macs = run[p].macs
        /\ r.last = run[p].last /\ r.behind = run[p].behind
        /\ r.done = run[p].done
    BY <1>2 DEF RunRecord
  <1> HIDE DEF r
  <1>6. PlaceOK(r)
    BY <1>2, <1>3, <1>5 DEF PlaceOK
  <1>7. RunsOK' /\ run'[p] = r /\ Others(p)
    BY <1>1, <1>4, <1>6, Moves DEF Run
  <1> QED BY <1>5, <1>7 DEF AskedKept, ReadKept, DoneKept, nid

LEMMA NewMoves ==
  ASSUME RunsOK, RowsTyped, NEW p \in Proc, NEW m \in Mac, DiscoverNew(p, m)
  PROVE  /\ RunsOK' /\ run'[p].at = "forget" /\ Others(p)
         /\ run[p].at = "work" /\ run[p].kind = "replace"
         /\ run'[p].name = run[p].name /\ run'[p].mac = m
         /\ run[p].name \in Names /\ run'[p].nid = NidOf(run[p].name)
         /\ AskedKept(p) /\ ReadKept(p) /\ DoneKept(p)
  <1> DEFINE nid == NidOf(run[p].name)
             r == [run[p] EXCEPT !.at = "forget", !.mac = m, !.nid = nid]
  <1>1. run' = [run EXCEPT ![p] = r]
    BY DEF DiscoverNew
  <1>2. run[p] \in RunRecord /\ PlaceOK(run[p]) /\ run[p].at = "work" /\ run[p].kind = "replace"
    BY RunIs DEF DiscoverNew, At, Kinds
  <1>3. run[p].name \in Names /\ nid \in Nid
    <2>1. run[p].name \in Names
      BY DEF DiscoverNew, Replaceable, Names, RowsTyped
    <2> QED BY <2>1, NidOfIs DEF RowsTyped
  <1> HIDE DEF nid
  <1>4. r \in RunRecord
    BY <1>2, <1>3 DEF RunRecord, Place
  <1>5. /\ r.at = "forget" /\ r.kind = run[p].kind /\ r.name = run[p].name
        /\ r.nid = nid /\ r.mac = m /\ r.hint = run[p].hint
        /\ r.todo = run[p].todo /\ r.ips = run[p].ips /\ r.macs = run[p].macs
        /\ r.last = run[p].last /\ r.behind = run[p].behind
        /\ r.done = run[p].done
    BY <1>2 DEF RunRecord
  <1> HIDE DEF r
  <1>6. PlaceOK(r)
    BY <1>2, <1>3, <1>5 DEF PlaceOK
  <1>7. RunsOK' /\ run'[p] = r /\ Others(p)
    BY <1>1, <1>4, <1>6, Moves DEF Run
  <1> QED BY <1>2, <1>3, <1>5, <1>7 DEF AskedKept, ReadKept, DoneKept, nid

LEMMA SetMoves ==
  ASSUME RunsOK, NEW p \in Proc, At(p, "set"), NEW ip \in Ip,
         run' = [run EXCEPT ![p].at = "boot", ![p].last = ip]
  PROVE  /\ RunsOK' /\ run'[p].at = "boot" /\ Others(p) /\ run'[p].last = ip
         /\ run'[p].ips = run[p].ips /\ run'[p].behind = run[p].behind
         /\ AskedKept(p) /\ HostKept(p) /\ DoneKept(p)
  <1> DEFINE r == [run[p] EXCEPT !.at = "boot", !.last = ip]
  <1>1. run' = [run EXCEPT ![p] = r]
    OBVIOUS
  <1>2. run[p] \in RunRecord /\ PlaceOK(run[p]) /\ run[p].at = "set"
    BY RunIs DEF At
  <1>3. r \in RunRecord
    BY <1>2 DEF RunRecord, Place
  <1>4. /\ r.at = "boot" /\ r.kind = run[p].kind /\ r.name = run[p].name
        /\ r.nid = run[p].nid /\ r.mac = run[p].mac /\ r.hint = run[p].hint
        /\ r.todo = run[p].todo /\ r.ips = run[p].ips /\ r.last = ip
        /\ r.behind = run[p].behind /\ r.done = run[p].done
    BY <1>2 DEF RunRecord
  <1> HIDE DEF r
  <1>5. PlaceOK(r)
    BY <1>2, <1>4 DEF PlaceOK
  <1>6. RunsOK' /\ run'[p] = r /\ Others(p)
    BY <1>1, <1>3, <1>5, Moves DEF Run
  <1> QED BY <1>4, <1>6 DEF AskedKept, HostKept, DoneKept

----------------------------------------------------------------------------
(* Types: what each step needs to keep them.                               *)
LEMMA RangeAppend ==
  ASSUME NEW S, NEW s \in Seq(S), NEW x \in S
  PROVE  Range(Append(s, x)) = Range(s) \cup {x}
  <1> DEFINE t == Append(s, x)
  <1>1. /\ DOMAIN s = 1..Len(s) /\ DOMAIN t = 1..(Len(s) + 1) /\ Len(s) \in Nat
        /\ \A i \in 1..Len(s) : t[i] = s[i]
        /\ t[Len(s) + 1] = x
    OBVIOUS
  <1> HIDE DEF t
  <1>2. \A i \in DOMAIN t : i \in DOMAIN s \/ i = Len(s) + 1
    BY <1>1
  <1>3. \A i \in DOMAIN s : i \in DOMAIN t
    BY <1>1
  <1>4. Len(s) + 1 \in DOMAIN t
    BY <1>1
  <1>5. Range(t) \subseteq Range(s) \cup {x}
    BY <1>1, <1>2 DEF Range
  <1>6. Range(s) \cup {x} \subseteq Range(t)
    BY <1>1, <1>3, <1>4 DEF Range
  <1> QED BY <1>5, <1>6 DEF t

LEMMA RangeSeq ==
  ASSUME NEW S, NEW s \in Seq(S) PROVE Range(s) \subseteq S /\ (s # <<>> => Head(s) \in Range(s))
  BY DEF Range

LEMMA UnfinishedIs ==
  ASSUME RunsOK, NEW p \in Proc
  PROVE  /\ Unfinished(p) \subseteq Rank
         /\ ~Working(p) => Unfinished(p) = {}
  <1>1. run[p] \in RunRecord /\ PlaceOK(run[p])
    BY RunIs
  <1>2. run[p].done \in Seq(Rank) /\ run[p].name \in Rank
    BY <1>1 DEF RunRecord
  <1>3. Unfinished(p) \subseteq Rank
    BY <1>2, RangeSeq DEF Unfinished
  <1>4. ASSUME ~Working(p) PROVE Unfinished(p) = {}
    <2>1. run[p].kind = "import" => run[p].done = <<>>
      BY <1>1, <1>4, IdleTyped DEF Working, PlaceOK
    <2>2. Range(<<>>) = {}
      BY DEF Range
    <2> QED BY <1>4, <2>1, <2>2 DEF Unfinished, Kinds
  <1> QED BY <1>3, <1>4

LEMMA MacsTyped ==
  ASSUME RowsTyped
  PROVE  /\ Macs \subseteq Mac /\ Ips \subseteq Ip /\ Names \subseteq Rank
         /\ \A n : PxeOf(n) \subseteq Macs
         /\ \A p \in Proc : GroupPxe(p) \subseteq Macs
  BY DEF RowsTyped, Macs, Ips, Names, PxeOf, GroupPxe

LEMMA DiesTyped ==
  ASSUME RunsOK, cut \subseteq Rank, NEW p \in Proc, Dies(p)
  PROVE  RunsOK' /\ run'[p] = Idle /\ Others(p) /\ cut' \subseteq Rank
  BY ToIdle, UnfinishedIs DEF Dies

LEMMA NewRowsKept ==
  ASSUME NewRowsOK, NEW p \in Proc,
         \A q \in Proc : q # p => run'[q].at = run[q].at /\ run'[q].nid = run[q].nid,
         run'[p].at = "address" => run[p].at = "address" /\ run'[p].nid = run[p].nid,
         DOMAIN nodes' \subseteq DOMAIN nodes, DOMAIN nics' \subseteq DOMAIN nics,
         nextNid' = nextNid
  PROVE  NewRowsOK'
  BY DEF NewRowsOK, At

LEMMA RowsKept ==
  ASSUME RowsTyped, UNCHANGED <<nodes, nics>> PROVE RowsTyped'
  BY DEF RowsTyped

LEMMA RestrictIs ==
  ASSUME NEW f, NEW k
  PROVE  /\ DOMAIN Restrict(f, DOMAIN f \ {k}) = DOMAIN f \ {k}
         /\ \A x \in DOMAIN f : x # k => Restrict(f, DOMAIN f \ {k})[x] = f[x]
  BY DEF Restrict

LEMMA RowInserted ==
  ASSUME RowsTyped, RestTyped, NewRowsOK, NEW p \in Proc, RunsOK, NEW managed \in BOOLEAN,
         Inserted(p, managed), run[p].name \notin Names, UNCHANGED nics,
         run'[p].nid = nextNid, Others(p)
  PROVE  /\ RowsTyped' /\ NewRowsOK' /\ nextNid' \in 1..(MaxNid + 1) /\ cut' \subseteq Rank
         /\ nextNid \notin DOMAIN nodes /\ nextNid \in Nid
         /\ DOMAIN nodes' = DOMAIN nodes \cup {nextNid}
         /\ nodes'[nextNid] = [name |-> run[p].name, managed |-> managed]
         /\ \A i \in DOMAIN nodes : nodes'[i] = nodes[i]
  <1> DEFINE row == [name |-> run[p].name, managed |-> managed]
  <1>1. nextNid <= MaxNid /\ nodes' = With(nodes, nextNid, row) /\ nextNid' = nextNid + 1
        /\ cut' = cut \ {run[p].name}
    BY DEF Inserted
  <1>r. row \in [name : Rank, managed : BOOLEAN] /\ row.name = run[p].name
    BY RunIs DEF RunRecord
  <1> HIDE DEF row
  <1>2. nextNid \in Nid /\ nextNid \in Nat /\ nextNid' \in 1..(MaxNid + 1) /\ cut' \subseteq Rank
    <2>1. nextNid \in Nat /\ MaxNid \in Nat /\ 1 <= nextNid
      BY Bounds DEF RestTyped
    <2> QED BY <1>1, <2>1 DEF Nid, RestTyped
  <1>3. nextNid \notin DOMAIN nodes
    BY <1>2 DEF NewRowsOK
  <1>4. /\ DOMAIN nodes' = DOMAIN nodes \cup {nextNid} /\ nodes'[nextNid] = row
        /\ \A i \in DOMAIN nodes : nodes'[i] = nodes[i]
    BY <1>1, <1>3 DEF With
  <1>7. \A i \in DOMAIN nodes : nodes[i].name # run[p].name
    BY DEF Names
  <1>8. RowsTyped'
    <2>1. DOMAIN nodes' \subseteq Nid /\ DOMAIN nics' \subseteq DOMAIN nodes'
      BY <1>2, <1>4 DEF RowsTyped
    <2>2. \A i \in DOMAIN nodes' : nodes'[i] \in [name : Rank, managed : BOOLEAN]
      BY <1>4, <1>r DEF RowsTyped
    <2>3. \A i, j \in DOMAIN nodes' : nodes'[i].name = nodes'[j].name => i = j
      BY <1>4, <1>r, <1>7 DEF RowsTyped
    <2> QED BY <2>1, <2>2, <2>3 DEF RowsTyped
  <1>9. NewRowsOK'
    <2>1. \A i \in DOMAIN nodes' : i < nextNid'
      <3>1. \A i \in DOMAIN nodes : i \in Nat /\ i < nextNid
        BY Bounds DEF NewRowsOK, RowsTyped
      <3> QED BY <1>1, <1>2, <1>4, <3>1
    <2>2. ASSUME NEW q \in Proc, run'[q].at = "address"
          PROVE  run'[q].nid < nextNid' /\ run'[q].nid \notin DOMAIN nics
      <3>1. CASE q = p
        BY <1>1, <1>2, <1>3, <3>1 DEF RowsTyped
      <3>2. CASE q # p
        <4>1. run[q].nid < nextNid /\ run[q].nid \notin DOMAIN nics /\ run'[q] = run[q]
          BY <2>2, <3>2 DEF NewRowsOK, At, Others
        <4>2. run[q].nid \in Nat
          BY RunIs, Bounds DEF RunRecord
        <4> QED BY <1>1, <1>2, <4>1, <4>2
      <3> QED BY <3>1, <3>2
    <2>3. ASSUME NEW q \in Proc, NEW o \in Proc, run'[q].at = "address", run'[o].at = "address",
                 run'[q].nid = run'[o].nid
          PROVE  q = o
      <3>1. \A x \in Proc : x # p /\ run'[x].at = "address" => run[x].nid < nextNid /\ run'[x] = run[x]
        BY DEF NewRowsOK, At, Others
      <3>2. \A x \in Proc : x # p /\ run'[x].at = "address" => run'[x].nid # nextNid
        <4>1. \A x \in Proc : run[x].nid \in Nat
          BY RunIs, Bounds DEF RunRecord
        <4> QED BY <1>2, <3>1, <4>1
      <3>3. CASE q = p \/ o = p
        BY <2>3, <3>2, <3>3
      <3>4. CASE q # p /\ o # p
        BY <2>3, <3>4 DEF NewRowsOK, At, Others
      <3> QED BY <3>3, <3>4
    <2> QED BY <2>1, <2>2, <2>3 DEF NewRowsOK, At
  <1> QED BY <1>2, <1>3, <1>4, <1>8, <1>9 DEF row

LEMMA NicAdded ==
  ASSUME RowsTyped, NewRowsOK, RunsOK, NEW p \in Proc, At(p, "address"),
         run[p].nid \in DOMAIN nodes, NEW place \in {"lease", "plugin"},
         NEW ip \in Ip, NEW mac \in Mac \cup {NoMac}, mac \notin Macs,
         NicInserted(p, place, ip, mac), OthersBehind(p), run'[p].at = place,
         UNCHANGED <<nodes, nextNid>>
  PROVE  /\ RowsTyped' /\ NewRowsOK'
         /\ run[p].nid \notin DOMAIN nics /\ DOMAIN nics' = DOMAIN nics \cup {run[p].nid}
         /\ nics'[run[p].nid] = [ip |-> ip, mac |-> mac]
         /\ \A i \in DOMAIN nics : nics'[i] = nics[i]
  <1> DEFINE nid == run[p].nid
             nic == [ip |-> ip, mac |-> mac]
  <1>1. nics' = With(nics, nid, nic)
    BY DEF NicInserted
  <1>4. nic \in [ip : Ip, mac : Mac \cup {NoMac}] /\ nic.mac = mac
    OBVIOUS
  <1> HIDE DEF nic
  <1>2. nid \notin DOMAIN nics
    BY DEF NewRowsOK
  <1>3. /\ DOMAIN nics' = DOMAIN nics \cup {nid} /\ nics'[nid] = nic
        /\ \A i \in DOMAIN nics : nics'[i] = nics[i]
    BY <1>1, <1>2 DEF With
  <1>5. \A i \in DOMAIN nics : nics[i].mac # NoMac => nics[i].mac # mac
    BY DEF Macs
  <1>6. RowsTyped'
    <2>1. DOMAIN nodes' \subseteq Nid /\ DOMAIN nics' \subseteq DOMAIN nodes'
      BY <1>3 DEF RowsTyped
    <2>2. \A i \in DOMAIN nics' : nics'[i] \in [ip : Ip, mac : Mac \cup {NoMac}]
      BY <1>3, <1>4 DEF RowsTyped
    <2>3. \A i, j \in DOMAIN nics' : nics'[i].mac = nics'[j].mac /\ nics'[i].mac # NoMac => i = j
      BY <1>3, <1>4, <1>5 DEF RowsTyped
    <2> QED BY <2>1, <2>2, <2>3 DEF RowsTyped
  <1>7. NewRowsOK'
    <2>1. \A q \in Proc : run'[q].at = "address" =>
            q # p /\ run[q].at = "address" /\ run'[q].nid = run[q].nid
      BY DEF OthersBehind
    <2>2. \A q \in Proc : run'[q].at = "address" => run[q].nid # nid
      BY <2>1 DEF NewRowsOK, At
    <2> QED BY <1>3, <2>1, <2>2 DEF NewRowsOK, At
  <1> QED BY <1>2, <1>3, <1>6, <1>7 DEF nic

LEMMA RowGone ==
  ASSUME RowsTyped, NEW nid, nid \notin DOMAIN nics, UNCHANGED nics,
         nodes' = Restrict(nodes, DOMAIN nodes \ {nid})
  PROVE  /\ RowsTyped' /\ DOMAIN nodes' = DOMAIN nodes \ {nid}
         /\ \A i \in DOMAIN nodes' : nodes'[i] = nodes[i]
  <1>1. DOMAIN nodes' = DOMAIN nodes \ {nid} /\ \A i \in DOMAIN nodes' : nodes'[i] = nodes[i]
    BY RestrictIs
  <1> QED BY <1>1 DEF RowsTyped

LEMMA NicGone ==
  ASSUME RowsTyped, NEW nid, UNCHANGED nodes,
         nics' = Restrict(nics, DOMAIN nics \ {nid})
  PROVE  /\ RowsTyped' /\ DOMAIN nics' = DOMAIN nics \ {nid}
         /\ \A i \in DOMAIN nics' : nics'[i] = nics[i]
  <1>1. DOMAIN nics' = DOMAIN nics \ {nid} /\ \A i \in DOMAIN nics' : nics'[i] = nics[i]
    BY RestrictIs, ZenonT(60)
  <1> QED BY <1>1 DEF RowsTyped

LEMMA TypeInit == Init => TypeInv
  <1> SUFFICES ASSUME Init PROVE TypeInv
    OBVIOUS
  <1>1. DOMAIN nodes = {} /\ DOMAIN nics = {} /\ DOMAIN lease = {}
    BY DEF Init
  <1>2. RunsOK
    BY IdleTyped DEF Init, RunsOK
  <1>3. NewRowsOK
    BY <1>1, IdleTyped DEF Init, NewRowsOK, At
  <1>4. RowsTyped /\ BootTyped
    BY <1>1 DEF Init, RowsTyped, BootTyped
  <1>5. RestTyped
    <2>1. nextNid = 1 /\ 1 \in 1..(MaxNid + 1)
      BY Bounds DEF Init
    <2>2. lockFile = FALSE /\ doubtful = {} /\ cut = {} /\ overlap = FALSE
      BY DEF Init
    <2> QED BY <2>1, <2>2 DEF RestTyped
  <1> QED BY <1>2, <1>3, <1>4, <1>5 DEF TypeInv

LEMMA RestKept ==
  ASSUME RestTyped, UNCHANGED <<nextNid, doubtful, overlap>>, lockFile' \in BOOLEAN,
         cut' \subseteq Rank
  PROVE  RestTyped'
  <1>1. nextNid' \in 1..(MaxNid + 1) /\ doubtful' \subseteq Nid
    BY DEF RestTyped
  <1>2. overlap' \in BOOLEAN
    BY Zenon DEF RestTyped
  <1> QED BY <1>1, <1>2, Zenon DEF RestTyped

LEMMA BootKept == ASSUME BootTyped, UNCHANGED boot PROVE BootTyped'
  BY DEF BootTyped, boot

(* A step in which p neither enters a row nor leaves one it has entered.   *)
LEMMA TypeKept ==
  ASSUME TypeInv, NEW p \in Proc, RunsOK', Others(p) \/ OthersBehind(p),
         run'[p].at = "address" => run[p].at = "address" /\ run'[p].nid = run[p].nid,
         RowsTyped', DOMAIN nodes' \subseteq DOMAIN nodes, DOMAIN nics' \subseteq DOMAIN nics,
         BootTyped', UNCHANGED <<nextNid, doubtful, overlap>>, lockFile' \in BOOLEAN,
         cut' \subseteq Rank
  PROVE  TypeInv'
  <1>1. \A q \in Proc : q # p => run'[q].at = run[q].at /\ run'[q].nid = run[q].nid
    BY DEF Others, OthersBehind
  <1>2. NewRowsOK'
    BY <1>1, NewRowsKept DEF TypeInv
  <1>3. RestTyped'
    BY RestKept DEF TypeInv
  <1> QED BY <1>2, <1>3 DEF TypeInv

(* The same for a step that leaves the database alone.                     *)
LEMMA TypeQuiet ==
  ASSUME TypeInv, NEW p \in Proc, RunsOK', Others(p), UNCHANGED <<db, doubtful, overlap>>,
         run'[p].at # "address", BootTyped', lockFile' \in BOOLEAN, cut' \subseteq Rank
  PROVE  TypeInv'
  <1>1. UNCHANGED <<nodes, nics, nextNid>>
    BY DEF db
  <1>2. RowsTyped'
    BY <1>1, RowsKept DEF TypeInv
  <1> QED BY <1>1, <1>2, TypeKept

LEMMA Locked ==
  ASSUME TypeInv
  PROVE  /\ lockFile \in BOOLEAN /\ FALSE \in BOOLEAN /\ TRUE \in BOOLEAN
         /\ cut \subseteq Rank /\ (UNCHANGED lockFile => lockFile' \in BOOLEAN)
  <1>1. lockFile \in BOOLEAN /\ cut \subseteq Rank
    BY DEF TypeInv, RestTyped
  <1>2. ASSUME UNCHANGED lockFile PROVE lockFile' \in BOOLEAN
    BY <1>1, <1>2, Zenon
  <1> QED BY <1>1, <1>2

LEMMA TypeDies ==
  ASSUME TypeInv, NEW p \in Proc, Dies(p), UNCHANGED <<db, boot, doubtful, overlap, lockFile>>
  PROVE  TypeInv'
  <1>1. RunsOK' /\ run'[p] = Idle /\ Others(p) /\ cut' \subseteq Rank
    BY DiesTyped DEF TypeInv, RestTyped
  <1>2. run'[p].at # "address"
    BY <1>1, IdleTyped
  <1>3. BootTyped'
    BY BootKept DEF TypeInv
  <1>4. lockFile' \in BOOLEAN
    BY Locked
  <1> QED BY <1>1, <1>2, <1>3, <1>4, TypeQuiet

LEMMA TypeSame ==
  ASSUME TypeInv, UNCHANGED <<db, boot, run, history>>, lockFile' \in BOOLEAN PROVE TypeInv'
  <1>1. UNCHANGED <<nodes, nics, nextNid, boot, run, doubtful, cut, overlap>>
    BY DEF db, history
  <1>2. RunsOK' /\ RowsTyped' /\ NewRowsOK'
    BY <1>1, RowsKept DEF TypeInv, RunsOK, NewRowsOK, At
  <1>3. BootTyped'
    BY <1>1, BootKept DEF TypeInv
  <1>4. RestTyped'
    BY <1>1, RestKept, Locked DEF TypeInv
  <1> QED BY <1>2, <1>3, <1>4 DEF TypeInv

(* Runs that begin and end.                                                *)
LEMMA TypeOuter ==
  ASSUME TypeInv,
         \/ BadOption \/ RemoveLockFile
         \/ \E p \in Proc : Check(p) \/ Lock(p) \/ Kill(p) \/ Finish(p) \/ \E r \in Request : Start(p, r)
  PROVE  TypeInv'
  <1>1. CASE BadOption \/ RemoveLockFile
    <2>1. UNCHANGED <<db, boot, run, history>> /\ lockFile' = FALSE
      BY <1>1 DEF BadOption, RemoveLockFile
    <2> QED BY <2>1, TypeSame, Locked
  <1>2. ASSUME NEW p \in Proc, NEW r \in Request, Start(p, r) PROVE TypeInv'
    <2>1. RunsOK' /\ run'[p].at = "check" /\ Others(p)
      BY <1>2, StartMoves DEF TypeInv
    <2>2. UNCHANGED <<db, boot, lockFile, history>>
      BY <1>2 DEF Start
    <2>3. UNCHANGED <<db, doubtful, overlap, lockFile>> /\ cut' = cut /\ BootTyped'
      BY <2>2, BootKept DEF history, TypeInv
    <2> QED BY <2>1, <2>3, TypeQuiet, Locked
  <1>3. ASSUME NEW p \in Proc, Check(p) PROVE TypeInv'
    <2>1. RunsOK' /\ Others(p) /\ run'[p].at # "address"
      BY <1>3, CheckMoves, IdleTyped DEF TypeInv
    <2>2. UNCHANGED <<db, boot, lockFile, history>>
      BY <1>3 DEF Check
    <2>3. UNCHANGED <<db, doubtful, overlap, lockFile>> /\ cut' = cut /\ BootTyped'
      BY <2>2, BootKept DEF history, TypeInv
    <2> QED BY <2>1, <2>3, TypeQuiet, Locked
  <1>4. ASSUME NEW p \in Proc, Lock(p) PROVE TypeInv'
    <2>1. RunsOK' /\ Others(p) /\ run'[p].at = "work"
      BY <1>4, LockMoves DEF TypeInv, Lock
    <2>2. UNCHANGED <<db, boot, doubtful, cut>> /\ lockFile' = TRUE
      BY <1>4 DEF Lock
    <2>3. UNCHANGED <<nodes, nics, nextNid>>
      BY <2>2 DEF db
    <2>4. RowsTyped' /\ BootTyped'
      BY <2>2, <2>3, RowsKept, BootKept DEF TypeInv
    <2>5. NewRowsOK'
      BY <2>1, <2>3, NewRowsKept DEF TypeInv, Others
    <2>6. RestTyped'
      <3>1. nextNid' \in 1..(MaxNid + 1) /\ doubtful' \subseteq Nid /\ cut' \subseteq Rank
        BY <2>2, <2>3 DEF TypeInv, RestTyped
      <3>2. overlap' \in BOOLEAN
        <4>1. overlap \in BOOLEAN /\ overlap' = (overlap \/ \E q \in Proc : Working(q))
          BY <1>4, Zenon DEF TypeInv, RestTyped, Lock
        <4>2. (overlap \/ \E q \in Proc : Working(q)) \in BOOLEAN
          BY Zenon
        <4> QED BY <4>1, <4>2, Zenon
      <3>3. lockFile' \in BOOLEAN
        BY <2>2, Zenon
      <3> QED BY <3>1, <3>2, <3>3, Zenon DEF RestTyped
    <2> QED BY <2>1, <2>4, <2>5, <2>6 DEF TypeInv
  <1>5. ASSUME NEW p \in Proc, Kill(p) PROVE TypeInv'
    <2>1. Dies(p) /\ UNCHANGED <<db, boot, doubtful, overlap, lockFile>>
      BY <1>5 DEF Kill
    <2> QED BY <2>1, TypeDies
  <1>6. ASSUME NEW p \in Proc, Finish(p) PROVE TypeInv'
    <2>1. /\ run' = [run EXCEPT ![p] = Idle] /\ lockFile' = FALSE
          /\ UNCHANGED <<db, lease, history>> /\ pxe' = pxe \cup GroupPxe(p)
      BY <1>6 DEF Finish, ExitAndUnlock
    <2>2. RunsOK' /\ Others(p) /\ run'[p].at = "idle"
      BY <2>1, ToIdle, IdleTyped DEF TypeInv
    <2>3. pxe' \subseteq Mac
      BY <2>1, MacsTyped DEF TypeInv, BootTyped
    <2>4. BootTyped'
      BY <2>1, <2>3 DEF TypeInv, BootTyped
    <2>5. UNCHANGED <<db, doubtful, overlap>> /\ cut' = cut
      BY <2>1 DEF history
    <2> QED BY <2>1, <2>2, <2>4, <2>5, TypeQuiet, Locked
  <1> QED BY <1>1, <1>2, <1>3, <1>4, <1>5, <1>6

(* Adding.                                                                 *)
LEMMA TypeAdd ==
  ASSUME TypeInv, NEW p \in Proc,
         \/ \E m \in Mac : Discover(p, m)
         \/ ImportLine(p) \/ Load(p) \/ PickName(p) \/ InsertRow(p) \/ AddStatic(p)
  PROVE  TypeInv'
  <1>1. CASE (\E m \in Mac : Discover(p, m)) \/ ImportLine(p) \/ Load(p) \/ PickName(p)
    <2>1. RunsOK' /\ Others(p) /\ run'[p].at # "address"
      BY <1>1, DiscoverMoves, ImportMoves, LoadMoves, PickMoves DEF TypeInv
    <2>2. UNCHANGED <<db, boot, lockFile, history>>
      BY <1>1 DEF Discover, ImportLine, Load, PickName
    <2>3. UNCHANGED <<db, doubtful, overlap, lockFile>> /\ cut' = cut /\ BootTyped'
      BY <2>2, BootKept DEF history, TypeInv
    <2> QED BY <2>1, <2>3, TypeQuiet, Locked
  <1>2. ASSUME NEW managed \in BOOLEAN, Inserted(p, managed), At(p, "row") \/ At(p, "work"),
               Kinds(p, Adding \cup {"static"}), At(p, "row") \/ Kinds(p, {"static"}),
               run[p].name \notin Names, UNCHANGED <<nics, boot, lockFile, doubtful, overlap>>
        PROVE  TypeInv'
    <2>1. RunsOK' /\ run'[p].nid = nextNid /\ Others(p)
      BY <1>2, InsertedMoves DEF TypeInv
    <2>2. RowsTyped' /\ NewRowsOK' /\ nextNid' \in 1..(MaxNid + 1) /\ cut' \subseteq Rank
      BY <1>2, <2>1, RowInserted DEF TypeInv
    <2>3. BootTyped'
      BY <1>2, BootKept DEF TypeInv
    <2>4. RestTyped'
      <3>1. lockFile' \in BOOLEAN /\ overlap' \in BOOLEAN
        BY <1>2, Zenon DEF TypeInv, RestTyped
      <3>2. doubtful' \subseteq Nid
        BY <1>2 DEF TypeInv, RestTyped
      <3> QED BY <2>2, <3>1, <3>2, Zenon DEF RestTyped
    <2> QED BY <2>1, <2>2, <2>3, <2>4 DEF TypeInv
  <1>3. CASE InsertRow(p)
    <2>1. At(p, "row") /\ Kinds(p, Adding) /\ UNCHANGED <<nics, boot, lockFile, doubtful, overlap>>
      BY <1>3 DEF InsertRow
    <2>2. CASE Step(p, "plugin") /\ UNCHANGED <<nodes, nextNid, cut>>
      <3>1. RunsOK' /\ Others(p) /\ run'[p].at = "plugin"
        BY <2>1, <2>2, RowMoves DEF TypeInv
      <3>2. UNCHANGED db /\ BootTyped'
        BY <2>1, <2>2, BootKept DEF db, TypeInv
      <3> QED BY <2>1, <2>2, <3>1, <3>2, TypeQuiet, Locked
    <2>3. CASE Fails(p) /\ UNCHANGED <<nodes, nextNid>>
      <3>1. UNCHANGED db /\ BootTyped'
        BY <2>1, <2>3, BootKept DEF db, TypeInv
      <3>2. CASE Dies(p)
        BY <2>1, <3>1, <3>2, TypeDies
      <3>3. CASE ~Dies(p)
        <4>1. RunsOK' /\ Others(p) /\ run'[p].at = "pick" /\ cut' = cut
          BY <2>1, <2>3, <3>3, FailsMoves DEF TypeInv
        <4> QED BY <2>1, <3>1, <4>1, TypeQuiet, Locked
      <3> QED BY <3>2, <3>3
    <2>4. CASE run[p].name \notin run[p].names \cup Names /\ Inserted(p, TRUE)
      <3>1. Kinds(p, Adding \cup {"static"}) /\ run[p].name \notin Names
        BY <2>1, <2>4 DEF Kinds
      <3> QED BY <1>2, <2>1, <2>4, <3>1
    <2> QED BY <1>3, <2>2, <2>3, <2>4 DEF InsertRow
  <1>4. CASE AddStatic(p)
    <2>1. At(p, "work") /\ Kinds(p, {"static"}) /\ UNCHANGED <<nics, boot, doubtful, overlap>>
      BY <1>4 DEF AddStatic
    <2>2. CASE ExitAndUnlock(p) /\ UNCHANGED <<nodes, nextNid, cut>>
      <3>1. RunsOK' /\ Others(p) /\ run'[p].at = "idle" /\ lockFile' = FALSE
        BY <2>2, ToIdle, IdleTyped DEF TypeInv, ExitAndUnlock
      <3>2. UNCHANGED db /\ BootTyped'
        BY <2>1, <2>2, BootKept DEF db, TypeInv
      <3> QED BY <2>1, <2>2, <3>1, <3>2, TypeQuiet, Locked
    <2>3. CASE Dies(p) /\ UNCHANGED <<nodes, nextNid, lockFile>>
      <3>1. UNCHANGED db
        BY <2>1, <2>3 DEF db
      <3> QED BY <2>1, <2>3, <3>1, TypeDies
    <2>4. CASE run[p].name \notin Names /\ Inserted(p, FALSE) /\ UNCHANGED lockFile
      <3>1. Kinds(p, Adding \cup {"static"})
        BY <2>1 DEF Kinds
      <3> QED BY <1>2, <2>1, <2>4, <3>1
    <2> QED BY <1>4, <2>2, <2>3, <2>4 DEF AddStatic
  <1> QED BY <1>1, <1>3, <1>4

(* What becomes of an address: a nic, nothing, another try or the end.     *)
CanInsert(p) == MacFor(p) \notin Macs /\ run[p].nid \in DOMAIN nodes
NextTry(p, ip) ==
  [run EXCEPT ![p].ips = @ \cup {ip}, ![p].last = ip, ![p].macs = @ \cup {run[p].mac}]

LEMMA InsertNicIs ==
  ASSUME RunsOK, NEW p \in Proc, InsertNic(p)
  PROVE  /\ At(p, "address") /\ Kinds(p, Adding)
         /\ UNCHANGED <<nodes, nextNid, boot, lockFile, bounds, overlap>>
         /\ MacFor(p) \in Mac \cup {NoMac}
         /\ \E ip \in Ip :
              /\ ip \notin run[p].ips
              /\ \/ CanInsert(p) /\ NicInserted(p, "lease", ip, MacFor(p)) /\ UNCHANGED cut
                 \/ /\ ~CanInsert(p) /\ UNCHANGED <<nics, doubtful>>
                    /\ \/ /\ Kinds(p, {"listen"}) /\ MacFor(p) = NoMac /\ UNCHANGED cut
                          /\ run' = [NextTry(p, ip) EXCEPT ![p].at = "lease", ![p].mac = NoMac]
                       \/ /\ Kinds(p, {"listen"}) /\ MacFor(p) # NoMac
                          /\ run' = [NextTry(p, ip) EXCEPT ![p].at = "pick", ![p].again = TRUE]
                          /\ cut' = cut \cup {run[p].name}
                       \/ Dies(p)
  <1>1. /\ At(p, "address") /\ Kinds(p, Adding)
        /\ UNCHANGED <<nodes, nextNid, boot, lockFile, bounds, overlap>>
    BY DEF InsertNic
  <1>2. run[p] \in RunRecord /\ run[p].mac \in Mac
    BY <1>1, RunIs DEF PlaceOK, At, Kinds
  <1>3. MacFor(p) \in Mac \cup {NoMac} /\ (MacFor(p) = NoMac => Kinds(p, {"listen"}))
    BY <1>2, Bounds DEF MacFor
  <1> PICK ip \in Ip :
        /\ Least(ip, Addresses(p))
        /\ \/ CanInsert(p) /\ NicInserted(p, "lease", ip, MacFor(p)) /\ UNCHANGED cut
           \/ /\ ~CanInsert(p) /\ MacFor(p) = NoMac
              /\ run' = [NextTry(p, ip) EXCEPT ![p].at = "lease", ![p].mac = NoMac]
              /\ UNCHANGED <<nics, doubtful, cut>>
           \/ /\ ~CanInsert(p) /\ MacFor(p) # NoMac
              /\ LET retry == Kinds(p, {"listen"}) /\ ~run[p].again IN
                 /\ run' = IF retry
                           THEN [NextTry(p, ip) EXCEPT ![p].at = "pick", ![p].again = TRUE]
                           ELSE [run EXCEPT ![p] = Idle]
                 /\ cut' = cut \cup (IF retry THEN {run[p].name} ELSE Unfinished(p))
              /\ UNCHANGED <<nics, doubtful>>
    BY DEF InsertNic, CanInsert, NextTry
  <1>4. ip \notin run[p].ips
    <2>1. ip \in Addresses(p)
      BY DEF Least
    <2> QED BY <2>1 DEF Addresses
  <1>5. CASE /\ ~CanInsert(p) /\ MacFor(p) # NoMac
             /\ ~(Kinds(p, {"listen"}) /\ ~run[p].again)
    <2>1. Dies(p) /\ UNCHANGED <<nics, doubtful>>
      BY <1>5 DEF Dies
    <2> QED BY <1>1, <1>3, <1>4, <1>5, <2>1
  <1>6. CASE ~(/\ ~CanInsert(p) /\ MacFor(p) # NoMac
               /\ ~(Kinds(p, {"listen"}) /\ ~run[p].again))
    BY <1>1, <1>3, <1>4, <1>6
  <1> QED BY <1>5, <1>6

LEMMA TypeNicAdded ==
  ASSUME TypeInv, NEW p \in Proc, At(p, "address"), NEW place \in {"lease", "plugin"},
         IF place = "lease" THEN Kinds(p, Adding) ELSE Kinds(p, {"static"}),
         run[p].nid \in DOMAIN nodes, NEW ip \in Ip, NEW mac \in Mac \cup {NoMac},
         mac \notin Macs, NicInserted(p, place, ip, mac),
         UNCHANGED <<nodes, nextNid, boot, lockFile, cut, overlap>>
  PROVE  TypeInv'
  <1>1. RunsOK' /\ run'[p].at = place /\ OthersBehind(p)
    BY NicMoves DEF TypeInv
  <1>2. RowsTyped' /\ NewRowsOK'
    BY <1>1, NicAdded DEF TypeInv
  <1>3. BootTyped'
    BY BootKept DEF TypeInv
  <1>4. RestTyped'
    <2>1. run[p].nid \in Nid
      BY DEF TypeInv, RowsTyped
    <2>2. doubtful' \subseteq Nid
      BY <2>1 DEF NicInserted, TypeInv, RestTyped
    <2>3. nextNid' \in 1..(MaxNid + 1) /\ cut' \subseteq Rank
      BY DEF TypeInv, RestTyped
    <2>4. lockFile' \in BOOLEAN /\ overlap' \in BOOLEAN
      BY Zenon DEF TypeInv, RestTyped
    <2> QED BY <2>2, <2>3, <2>4, Zenon DEF RestTyped
  <1> QED BY <1>1, <1>2, <1>3, <1>4 DEF TypeInv

LEMMA TypeNic ==
  ASSUME TypeInv, NEW p \in Proc, InsertNic(p) \/ Overflow(p) \/ StaticNic(p)
  PROVE  TypeInv'
  <1>1. CASE InsertNic(p)
    <2>1. /\ At(p, "address") /\ Kinds(p, Adding)
          /\ UNCHANGED <<nodes, nextNid, boot, lockFile, bounds, overlap>>
          /\ MacFor(p) \in Mac \cup {NoMac}
      BY <1>1, InsertNicIs DEF TypeInv
    <2> PICK ip \in Ip :
          /\ ip \notin run[p].ips
          /\ \/ CanInsert(p) /\ NicInserted(p, "lease", ip, MacFor(p)) /\ UNCHANGED cut
             \/ /\ ~CanInsert(p) /\ UNCHANGED <<nics, doubtful>>
                /\ \/ /\ Kinds(p, {"listen"}) /\ MacFor(p) = NoMac /\ UNCHANGED cut
                      /\ run' = [NextTry(p, ip) EXCEPT ![p].at = "lease", ![p].mac = NoMac]
                   \/ /\ Kinds(p, {"listen"}) /\ MacFor(p) # NoMac
                      /\ run' = [NextTry(p, ip) EXCEPT ![p].at = "pick", ![p].again = TRUE]
                      /\ cut' = cut \cup {run[p].name}
                   \/ Dies(p)
      BY <1>1, InsertNicIs DEF TypeInv
    <2>2. CASE CanInsert(p) /\ NicInserted(p, "lease", ip, MacFor(p)) /\ UNCHANGED cut
      BY <2>1, <2>2, TypeNicAdded DEF CanInsert
    <2>3. CASE UNCHANGED <<nics, doubtful>> /\ Dies(p)
      <3>1. UNCHANGED db
        BY <2>1, <2>3 DEF db
      <3> QED BY <2>1, <2>3, <3>1, TypeDies
    <2>4. CASE /\ UNCHANGED <<nics, doubtful>> /\ Kinds(p, {"listen"}) /\ UNCHANGED cut
               /\ run' = [NextTry(p, ip) EXCEPT ![p].at = "lease", ![p].mac = NoMac]
      <3>1. UNCHANGED db /\ BootTyped'
        BY <2>1, <2>4, BootKept DEF db, TypeInv
      <3>2. RunsOK' /\ run'[p].at = "lease" /\ Others(p)
        BY <2>1, <2>4, NoNicMoves DEF NextTry, TypeInv
      <3> QED BY <2>1, <2>4, <3>1, <3>2, TypeQuiet, Locked
    <2>5. CASE /\ UNCHANGED <<nics, doubtful>> /\ Kinds(p, {"listen"})
               /\ run' = [NextTry(p, ip) EXCEPT ![p].at = "pick", ![p].again = TRUE]
               /\ cut' = cut \cup {run[p].name}
      <3>1. UNCHANGED db /\ BootTyped'
        BY <2>1, <2>5, BootKept DEF db, TypeInv
      <3>2. RunsOK' /\ run'[p].at = "pick" /\ Others(p)
        BY <2>1, <2>5, NoAddressMoves DEF NextTry, TypeInv
      <3>3. cut' \subseteq Rank
        <4>1. run[p].name \in Rank
          BY RunIs DEF RunRecord, TypeInv
        <4> QED BY <2>5, <4>1, Locked
      <3> QED BY <2>1, <2>5, <3>1, <3>2, <3>3, TypeQuiet, Locked
    <2> QED BY <2>2, <2>3, <2>4, <2>5
  <1>2. CASE Overflow(p)
    <2>1. /\ At(p, "address") /\ run' = [run EXCEPT ![p] = Idle] /\ lockFile' = FALSE
          /\ cut' = cut \cup Unfinished(p) /\ UNCHANGED <<nics, nextNid, boot, doubtful, overlap>>
          /\ \/ UNCHANGED nodes
             \/ nodes' = Restrict(nodes, DOMAIN nodes \ {run[p].nid})
      BY <1>2 DEF Overflow, ExitAndUnlock
    <2>2. RunsOK' /\ Others(p) /\ run'[p].at = "idle"
      BY <2>1, ToIdle, IdleTyped DEF TypeInv
    <2>3. run[p].nid \notin DOMAIN nics
      BY <2>1 DEF TypeInv, NewRowsOK
    <2>4. RowsTyped' /\ DOMAIN nodes' \subseteq DOMAIN nodes
      <3>1. CASE UNCHANGED nodes
        BY <2>1, <3>1, RowsKept DEF TypeInv
      <3>2. CASE nodes' = Restrict(nodes, DOMAIN nodes \ {run[p].nid})
        BY <2>1, <2>3, <3>2, RowGone DEF TypeInv
      <3> QED BY <2>1, <3>1, <3>2
    <2>5. BootTyped' /\ cut' \subseteq Rank
      BY <2>1, BootKept, UnfinishedIs, Locked DEF TypeInv
    <2> QED BY <2>1, <2>2, <2>4, <2>5, TypeKept, Locked
  <1>3. CASE StaticNic(p)
    <2>1. /\ At(p, "address") /\ Kinds(p, {"static"})
          /\ UNCHANGED <<nodes, nextNid, boot, lockFile, bounds, overlap>>
      BY <1>3 DEF StaticNic
    <2>2. CASE run[p].nid \in DOMAIN nodes /\ NicInserted(p, "plugin", run[p].hint, NoMac) /\ UNCHANGED cut
      <3>1. run[p].hint \in Ip
        BY <2>1, RunIs DEF TypeInv, PlaceOK, Kinds
      <3>2. NoMac \notin Macs
        BY DEF Macs
      <3> QED BY <2>1, <2>2, <3>1, <3>2, TypeNicAdded
    <2>3. CASE Dies(p) /\ UNCHANGED <<nics, doubtful>>
      <3>1. UNCHANGED db
        BY <2>1, <2>3 DEF db
      <3> QED BY <2>1, <2>3, <3>1, TypeDies
    <2> QED BY <1>3, <2>2, <2>3 DEF StaticNic
  <1> QED BY <1>1, <1>2, <1>3

(* The DHCP server and the plugins.                                        *)
LEMMA LeaseIs ==
  ASSUME RunsOK, NEW p \in Proc, WriteLease(p)
  PROVE  \/ lease' = lease /\ (run[p].mac = NoMac \/ run[p].name \in DOMAIN lease)
         \/ /\ run[p].mac \in Mac /\ run[p].name \notin DOMAIN lease
            /\ DOMAIN lease' = DOMAIN lease \cup {run[p].name}
            /\ lease'[run[p].name] = [ip |-> run[p].last, mac |-> run[p].mac]
            /\ \A n \in DOMAIN lease : lease'[n] = lease[n]
  <1>1. run[p].mac \in Mac \cup {NoMac}
    BY RunIs DEF RunRecord
  <1> DEFINE host == [ip |-> run[p].last, mac |-> run[p].mac]
  <1>2. CASE run[p].mac = NoMac \/ run[p].name \in DOMAIN lease
    BY <1>2 DEF WriteLease
  <1>3. CASE ~(run[p].mac = NoMac \/ run[p].name \in DOMAIN lease)
    <2>1. lease' = With(lease, run[p].name, host)
      BY <1>3 DEF WriteLease
    <2> HIDE DEF host
    <2>2. /\ DOMAIN lease' = DOMAIN lease \cup {run[p].name} /\ lease'[run[p].name] = host
          /\ \A n \in DOMAIN lease : lease'[n] = lease[n]
      BY <1>3, <2>1 DEF With
    <2> QED BY <1>1, <1>3, <2>2 DEF host
  <1> QED BY <1>2, <1>3

LEMMA TypeBoot ==
  ASSUME TypeInv, NEW p \in Proc, WriteLease(p) \/ Plugins(p)
  PROVE  TypeInv'
  <1>1. CASE WriteLease(p)
    <2>1. RunsOK' /\ run'[p].at = "plugin" /\ Others(p)
      BY <1>1, LeaseMoves DEF TypeInv
    <2>2. UNCHANGED <<db, pxe, lockFile, history>> /\ run[p].at = "lease"
      BY <1>1 DEF WriteLease, At
    <2>3. UNCHANGED <<db, doubtful, overlap, lockFile>> /\ cut' = cut
      BY <2>2 DEF history
    <2>4. BootTyped'
      <3>1. CASE lease' = lease
        BY <2>2, <3>1 DEF TypeInv, BootTyped
      <3>2. CASE /\ run[p].mac \in Mac
                 /\ DOMAIN lease' = DOMAIN lease \cup {run[p].name}
                 /\ lease'[run[p].name] = [ip |-> run[p].last, mac |-> run[p].mac]
                 /\ \A n \in DOMAIN lease : lease'[n] = lease[n]
        <4>1. run[p].name \in Rank /\ run[p].last \in Ip
          BY <2>2, RunIs DEF RunRecord, PlaceOK, TypeInv
        <4>2. DOMAIN lease' \subseteq Rank
          BY <3>2, <4>1 DEF TypeInv, BootTyped
        <4>3. lease'[run[p].name] \in [ip : Ip, mac : Mac]
          BY <3>2, <4>1
        <4>4. \A n \in DOMAIN lease' : lease'[n] \in [ip : Ip, mac : Mac]
          BY <3>2, <4>3 DEF TypeInv, BootTyped
        <4> QED BY <2>2, <4>2, <4>4 DEF TypeInv, BootTyped
      <3> QED BY <1>1, <3>1, <3>2, LeaseIs DEF TypeInv
    <2> QED BY <2>1, <2>3, <2>4, TypeQuiet, Locked
  <1>2. CASE Plugins(p)
    <2>1. At(p, "plugin") /\ UNCHANGED <<db, lease, lockFile, doubtful, overlap>>
      BY <1>2 DEF Plugins
    <2>2. CASE Dies(p) /\ UNCHANGED pxe
      <3>1. UNCHANGED boot
        BY <2>1, <2>2 DEF boot
      <3> QED BY <2>1, <2>2, <3>1, TypeDies
    <2>3. CASE /\ pxe' = IF Kinds(p, {"listen"}) THEN pxe \cup PxeOf(run[p].name) ELSE pxe
               /\ run' = [run EXCEPT ![p].at = "work", ![p].done = Done(p)]
               /\ UNCHANGED cut
      <3>1. RunsOK' /\ run'[p].at = "work" /\ Others(p)
        BY <2>1, <2>3, DoneMoves DEF TypeInv
      <3>2. pxe' \subseteq Mac
        BY <2>3, MacsTyped DEF TypeInv, BootTyped
      <3>3. BootTyped'
        BY <2>1, <3>2 DEF TypeInv, BootTyped
      <3> QED BY <2>1, <2>3, <3>1, <3>3, TypeQuiet, Locked
    <2> QED BY <1>2, <2>2, <2>3 DEF Plugins
  <1> QED BY <1>1, <1>2

LEMMA LeaseGone ==
  ASSUME BootTyped, NEW n, UNCHANGED pxe, lease' = Restrict(lease, DOMAIN lease \ {n})
  PROVE  /\ BootTyped' /\ DOMAIN lease' = DOMAIN lease \ {n}
         /\ \A m \in DOMAIN lease' : lease'[m] = lease[m]
  <1>1. DOMAIN lease' = DOMAIN lease \ {n} /\ \A m \in DOMAIN lease' : lease'[m] = lease[m]
    BY RestrictIs, ZenonT(60)
  <1> QED BY <1>1 DEF BootTyped

LEMMA TypeRemove ==
  ASSUME TypeInv, NEW p \in Proc,
         RemoveName(p) \/ DeleteLease(p) \/ DeleteNics(p) \/ DeleteNode(p)
  PROVE  TypeInv'
  <1>1. CASE RemoveName(p)
    <2>1. /\ RunsOK' /\ Others(p) /\ run'[p].at # "address" /\ pxe' \subseteq pxe
      BY <1>1, RemoveMoves DEF TypeInv
    <2>2. UNCHANGED <<db, lease, lockFile, history>>
      BY <1>1 DEF RemoveName
    <2>3. UNCHANGED <<db, doubtful, overlap, lockFile>> /\ cut' = cut
      BY <2>2 DEF history
    <2>4. BootTyped'
      BY <2>1, <2>2 DEF BootTyped, TypeInv
    <2> QED BY <2>1, <2>3, <2>4, TypeQuiet, Locked
  <1>2. CASE DeleteLease(p)
    <2>1. At(p, "delete") /\ UNCHANGED <<db, pxe, lockFile, doubtful, overlap>>
      BY <1>2 DEF DeleteLease
    <2>2. CASE Step(p, "work") /\ UNCHANGED lease /\ cut' \subseteq cut \cup {run[p].name}
      <3>1. RunsOK' /\ Others(p) /\ run'[p].at = "work"
        BY <2>1, <2>2, DeleteMoves DEF TypeInv
      <3>2. BootTyped'
        BY <2>1, <2>2 DEF BootTyped, TypeInv
      <3>3. run[p].name \in Rank
        BY RunIs DEF RunRecord, TypeInv
      <3>4. cut' \subseteq Rank
        BY <2>2, <3>3, Locked
      <3> QED BY <2>1, <3>1, <3>2, <3>4, TypeQuiet, Locked
    <2>3. CASE /\ run[p].name \in Names /\ UNCHANGED cut
               /\ run' = [run EXCEPT ![p].at = "nics", ![p].nid = NidOf(run[p].name)]
               /\ lease' = Restrict(lease, DOMAIN lease \ {run[p].name})
      <3>1. RunsOK' /\ Others(p) /\ run'[p].at = "nics"
        BY <2>1, <2>3, GoneMoves DEF TypeInv
      <3>2. BootTyped'
        BY <2>1, <2>3, LeaseGone DEF TypeInv
      <3> QED BY <2>1, <2>3, <3>1, <3>2, TypeQuiet, Locked
    <2> QED BY <1>2, <2>2, <2>3 DEF DeleteLease
  <1>3. CASE DeleteNics(p)
    <2>1. /\ At(p, "nics") /\ Step(p, "nodes") /\ UNCHANGED <<nodes, nextNid, boot, lockFile, history>>
          /\ nics' = Restrict(nics, DOMAIN nics \ {run[p].nid})
      BY <1>3 DEF DeleteNics
    <2>2. RunsOK' /\ Others(p) /\ run'[p].at = "nodes"
      BY <2>1, NicsMoves DEF TypeInv
    <2>3. RowsTyped' /\ DOMAIN nics' \subseteq DOMAIN nics
      BY <2>1, NicGone DEF TypeInv
    <2>4. UNCHANGED <<nextNid, doubtful, overlap>> /\ cut' = cut /\ BootTyped'
      BY <2>1, BootKept DEF history, TypeInv
    <2> QED BY <2>1, <2>2, <2>3, <2>4, TypeKept, Locked
  <1>4. CASE DeleteNode(p)
    <2>1. At(p, "nodes") /\ UNCHANGED <<nics, nextNid, boot, lockFile, doubtful, overlap>>
      BY <1>4 DEF DeleteNode
    <2>2. CASE Dies(p) /\ UNCHANGED nodes
      <3>1. UNCHANGED db
        BY <2>1, <2>2 DEF db
      <3> QED BY <2>1, <2>2, <3>1, TypeDies
    <2>3. CASE /\ run[p].nid \notin DOMAIN nics /\ UNCHANGED cut
               /\ nodes' = Restrict(nodes, DOMAIN nodes \ {run[p].nid})
               /\ run' = [run EXCEPT ![p].at = "work", ![p].done = Append(@, run[p].name)]
      <3>1. RunsOK' /\ Others(p) /\ run'[p].at = "work"
        BY <2>1, <2>3, DoneMoves DEF TypeInv
      <3>2. RowsTyped' /\ DOMAIN nodes' \subseteq DOMAIN nodes
        BY <2>1, <2>3, RowGone DEF TypeInv
      <3>3. BootTyped'
        BY <2>1, BootKept DEF TypeInv
      <3> QED BY <2>1, <2>3, <3>1, <3>2, <3>3, TypeKept, Locked
    <2> QED BY <1>4, <2>2, <2>3 DEF DeleteNode
  <1> QED BY <1>1, <1>2, <1>3, <1>4

(* A MAC is taken from a row, or given to it.                              *)
LEMMA MacCleared ==
  ASSUME RowsTyped, NEW p \in Proc, ClearMac(p)
  PROVE  /\ RowsTyped' /\ DOMAIN nics' = DOMAIN nics
         /\ \A i \in DOMAIN nics : /\ nics'[i].ip = nics[i].ip
                                   /\ i # run[p].nid => nics'[i] = nics[i]
                                   /\ i = run[p].nid => nics'[i].mac = NoMac
  <1>1. DOMAIN nics' = DOMAIN nics /\ UNCHANGED nodes
    BY DEF ClearMac
  <1>2. ASSUME NEW i \in DOMAIN nics
        PROVE  /\ nics'[i].ip = nics[i].ip /\ nics'[i] \in [ip : Ip, mac : Mac \cup {NoMac}]
               /\ i # run[p].nid => nics'[i] = nics[i]
               /\ i = run[p].nid => nics'[i].mac = NoMac
    <2>1. nics[i] \in [ip : Ip, mac : Mac \cup {NoMac}]
      BY DEF RowsTyped
    <2>2. nics'[i] = IF i = run[p].nid THEN [nics[i] EXCEPT !.mac = NoMac] ELSE nics[i]
      BY DEF ClearMac
    <2> QED BY <2>1, <2>2
  <1>3. RowsTyped'
    BY <1>1, <1>2 DEF RowsTyped
  <1> QED BY <1>1, <1>2, <1>3

LEMMA MacSet ==
  ASSUME RowsTyped, RunsOK, NEW p \in Proc, At(p, "set"), run[p].nid \in DOMAIN nics,
         run[p].mac \notin Macs, nics' = [nics EXCEPT ![run[p].nid].mac = run[p].mac],
         UNCHANGED nodes
  PROVE  /\ RowsTyped' /\ DOMAIN nics' = DOMAIN nics /\ run[p].mac \in Mac
         /\ nics'[run[p].nid] = [ip |-> nics[run[p].nid].ip, mac |-> run[p].mac]
         /\ \A i \in DOMAIN nics : i # run[p].nid => nics'[i] = nics[i]
  <1>1. run[p].mac \in Mac
    BY RunIs DEF PlaceOK, At
  <1>2. nics[run[p].nid] \in [ip : Ip, mac : Mac \cup {NoMac}]
    BY DEF RowsTyped
  <1>3. DOMAIN nics' = DOMAIN nics /\ \A i \in DOMAIN nics : i # run[p].nid => nics'[i] = nics[i]
    OBVIOUS
  <1>4. nics'[run[p].nid] = [nics[run[p].nid] EXCEPT !.mac = run[p].mac]
    OBVIOUS
  <1>5. nics'[run[p].nid] = [ip |-> nics[run[p].nid].ip, mac |-> run[p].mac]
    BY <1>2, <1>4
  <1>6. \A i \in DOMAIN nics : nics[i].mac # NoMac => nics[i].mac # run[p].mac
    BY DEF Macs
  <1>7. RowsTyped'
    <2>1. \A i \in DOMAIN nics' : nics'[i] \in [ip : Ip, mac : Mac \cup {NoMac}]
      BY <1>1, <1>2, <1>3, <1>5 DEF RowsTyped
    <2>2. nics'[run[p].nid].mac = run[p].mac
      BY <1>5
    <2>3. \A i, j \in DOMAIN nics' : nics'[i].mac = nics'[j].mac /\ nics'[i].mac # NoMac => i = j
      BY <1>3, <1>6, <2>2 DEF RowsTyped
    <2> QED BY <1>3, <2>1, <2>3 DEF RowsTyped
  <1> QED BY <1>1, <1>3, <1>5, <1>7

LEMMA TypeReplace ==
  ASSUME TypeInv, NEW p \in Proc,
         \/ \E m \in Mac : DiscoverNew(p, m)
         \/ ForgetLease(p) \/ ClearMac(p) \/ SetMac(p) \/ BootHost(p)
  PROVE  TypeInv'
  <1>1. ASSUME NEW m \in Mac, DiscoverNew(p, m) PROVE TypeInv'
    <2>1. RunsOK' /\ Others(p) /\ run'[p].at = "forget"
      BY <1>1, NewMoves DEF TypeInv
    <2>2. UNCHANGED <<db, lease, lockFile, history>> /\ pxe' \subseteq pxe
      BY <1>1 DEF DiscoverNew
    <2>3. UNCHANGED <<db, doubtful, overlap, lockFile>> /\ cut' = cut
      BY <2>2 DEF history
    <2>4. BootTyped'
      BY <2>2 DEF BootTyped, TypeInv
    <2> QED BY <2>1, <2>3, <2>4, TypeQuiet, Locked
  <1>2. CASE ForgetLease(p)
    <2>1. /\ At(p, "forget") /\ Step(p, "clear") /\ UNCHANGED <<db, pxe, lockFile, history>>
          /\ lease' = Restrict(lease, DOMAIN lease \ {run[p].name})
      BY <1>2 DEF ForgetLease
    <2>2. RunsOK' /\ Others(p) /\ run'[p].at = "clear"
      BY <2>1, ReplaceMoves DEF TypeInv
    <2>3. UNCHANGED <<db, doubtful, overlap, lockFile>> /\ cut' = cut
      BY <2>1 DEF history
    <2>4. BootTyped'
      BY <2>1, LeaseGone DEF TypeInv
    <2> QED BY <2>2, <2>3, <2>4, TypeQuiet, Locked
  <1>3. CASE ClearMac(p)
    <2>1. /\ At(p, "clear") /\ Step(p, "set") /\ UNCHANGED <<nodes, nextNid, boot, lockFile, history>>
      BY <1>3 DEF ClearMac
    <2>2. RunsOK' /\ Others(p) /\ run'[p].at = "set"
      BY <2>1, ReplaceMoves DEF TypeInv
    <2>3. UNCHANGED <<nextNid, doubtful, overlap, lockFile>> /\ cut' = cut /\ BootTyped'
      BY <2>1, BootKept DEF history, TypeInv
    <2>4. RowsTyped' /\ DOMAIN nics' = DOMAIN nics
      BY <1>3, MacCleared DEF TypeInv
    <2> QED BY <2>1, <2>2, <2>3, <2>4, TypeKept, Locked
  <1>4. CASE SetMac(p)
    <2>1. At(p, "set") /\ UNCHANGED <<nodes, nextNid, boot, lockFile, doubtful, overlap>>
      BY <1>4 DEF SetMac
    <2>2. CASE Dies(p) /\ UNCHANGED nics
      <3>1. UNCHANGED db
        BY <2>1, <2>2 DEF db
      <3> QED BY <2>1, <2>2, <3>1, TypeDies
    <2>3. CASE /\ run[p].nid \in DOMAIN nics /\ run[p].mac \notin Macs /\ UNCHANGED cut
               /\ nics' = [nics EXCEPT ![run[p].nid].mac = run[p].mac]
               /\ run' = [run EXCEPT ![p].at = "boot", ![p].last = nics[run[p].nid].ip]
      <3>1. nics[run[p].nid].ip \in Ip
        BY <2>3 DEF TypeInv, RowsTyped
      <3>2. RunsOK' /\ Others(p) /\ run'[p].at = "boot"
        BY <2>1, <2>3, <3>1, SetMoves DEF TypeInv
      <3>3. RowsTyped' /\ DOMAIN nics' = DOMAIN nics
        BY <2>1, <2>3, MacSet DEF TypeInv
      <3>4. BootTyped'
        BY <2>1, BootKept DEF TypeInv
      <3> QED BY <2>1, <2>3, <3>2, <3>3, <3>4, TypeKept, Locked
    <2> QED BY <1>4, <2>2, <2>3 DEF SetMac
  <1>5. CASE BootHost(p)
    <2>1. /\ At(p, "boot") /\ Step(p, "lease") /\ UNCHANGED <<db, lease, lockFile, history>>
          /\ pxe' = pxe \cup PxeOf(run[p].name)
      BY <1>5 DEF BootHost
    <2>2. RunsOK' /\ Others(p) /\ run'[p].at = "lease"
      BY <2>1, BootMoves DEF TypeInv
    <2>3. UNCHANGED <<db, doubtful, overlap, lockFile>> /\ cut' = cut
      BY <2>1 DEF history
    <2>4. pxe' \subseteq Mac
      BY <2>1, MacsTyped DEF TypeInv, BootTyped
    <2>5. BootTyped'
      BY <2>1, <2>4 DEF BootTyped, TypeInv
    <2> QED BY <2>2, <2>3, <2>5, TypeQuiet, Locked
  <1> QED BY <1>1, <1>2, <1>3, <1>4, <1>5

LEMMA TypeNext == ASSUME TypeInv, [Next]_vars PROVE TypeInv'
  <1>1. CASE UNCHANGED vars
    <2>1. UNCHANGED <<db, boot, run, history, lockFile>>
      BY <1>1 DEF vars
    <2> QED BY <2>1, TypeSame, Locked
  <1>2. CASE Next
    BY <1>2, TypeOuter, TypeAdd, TypeNic, TypeBoot, TypeRemove, TypeReplace DEF Next
  <1> QED BY <1>1, <1>2

LEMMA TypeCorrect == Spec => []TypeInv
  <1>1. TypeInv /\ [Next]_vars => TypeInv'
    BY TypeNext
  <1> QED BY <1>1, TypeInit, PTL DEF Spec

LEMMA TypeMeans == TypeInv => AddHostTypeOK
  <1> SUFFICES ASSUME TypeInv PROVE AddHostTypeOK
    OBVIOUS
  <1>1. \A p \in Proc : run[p] = Idle \/ run[p].kind \in Kind
    BY RunIs DEF PlaceOK, TypeInv
  <1>2. lockFile \in BOOLEAN /\ overlap \in BOOLEAN
    BY Zenon DEF TypeInv, RestTyped
  <1> QED BY <1>1, <1>2 DEF TypeInv, RowsTyped, BootTyped, RestTyped, AddHostTypeOK

(* The database, the DHCP server, the PXE files and the processes hold     *)
(* what they may at every moment: a nic is of a node, no name and no MAC   *)
(* is in two rows.                                                         *)
THEOREM AddHostTypeOKHolds == Spec => []AddHostTypeOK
  BY TypeCorrect, TypeMeans, PTL

----------------------------------------------------------------------------
(* Addresses.                                                              *)

(* What p has read, it keeps or reads anew.                                *)
ReadsOn(p) ==
  /\ \/ run'[p].at = "idle"
     \/ Ips \subseteq run'[p].ips
     \/ /\ run[p].at # "idle" /\ run[p].ips \subseteq run'[p].ips
        /\ run'[p].behind = run[p].behind
  /\ run'[p].at = "address" /\ run'[p].kind = "static" => run'[p].hint \notin run'[p].ips

LEMMA AddressKept ==
  ASSUME AddressInv, NEW p \in Proc, Others(p), ReadsOn(p), UNCHANGED doubtful,
         DOMAIN nics' \subseteq DOMAIN nics,
         \A i \in DOMAIN nics' : nics'[i].ip = nics[i].ip
  PROVE  AddressInv'
  <1>1. Ips' \subseteq Ips
    BY DEF Ips
  <1>2. AddressesUnique'
    BY DEF AddressInv, AddressesUnique
  <1>3. ASSUME NEW q \in Proc PROVE SeenOK(q)'
    <2>1. CASE q = p
      BY <1>1, <2>1 DEF AddressInv, SeenOK, ReadsOn, At, Kinds
    <2>2. CASE q # p
      BY <1>1, <2>2 DEF AddressInv, SeenOK, Others, At, Kinds
    <2> QED BY <2>1, <2>2
  <1> QED BY <1>2, <1>3 DEF AddressInv

LEMMA AddressQuiet ==
  ASSUME AddressInv, NEW p \in Proc, Others(p), ReadsOn(p), UNCHANGED <<doubtful, nics>>
  PROVE  AddressInv'
  BY AddressKept

LEMMA AddressDies ==
  ASSUME TypeInv, AddressInv, NEW p \in Proc, Dies(p), UNCHANGED <<nics, doubtful>>
  PROVE  AddressInv'
  <1>1. run'[p].at = "idle" /\ Others(p)
    BY DiesTyped, IdleTyped DEF TypeInv, RestTyped
  <1> QED BY <1>1, AddressQuiet DEF ReadsOn

(* p moves on, and is not at an address that was asked for.                *)
LEMMA ReadsKept ==
  ASSUME NEW p \in Proc, run[p].at # "idle", AskedKept(p), ReadKept(p),
         run'[p].at = "address" => run'[p].kind # "static" \/ run[p].hint \notin run[p].ips
  PROVE  ReadsOn(p)
  BY DEF AskedKept, ReadKept, ReadsOn

LEMMA AddressNicAdded ==
  ASSUME TypeInv, AddressInv, NEW p \in Proc, At(p, "address"), NEW place \in {"lease", "plugin"},
         IF place = "lease" THEN Kinds(p, Adding) ELSE Kinds(p, {"static"}),
         run[p].nid \in DOMAIN nodes, NEW ip \in Ip, ip \notin run[p].ips,
         NEW mac \in Mac \cup {NoMac}, mac \notin Macs, NicInserted(p, place, ip, mac),
         UNCHANGED <<nodes, nextNid>>
  PROVE  AddressInv'
  <1>1. /\ run'[p].at = place /\ OthersBehind(p)
        /\ run'[p].ips = run[p].ips \cup {ip} /\ run'[p].behind = run[p].behind
    BY NicMoves DEF TypeInv
  <1>2. /\ run[p].nid \notin DOMAIN nics /\ DOMAIN nics' = DOMAIN nics \cup {run[p].nid}
        /\ nics'[run[p].nid] = [ip |-> ip, mac |-> mac]
        /\ \A i \in DOMAIN nics : nics'[i] = nics[i]
    <2>1. RowsTyped /\ NewRowsOK /\ RunsOK
      BY DEF TypeInv
    <2>2. run[p].nid \notin DOMAIN nics
      BY <1>1, <2>1, NicAdded
    <2>3. DOMAIN nics' = DOMAIN nics \cup {run[p].nid}
      BY <1>1, <2>1, NicAdded
    <2>4. nics'[run[p].nid] = [ip |-> ip, mac |-> mac]
      BY DEF NicInserted, With
    <2>5. \A i \in DOMAIN nics : nics'[i] = nics[i]
      BY <1>1, <2>1, NicAdded
    <2> QED BY <2>2, <2>3, <2>4, <2>5
  <1>3. nics'[run[p].nid].ip = ip
    BY <1>2
  <1>4. doubtful' = IF run[p].behind THEN doubtful \cup {run[p].nid} ELSE doubtful
    BY DEF NicInserted
  <1>5. ~run[p].behind => Ips \subseteq run[p].ips
    BY DEF AddressInv, SeenOK, At
  <1>6. AddressesUnique'
    <2>1. ASSUME NEW i \in DOMAIN nics, nics[i].ip = ip PROVE run[p].nid \in doubtful'
      BY <1>4, <1>5, <2>1 DEF Ips
    <2>2. doubtful \subseteq doubtful'
      BY <1>4
    <2>3. ASSUME NEW i \in DOMAIN nics', NEW j \in DOMAIN nics', i # j, nics'[i].ip = nics'[j].ip
          PROVE  {i, j} \cap doubtful' # {}
      <3>1. CASE i = run[p].nid
        <4>1. j \in DOMAIN nics /\ nics[j].ip = ip
          BY <1>2, <1>3, <2>3, <3>1
        <4> QED BY <2>1, <3>1, <4>1
      <3>2. CASE j = run[p].nid
        <4>1. i \in DOMAIN nics /\ nics[i].ip = ip
          BY <1>2, <1>3, <2>3, <3>2
        <4> QED BY <2>1, <3>2, <4>1
      <3>3. CASE i # run[p].nid /\ j # run[p].nid
        <4>1. i \in DOMAIN nics /\ j \in DOMAIN nics /\ nics[i].ip = nics[j].ip
          BY <1>2, <2>3, <3>3
        <4>2. {i, j} \cap doubtful # {}
          BY <2>3, <4>1 DEF AddressInv, AddressesUnique
        <4> QED BY <2>2, <4>2
      <3> QED BY <3>1, <3>2, <3>3
    <2> QED BY <2>3 DEF AddressesUnique
  <1>7. Ips' = Ips \cup {ip}
    BY <1>2, <1>3 DEF Ips
  <1>8. ASSUME NEW q \in Proc PROVE SeenOK(q)'
    <2>1. CASE q = p
      BY <1>1, <1>5, <1>7, <2>1 DEF SeenOK, At
    <2>2. CASE q # p
      BY <1>1, <2>2 DEF AddressInv, SeenOK, OthersBehind, At, Kinds
    <2> QED BY <2>1, <2>2
  <1> QED BY <1>6, <1>8 DEF AddressInv

LEMMA AddressOuter ==
  ASSUME TypeInv, AddressInv,
         \/ BadOption \/ RemoveLockFile
         \/ \E p \in Proc : Check(p) \/ Lock(p) \/ Kill(p) \/ Finish(p) \/ \E r \in Request : Start(p, r)
  PROVE  AddressInv'
  <1>1. CASE BadOption \/ RemoveLockFile
    <2>1. UNCHANGED <<nics, run, doubtful>>
      BY <1>1 DEF BadOption, RemoveLockFile, db, history
    <2> QED BY <2>1 DEF AddressInv, AddressesUnique, SeenOK, At, Kinds, Ips
  <1>2. ASSUME NEW p \in Proc, NEW r \in Request, Start(p, r) PROVE AddressInv'
    <2>1. run'[p].at = "check" /\ Others(p) /\ run'[p].ips = Ips
      BY <1>2, StartMoves DEF TypeInv
    <2>2. UNCHANGED <<nics, doubtful>>
      BY <1>2 DEF Start, db, history
    <2> QED BY <2>1, <2>2, AddressQuiet DEF ReadsOn
  <1>3. ASSUME NEW p \in Proc, Check(p) PROVE AddressInv'
    <2>1. UNCHANGED <<nics, doubtful>>
      BY <1>3 DEF Check, db, history
    <2>2. Others(p) /\ ReadsOn(p)
      BY <1>3, CheckMoves, IdleTyped DEF TypeInv, ReadsOn, ReadKept
    <2> QED BY <2>1, <2>2, AddressQuiet
  <1>4. ASSUME NEW p \in Proc, Lock(p) PROVE AddressInv'
    <2>1. UNCHANGED <<nics, doubtful>> /\ run[p].at = "lock"
      BY <1>4 DEF Lock, db, At
    <2>2. Others(p) /\ ReadsOn(p)
      BY <1>4, <2>1, LockMoves, ReadsKept DEF TypeInv, Lock
    <2> QED BY <2>1, <2>2, AddressQuiet
  <1>5. ASSUME NEW p \in Proc, Kill(p) PROVE AddressInv'
    <2>1. Dies(p) /\ UNCHANGED <<nics, doubtful>>
      BY <1>5 DEF Kill, db
    <2> QED BY <2>1, AddressDies
  <1>6. ASSUME NEW p \in Proc, Finish(p) PROVE AddressInv'
    <2>1. run' = [run EXCEPT ![p] = Idle] /\ UNCHANGED <<nics, doubtful>>
      BY <1>6 DEF Finish, ExitAndUnlock, db, history
    <2>2. Others(p) /\ run'[p].at = "idle"
      BY <2>1, ToIdle, IdleTyped DEF TypeInv
    <2> QED BY <2>1, <2>2, AddressQuiet DEF ReadsOn
  <1> QED BY <1>1, <1>2, <1>3, <1>4, <1>5, <1>6

LEMMA AddressAdd ==
  ASSUME TypeInv, AddressInv, NEW p \in Proc,
         \/ \E m \in Mac : Discover(p, m)
         \/ ImportLine(p) \/ Load(p) \/ PickName(p) \/ InsertRow(p) \/ AddStatic(p)
  PROVE  AddressInv'
  <1> USE DEF TypeInv
  <1>1. UNCHANGED <<nics, doubtful>>
    BY DEF Discover, ImportLine, Load, PickName, InsertRow, AddStatic, db, history
  <1>2. CASE (\E m \in Mac : Discover(p, m)) \/ ImportLine(p) \/ PickName(p)
    <2>1. /\ Others(p) /\ run[p].at # "idle" /\ run'[p].at # "address"
          /\ AskedKept(p) /\ ReadKept(p)
      BY <1>2, DiscoverMoves, ImportMoves, PickMoves
    <2> QED BY <1>1, <2>1, ReadsKept, AddressQuiet
  <1>3. CASE Load(p)
    <2>1. Others(p) /\ run'[p].ips = Ips /\ run'[p].at = "pick"
      BY <1>3, LoadMoves
    <2> QED BY <1>1, <2>1, AddressQuiet DEF ReadsOn
  <1>4. CASE InsertRow(p)
    <2>1. At(p, "row") /\ Kinds(p, Adding)
      BY <1>4 DEF InsertRow
    <2>2. CASE Step(p, "plugin")
      <3>1. Others(p) /\ run'[p].at = "plugin" /\ AskedKept(p) /\ ReadKept(p)
        BY <2>1, <2>2, RowMoves
      <3> QED BY <1>1, <2>1, <3>1, ReadsKept, AddressQuiet DEF At
    <2>3. CASE Fails(p)
      <3>1. CASE Dies(p)
        BY <1>1, <3>1, AddressDies
      <3>2. CASE ~Dies(p)
        <4>1. Others(p) /\ run'[p].at = "pick" /\ AskedKept(p) /\ ReadKept(p)
          BY <2>1, <2>3, <3>2, FailsMoves
        <4> QED BY <1>1, <2>1, <4>1, ReadsKept, AddressQuiet DEF At
      <3> QED BY <3>1, <3>2
    <2>4. CASE Inserted(p, TRUE)
      <3>1. Kinds(p, Adding \cup {"static"})
        BY <2>1 DEF Kinds
      <3>2. Others(p) /\ run'[p].at = "address" /\ AskedKept(p) /\ ReadKept(p)
        BY <2>1, <2>4, <3>1, InsertedMoves
      <3>3. run'[p].kind # "static"
        BY <2>1, <3>2 DEF Kinds, Adding, AskedKept
      <3> QED BY <1>1, <2>1, <3>2, <3>3, ReadsKept, AddressQuiet DEF At
    <2> QED BY <1>4, <2>2, <2>3, <2>4 DEF InsertRow
  <1>5. CASE AddStatic(p)
    <2>1. At(p, "work") /\ Kinds(p, {"static"})
      BY <1>5 DEF AddStatic
    <2>2. CASE ExitAndUnlock(p)
      <3>1. Others(p) /\ run'[p].at = "idle"
        BY <2>2, ToIdle, IdleTyped DEF ExitAndUnlock
      <3> QED BY <1>1, <3>1, AddressQuiet DEF ReadsOn
    <2>3. CASE Dies(p)
      BY <1>1, <2>3, AddressDies
    <2>4. CASE Inserted(p, FALSE) /\ run[p].hint \notin run[p].ips
      <3>1. Kinds(p, Adding \cup {"static"})
        BY <2>1 DEF Kinds
      <3>2. Others(p) /\ run'[p].at = "address" /\ AskedKept(p) /\ ReadKept(p)
        BY <2>1, <2>4, <3>1, InsertedMoves
      <3> QED BY <1>1, <2>1, <2>4, <3>2, ReadsKept, AddressQuiet DEF At
    <2> QED BY <1>5, <2>2, <2>3, <2>4 DEF AddStatic
  <1> QED BY <1>2, <1>3, <1>4, <1>5

LEMMA AddressNic ==
  ASSUME TypeInv, AddressInv, NEW p \in Proc, InsertNic(p) \/ Overflow(p) \/ StaticNic(p)
  PROVE  AddressInv'
  <1>1. CASE InsertNic(p)
    <2>1. /\ At(p, "address") /\ Kinds(p, Adding) /\ UNCHANGED <<nodes, nextNid>>
          /\ MacFor(p) \in Mac \cup {NoMac}
      BY <1>1, InsertNicIs DEF TypeInv
    <2> PICK ip \in Ip :
          /\ ip \notin run[p].ips
          /\ \/ CanInsert(p) /\ NicInserted(p, "lease", ip, MacFor(p)) /\ UNCHANGED cut
             \/ /\ ~CanInsert(p) /\ UNCHANGED <<nics, doubtful>>
                /\ \/ /\ Kinds(p, {"listen"}) /\ MacFor(p) = NoMac /\ UNCHANGED cut
                      /\ run' = [NextTry(p, ip) EXCEPT ![p].at = "lease", ![p].mac = NoMac]
                   \/ /\ Kinds(p, {"listen"}) /\ MacFor(p) # NoMac
                      /\ run' = [NextTry(p, ip) EXCEPT ![p].at = "pick", ![p].again = TRUE]
                      /\ cut' = cut \cup {run[p].name}
                   \/ Dies(p)
      BY <1>1, InsertNicIs DEF TypeInv
    <2>2. CASE CanInsert(p) /\ NicInserted(p, "lease", ip, MacFor(p))
      BY <2>1, <2>2, AddressNicAdded DEF CanInsert
    <2>3. CASE UNCHANGED <<nics, doubtful>> /\ Dies(p)
      BY <2>3, AddressDies
    <2>4. CASE /\ UNCHANGED <<nics, doubtful>> /\ Kinds(p, {"listen"})
               /\ run' = [NextTry(p, ip) EXCEPT ![p].at = "lease", ![p].mac = NoMac]
      <3>1. Others(p) /\ ReadsOn(p)
        BY <2>1, <2>4, NoNicMoves DEF NextTry, TypeInv, ReadsOn, At
      <3> QED BY <2>4, <3>1, AddressQuiet
    <2>5. CASE /\ UNCHANGED <<nics, doubtful>> /\ Kinds(p, {"listen"})
               /\ run' = [NextTry(p, ip) EXCEPT ![p].at = "pick", ![p].again = TRUE]
      <3>1. Others(p) /\ ReadsOn(p)
        BY <2>1, <2>5, NoAddressMoves DEF NextTry, TypeInv, ReadsOn, At
      <3> QED BY <2>5, <3>1, AddressQuiet
    <2> QED BY <2>2, <2>3, <2>4, <2>5
  <1>2. CASE Overflow(p)
    <2>1. run' = [run EXCEPT ![p] = Idle] /\ UNCHANGED <<nics, doubtful>>
      BY <1>2 DEF Overflow, ExitAndUnlock
    <2>2. Others(p) /\ run'[p].at = "idle"
      BY <2>1, ToIdle, IdleTyped DEF TypeInv
    <2> QED BY <2>1, <2>2, AddressQuiet DEF ReadsOn
  <1>3. CASE StaticNic(p)
    <2>1. At(p, "address") /\ Kinds(p, {"static"}) /\ UNCHANGED <<nodes, nextNid>>
      BY <1>3 DEF StaticNic
    <2>2. CASE run[p].nid \in DOMAIN nodes /\ NicInserted(p, "plugin", run[p].hint, NoMac)
      <3>1. run[p].hint \in Ip
        BY <2>1, RunIs DEF TypeInv, PlaceOK, Kinds
      <3>2. NoMac \notin Macs
        BY DEF Macs
      <3>3. run[p].hint \notin run[p].ips
        BY <2>1 DEF AddressInv, SeenOK
      <3> QED BY <2>1, <2>2, <3>1, <3>2, <3>3, AddressNicAdded
    <2>3. CASE Dies(p) /\ UNCHANGED <<nics, doubtful>>
      BY <2>3, AddressDies
    <2> QED BY <1>3, <2>2, <2>3 DEF StaticNic
  <1> QED BY <1>1, <1>2, <1>3

LEMMA AddressRest ==
  ASSUME TypeInv, AddressInv, NEW p \in Proc,
         \/ WriteLease(p) \/ Plugins(p)
         \/ RemoveName(p) \/ DeleteLease(p) \/ DeleteNics(p) \/ DeleteNode(p)
         \/ \E m \in Mac : DiscoverNew(p, m)
         \/ ForgetLease(p) \/ ClearMac(p) \/ SetMac(p) \/ BootHost(p)
  PROVE  AddressInv'
  <1> USE DEF TypeInv
  <1>1. ASSUME Others(p), run[p].at # "idle", run'[p].at # "address", run'[p].ips = run[p].ips,
               run'[p].behind = run[p].behind
        PROVE  Others(p) /\ ReadsOn(p)
    BY <1>1 DEF ReadsOn
  <1>2. CASE WriteLease(p)
    <2>1. UNCHANGED <<nics, doubtful>> /\ Others(p) /\ ReadsOn(p)
      BY <1>1, <1>2, LeaseMoves DEF ReadKept, WriteLease, At, db, history
    <2> QED BY <2>1, AddressQuiet
  <1>3. CASE Plugins(p)
    <2>1. UNCHANGED <<nics, doubtful>>
      BY <1>3 DEF Plugins, db
    <2>2. CASE Dies(p)
      BY <2>1, <2>2, AddressDies
    <2>3. CASE run' = [run EXCEPT ![p].at = "work", ![p].done = Done(p)]
      <3>1. Others(p) /\ ReadsOn(p)
        BY <1>1, <1>3, <2>3, DoneMoves DEF ReadKept, Plugins, At
      <3> QED BY <2>1, <3>1, AddressQuiet
    <2> QED BY <1>3, <2>2, <2>3 DEF Plugins
  <1>4. CASE RemoveName(p)
    <2>1. UNCHANGED <<nics, doubtful>> /\ Others(p) /\ ReadsOn(p)
      BY <1>1, <1>4, RemoveMoves DEF ReadKept, RemoveName, db, history
    <2> QED BY <2>1, AddressQuiet
  <1>5. CASE DeleteLease(p)
    <2>1. UNCHANGED <<nics, doubtful>> /\ At(p, "delete")
      BY <1>5 DEF DeleteLease, db
    <2>2. CASE Step(p, "work")
      <3>1. Others(p) /\ ReadsOn(p)
        BY <1>1, <2>1, <2>2, DeleteMoves DEF ReadKept, At
      <3> QED BY <2>1, <3>1, AddressQuiet
    <2>3. CASE /\ run[p].name \in Names
               /\ run' = [run EXCEPT ![p].at = "nics", ![p].nid = NidOf(run[p].name)]
      <3>1. Others(p) /\ ReadsOn(p)
        BY <1>1, <2>1, <2>3, GoneMoves DEF ReadKept, At
      <3> QED BY <2>1, <3>1, AddressQuiet
    <2> QED BY <1>5, <2>2, <2>3 DEF DeleteLease
  <1>6. CASE DeleteNics(p)
    <2>1. UNCHANGED <<nodes, doubtful>> /\ Others(p) /\ ReadsOn(p)
      BY <1>1, <1>6, NicsMoves DEF ReadKept, DeleteNics, At, history
    <2>2. DOMAIN nics' \subseteq DOMAIN nics /\ \A i \in DOMAIN nics' : nics'[i] = nics[i]
      BY <1>6, <2>1, NicGone DEF DeleteNics
    <2> QED BY <2>1, <2>2, AddressKept
  <1>7. CASE DeleteNode(p)
    <2>1. UNCHANGED <<nics, doubtful>> /\ At(p, "nodes")
      BY <1>7 DEF DeleteNode
    <2>2. CASE Dies(p)
      BY <2>1, <2>2, AddressDies
    <2>3. CASE run' = [run EXCEPT ![p].at = "work", ![p].done = Append(@, run[p].name)]
      <3>1. Others(p) /\ ReadsOn(p)
        BY <1>1, <2>1, <2>3, DoneMoves DEF ReadKept, At
      <3> QED BY <2>1, <3>1, AddressQuiet
    <2> QED BY <1>7, <2>2, <2>3 DEF DeleteNode
  <1>8. ASSUME NEW m \in Mac, DiscoverNew(p, m) PROVE AddressInv'
    <2>1. UNCHANGED <<nics, doubtful>> /\ Others(p) /\ ReadsOn(p)
      BY <1>1, <1>8, NewMoves DEF ReadKept, DiscoverNew, db, history
    <2> QED BY <2>1, AddressQuiet
  <1>9. CASE ForgetLease(p)
    <2>1. UNCHANGED <<nics, doubtful>> /\ Others(p) /\ ReadsOn(p)
      BY <1>1, <1>9, ReplaceMoves DEF ReadKept, ForgetLease, At, db, history
    <2> QED BY <2>1, AddressQuiet
  <1>10. CASE ClearMac(p)
    <2>1. UNCHANGED doubtful /\ Others(p) /\ ReadsOn(p)
      BY <1>1, <1>10, ReplaceMoves DEF ReadKept, ClearMac, At, history
    <2>2. DOMAIN nics' = DOMAIN nics /\ \A i \in DOMAIN nics : nics'[i].ip = nics[i].ip
      BY <1>10, MacCleared
    <2> QED BY <2>1, <2>2, AddressKept
  <1>11. CASE SetMac(p)
    <2>1. UNCHANGED <<nodes, doubtful>> /\ At(p, "set")
      BY <1>11 DEF SetMac
    <2>2. CASE Dies(p) /\ UNCHANGED nics
      BY <2>1, <2>2, AddressDies
    <2>3. CASE /\ run[p].nid \in DOMAIN nics /\ run[p].mac \notin Macs
               /\ nics' = [nics EXCEPT ![run[p].nid].mac = run[p].mac]
               /\ run' = [run EXCEPT ![p].at = "boot", ![p].last = nics[run[p].nid].ip]
      <3>1. nics[run[p].nid].ip \in Ip
        BY <2>3 DEF RowsTyped
      <3>2. Others(p) /\ ReadsOn(p)
        BY <1>1, <2>1, <2>3, <3>1, SetMoves DEF At
      <3>3. /\ DOMAIN nics' = DOMAIN nics
            /\ nics'[run[p].nid] = [ip |-> nics[run[p].nid].ip, mac |-> run[p].mac]
            /\ \A i \in DOMAIN nics : i # run[p].nid => nics'[i] = nics[i]
        BY <2>1, <2>3, MacSet
      <3>4. \A i \in DOMAIN nics' : nics'[i].ip = nics[i].ip
        BY <3>3
      <3> QED BY <2>1, <3>2, <3>3, <3>4, AddressKept
    <2> QED BY <1>11, <2>2, <2>3 DEF SetMac
  <1>12. CASE BootHost(p)
    <2>1. UNCHANGED <<nics, doubtful>> /\ Others(p) /\ ReadsOn(p)
      BY <1>1, <1>12, BootMoves DEF ReadKept, BootHost, At, db, history
    <2> QED BY <2>1, AddressQuiet
  <1> QED BY <1>2, <1>3, <1>4, <1>5, <1>6, <1>7, <1>8, <1>9, <1>10, <1>11, <1>12

LEMMA AddressInit == Init => AddressInv
  <1> SUFFICES ASSUME Init PROVE AddressInv
    OBVIOUS
  <1>1. DOMAIN nics = {} /\ \A p \in Proc : run[p].at = "idle"
    BY IdleTyped DEF Init
  <1> QED BY <1>1 DEF AddressInv, AddressesUnique, SeenOK, At

LEMMA AddressNext == ASSUME TypeInv, AddressInv, [Next]_vars PROVE AddressInv'
  <1>1. CASE UNCHANGED vars
    <2>1. UNCHANGED <<nics, run, doubtful>>
      BY <1>1 DEF vars, db, history
    <2> QED BY <2>1 DEF AddressInv, AddressesUnique, SeenOK, At, Kinds, Ips
  <1>2. CASE Next
    BY <1>2, AddressOuter, AddressAdd, AddressNic, AddressRest DEF Next
  <1> QED BY <1>1, <1>2

(* No address is given twice but by a process that had read the addresses  *)
(* before another wrote one: what a process has read holds every address   *)
(* of the database unless another has inserted a nic since, and the one it *)
(* gives is none of these (isIPUsed, _addUsedIP).                          *)
THEOREM AddressesUniqueHolds == Spec => []AddressesUnique
  <1>1. TypeInv /\ AddressInv /\ [Next]_vars => AddressInv'
    BY AddressNext
  <1>2. AddressInv => AddressesUnique
    BY DEF AddressInv
  <1> QED BY <1>1, <1>2, AddressInit, TypeCorrect, PTL DEF Spec

----------------------------------------------------------------------------
(* The stores, seen by the one process that works.                         *)
Mine(p) ==
  /\ LeasesOK /\ pxe \subseteq Macs
  /\ Working(p) => HostOK(p) /\ DoneOK(p)
  /\ Rows(cut \cup Unfinished(p))

Early == {"idle", "check", "lock", "work", "load", "pick", "row"}

LEMMA HandIs ==
  ASSUME NEW p \in Proc
  PROVE  /\ run[p].at \notin Early => run[p].name \in Unfinished(p)
         /\ run[p].kind = "import" => Range(run[p].done) \subseteq Unfinished(p)
         /\ \A n \in Unfinished(p) :
              \/ run[p].at \notin Early /\ n = run[p].name
              \/ run[p].kind = "import" /\ n \in Range(run[p].done)
  BY DEF Unfinished, Working, Kinds, Early

LEMMA HandWillBe ==
  ASSUME NEW p \in Proc
  PROVE  /\ run'[p].at \notin Early => run'[p].name \in Unfinished(p)'
         /\ run'[p].kind = "import" => Range(run'[p].done) \subseteq Unfinished(p)'
         /\ \A n \in Unfinished(p)' :
              \/ run'[p].at \notin Early /\ n = run'[p].name
              \/ run'[p].kind = "import" /\ n \in Range(run'[p].done)
  BY DEF Unfinished, Working, Kinds, Early

LEMMA CompleteHalf ==
  ASSUME pxe \subseteq Macs, NEW i, Complete(i) PROVE HalfDone(i)
  BY DEF Complete, HalfDone, Macs

LEMMA AloneIs ==
  ASSUME TypeInv, StoresInv, ~overlap, NEW p \in Proc, Working(p)
  PROVE  Mine(p) /\ \A q \in Proc : q # p => ~Working(q)
  <1>1. \A q \in Proc : q # p => ~Working(q)
    BY DEF StoresInv, AloneOK
  <1>2. \A q \in Proc : q # p => Unfinished(q) = {}
    BY <1>1, UnfinishedIs DEF TypeInv
  <1>3. InHand \subseteq Unfinished(p)
    BY <1>2 DEF InHand
  <1>4. Rows(cut \cup Unfinished(p))
    BY <1>3 DEF StoresInv, Rows
  <1> QED BY <1>1, <1>4 DEF StoresInv, Mine

LEMMA AloneStep ==
  ASSUME TypeInv, StoresInv, NEW p \in Proc, Working(p), Others(p) \/ OthersBehind(p),
         UNCHANGED overlap, Mine(p) => Mine(p)'
  PROVE  StoresInv'
  <1> SUFFICES ASSUME ~overlap'
               PROVE  /\ AloneOK' /\ LeasesOK' /\ (pxe \subseteq Macs)'
                      /\ \A q \in Proc : Working(q)' => HostOK(q)' /\ DoneOK(q)'
                      /\ Rows(cut \cup InHand)'
    BY DEF StoresInv
  <1>1. Mine(p)' /\ \A q \in Proc : q # p => ~Working(q)
    BY AloneIs
  <1>2. \A q \in Proc : q # p => ~Working(q)'
    BY <1>1 DEF Others, OthersBehind, Working
  <1>3. AloneOK'
    BY <1>2 DEF AloneOK
  <1>4. Rows(cut \cup InHand)'
    <2>1. Unfinished(p)' \subseteq InHand'
      BY DEF InHand
    <2> QED BY <1>1, <2>1 DEF Mine, Rows
  <1> QED BY <1>1, <1>2, <1>3, <1>4 DEF Mine

(* A process that does not work has nothing in hand: the others go on.     *)
LEMMA IdleStep ==
  ASSUME TypeInv, RunsOK', StoresInv, NEW p \in Proc, ~Working(p), Others(p), ~Working(p)',
         UNCHANGED <<nodes, nics, lease, pxe, cut, overlap>>
  PROVE  StoresInv'
  <1> SUFFICES ASSUME ~overlap'
               PROVE  /\ AloneOK' /\ LeasesOK' /\ (pxe \subseteq Macs)'
                      /\ \A q \in Proc : Working(q)' => HostOK(q)' /\ DoneOK(q)'
                      /\ Rows(cut \cup InHand)'
    BY DEF StoresInv
  <1>1. \A q \in Proc : q # p => run'[q] = run[q]
    BY DEF Others
  <1>2. AloneOK'
    BY <1>1 DEF StoresInv, AloneOK, Working
  <1>3. LeasesOK' /\ (pxe \subseteq Macs)'
    BY DEF StoresInv, LeasesOK, Macs
  <1>4. ASSUME NEW q \in Proc, Working(q)' PROVE HostOK(q)' /\ DoneOK(q)'
    <2>1. q # p /\ run'[q] = run[q]
      BY <1>1, <1>4
    <2>2. HostOK(q) /\ DoneOK(q)
      BY <1>4, <2>1 DEF StoresInv, Working
    <2>3. HostOK(q)'
      BY <2>1, <2>2 DEF HostOK, Named, PxeOf, Kinds, HalfDone, Complete, Macs
    <2>4. DoneOK(q)'
      BY <2>1, <2>2 DEF DoneOK, Named, Names, Kinds, HalfDone
    <2> QED BY <2>3, <2>4
  <1>5. InHand \subseteq InHand'
    <2>1. Unfinished(p) = {}
      BY UnfinishedIs DEF TypeInv
    <2>2. \A q \in Proc : q # p => Unfinished(q)' = Unfinished(q)
      BY <1>1 DEF Unfinished, Working, Kinds
    <2> QED BY <2>1, <2>2 DEF InHand
  <1>6. Rows(cut \cup InHand)'
    BY <1>5 DEF StoresInv, Rows, Complete
  <1> QED BY <1>2, <1>3, <1>4, <1>6

(* The one that works leaves the stores alone.                             *)
LEMMA Quietly ==
  ASSUME NEW p \in Proc, Mine(p), Working(p), UNCHANGED <<nodes, nics, lease, pxe>>,
         cut \subseteq cut', Unfinished(p) \subseteq cut' \cup Unfinished(p)',
         Working(p)' => /\ HostOK(p)'
                        /\ run'[p].kind = run[p].kind /\ run'[p].done = run[p].done
  PROVE  Mine(p)'
  <1>1. LeasesOK' /\ (pxe \subseteq Macs)'
    BY DEF Mine, LeasesOK, Macs
  <1>2. Working(p)' => DoneOK(p)'
    BY DEF Mine, DoneOK, Names, Named, Kinds, HalfDone
  <1>3. Rows(cut \cup Unfinished(p))'
    BY DEF Mine, Rows, Complete
  <1> QED BY <1>1, <1>2, <1>3 DEF Mine

LEMMA DiesQuietly ==
  ASSUME TypeInv, NEW p \in Proc, Mine(p), Working(p), Dies(p),
         UNCHANGED <<nodes, nics, lease, pxe>>
  PROVE  Mine(p)'
  <1>1. run'[p].at = "idle" /\ cut' = cut \cup Unfinished(p)
    BY DiesTyped, IdleTyped DEF TypeInv, RestTyped, Dies
  <1> QED BY <1>1, Quietly DEF Working

LEMMA MineAdd ==
  ASSUME TypeInv, NEW p \in Proc, Mine(p),
         (\E m \in Mac : Discover(p, m)) \/ ImportLine(p) \/ Load(p) \/ PickName(p)
  PROVE  Mine(p)'
  <1> USE DEF TypeInv
  <1>1. UNCHANGED <<nodes, nics, lease, pxe, cut>>
    BY DEF Discover, ImportLine, Load, PickName, db, boot, history
  <1>2. /\ run[p].at \in {"work", "load", "pick"} /\ run'[p].at \in {"work", "load", "pick", "row"}
        /\ run'[p].kind = run[p].kind /\ run'[p].done = run[p].done
    BY DiscoverMoves, ImportMoves, LoadMoves, PickMoves DEF AskedKept, DoneKept, PickName, At
  <1>3. Working(p) /\ Working(p)' /\ Unfinished(p)' = Unfinished(p)
    BY <1>2 DEF Unfinished, Working, Kinds
  <1>4. run'[p].kind = "listen" /\ run'[p].at # "work" =>
          run'[p].mac \notin Macs /\ (run'[p].at # "load" => run'[p].mac \notin run'[p].macs)
    <2>1. ASSUME NEW m \in Mac, Discover(p, m) PROVE run'[p].mac \notin Macs /\ run'[p].at = "load"
      BY <2>1, DiscoverMoves DEF Discover
    <2>2. CASE ImportLine(p)
      BY <1>2, <2>2, ImportMoves
    <2>3. CASE Load(p)
      <3>1. run[p].mac \notin Macs
        BY <1>3, <2>3, LoadMoves DEF Mine, HostOK, Kinds
      <3> QED BY <2>3, <3>1, LoadMoves
    <2>4. CASE PickName(p)
      <3>1. run[p].at = "pick" /\ run'[p].mac = run[p].mac /\ run'[p].macs = run[p].macs
        BY <2>4, PickMoves DEF ReadKept
      <3> QED BY <1>2, <1>3, <3>1 DEF Mine, HostOK, Kinds
    <2> QED BY <2>1, <2>2, <2>3, <2>4
  <1>5. HostOK(p)'
    <2>1. Macs' = Macs
      BY <1>1 DEF Macs
    <2> QED BY <1>2, <1>4, <2>1 DEF HostOK, Kinds
  <1> QED BY <1>1, <1>2, <1>3, <1>5, Quietly

(* A row is inserted.                                                      *)
LEMMA MineInserted ==
  ASSUME TypeInv, NEW p \in Proc, Mine(p), NEW managed \in BOOLEAN,
         Inserted(p, managed), At(p, "row") \/ At(p, "work"),
         Kinds(p, Adding \cup {"static"}), At(p, "row") \/ Kinds(p, {"static"}),
         Kinds(p, {"static"}) => ~managed,
         run[p].name \notin Names, UNCHANGED <<nics, boot>>
  PROVE  Mine(p)'
  <1> DEFINE n == run[p].name
  <1> USE DEF TypeInv
  <1>1. /\ run'[p].at = "address" /\ run'[p].nid = nextNid /\ Others(p)
        /\ run'[p].name = n /\ run'[p].mac = run[p].mac /\ run'[p].macs = run[p].macs
        /\ run'[p].kind = run[p].kind /\ run'[p].done = run[p].done
    BY InsertedMoves DEF AskedKept, ReadKept, DoneKept
  <1>2. /\ nextNid \notin DOMAIN nodes /\ DOMAIN nodes' = DOMAIN nodes \cup {nextNid}
        /\ \A i \in DOMAIN nodes : nodes'[i] = nodes[i]
    BY <1>1, RowInserted
  <1>3. nodes'[nextNid].name = n /\ nodes'[nextNid].managed = managed
    BY DEF Inserted, With
  <1>4. cut' = cut \ {n}
    BY DEF Inserted
  <1>5. \A i \in DOMAIN nodes : nodes[i].name # n
    BY DEF Names
  <1>6. UNCHANGED <<nics, lease, pxe>> /\ DOMAIN nics \subseteq DOMAIN nodes
    BY DEF boot, RowsTyped
  <1>7. Working(p) /\ Working(p)'
    BY <1>1 DEF Working, At
  <1>8. LeasesOK' /\ (pxe \subseteq Macs)'
    BY <1>2, <1>6 DEF Mine, LeasesOK, Macs
  <1>9. n \notin DOMAIN lease
    BY <1>5, <1>6 DEF Mine, LeasesOK
  <1>10. HostOK(p)'
    <2>1. nextNid \in Named(n)'
      BY <1>1, <1>2, <1>3 DEF Named
    <2>2. Kinds(p, {"static"}) => ~nodes'[nextNid].managed
      BY <1>3
    <2>3. Kinds(p, {"listen"}) => run[p].mac \notin Macs /\ run[p].mac \notin run[p].macs
      BY <1>7 DEF Mine, HostOK, At, Kinds
    <2>4. Macs' = Macs
      BY <1>6 DEF Macs
    <2> QED BY <1>1, <1>6, <1>9, <2>1, <2>2, <2>3, <2>4 DEF HostOK, Kinds
  <1>11. DoneOK(p)'
    <2>1. SUFFICES ASSUME run[p].kind = "import", NEW d \in Range(run[p].done)
                   PROVE  /\ d \in Names'
                          /\ d \in cut' \/ \A j \in Named(d)' : HalfDone(j)'
      BY <1>1 DEF DoneOK, Kinds
    <2>2. d \in Names /\ (d \in cut \/ \A j \in Named(d) : HalfDone(j))
      BY <1>7, <2>1 DEF Mine, DoneOK, Kinds
    <2>3. d # n /\ d \in Names'
      BY <1>2, <2>2 DEF Names
    <2>4. Named(d)' = Named(d)
      BY <1>2, <1>3, <2>3 DEF Named
    <2>5. \A j \in Named(d) : HalfDone(j) => HalfDone(j)'
      BY <1>2, <1>6 DEF Named, HalfDone
    <2> QED BY <1>4, <2>2, <2>3, <2>4, <2>5
  <1>12. Rows(cut \cup Unfinished(p))'
    <2>1. n \in Unfinished(p)'
      BY <1>1, HandWillBe DEF Early
    <2>2. ASSUME NEW i \in DOMAIN nodes
          PROVE  nodes'[i].name \in cut' \cup Unfinished(p)' \/ Complete(i)'
      <3>1. nodes[i].name # n /\ nodes'[i] = nodes[i]
        BY <1>2, <1>5
      <3>2. Complete(i) => Complete(i)'
        BY <1>6, <3>1 DEF Complete
      <3>3. nodes[i].name \in cut => nodes[i].name \in cut'
        BY <1>4, <3>1
      <3>4. nodes[i].name \in Unfinished(p) => nodes[i].name \in Unfinished(p)'
        BY <1>1, <3>1, HandIs, HandWillBe
      <3> QED BY <3>1, <3>2, <3>3, <3>4 DEF Mine, Rows
    <2> QED BY <1>2, <1>3, <2>1, <2>2 DEF Rows
  <1> QED BY <1>8, <1>10, <1>11, <1>12 DEF Mine

LEMMA MineRow ==
  ASSUME TypeInv, NEW p \in Proc, Mine(p), InsertRow(p) \/ AddStatic(p)
  PROVE  Mine(p)'
  <1> USE DEF TypeInv
  <1>1. CASE InsertRow(p)
    <2>1. /\ At(p, "row") /\ Kinds(p, Adding) /\ UNCHANGED <<nics, boot>>
          /\ run[p].at = "row" /\ Working(p) /\ UNCHANGED <<lease, pxe>>
      BY <1>1 DEF InsertRow, At, Working, boot
    <2>2. CASE run[p].name \in run[p].names /\ Step(p, "plugin") /\ UNCHANGED <<nodes, nextNid, cut>>
      <3>1. /\ run'[p].at = "plugin" /\ AskedKept(p) /\ HostKept(p) /\ DoneKept(p)
        BY <2>1, <2>2, RowMoves
      <3>2. Unfinished(p) \subseteq Unfinished(p)'
        BY <2>1, <3>1, HandIs, HandWillBe DEF AskedKept, DoneKept, Early
      <3>3. \A j \in Named(run[p].name) : run[p].name \in cut \/ HalfDone(j)
        <4> SUFFICES ASSUME NEW j \in Named(run[p].name), run[p].name \notin cut
                     PROVE  HalfDone(j)
          OBVIOUS
        <4>1. CASE Complete(j)
          BY <4>1, CompleteHalf DEF Mine
        <4>2. CASE run[p].name \in Unfinished(p)
          <5>1. run[p].kind = "import" /\ run[p].name \in Range(run[p].done)
            BY <2>1, <4>2, HandIs DEF Early
          <5> QED BY <2>1, <5>1 DEF Mine, DoneOK, Kinds
        <4> QED BY <4>1, <4>2 DEF Mine, Rows, Named
      <3>4. HostOK(p)'
        <4>1. \A j \in Named(run[p].name)' : run[p].name \in cut' \/ HalfDone(j)'
          BY <2>1, <2>2, <3>1, <3>3 DEF Named, HalfDone, HostKept
        <4> QED BY <2>1, <3>1, <4>1 DEF HostOK, Kinds, AskedKept, HostKept
      <3> QED BY <2>1, <2>2, <3>1, <3>2, <3>4, Quietly DEF AskedKept, DoneKept
    <2>3. CASE Fails(p) /\ UNCHANGED <<nodes, nextNid>>
      <3>1. CASE Dies(p)
        BY <2>1, <2>3, <3>1, DiesQuietly
      <3>2. CASE ~Dies(p)
        <4>1. /\ run'[p].at = "pick" /\ cut' = cut /\ run[p].kind = "listen"
              /\ AskedKept(p) /\ HostKept(p) /\ ReadKept(p) /\ DoneKept(p)
          BY <2>1, <2>3, <3>2, FailsMoves
        <4>2. Unfinished(p) \subseteq Unfinished(p)'
          BY <2>1, <4>1, HandIs DEF Early
        <4>3. run[p].mac \notin Macs /\ run[p].mac \notin run[p].macs
          BY <2>1, <4>1 DEF Mine, HostOK, Kinds
        <4>4. HostOK(p)'
          <5>1. Macs' = Macs
            BY <2>1 DEF Macs
          <5> QED BY <4>1, <4>3, <5>1 DEF HostOK, Kinds, HostKept, ReadKept
        <4> QED BY <2>1, <2>3, <4>1, <4>2, <4>4, Quietly DEF AskedKept, DoneKept
      <3> QED BY <3>1, <3>2
    <2>4. CASE run[p].name \notin run[p].names \cup Names /\ Inserted(p, TRUE)
      <3>1. Kinds(p, Adding \cup {"static"}) /\ ~Kinds(p, {"static"}) /\ run[p].name \notin Names
        BY <2>1, <2>4 DEF Kinds, Adding
      <3> QED BY <2>1, <2>4, <3>1, MineInserted
    <2> QED BY <1>1, <2>2, <2>3, <2>4 DEF InsertRow
  <1>2. CASE AddStatic(p)
    <2>1. /\ At(p, "work") /\ Kinds(p, {"static"}) /\ UNCHANGED <<nics, boot>>
          /\ run[p].at = "work" /\ run[p].kind = "static" /\ Working(p)
          /\ UNCHANGED <<lease, pxe>>
      BY <1>2 DEF AddStatic, At, Kinds, Working, boot
    <2>2. CASE ExitAndUnlock(p) /\ UNCHANGED <<nodes, nextNid, cut>>
      <3>1. ~Working(p)'
        BY <2>2, ToIdle, IdleTyped DEF ExitAndUnlock, Working
      <3>2. Unfinished(p) = {}
        BY <2>1, HandIs DEF Early
      <3> QED BY <2>1, <2>2, <3>1, <3>2, Quietly
    <2>3. CASE Dies(p) /\ UNCHANGED <<nodes, nextNid, lockFile>>
      BY <2>1, <2>3, DiesQuietly
    <2>4. CASE run[p].name \notin Names /\ Inserted(p, FALSE)
      <3>1. Kinds(p, Adding \cup {"static"})
        BY <2>1 DEF Kinds
      <3> QED BY <2>1, <2>4, <3>1, MineInserted
    <2> QED BY <1>2, <2>2, <2>3, <2>4 DEF AddStatic
  <1> QED BY <1>1, <1>2

(* The stores know more than before, of the same nodes.                    *)
Grows ==
  /\ UNCHANGED <<nodes, cut>>
  /\ \A i \in DOMAIN nics : i \in DOMAIN nics' /\ nics'[i] = nics[i]
  /\ \A n \in DOMAIN lease : n \in DOMAIN lease' /\ lease'[n] = lease[n]
  /\ pxe \subseteq pxe'

LEMMA GrowsKeeps ==
  ASSUME Grows
  PROVE  /\ \A i : Complete(i) => Complete(i)'
         /\ \A i : HalfDone(i) => HalfDone(i)'
         /\ Macs \subseteq Macs' /\ Names' = Names
  BY DEF Grows, Complete, HalfDone, Macs, Names

LEMMA GrowsDone ==
  ASSUME NEW p \in Proc, Mine(p), Working(p), Grows,
         run'[p].kind = run[p].kind, run'[p].done = run[p].done
  PROVE  DoneOK(p)'
  <1>1. SUFFICES ASSUME run[p].kind = "import", NEW d \in Range(run[p].done)
                 PROVE  d \in Names' /\ (d \in cut' \/ \A j \in Named(d)' : HalfDone(j)')
    BY DEF DoneOK, Kinds
  <1>2. d \in Names /\ (d \in cut \/ \A j \in Named(d) : HalfDone(j))
    BY <1>1 DEF Mine, DoneOK, Kinds
  <1>3. Named(d)' = Named(d) /\ cut' = cut
    BY DEF Named, Grows
  <1> QED BY <1>2, <1>3, GrowsKeeps

LEMMA GrowsRows ==
  ASSUME NEW p \in Proc, Mine(p), Grows, Unfinished(p) \subseteq Unfinished(p)'
  PROVE  Rows(cut \cup Unfinished(p))'
  <1>1. SUFFICES ASSUME NEW i \in DOMAIN nodes, ~Complete(i)
                 PROVE  nodes[i].name \in cut \cup Unfinished(p)'
    BY GrowsKeeps DEF Rows, Grows
  <1> QED BY <1>1 DEF Mine, Rows

LEMMA MineNicAdded ==
  ASSUME TypeInv, NEW p \in Proc, Mine(p), At(p, "address"), NEW place \in {"lease", "plugin"},
         IF place = "lease" THEN Kinds(p, Adding) ELSE Kinds(p, {"static"}),
         run[p].nid \in DOMAIN nodes, NEW ip \in Ip, NEW mac \in Mac \cup {NoMac},
         mac \notin Macs, place = "lease" => mac \in Mac, NicInserted(p, place, ip, mac),
         UNCHANGED <<nodes, nextNid, boot, cut>>
  PROVE  Mine(p)'
  <1> DEFINE n == run[p].name
             i == run[p].nid
  <1>1. /\ run'[p].at = place /\ OthersBehind(p) /\ run'[p].last = ip /\ run'[p].mac = mac
        /\ run'[p].name = n /\ run'[p].nid = i
        /\ run'[p].kind = run[p].kind /\ run'[p].done = run[p].done
    BY NicMoves DEF TypeInv, AskedKept, DoneKept
  <1>2. RowsTyped /\ NewRowsOK /\ RunsOK
    BY DEF TypeInv
  <1>3. i \notin DOMAIN nics /\ \A j \in DOMAIN nics : nics'[j] = nics[j]
    BY <1>1, <1>2, NicAdded
  <1>4. DOMAIN nics' = DOMAIN nics \cup {i}
    BY <1>1, <1>2, NicAdded
  <1>5. nics'[i] = [ip |-> ip, mac |-> mac]
    BY DEF NicInserted, With
  <1>6. UNCHANGED <<lease, pxe, nodes, cut>>
    BY DEF boot
  <1>7. Working(p) /\ HostOK(p) /\ i \in Named(n)
    BY DEF Mine, HostOK, Working, At
  <1>8. Grows
    BY <1>3, <1>4, <1>6 DEF Grows
  <1>9. LeasesOK'
    BY <1>3, <1>4, <1>6 DEF Mine, LeasesOK
  <1>10. (pxe \subseteq Macs)'
    BY <1>6, <1>8, GrowsKeeps DEF Mine
  <1>11. HostOK(p)'
    <2>1. CASE place = "lease"
      <3>1. i \in Named(n)'
        BY <1>1, <1>6, <1>7 DEF Named
      <3>2. run'[p].kind # "replace"
        BY <1>1, <2>1 DEF Kinds, Adding
      <3> QED BY <1>1, <1>4, <1>5, <2>1, <3>1, <3>2 DEF HostOK, Kinds
    <2>2. CASE place = "plugin"
      <3>1. run[p].kind = "static" /\ ~nodes[i].managed
        BY <1>7, <2>2 DEF HostOK, Kinds, At
      <3>2. \A j \in Named(n)' : j = i
        BY <1>1, <1>2, <1>6, <1>7 DEF Named, RowsTyped
      <3>3. Complete(i)'
        BY <1>1, <1>4, <1>6, <3>1 DEF Complete
      <3>4. \A j \in Named(n)' : Complete(j)'
        BY <1>1, <3>2, <3>3 DEF Complete
      <3> QED BY <1>1, <2>2, <3>1, <3>4 DEF HostOK, Kinds, Adding
    <2> QED BY <2>1, <2>2
  <1>12. DoneOK(p)'
    BY <1>1, <1>7, <1>8, GrowsDone
  <1>13. Rows(cut \cup Unfinished(p))'
    <2>1. Unfinished(p) \subseteq Unfinished(p)'
      BY <1>1, HandIs, HandWillBe DEF Early
    <2> QED BY <1>8, <2>1, GrowsRows
  <1> QED BY <1>9, <1>10, <1>11, <1>12, <1>13 DEF Mine

LEMMA MineNic ==
  ASSUME TypeInv, NEW p \in Proc, Mine(p), InsertNic(p) \/ Overflow(p) \/ StaticNic(p)
  PROVE  Mine(p)'
  <1>1. At(p, "address") /\ run[p].at = "address" /\ Working(p)
    <2>1. At(p, "address")
      BY DEF InsertNic, Overflow, StaticNic
    <2> QED BY <2>1 DEF At, Working
  <1>2. HostOK(p) /\ run[p].nid \in Named(run[p].name) /\ run[p].nid \in DOMAIN nodes
    BY <1>1 DEF Mine, HostOK, Named
  <1>3. CASE InsertNic(p)
    <2>1. /\ Kinds(p, Adding)
          /\ UNCHANGED <<nodes, nextNid, boot, lockFile, bounds, overlap>>
          /\ MacFor(p) \in Mac \cup {NoMac}
      BY <1>3, InsertNicIs DEF TypeInv
    <2> PICK ip \in Ip :
          /\ ip \notin run[p].ips
          /\ \/ CanInsert(p) /\ NicInserted(p, "lease", ip, MacFor(p)) /\ UNCHANGED cut
             \/ /\ ~CanInsert(p) /\ UNCHANGED <<nics, doubtful>>
                /\ \/ /\ Kinds(p, {"listen"}) /\ MacFor(p) = NoMac /\ UNCHANGED cut
                      /\ run' = [NextTry(p, ip) EXCEPT ![p].at = "lease", ![p].mac = NoMac]
                   \/ /\ Kinds(p, {"listen"}) /\ MacFor(p) # NoMac
                      /\ run' = [NextTry(p, ip) EXCEPT ![p].at = "pick", ![p].again = TRUE]
                      /\ cut' = cut \cup {run[p].name}
                   \/ Dies(p)
      BY <1>3, InsertNicIs DEF TypeInv
    <2>2. run[p].mac \in Mac
      BY <1>1, <2>1, RunIs DEF PlaceOK, Kinds, TypeInv
    <2>3. Kinds(p, {"listen"}) => run[p].mac \notin Macs /\ run[p].mac \notin run[p].macs
      BY <1>1, <1>2 DEF HostOK, Kinds
    <2>4. MacFor(p) = run[p].mac
      BY <2>3 DEF MacFor
    <2>5. Kinds(p, {"listen"}) => CanInsert(p)
      BY <1>2, <2>3, <2>4 DEF CanInsert
    <2>6. CASE CanInsert(p) /\ NicInserted(p, "lease", ip, MacFor(p)) /\ UNCHANGED cut
      BY <1>1, <1>2, <2>1, <2>2, <2>4, <2>6, MineNicAdded DEF CanInsert
    <2>7. CASE UNCHANGED <<nics, doubtful>> /\ Dies(p)
      BY <1>1, <2>1, <2>7, DiesQuietly DEF boot
    <2> QED BY <2>5, <2>6, <2>7
  <1>4. CASE Overflow(p)
    <2>1. /\ run' = [run EXCEPT ![p] = Idle] /\ cut' = cut \cup Unfinished(p)
          /\ UNCHANGED <<nics, lease, pxe>>
          /\ \/ UNCHANGED nodes
             \/ nodes' = Restrict(nodes, DOMAIN nodes \ {run[p].nid})
      BY <1>4 DEF Overflow, ExitAndUnlock, boot
    <2>2. ~Working(p)'
      BY <2>1, ToIdle, IdleTyped DEF TypeInv, Working
    <2>3. run[p].nid \notin DOMAIN nics /\ RowsTyped
      BY <1>1 DEF TypeInv, NewRowsOK
    <2>4. CASE UNCHANGED nodes
      BY <1>1, <2>1, <2>2, <2>4, Quietly
    <2>5. CASE nodes' = Restrict(nodes, DOMAIN nodes \ {run[p].nid})
      <3>1. /\ DOMAIN nodes' = DOMAIN nodes \ {run[p].nid}
            /\ \A i \in DOMAIN nodes' : nodes'[i] = nodes[i]
        BY <2>1, <2>3, <2>5, RowGone
      <3>2. \A i \in DOMAIN nics : nodes'[i] = nodes[i]
        BY <2>3, <3>1 DEF RowsTyped
      <3>3. LeasesOK' /\ (pxe \subseteq Macs)'
        BY <2>1, <3>2 DEF Mine, LeasesOK, Macs
      <3>4. Rows(cut \cup Unfinished(p))'
        BY <2>1, <3>1 DEF Mine, Rows, Complete
      <3> QED BY <2>2, <3>3, <3>4 DEF Mine
    <2> QED BY <2>1, <2>4, <2>5
  <1>5. CASE StaticNic(p)
    <2>1. Kinds(p, {"static"}) /\ UNCHANGED <<nodes, nextNid, boot>>
      BY <1>5 DEF StaticNic
    <2>2. CASE NicInserted(p, "plugin", run[p].hint, NoMac) /\ UNCHANGED cut
      <3>1. run[p].hint \in Ip
        BY <1>1, <2>1, RunIs DEF TypeInv, PlaceOK, Kinds
      <3>2. NoMac \notin Macs
        BY DEF Macs
      <3> QED BY <1>1, <1>2, <2>1, <2>2, <3>1, <3>2, MineNicAdded
    <2>3. CASE Dies(p) /\ UNCHANGED <<nics, doubtful>>
      BY <1>1, <2>1, <2>3, DiesQuietly DEF boot
    <2> QED BY <1>5, <2>2, <2>3 DEF StaticNic
  <1> QED BY <1>3, <1>4, <1>5

LEMMA MineLease ==
  ASSUME TypeInv, NEW p \in Proc, Mine(p), WriteLease(p) PROVE Mine(p)'
  <1> DEFINE n == run[p].name
             i == run[p].nid
  <1>1. /\ run'[p].at = "plugin" /\ run'[p].name = n /\ run'[p].nid = i
        /\ run'[p].kind = run[p].kind /\ run'[p].done = run[p].done
    BY LeaseMoves DEF TypeInv, AskedKept, HostKept, DoneKept
  <1>2. run[p].at = "lease" /\ Working(p) /\ UNCHANGED <<nodes, nics, pxe, cut>>
    BY DEF WriteLease, At, Working, db, history
  <1>3. /\ i \in Named(n) /\ i \in DOMAIN nics /\ run[p].mac \in Mac
        /\ nics[i] = [ip |-> run[p].last, mac |-> run[p].mac]
        /\ run[p].kind = "replace" => run[p].mac \in pxe
    BY <1>2 DEF Mine, HostOK, Kinds
  <1>4. /\ \A m \in DOMAIN lease : m \in DOMAIN lease' /\ lease'[m] = lease[m]
        /\ n \in DOMAIN lease'
        /\ \A m \in DOMAIN lease' : m \in DOMAIN lease \/ m = n
        /\ n \notin DOMAIN lease => lease'[n] = nics[i]
    <2>1. CASE lease' = lease /\ (run[p].mac = NoMac \/ n \in DOMAIN lease)
      BY <1>3, <2>1, Bounds
    <2>2. CASE /\ n \notin DOMAIN lease
               /\ DOMAIN lease' = DOMAIN lease \cup {n}
               /\ lease'[n] = [ip |-> run[p].last, mac |-> run[p].mac]
               /\ \A m \in DOMAIN lease : lease'[m] = lease[m]
      BY <1>3, <2>2
    <2> QED BY <2>1, <2>2, LeaseIs DEF TypeInv
  <1>5. Grows
    BY <1>2, <1>4 DEF Grows
  <1>6. LeasesOK' /\ (pxe \subseteq Macs)'
    <2>1. ASSUME NEW m \in DOMAIN lease'
          PROVE  \E j \in DOMAIN nics : nodes[j].name = m /\ nics[j] = lease'[m]
      <3>1. CASE m \in DOMAIN lease
        BY <1>4, <3>1 DEF Mine, LeasesOK
      <3>2. CASE m \notin DOMAIN lease
        BY <1>3, <1>4, <2>1, <3>2 DEF Named
      <3> QED BY <3>1, <3>2
    <2> QED BY <1>2, <2>1 DEF LeasesOK, Mine, Macs
  <1>7. HostOK(p)'
    <2>1. \A j \in Named(n)' : j = i
      BY <1>1, <1>2, <1>3 DEF Named, TypeInv, RowsTyped
    <2>2. nics[i].mac = run[p].mac /\ nics[i].mac # NoMac
      BY <1>3, Bounds
    <2>3. nodes[i].name = n
      BY <1>3 DEF Named
    <2>4. HalfDone(i)'
      BY <1>1, <1>2, <1>3, <1>4, <2>2, <2>3 DEF HalfDone
    <2>5. run[p].kind = "replace" => Complete(i)'
      BY <1>1, <1>2, <1>3, <1>4, <2>2, <2>3 DEF Complete
    <2>6. run[p].kind \in Adding \cup {"replace"}
      BY <1>2, RunIs DEF TypeInv, PlaceOK
    <2>7. \A j \in Named(n)' : IF run[p].kind \in Adding THEN HalfDone(j)' ELSE Complete(j)'
      BY <1>1, <2>1, <2>4, <2>5, <2>6
    <2> QED BY <1>1, <2>7 DEF HostOK, Kinds
  <1>8. DoneOK(p)'
    BY <1>1, <1>2, <1>5, GrowsDone
  <1>9. Rows(cut \cup Unfinished(p))'
    <2>1. Unfinished(p) \subseteq Unfinished(p)'
      BY <1>1, HandIs, HandWillBe DEF Early
    <2> QED BY <1>5, <2>1, GrowsRows
  <1> QED BY <1>6, <1>7, <1>8, <1>9 DEF Mine

LEMMA MinePlugins ==
  ASSUME TypeInv, NEW p \in Proc, Mine(p), Plugins(p) PROVE Mine(p)'
  <1> DEFINE n == run[p].name
  <1>1. /\ At(p, "plugin") /\ run[p].at = "plugin" /\ Working(p) /\ HostOK(p)
        /\ UNCHANGED <<nodes, nics, lease>>
    BY DEF Plugins, At, Working, Mine, db
  <1>2. CASE Dies(p) /\ UNCHANGED pxe
    BY <1>1, <1>2, DiesQuietly
  <1>3. CASE /\ n \in Reserved
             /\ pxe' = IF Kinds(p, {"listen"}) THEN pxe \cup PxeOf(n) ELSE pxe
             /\ run' = [run EXCEPT ![p].at = "work", ![p].done = Done(p)]
             /\ UNCHANGED cut
    <2>1. /\ run'[p].at = "work" /\ run'[p].kind = run[p].kind
          /\ run[p].kind = "import" => run'[p].done = Append(run[p].done, n)
      BY <1>1, <1>3, DoneMoves DEF TypeInv, AskedKept
    <2>2. run[p].kind = "import" => Range(run'[p].done) = Range(run[p].done) \cup {n}
      <3>1. run[p].done \in Seq(Rank) /\ n \in Rank
        BY RunIs DEF TypeInv, RunRecord
      <3>2. Range(Append(run[p].done, n)) = Range(run[p].done) \cup {n}
        BY <3>1, RangeAppend
      <3> QED BY <2>1, <3>2
    <2>3. Grows
      BY <1>1, <1>3 DEF Grows
    <2>4. LeasesOK' /\ (pxe \subseteq Macs)'
      <3>1. pxe' \subseteq Macs
        BY <1>3, MacsTyped DEF TypeInv, Mine
      <3> QED BY <1>1, <3>1 DEF Mine, LeasesOK, Macs
    <2>5. HostOK(p)'
      BY <2>1 DEF HostOK
    <2>6. n \in cut \/ \A j \in Named(n) :
            IF Kinds(p, Adding) THEN HalfDone(j) ELSE Complete(j)
      BY <1>1 DEF HostOK
    <2>7. DoneOK(p)'
      <3>1. SUFFICES ASSUME run[p].kind = "import", NEW d \in Range(run[p].done) \cup {n}
                     PROVE  d \in Names' /\ (d \in cut' \/ \A j \in Named(d)' : HalfDone(j)')
        BY <2>1, <2>2 DEF DoneOK, Kinds
      <3>2. d \in Names /\ (d \in cut \/ \A j \in Named(d) : HalfDone(j))
        <4>1. CASE d \in Range(run[p].done)
          BY <1>1, <3>1, <4>1 DEF Mine, DoneOK, Kinds
        <4>2. CASE d = n
          <5>1. n \in Names
            BY <1>3 DEF Reserved, Names, TypeInv, RowsTyped
          <5> QED BY <2>6, <3>1, <4>2, <5>1 DEF Kinds, Adding
        <4> QED BY <3>1, <4>1, <4>2
      <3>3. Named(d)' = Named(d) /\ cut' = cut
        BY <2>3 DEF Named, Grows
      <3> QED BY <2>3, <3>2, <3>3, GrowsKeeps
    <2>8. Rows(cut \cup Unfinished(p))'
      <3>1. SUFFICES ASSUME NEW i \in DOMAIN nodes
                     PROVE  nodes[i].name \in cut \cup Unfinished(p)' \/ Complete(i)'
        BY <1>1, <1>3 DEF Rows
      <3>2. CASE nodes[i].name = n
        <4>1. i \in Named(n)
          BY <3>2 DEF Named
        <4>2. CASE run[p].kind = "import"
          BY <2>1, <2>2, <3>2, <4>2, HandWillBe
        <4>3. CASE run[p].kind = "listen"
          <5>1. n \in cut \/ HalfDone(i)
            BY <2>6, <4>1, <4>3 DEF Kinds, Adding
          <5>2. HalfDone(i) /\ nodes[i].managed => nics[i].mac \in PxeOf(n)
            BY <3>2 DEF HalfDone, PxeOf
          <5>3. HalfDone(i) => Complete(i)'
            BY <1>1, <1>3, <4>3, <5>2 DEF HalfDone, Complete, Kinds
          <5> QED BY <3>2, <5>1, <5>3
        <4>4. CASE run[p].kind \notin Adding
          <5>1. n \in cut \/ Complete(i)
            BY <2>6, <4>1, <4>4 DEF Kinds
          <5> QED BY <2>3, <3>2, <5>1, GrowsKeeps
        <4> QED BY <4>2, <4>3, <4>4 DEF Adding
      <3>3. CASE nodes[i].name # n
        <4>1. nodes[i].name \in cut \cup Unfinished(p) \/ Complete(i)
          BY DEF Mine, Rows
        <4>2. nodes[i].name \in Unfinished(p) => nodes[i].name \in Unfinished(p)'
          BY <2>1, <2>2, <3>3, HandIs, HandWillBe
        <4> QED BY <2>3, <4>1, <4>2, GrowsKeeps
      <3> QED BY <3>2, <3>3
    <2> QED BY <2>4, <2>5, <2>7, <2>8 DEF Mine
  <1> QED BY <1>2, <1>3 DEF Plugins

(* A PXE file removed is nobody else's: no MAC is in two rows.             *)
LEMMA PxeForgotten ==
  ASSUME RowsTyped, NEW n, pxe' = pxe \ PxeOf(n), UNCHANGED <<nodes, nics, lease>>,
         NEW i \in DOMAIN nodes, nodes[i].name # n, Complete(i), pxe \subseteq Macs
  PROVE  Complete(i)'
  <1>1. CASE nodes[i].managed
    <2>1. i \in DOMAIN nics /\ nics[i].mac \in pxe /\ nodes[i].name \in DOMAIN lease
      BY <1>1 DEF Complete
    <2>2. nics[i].mac # NoMac
      BY <2>1 DEF Macs
    <2>3. nics[i].mac \notin PxeOf(n)
      BY <2>1, <2>2 DEF PxeOf, RowsTyped
    <2> QED BY <2>1, <2>3 DEF Complete
  <1>2. CASE ~nodes[i].managed
    BY <1>2 DEF Complete
  <1> QED BY <1>1, <1>2

(* The host p begins with loses its PXE file.                              *)
LEMMA MineForgets ==
  ASSUME TypeInv, NEW p \in Proc, Mine(p), run[p].at = "work", run[p].kind # "import",
         run'[p].at \in {"delete", "forget"}, run'[p].kind = run[p].kind,
         NEW n, run'[p].name = n,
         pxe' = pxe \ PxeOf(n), UNCHANGED <<nodes, nics, lease, cut>>,
         run'[p].at = "forget" => run'[p].nid \in Named(n)
  PROVE  Mine(p)'
  <1>1. LeasesOK' /\ (pxe \subseteq Macs)'
    BY DEF Mine, LeasesOK, Macs
  <1>2. HostOK(p)'
    <2>1. (PxeOf(n) \cap pxe)' = {}
      BY DEF PxeOf
    <2>2. run'[p].at = "forget" => run'[p].nid \in Named(n)'
      BY DEF Named
    <2> QED BY <2>1, <2>2 DEF HostOK, PxeOf, Named
  <1>3. DoneOK(p)'
    BY DEF DoneOK, Kinds
  <1>4. Rows(cut \cup Unfinished(p))'
    <2>1. Unfinished(p) = {}
      BY HandIs DEF Early
    <2>2. n \in Unfinished(p)'
      BY HandWillBe DEF Early
    <2>3. ASSUME NEW i \in DOMAIN nodes, nodes[i].name # n, Complete(i)
          PROVE  Complete(i)'
      BY <2>3, PxeForgotten DEF TypeInv, Mine
    <2> QED BY <2>1, <2>2, <2>3 DEF Mine, Rows
  <1> QED BY <1>1, <1>2, <1>3, <1>4 DEF Mine

(* The nid a step looks up is that of the name.                            *)
LEMMA NidNamed == ASSUME NEW n \in Names PROVE NidOf(n) \in Named(n)
  BY NidOfIs DEF Named

(* The DHCP server forgets the host, others' stay complete.                *)
LEMMA LeaseForgotten ==
  ASSUME BootTyped, NEW n, UNCHANGED <<nodes, nics, pxe>>, LeasesOK,
         lease' = Restrict(lease, DOMAIN lease \ {n})
  PROVE  /\ LeasesOK' /\ n \notin DOMAIN lease'
         /\ \A i \in DOMAIN nodes : nodes[i].name # n /\ Complete(i) => Complete(i)'
  <1>1. DOMAIN lease' = DOMAIN lease \ {n} /\ \A m \in DOMAIN lease' : lease'[m] = lease[m]
    BY LeaseGone
  <1> QED BY <1>1 DEF LeasesOK, Complete

LEMMA MineRemove ==
  ASSUME TypeInv, NEW p \in Proc, Mine(p),
         RemoveName(p) \/ DeleteLease(p) \/ DeleteNics(p) \/ DeleteNode(p)
  PROVE  Mine(p)'
  <1> DEFINE n == run[p].name
             i == run[p].nid
  <1>1. CASE RemoveName(p)
    <2>1. /\ run[p].at = "work" /\ run[p].kind = "remove" /\ run'[p].kind = "remove"
          /\ run'[p].done = run[p].done
          /\ \/ run'[p].at = "work" /\ UNCHANGED pxe
             \/ run'[p].at = "delete" /\ pxe' = pxe \ PxeOf(run'[p].name)
      BY <1>1, RemoveMoves DEF TypeInv, AskedKept, DoneKept
    <2>2. UNCHANGED <<nodes, nics, lease, cut>>
      BY <1>1 DEF RemoveName, db, history
    <2>3. CASE run'[p].at = "work" /\ UNCHANGED pxe
      <3>1. Working(p) /\ HostOK(p)' /\ Unfinished(p) = {}
        BY <2>1, <2>3, HandIs DEF Working, HostOK, Early
      <3> QED BY <2>1, <2>2, <2>3, <3>1, Quietly
    <2>4. CASE run'[p].at = "delete" /\ pxe' = pxe \ PxeOf(run'[p].name)
      BY <2>1, <2>2, <2>4, MineForgets
    <2> QED BY <2>1, <2>3, <2>4
  <1>2. CASE DeleteLease(p)
    <2>1. /\ At(p, "delete") /\ run[p].at = "delete" /\ Working(p) /\ HostOK(p)
          /\ UNCHANGED <<nodes, nics, pxe>> /\ run[p].kind = "remove"
      <3>1. At(p, "delete") /\ run[p].at = "delete" /\ UNCHANGED <<nodes, nics, pxe>>
        BY <1>2 DEF DeleteLease, At, db
      <3> QED BY <3>1, RunIs DEF Working, Mine, TypeInv, PlaceOK
    <2>2. Unfinished(p) \subseteq {n}
      BY <2>1, HandIs
    <2>3. CASE /\ Step(p, "work") /\ UNCHANGED lease
               /\ cut' = cut \cup {n} \/ (UNCHANGED cut /\ n \notin Names)
      <3>1. run'[p].at = "work" /\ run'[p].kind = "remove" /\ run'[p].done = run[p].done
        BY <2>1, <2>3, DeleteMoves DEF TypeInv, AskedKept, DoneKept
      <3>2. HostOK(p)' /\ DoneOK(p)'
        BY <3>1 DEF HostOK, DoneOK, Kinds
      <3>3. LeasesOK' /\ (pxe \subseteq Macs)'
        BY <2>1, <2>3 DEF Mine, LeasesOK, Macs
      <3>4. Rows(cut \cup Unfinished(p))'
        BY <2>1, <2>2, <2>3 DEF Mine, Rows, Complete, Names
      <3> QED BY <3>2, <3>3, <3>4 DEF Mine
    <2>4. CASE /\ n \in Names /\ UNCHANGED cut
               /\ run' = [run EXCEPT ![p].at = "nics", ![p].nid = NidOf(n)]
               /\ lease' = Restrict(lease, DOMAIN lease \ {n})
      <3>1. /\ run'[p].at = "nics" /\ run'[p].kind = "remove" /\ run'[p].done = run[p].done
            /\ run'[p].name = n /\ run'[p].nid = NidOf(n)
        BY <2>1, <2>4, GoneMoves DEF TypeInv, AskedKept, DoneKept
      <3>2. /\ LeasesOK' /\ n \notin DOMAIN lease'
            /\ \A j \in DOMAIN nodes : nodes[j].name # n /\ Complete(j) => Complete(j)'
        BY <2>1, <2>4, LeaseForgotten DEF TypeInv, Mine
      <3>3. HostOK(p)'
        <4>1. run'[p].nid \in Named(n)'
          BY <2>1, <2>4, <3>1, NidNamed DEF Named
        <4>2. (PxeOf(n) \cap pxe = {})'
          BY <2>1, <3>1 DEF HostOK, PxeOf
        <4> QED BY <3>1, <3>2, <4>1, <4>2 DEF HostOK, Kinds
      <3>4. DoneOK(p)' /\ (pxe \subseteq Macs)'
        BY <2>1, <3>1 DEF DoneOK, Kinds, Mine, Macs
      <3>5. Rows(cut \cup Unfinished(p))'
        <4>1. n \in Unfinished(p)'
          BY <3>1, HandWillBe DEF Early
        <4> QED BY <2>1, <2>2, <2>4, <3>2, <4>1 DEF Mine, Rows
      <3> QED BY <3>2, <3>3, <3>4, <3>5 DEF Mine
    <2> QED BY <1>2, <2>3, <2>4 DEF DeleteLease
  <1>3. CASE DeleteNics(p)
    <2>1. /\ At(p, "nics") /\ run[p].at = "nics" /\ Working(p) /\ HostOK(p)
          /\ Step(p, "nodes") /\ nics' = Restrict(nics, DOMAIN nics \ {i})
          /\ UNCHANGED <<nodes, lease, pxe, cut>>
      BY <1>3 DEF DeleteNics, At, Working, Mine, boot, history
    <2>2. /\ run'[p].at = "nodes" /\ run'[p].name = n /\ run'[p].nid = i
          /\ run'[p].kind = run[p].kind /\ run'[p].done = run[p].done /\ run[p].kind = "remove"
      <3>1. run[p].kind = "remove"
        BY <2>1, RunIs DEF TypeInv, PlaceOK
      <3> QED BY <2>1, <3>1, NicsMoves DEF TypeInv, AskedKept, HostKept, DoneKept
    <2>3. DOMAIN nics' = DOMAIN nics \ {i} /\ \A j \in DOMAIN nics' : nics'[j] = nics[j]
      BY <2>1, NicGone DEF TypeInv
    <2>4. i \in Named(n) /\ n \notin DOMAIN lease /\ PxeOf(n) \cap pxe = {}
      BY <2>1 DEF HostOK
    <2>5. LeasesOK'
      <3>1. ASSUME NEW m \in DOMAIN lease
            PROVE  \E j \in DOMAIN nics' : nodes[j].name = m /\ nics'[j] = lease[m]
        <4>1. PICK j \in DOMAIN nics : nodes[j].name = m /\ nics[j] = lease[m]
          BY DEF Mine, LeasesOK
        <4>2. j # i
          BY <2>4, <4>1 DEF Named
        <4> QED BY <2>3, <4>1, <4>2
      <3> QED BY <2>1, <3>1 DEF LeasesOK
    <2>6. (pxe \subseteq Macs)'
      <3>1. ASSUME NEW x \in pxe PROVE \E j \in DOMAIN nics : j # i /\ nics[j].mac = x /\ x # NoMac
        <4>1. x \notin PxeOf(n)
          BY <2>4
        <4>2. PICK j \in DOMAIN nics : nics[j].mac = x /\ x # NoMac
          BY DEF Mine, Macs
        <4>3. j # i
          BY <2>4, <4>1, <4>2 DEF PxeOf, Named
        <4> QED BY <4>2, <4>3
      <3> QED BY <2>1, <2>3, <3>1, ZenonT(60) DEF Macs
    <2>7. HostOK(p)'
      <3>1. i \in Named(n)'
        BY <2>1, <2>2, <2>4 DEF Named
      <3> QED BY <2>1, <2>2, <2>3, <2>4, <3>1 DEF HostOK, Kinds
    <2>8. DoneOK(p)'
      BY <2>2 DEF DoneOK, Kinds
    <2>9. Rows(cut \cup Unfinished(p))'
      <3>1. n \in Unfinished(p)' /\ Unfinished(p) \subseteq {n}
        BY <2>1, <2>2, HandIs, HandWillBe DEF Early
      <3>2. \A j \in DOMAIN nodes : nodes[j].name # n => j # i
        BY <2>4 DEF Named
      <3> QED BY <2>1, <2>3, <3>1, <3>2 DEF Mine, Rows, Complete
    <2> QED BY <2>5, <2>6, <2>7, <2>8, <2>9 DEF Mine
  <1>4. CASE DeleteNode(p)
    <2>1. /\ At(p, "nodes") /\ run[p].at = "nodes" /\ Working(p) /\ HostOK(p)
          /\ UNCHANGED <<nics, lease, pxe>>
      BY <1>4 DEF DeleteNode, At, Working, Mine, boot
    <2>2. CASE Dies(p) /\ UNCHANGED nodes
      BY <2>1, <2>2, DiesQuietly
    <2>3. CASE /\ i \notin DOMAIN nics /\ UNCHANGED cut
               /\ nodes' = Restrict(nodes, DOMAIN nodes \ {i})
               /\ run' = [run EXCEPT ![p].at = "work", ![p].done = Append(@, n)]
      <3>1. run'[p].at = "work" /\ run'[p].kind = "remove" /\ run[p].kind = "remove"
        <4>1. run[p].kind = "remove"
          BY <2>1, RunIs DEF TypeInv, PlaceOK
        <4> QED BY <2>1, <2>3, <4>1, DoneMoves DEF TypeInv, AskedKept
      <3>2. DOMAIN nodes' = DOMAIN nodes \ {i} /\ \A j \in DOMAIN nodes' : nodes'[j] = nodes[j]
        BY <2>1, <2>3, RowGone DEF TypeInv
      <3>3. \A j \in DOMAIN nics : nodes'[j] = nodes[j]
        BY <2>3, <3>2 DEF TypeInv, RowsTyped
      <3>4. LeasesOK' /\ (pxe \subseteq Macs)'
        BY <2>1, <3>3 DEF Mine, LeasesOK, Macs
      <3>5. HostOK(p)' /\ DoneOK(p)'
        BY <3>1 DEF HostOK, DoneOK, Kinds
      <3>6. Rows(cut \cup Unfinished(p))'
        <4>1. Unfinished(p) \subseteq {n}
          BY <3>1, HandIs
        <4>2. \A j \in DOMAIN nodes' : j \in DOMAIN nodes /\ nodes[j].name # n
          BY <2>1, <3>2 DEF HostOK, Named, TypeInv, RowsTyped
        <4> QED BY <2>1, <2>3, <3>2, <4>1, <4>2 DEF Mine, Rows, Complete
      <3> QED BY <3>4, <3>5, <3>6 DEF Mine
    <2> QED BY <1>4, <2>2, <2>3 DEF DeleteNode
  <1> QED BY <1>1, <1>2, <1>3, <1>4

LEMMA MineReplace ==
  ASSUME TypeInv, NEW p \in Proc, Mine(p),
         \/ \E m \in Mac : DiscoverNew(p, m)
         \/ ForgetLease(p) \/ ClearMac(p) \/ SetMac(p) \/ BootHost(p)
  PROVE  Mine(p)'
  <1> DEFINE n == run[p].name
             i == run[p].nid
  <1>1. ASSUME NEW m \in Mac, DiscoverNew(p, m) PROVE Mine(p)'
    <2>1. /\ run'[p].at = "forget" /\ run[p].at = "work" /\ run[p].kind = "replace"
          /\ run'[p].kind = run[p].kind /\ run'[p].name = n /\ n \in Names
          /\ run'[p].nid = NidOf(n)
      BY <1>1, NewMoves DEF TypeInv, AskedKept
    <2>2. pxe' = pxe \ PxeOf(n) /\ UNCHANGED <<nodes, nics, lease, cut>>
      BY <1>1 DEF DiscoverNew, db, history
    <2>3. run'[p].nid \in Named(n)
      BY <2>1, NidNamed
    <2> QED BY <2>1, <2>2, <2>3, MineForgets
  <1>2. CASE ForgetLease(p)
    <2>1. /\ At(p, "forget") /\ Step(p, "clear") /\ run[p].at = "forget" /\ Working(p) /\ HostOK(p)
          /\ lease' = Restrict(lease, DOMAIN lease \ {n}) /\ UNCHANGED <<nodes, nics, pxe, cut>>
      BY <1>2 DEF ForgetLease, At, Working, Mine, db, history
    <2>2. /\ run'[p].at = "clear" /\ run'[p].name = n /\ run'[p].nid = i
          /\ run'[p].kind = "replace" /\ run'[p].done = run[p].done /\ run[p].kind = "replace"
      <3>1. run[p].kind = "replace"
        BY <2>1, RunIs DEF TypeInv, PlaceOK
      <3> QED BY <2>1, <3>1, ReplaceMoves DEF TypeInv, AskedKept, HostKept, DoneKept
    <2>3. /\ LeasesOK' /\ n \notin DOMAIN lease'
          /\ \A j \in DOMAIN nodes : nodes[j].name # n /\ Complete(j) => Complete(j)'
      BY <2>1, LeaseForgotten DEF TypeInv, Mine
    <2>4. HostOK(p)'
      <3>1. i \in Named(n) /\ PxeOf(n) \cap pxe = {}
        BY <2>1 DEF HostOK
      <3>2. i \in Named(n)' /\ (PxeOf(n) \cap pxe = {})'
        BY <2>1, <2>2, <3>1 DEF Named, PxeOf
      <3> QED BY <2>2, <2>3, <3>2 DEF HostOK, Kinds
    <2>5. DoneOK(p)' /\ (pxe \subseteq Macs)'
      BY <2>1, <2>2 DEF DoneOK, Kinds, Mine, Macs
    <2>6. Rows(cut \cup Unfinished(p))'
      <3>1. n \in Unfinished(p)' /\ Unfinished(p) \subseteq {n}
        BY <2>1, <2>2, HandIs, HandWillBe DEF Early
      <3> QED BY <2>1, <2>3, <3>1 DEF Mine, Rows
    <2> QED BY <2>3, <2>4, <2>5, <2>6 DEF Mine
  <1>3. CASE ClearMac(p)
    <2>1. /\ At(p, "clear") /\ Step(p, "set") /\ run[p].at = "clear" /\ Working(p) /\ HostOK(p)
          /\ UNCHANGED <<nodes, lease, pxe, cut>>
      BY <1>3 DEF ClearMac, At, Working, Mine, boot, history
    <2>2. /\ run'[p].at = "set" /\ run'[p].name = n /\ run'[p].nid = i
          /\ run'[p].kind = "replace" /\ run'[p].done = run[p].done /\ run[p].kind = "replace"
      <3>1. run[p].kind = "replace"
        BY <2>1, RunIs DEF TypeInv, PlaceOK
      <3> QED BY <2>1, <3>1, ReplaceMoves DEF TypeInv, AskedKept, HostKept, DoneKept
    <2>3. /\ DOMAIN nics' = DOMAIN nics
          /\ \A j \in DOMAIN nics : j # i => nics'[j] = nics[j]
          /\ i \in DOMAIN nics => nics'[i].mac = NoMac
      BY <1>3, MacCleared DEF TypeInv
    <2>4. i \in Named(n) /\ n \notin DOMAIN lease /\ PxeOf(n) \cap pxe = {}
      BY <2>1 DEF HostOK
    <2>5. LeasesOK'
      <3>1. ASSUME NEW m \in DOMAIN lease
            PROVE  \E j \in DOMAIN nics' : nodes[j].name = m /\ nics'[j] = lease[m]
        <4>1. PICK j \in DOMAIN nics : nodes[j].name = m /\ nics[j] = lease[m]
          BY DEF Mine, LeasesOK
        <4>2. j # i
          BY <2>4, <4>1 DEF Named
        <4> QED BY <2>3, <4>1, <4>2
      <3> QED BY <2>1, <3>1 DEF LeasesOK
    <2>6. (pxe \subseteq Macs)'
      <3>1. ASSUME NEW x \in pxe PROVE \E j \in DOMAIN nics : j # i /\ nics[j].mac = x /\ x # NoMac
        <4>1. x \notin PxeOf(n)
          BY <2>4
        <4>2. PICK j \in DOMAIN nics : nics[j].mac = x /\ x # NoMac
          BY DEF Mine, Macs
        <4>3. j # i
          BY <2>4, <4>1, <4>2 DEF PxeOf, Named
        <4> QED BY <4>2, <4>3
      <3> QED BY <2>1, <2>3, <3>1 DEF Macs
    <2>7. HostOK(p)'
      <3>1. i \in Named(n)'
        BY <2>1, <2>2, <2>4 DEF Named
      <3>2. ASSUME NEW x \in PxeOf(n)' PROVE x \in PxeOf(n)
        <4>1. PICK j \in DOMAIN nics' : nodes'[j].name = n /\ nics'[j].mac = x /\ x # NoMac
          BY <2>2 DEF PxeOf
        <4>2. j # i
          BY <2>3, <4>1
        <4> QED BY <2>1, <2>3, <4>1, <4>2 DEF PxeOf
      <3>3. (PxeOf(n) \cap pxe = {})'
        BY <2>1, <2>4, <3>2
      <3> QED BY <2>1, <2>2, <2>4, <3>1, <3>3 DEF HostOK, Kinds
    <2>8. DoneOK(p)'
      BY <2>2 DEF DoneOK, Kinds
    <2>9. Rows(cut \cup Unfinished(p))'
      <3>1. n \in Unfinished(p)' /\ Unfinished(p) \subseteq {n}
        BY <2>1, <2>2, HandIs, HandWillBe DEF Early
      <3>2. \A j \in DOMAIN nodes : nodes[j].name # n => j # i
        BY <2>4 DEF Named
      <3> QED BY <2>1, <2>3, <3>1, <3>2 DEF Mine, Rows, Complete
    <2> QED BY <2>5, <2>6, <2>7, <2>8, <2>9 DEF Mine
  <1>4. CASE SetMac(p)
    <2>1. /\ At(p, "set") /\ run[p].at = "set" /\ Working(p) /\ HostOK(p)
          /\ UNCHANGED <<nodes, lease, pxe>>
      BY <1>4 DEF SetMac, At, Working, Mine, boot
    <2>2. CASE Dies(p) /\ UNCHANGED nics
      BY <2>1, <2>2, DiesQuietly
    <2>3. CASE /\ i \in DOMAIN nics /\ run[p].mac \notin Macs /\ UNCHANGED cut
               /\ nics' = [nics EXCEPT ![i].mac = run[p].mac]
               /\ run' = [run EXCEPT ![p].at = "boot", ![p].last = nics[i].ip]
      <3>1. nics[i].ip \in Ip
        BY <2>3 DEF TypeInv, RowsTyped
      <3>2. /\ run'[p].at = "boot" /\ run'[p].name = n /\ run'[p].nid = i
            /\ run'[p].last = nics[i].ip /\ run'[p].mac = run[p].mac
            /\ run'[p].kind = "replace" /\ run'[p].done = run[p].done /\ run[p].kind = "replace"
        <4>1. run[p].kind = "replace"
          BY <2>1, RunIs DEF TypeInv, PlaceOK
        <4> QED BY <2>1, <2>3, <3>1, <4>1, SetMoves DEF TypeInv, AskedKept, HostKept, DoneKept
      <3>3. /\ DOMAIN nics' = DOMAIN nics /\ run[p].mac \in Mac
            /\ nics'[i] = [ip |-> nics[i].ip, mac |-> run[p].mac]
            /\ \A j \in DOMAIN nics : j # i => nics'[j] = nics[j]
        BY <2>1, <2>3, MacSet DEF TypeInv
      <3>4. i \in Named(n) /\ n \notin DOMAIN lease /\ PxeOf(n) \cap pxe = {}
        BY <2>1 DEF HostOK
      <3>5. LeasesOK'
        <4>1. ASSUME NEW m \in DOMAIN lease
              PROVE  \E j \in DOMAIN nics' : nodes[j].name = m /\ nics'[j] = lease[m]
          <5>1. PICK j \in DOMAIN nics : nodes[j].name = m /\ nics[j] = lease[m]
            BY DEF Mine, LeasesOK
          <5>2. j # i
            BY <3>4, <5>1 DEF Named
          <5> QED BY <3>3, <5>1, <5>2
        <4> QED BY <2>1, <4>1 DEF LeasesOK
      <3>6. (pxe \subseteq Macs)'
        <4>1. ASSUME NEW x \in pxe PROVE \E j \in DOMAIN nics : j # i /\ nics[j].mac = x /\ x # NoMac
          <5>1. x \notin PxeOf(n)
            BY <3>4
          <5>2. PICK j \in DOMAIN nics : nics[j].mac = x /\ x # NoMac
            BY DEF Mine, Macs
          <5>3. j # i
            BY <3>4, <5>1, <5>2 DEF PxeOf, Named
          <5> QED BY <5>2, <5>3
        <4> QED BY <2>1, <3>3, <4>1 DEF Macs
      <3>7. HostOK(p)'
        <4>1. i \in Named(n)'
          BY <2>1, <3>2, <3>4 DEF Named
        <4> QED BY <2>1, <2>3, <3>2, <3>3, <3>4, <4>1 DEF HostOK, Kinds
      <3>8. DoneOK(p)'
        BY <3>2 DEF DoneOK, Kinds
      <3>9. Rows(cut \cup Unfinished(p))'
        <4>1. n \in Unfinished(p)' /\ Unfinished(p) \subseteq {n}
          BY <2>1, <3>2, HandIs, HandWillBe DEF Early
        <4>2. \A j \in DOMAIN nodes : nodes[j].name # n => j # i
          BY <3>4 DEF Named
        <4> QED BY <2>1, <2>3, <3>3, <4>1, <4>2 DEF Mine, Rows, Complete
      <3> QED BY <3>5, <3>6, <3>7, <3>8, <3>9 DEF Mine
    <2> QED BY <1>4, <2>2, <2>3 DEF SetMac
  <1>5. CASE BootHost(p)
    <2>1. /\ At(p, "boot") /\ Step(p, "lease") /\ run[p].at = "boot" /\ Working(p) /\ HostOK(p)
          /\ pxe' = pxe \cup PxeOf(n) /\ UNCHANGED <<nodes, nics, lease, cut>>
      BY <1>5 DEF BootHost, At, Working, Mine, db, history
    <2>2. /\ run'[p].at = "lease" /\ run'[p].name = n /\ run'[p].nid = i
          /\ run'[p].last = run[p].last /\ run'[p].mac = run[p].mac
          /\ run'[p].kind = run[p].kind /\ run'[p].done = run[p].done
      BY <2>1, BootMoves DEF TypeInv, AskedKept, HostKept, ReadKept, DoneKept
    <2>3. Grows
      BY <2>1 DEF Grows
    <2>4. LeasesOK' /\ (pxe \subseteq Macs)'
      <3>1. pxe' \subseteq Macs
        BY <2>1, MacsTyped DEF TypeInv, Mine
      <3> QED BY <2>1, <3>1 DEF Mine, LeasesOK, Macs
    <2>5. HostOK(p)'
      <3>1. /\ i \in Named(n) /\ i \in DOMAIN nics /\ run[p].mac \in Mac
            /\ nics[i] = [ip |-> run[p].last, mac |-> run[p].mac]
        BY <2>1 DEF HostOK
      <3>2. run[p].mac \in PxeOf(n)
        BY <3>1, Bounds DEF PxeOf, Named
      <3>3. i \in Named(n)' /\ run[p].mac \in pxe'
        BY <2>1, <2>2, <3>1, <3>2 DEF Named
      <3> QED BY <2>1, <2>2, <3>1, <3>3 DEF HostOK, Kinds
    <2>6. DoneOK(p)'
      BY <2>1, <2>2, <2>3, GrowsDone
    <2>7. Rows(cut \cup Unfinished(p))'
      <3>1. Unfinished(p) \subseteq Unfinished(p)'
        BY <2>2, HandIs, HandWillBe DEF Early
      <3> QED BY <2>3, <3>1, GrowsRows
    <2> QED BY <2>4, <2>5, <2>6, <2>7 DEF Mine
  <1> QED BY <1>1, <1>2, <1>3, <1>4, <1>5

(* The end of an import writes the PXE files its hosts wait for.           *)
LEMMA MineFinish ==
  ASSUME TypeInv, NEW p \in Proc, Mine(p), Finish(p) PROVE Mine(p)'
  <1>1. /\ run[p].at = "work" /\ Working(p) /\ DoneOK(p) /\ run' = [run EXCEPT ![p] = Idle]
        /\ pxe' = pxe \cup GroupPxe(p) /\ UNCHANGED <<nodes, nics, lease, cut>>
    BY DEF Finish, ExitAndUnlock, At, Working, Mine, db, history
  <1>2. ~Working(p)'
    BY <1>1, ToIdle, IdleTyped DEF TypeInv, Working
  <1>3. Grows
    BY <1>1 DEF Grows
  <1>4. LeasesOK' /\ (pxe \subseteq Macs)'
    <2>1. pxe' \subseteq Macs
      BY <1>1, MacsTyped DEF TypeInv, Mine
    <2> QED BY <1>1, <2>1 DEF Mine, LeasesOK, Macs
  <1>5. Rows(cut \cup Unfinished(p))'
    <2>1. SUFFICES ASSUME NEW i \in DOMAIN nodes, nodes[i].name \notin cut PROVE Complete(i)'
      BY <1>1 DEF Rows
    <2>2. CASE Complete(i)
      BY <1>3, <2>2, GrowsKeeps
    <2>3. CASE nodes[i].name \in Unfinished(p)
      <3>1. run[p].kind = "import" /\ nodes[i].name \in Range(run[p].done)
        BY <1>1, <2>3, HandIs DEF Early
      <3>2. HalfDone(i)
        BY <1>1, <2>1, <3>1 DEF DoneOK, Kinds, Named
      <3>3. run[p].done # <<>> /\ Head(run[p].done) \in Names
        <4>1. run[p].done \in Seq(Rank)
          BY RunIs DEF TypeInv, RunRecord
        <4>2. run[p].done # <<>>
          BY <3>1 DEF Range
        <4>3. Head(run[p].done) \in Range(run[p].done)
          BY <4>1, <4>2, RangeSeq
        <4> QED BY <1>1, <3>1, <4>2, <4>3 DEF DoneOK, Kinds
      <3>4. i \in DOMAIN nics /\ nodes[i].managed /\ nics[i].mac # NoMac => nics[i].mac \in GroupPxe(p)
        BY <3>1, <3>3 DEF GroupPxe, Kinds
      <3> QED BY <1>1, <3>2, <3>4 DEF HalfDone, Complete
    <2> QED BY <2>1, <2>2, <2>3 DEF Mine, Rows
  <1> QED BY <1>2, <1>4, <1>5 DEF Mine

----------------------------------------------------------------------------
(* All together.                                                           *)
LEMMA StoresInit == Init => StoresInv
  <1> SUFFICES ASSUME Init PROVE StoresInv
    OBVIOUS
  <1>1. DOMAIN nodes = {} /\ DOMAIN lease = {} /\ pxe = {} /\ \A p \in Proc : ~Working(p)
    BY IdleTyped DEF Init, Working
  <1> QED BY <1>1 DEF StoresInv, AloneOK, LeasesOK, Rows

(* What the invariant speaks of unchanged.                                 *)
LEMMA StoresSame ==
  ASSUME StoresInv, UNCHANGED <<nodes, nics, lease, pxe, run, cut, overlap>>
  PROVE  StoresInv'
  <1> SUFFICES ASSUME ~overlap'
               PROVE  /\ AloneOK' /\ LeasesOK' /\ (pxe \subseteq Macs)'
                      /\ \A q \in Proc : Working(q)' => HostOK(q)' /\ DoneOK(q)'
                      /\ Rows(cut \cup InHand)'
    BY DEF StoresInv
  <1>1. \A q \in Proc : Working(q)' = Working(q) /\ Unfinished(q)' = Unfinished(q)
    BY DEF Working, Unfinished, Kinds
  <1>2. AloneOK'
    BY <1>1 DEF StoresInv, AloneOK
  <1>3. LeasesOK' /\ (pxe \subseteq Macs)'
    BY DEF StoresInv, LeasesOK, Macs
  <1>4. ASSUME NEW q \in Proc, Working(q)' PROVE HostOK(q)' /\ DoneOK(q)'
    <2>1. HostOK(q) /\ DoneOK(q)
      BY <1>1, <1>4 DEF StoresInv
    <2>2. HostOK(q)'
      BY <2>1 DEF HostOK, Named, PxeOf, Kinds, HalfDone, Complete, Macs
    <2>3. DoneOK(q)'
      BY <2>1 DEF DoneOK, Named, Names, Kinds, HalfDone
    <2> QED BY <2>2, <2>3
  <1>5. InHand' = InHand
    BY <1>1 DEF InHand
  <1>6. Rows(cut \cup InHand)'
    BY <1>5 DEF StoresInv, Rows, Complete
  <1> QED BY <1>2, <1>3, <1>4, <1>6

LEMMA StoresOuter ==
  ASSUME TypeInv, StoresInv,
         \/ BadOption \/ RemoveLockFile
         \/ \E p \in Proc : Check(p) \/ Lock(p) \/ Kill(p) \/ Finish(p) \/ \E r \in Request : Start(p, r)
  PROVE  StoresInv'
  <1>1. CASE BadOption \/ RemoveLockFile
    <2>1. UNCHANGED <<nodes, nics, lease, pxe, run, cut, overlap>>
      BY <1>1 DEF BadOption, RemoveLockFile, db, boot, history
    <2> QED BY <2>1, StoresSame
  <1>2. ASSUME NEW p \in Proc, NEW r \in Request, Start(p, r) PROVE StoresInv'
    <2>1. RunsOK' /\ run'[p].at = "check" /\ run[p].at = "idle" /\ Others(p)
      BY <1>2, StartMoves DEF TypeInv, At
    <2>2. UNCHANGED <<nodes, nics, lease, pxe, cut, overlap>>
      BY <1>2 DEF Start, db, boot, history
    <2>3. ~Working(p) /\ ~Working(p)'
      BY <2>1 DEF Working
    <2> QED BY <2>1, <2>2, <2>3, IdleStep
  <1>3. ASSUME NEW p \in Proc, Check(p) PROVE StoresInv'
    <2>1. RunsOK' /\ run'[p].at \in {"idle", "lock"} /\ run[p].at = "check" /\ Others(p)
      BY <1>3, CheckMoves, IdleTyped DEF TypeInv
    <2>2. UNCHANGED <<nodes, nics, lease, pxe, cut, overlap>>
      BY <1>3 DEF Check, db, boot, history
    <2>3. ~Working(p) /\ ~Working(p)'
      BY <2>1 DEF Working
    <2> QED BY <2>1, <2>2, <2>3, IdleStep
  <1>4. ASSUME NEW p \in Proc, Lock(p) PROVE StoresInv'
    <2>1. /\ RunsOK' /\ run'[p].at = "work" /\ run[p].at = "lock" /\ Others(p)
          /\ run'[p].done = run[p].done
      BY <1>4, LockMoves DEF TypeInv, Lock, At, DoneKept
    <2>2. UNCHANGED <<nodes, nics, lease, pxe, cut>>
      BY <1>4 DEF Lock, db, boot
    <2> SUFFICES ASSUME ~overlap'
                 PROVE  /\ AloneOK' /\ LeasesOK' /\ (pxe \subseteq Macs)'
                        /\ \A q \in Proc : Working(q)' => HostOK(q)' /\ DoneOK(q)'
                        /\ Rows(cut \cup InHand)'
      BY DEF StoresInv
    <2>3. ~overlap /\ \A q \in Proc : ~Working(q)
      BY <1>4, Zenon DEF Lock
    <2>4. \A q \in Proc : q # p => ~Working(q)'
      BY <2>1, <2>3 DEF Others, Working
    <2>5. AloneOK'
      BY <2>4 DEF AloneOK
    <2>6. LeasesOK' /\ (pxe \subseteq Macs)'
      BY <2>2, <2>3 DEF StoresInv, LeasesOK, Macs
    <2>7. run[p].done = <<>>
      BY <2>1, RunIs DEF TypeInv, PlaceOK
    <2>8. HostOK(p)' /\ DoneOK(p)'
      <3>1. Range(<<>>) = {}
        BY DEF Range
      <3> QED BY <2>1, <2>7, <3>1 DEF HostOK, DoneOK
    <2>9. Rows(cut \cup InHand)'
      <3>1. InHand = {}
        BY <2>3, UnfinishedIs DEF TypeInv, InHand
      <3> QED BY <2>2, <2>3, <3>1 DEF StoresInv, Rows, Complete
    <2> QED BY <2>4, <2>5, <2>6, <2>8, <2>9
  <1>5. ASSUME NEW p \in Proc, Kill(p) PROVE StoresInv'
    <2>1. Dies(p) /\ UNCHANGED <<nodes, nics, lease, pxe, overlap>>
      BY <1>5 DEF Kill, db, boot
    <2>2. RunsOK' /\ run'[p].at = "idle" /\ Others(p)
      BY <2>1, DiesTyped, IdleTyped DEF TypeInv, RestTyped
    <2>3. CASE Working(p)
      BY <2>1, <2>2, <2>3, AloneStep, DiesQuietly
    <2>4. CASE ~Working(p)
      <3>1. cut' = cut
        BY <2>1, <2>4, UnfinishedIs DEF Dies, TypeInv
      <3>2. ~Working(p)'
        BY <2>2 DEF Working
      <3> QED BY <2>1, <2>2, <2>4, <3>1, <3>2, IdleStep
    <2> QED BY <2>3, <2>4
  <1>6. ASSUME NEW p \in Proc, Finish(p) PROVE StoresInv'
    <2>1. run' = [run EXCEPT ![p] = Idle] /\ Working(p) /\ UNCHANGED overlap
      BY <1>6 DEF Finish, ExitAndUnlock, At, Working, history
    <2>2. Others(p)
      BY <2>1, ToIdle DEF TypeInv
    <2> QED BY <1>6, <2>1, <2>2, AloneStep, MineFinish
  <1> QED BY <1>1, <1>2, <1>3, <1>4, <1>5, <1>6

(* Who takes a step of a run works, and moves nobody else.                 *)
Inner(p) ==
  \/ \E m \in Mac : Discover(p, m) \/ DiscoverNew(p, m)
  \/ ImportLine(p) \/ Load(p) \/ PickName(p) \/ InsertRow(p)
  \/ InsertNic(p) \/ Overflow(p) \/ WriteLease(p) \/ Plugins(p)
  \/ AddStatic(p) \/ StaticNic(p)
  \/ RemoveName(p) \/ DeleteLease(p) \/ DeleteNics(p) \/ DeleteNode(p)
  \/ ForgetLease(p) \/ ClearMac(p) \/ SetMac(p) \/ BootHost(p)

LEMMA InnerAlone ==
  ASSUME TypeInv, NEW p \in Proc, Inner(p)
  PROVE  Working(p) /\ UNCHANGED overlap /\ (Others(p) \/ OthersBehind(p))
  <1>1. Working(p)
    BY DEF Inner, Discover, DiscoverNew, ImportLine, Load, PickName, InsertRow, InsertNic,
           Overflow, WriteLease, Plugins, AddStatic, StaticNic, RemoveName, DeleteLease,
           DeleteNics, DeleteNode, ForgetLease, ClearMac, SetMac, BootHost, At, Working
  <1>2. UNCHANGED overlap
    BY DEF Inner, Discover, DiscoverNew, ImportLine, Load, PickName, InsertRow, InsertNic,
           Overflow, WriteLease, Plugins, AddStatic, StaticNic, RemoveName, DeleteLease,
           DeleteNics, DeleteNode, ForgetLease, ClearMac, SetMac, BootHost, history
  <1>3. Others(p) \/ OthersBehind(p)
    <2>1. ASSUME NEW r, run' = [run EXCEPT ![p] = r] PROVE Others(p)
      BY <2>1 DEF Others, TypeInv, RunsOK
    <2>2. CASE Dies(p) \/ Fails(p) \/ ExitAndUnlock(p) \/ Inserted(p, TRUE) \/ Inserted(p, FALSE)
               \/ (\E place : Step(p, place))
      BY <2>2 DEF Dies, Fails, ExitAndUnlock, Inserted, Step, Others, TypeInv, RunsOK
    <2>3. ASSUME NEW place, NEW ip, NEW mac, NicInserted(p, place, ip, mac)
          PROVE  OthersBehind(p)
      <3>1. ASSUME NEW q \in Proc, q # p
            PROVE  run'[q] = [run[q] EXCEPT !.behind = ~At(q, "idle")] /\ run[q] \in RunRecord
        BY <2>3, <3>1, RunIs DEF NicInserted, TypeInv
      <3>2. ASSUME NEW q \in Proc, q # p, run[q].at # "idle" PROVE run'[q].behind
        BY <3>1, <3>2 DEF RunRecord, At
      <3>3. ASSUME NEW q \in Proc, q # p
            PROVE  /\ run'[q].at = run[q].at /\ run'[q].kind = run[q].kind /\ run'[q].name = run[q].name
                   /\ run'[q].nid = run[q].nid /\ run'[q].mac = run[q].mac /\ run'[q].hint = run[q].hint
                   /\ run'[q].ips = run[q].ips /\ run'[q].macs = run[q].macs /\ run'[q].done = run[q].done
        BY <3>1, <3>3, ZenonT(60) DEF RunRecord
      <3> QED BY <3>2, <3>3 DEF OthersBehind
    <2>4. CASE (\E m \in Mac : Discover(p, m) \/ DiscoverNew(p, m)) \/ ImportLine(p) \/ Load(p)
               \/ PickName(p) \/ WriteLease(p) \/ RemoveName(p)
      BY <2>4, DiscoverMoves, NewMoves, ImportMoves, LoadMoves, PickMoves, LeaseMoves,
         RemoveMoves DEF TypeInv
    <2>5. CASE InsertRow(p) \/ AddStatic(p) \/ DeleteNics(p) \/ ForgetLease(p) \/ ClearMac(p)
               \/ BootHost(p)
      BY <2>2, <2>5 DEF InsertRow, AddStatic, DeleteNics, ForgetLease, ClearMac, BootHost
    <2>6. CASE InsertNic(p)
      BY <2>2, <2>3, <2>6 DEF InsertNic, Others, TypeInv, RunsOK
    <2>7. CASE Overflow(p) \/ StaticNic(p) \/ Plugins(p) \/ DeleteLease(p) \/ DeleteNode(p)
               \/ SetMac(p)
      BY <2>2, <2>3, <2>7 DEF Overflow, StaticNic, Plugins, DeleteLease, DeleteNode, SetMac,
                              Others, TypeInv, RunsOK
    <2> QED BY <2>4, <2>5, <2>6, <2>7 DEF Inner
  <1> QED BY <1>1, <1>2, <1>3

LEMMA StoresNext == ASSUME TypeInv, StoresInv, [Next]_vars PROVE StoresInv'
  <1>1. CASE UNCHANGED vars
    <2>1. UNCHANGED <<nodes, nics, lease, pxe, run, cut, overlap>>
      BY <1>1 DEF vars, db, boot, history
    <2> QED BY <2>1, StoresSame
  <1>2. ASSUME NEW p \in Proc, Inner(p) PROVE StoresInv'
    <2>1. Mine(p) => Mine(p)'
      BY <1>2, MineAdd, MineRow, MineNic, MineLease, MinePlugins, MineRemove, MineReplace
         DEF Inner
    <2> QED BY <1>2, <2>1, InnerAlone, AloneStep
  <1>3. CASE Next /\ \A p \in Proc : ~Inner(p)
    BY <1>3, StoresOuter DEF Next, Inner
  <1> QED BY <1>1, <1>2, <1>3

LEMMA StoresMeans == TypeInv /\ StoresInv => StoresAgree
  <1> SUFFICES ASSUME TypeInv, StoresInv, ~overlap,
                      \A p \in Proc : ~Working(p), NEW i \in DOMAIN nodes, nodes[i].name \notin cut
               PROVE  Complete(i)
    BY DEF StoresInv, StoresAgree, LeasesOK, Complete
  <1>1. InHand = {}
    BY UnfinishedIs DEF TypeInv, InHand
  <1> QED BY <1>1 DEF StoresInv, Rows

(* While no two processes work at once, what the DHCP server and the PXE   *)
(* directory hold is the address and MAC of a row at every moment, and     *)
(* between runs every row has both but for the names a process was         *)
(* interrupted on or refused: the order of the statements of addNode,      *)
(* deleteNode, replaceNodeEntry and of the plugins leaves no other gap.    *)
THEOREM StoresAgreeHolds == Spec => []StoresAgree
  <1>1. TypeInv /\ StoresInv /\ [Next]_vars => StoresInv'
    BY StoresNext
  <1> QED BY <1>1, StoresInit, StoresMeans, TypeCorrect, PTL DEF Spec
=============================================================================
