------------------------------- MODULE MCCfmd -------------------------------
(* One daemon on an arbitrary network: its node group is 1, and packets    *)
(* for its group, for all groups and for another one arrive in any order,  *)
(* the second of them with or without an installer.                        *)
EXTENDS Cfmd, TLC

CONSTANT n1

MCNgid == (n1 :> 1)
MCHasNii == (n1 :> TRUE)
MCPacket == {p \in [seq : 1..3, ngid : 0..2, kinds : {{"UPDATEFILE"}},
                    inst : BOOLEAN] :
               /\ p.ngid = 0 => p.seq = 3
               /\ ~p.inst => p.seq = 2 /\ p.ngid = 1}
=============================================================================
