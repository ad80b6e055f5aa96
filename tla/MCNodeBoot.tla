---------------------------- MODULE MCNodeBoot ----------------------------
(* NodeBoot for TLC: which nodes, kernels and operations.                  *)
EXTENDS NodeBoot, TLC

CONSTANTS n1, a1, s1, s2, k1, k2

OneNode     == {n1}
OneAdmin    == {a1}
OneSlot     == {s1}
TwoSlots    == {s1, s2}
TwoKernels  == {k1, k2}
AllOps      == {"nodes", "group", "unsynced"}
===========================================================================
