----------------------------- MODULE MCCfmMerge -----------------------------
(* CfmMerge for TLC; the values of lines may be exchanged.                 *)
EXTENDS CfmMerge, TLC

CONSTANTS root, alice, v1, v2

TwoUsers == {root, alice}
TwoValues == {v1, v2}
RootOnly == {root}
Exchange == Permutations({v1, v2})

(* Both machines were installed with a line for root and nobody else.      *)
InstalledInit == Init /\ UsersOf(instcurr) = {root} /\ UsersOf(curr) = {root}
InstalledSpec == InstalledInit /\ [][Next]_vars
=============================================================================
