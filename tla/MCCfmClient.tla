---------------------------- MODULE MCCfmClient ----------------------------
(* CfmClient for TLC; packages may be exchanged for one another.           *)
EXTENDS CfmClient, TLC

CONSTANTS p1, p2, p3

ThreePackages == {p1, p2, p3}
Exchange == Permutations({p1, p2, p3})
=============================================================================
