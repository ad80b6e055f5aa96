----------------------------- MODULE MCCfmFiles -----------------------------
(* CfmFiles for TLC: one file of each kind.                                *)
EXTENDS CfmFiles

CONSTANTS conf, hosts

TwoFiles == {conf, hosts}
AppendHosts == {hosts}
=============================================================================
