----------------------------- MODULE MCKusuLock -----------------------------
(* Two kusu-kitops, either of which may upgrade, a tool and a kusu-power.  *)
EXTENDS KusuLock

CONSTANTS k1, k2, t1, w1

MCProgram == [p \in Proc |->
  IF p \in {k1, k2} THEN "kitops" ELSE IF p = t1 THEN "tool" ELSE "power"]
=============================================================================
