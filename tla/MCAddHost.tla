----------------------------- MODULE MCAddHost -----------------------------
(* Small instances of AddHost for TLC.                                     *)
EXTENDS AddHost, TLC

Asked(kind, todo, name, hint) ==
  [kind |-> kind, todo |-> todo, name |-> name, hint |-> hint]

Files == {f \in [1..2 -> Mac] : f[1] # f[2]}

(* Host 1 is also the name of a printer.  An import that is given the last *)
(* address has none for its second line.  The listener is given the second *)
(* one and goes on from there; without one it would begin with the first.  *)
SmallRequests ==
  {Asked("import", f, 0, hint) : f \in Files, hint \in {0, MaxIp}}
    \cup {Asked("listen", <<>>, 0, 2), Asked("static", <<>>, 1, 1),
          Asked("remove", <<0, 1>>, 0, 0), Asked("remove", <<Installer, 0>>, 0, 0),
          Asked("replace", <<>>, 0, 0)}

Symmetry == Permutations(Proc) \cup Permutations(Mac)
============================================================================
