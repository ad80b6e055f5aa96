----------------------------- MODULE MCKitOps -----------------------------
(* Three repositories of two operating systems; the installer's is "main". *)
EXTENDS KitOps

CONSTANTS t1, kitops

Kit(v, os) == [version |-> v, os |-> os]

TheMedia == {Kit(1, "a"), Kit(2, "a"), Kit(3, "a"), Kit(1, "b"), Kit(2, "b")}
NativeFixed == {Kit(1, "a"), Kit(2, "a"), Kit(3, "a")}
OneOrTwo == {<<Kit(1, "a"), Kit(1, "b")>>, <<Kit(3, "a"), Kit(1, "b")>>}
NewestHasPacks == {Kit(3, "a")}

ThreeRepos == {"main", "second", "other"}
FourRepos == ThreeRepos \cup {"new"}
OsOfFour == [r \in FourRepos |-> IF r = "other" THEN "b" ELSE "a"]

Groups == {"installer", "compute"}
RepoOfGroup == [g \in Groups |-> IF g = "installer" THEN "main" ELSE "second"]

OneTool == {t1}

=============================================================================
