----------------------------- MODULE MCNamespace -----------------------------
(***************************************************************************)
(* Small instances of Namespace for TLC: a tree of two files, of which one *)
(* may lie in a directory.                                                 *)
(***************************************************************************)
EXTENDS Namespace, TLC

CONSTANTS t1, t2, a, b, d

OneTask == {t1}
TwoTasks == {t1, t2}

OneFile == {<<a>>}
DeepTree == {<<a>>, <<d>>, <<d, a>>}
NoPaths == {}

\* Left out: rename never removes the target from the negative cache, and
\* readdir enters a directory's marker as a child of that directory.
OneNameOps == OpNames \ {"rename", "readdir"}
ChangingOps == OpNames \ {"lookup", "getattr"}

Symmetry == Permutations(Tasks)
==============================================================================
