--------------------------- MODULE MCInodeManager ---------------------------
(***************************************************************************)
(* Small instances of InodeManager for TLC.                                *)
(***************************************************************************)
EXTENDS InodeManagerSerial, TLC

CONSTANTS t1, t2, p1, p2, p3

TwoThreads == {t1, t2}
ThreePaths == {p1, p2, p3}
AllOps == {"get_or_create", "remove", "remove_by_path", "rename"}

Symmetry == Permutations(Threads) \cup Permutations(ChildPaths)
==============================================================================
