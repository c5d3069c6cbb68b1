------------------------------- MODULE MCFileIO ------------------------------
(***************************************************************************)
(* Small instances of FileIO for TLC: one file of four bytes in two blocks. *)
(***************************************************************************)
EXTENDS FileIO, TLC

CONSTANTS t1, t2

OneTask == {t1}
TwoTasks == {t1, t2}
OneInode == {2}
Itself == [i \in Inodes |-> i]
OneShard == [i \in Inodes |-> 0]
AllOps == {"write", "truncate", "flush", "release", "flush_all"}
NoOps == {}
WriteOnly == {"write"}
FourBytes == <<91, 92, 93, 94>>

Zero == {0}
Two == {2}
ZeroOne == {0, 1}
ZeroTwo == {0, 2}

Symmetry == Permutations(Tasks)
=============================================================================
