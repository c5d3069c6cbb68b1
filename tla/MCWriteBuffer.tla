---------------------------- MODULE MCWriteBuffer ----------------------------
(***************************************************************************)
(* Small instances of WriteBuffer for TLC: one inode, in one shard         *)
(* of the map; byte counts stand for the megabytes of the configuration.   *)
(***************************************************************************)
EXTENDS WriteBuffer, TLC

CONSTANTS t1, t2

OneTask == {t1}
TwoTasks == {t1, t2}
OneInode == {2}
EachItsPath == [i \in Inodes |-> i]
OneShard == [i \in Inodes |-> 0]

AllOps == OpNames
WithoutRelease == OpNames \ {"release"}
WriteAndFlush == {"write", "flush"}

OldByte == <<0>>

Zero == {0}
One == {1}
ZeroOne == {0, 1}
OneTwo == {1, 2}
OneThree == {1, 3}

Symmetry == Permutations(Tasks)
==============================================================================
