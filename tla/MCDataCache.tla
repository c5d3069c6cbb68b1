----------------------------- MODULE MCDataCache -----------------------------
(***************************************************************************)
(* Small instances of DataCache for TLC: blocks of two bytes, full or half *)
(* full.                                                                   *)
(***************************************************************************)
EXTENDS DataCache

CONSTANTS t1, t2

TwoTasks == {t1, t2}
OneInode == {2}
OneTwo == {1, 2}
TwoBlocks == {0, 3}

==============================================================================
