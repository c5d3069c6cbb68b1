---------------------------- MODULE InodeManager ----------------------------
(***************************************************************************)
(* src/fs/inode.rs: the table that gives every path of the mounted tree an *)
(* inode number, and every inode number its entry.                         *)
(*                                                                         *)
(* The table is two DashMaps and an atomic counter, shared by all request  *)
(* tasks without a common lock, so each method is a sequence of atomic     *)
(* calls and methods of several tasks interleave between them.  One action *)
(* below is one such atomic call; `pc' says which call of which method     *)
(* comes next.  Paths are normalized ones, and the tasks call the methods  *)
(* the way fs/core.rs does: never with the root's path, and `remove' only  *)
(* with a number that get_inode(path) returned.                            *)
(***************************************************************************)
EXTENDS Naturals, FiniteSets, DashMap

CONSTANTS
  Threads,        \* request tasks
  ChildPaths,     \* normalized paths below the root
  RootPath,       \* the empty path
  Ops,            \* methods the tasks call
  MaxInode        \* bound on the inode numbers handed out

ROOT_INODE == 1
NoInode == 0

ASSUME PathsAssumption == RootPath \notin ChildPaths
ASSUME BoundAssumption == MaxInode \in Nat /\ ROOT_INODE <= MaxInode /\ IsFiniteSet(Threads)
ASSUME OpsAssumption == Ops \subseteq {"get_or_create", "remove", "remove_by_path", "rename"}

Paths == ChildPaths \cup {RootPath}

\* What InodeIdentity says of a number without a path is no path.
ASSUME HolderAssumption == {"fresh", "request", "gone"} \cap Paths = {}

VARIABLES
  path_to_inode,  \* DashMap<String, u64>
  inode_to_entry, \* DashMap<u64, InodeEntry>, an entry being its path
  next_inode,     \* AtomicU64
  pc,             \* per thread: the next atomic call
  inode,          \* per thread: the number in its hands
  path,           \* per thread: the path the next call works on
  dead            \* history: numbers whose entry has been removed

vars == <<path_to_inode, inode_to_entry, next_inode, pc, inode, path, dead>>
locals == <<pc, inode, path>>

\* What a thread does next, and with which number and path.
Goto(t, l, i, p) ==
  /\ pc' = [pc EXCEPT ![t] = l]
  /\ inode' = [inode EXCEPT ![t] = i]
  /\ path' = [path EXCEPT ![t] = p]

Return(t) == Goto(t, "idle", NoInode, RootPath)

Init ==
  /\ path_to_inode = [p \in {RootPath} |-> ROOT_INODE]
  /\ inode_to_entry = [i \in {ROOT_INODE} |-> RootPath]
  /\ next_inode = ROOT_INODE + 1
  /\ pc = [t \in Threads |-> "idle"]
  /\ inode = [t \in Threads |-> NoInode]
  /\ path = [t \in Threads |-> RootPath]
  /\ dead = {}

-----------------------------------------------------------------------------
(* get_or_create_inode *)

Allocating == {t \in Threads : pc[t] = "fetch_add"}

\* The lookup that comes first: a hit returns, a miss goes on to create.
GetOrCreate(t, p) ==
  /\ "get_or_create" \in Ops
  /\ pc[t] = "idle"
  /\ \/ /\ p \in DOMAIN path_to_inode
        /\ UNCHANGED locals
     \/ /\ p \notin DOMAIN path_to_inode
        /\ next_inode + Cardinality(Allocating) <= MaxInode
        /\ Goto(t, "fetch_add", NoInode, p)
  /\ UNCHANGED <<path_to_inode, inode_to_entry, next_inode, dead>>

\* Mutant: the next number is derived from the table's size.
FetchAddBySize(t) ==
  /\ pc[t] = "fetch_add"
  /\ next_inode' = Cardinality(DOMAIN inode_to_entry) + 1
  /\ Goto(t, "insert_path", next_inode', path[t])
  /\ UNCHANGED <<path_to_inode, inode_to_entry, dead>>

FetchAdd(t) ==
  /\ pc[t] = "fetch_add"
  /\ next_inode' = next_inode + 1
  /\ Goto(t, "insert_path", next_inode, path[t])
  /\ UNCHANGED <<path_to_inode, inode_to_entry, dead>>

InsertPath(t) ==
  /\ pc[t] = "insert_path"
  /\ path_to_inode' = Insert(path_to_inode, path[t], inode[t])
  /\ Goto(t, "insert_entry", inode[t], path[t])
  /\ UNCHANGED <<inode_to_entry, next_inode, dead>>

\* Mutant: the entry holds the number where the path belongs.
InsertEntryNumber(t) ==
  /\ pc[t] = "insert_entry"
  /\ inode_to_entry' = Insert(inode_to_entry, inode[t], inode[t])
  /\ Return(t)
  /\ UNCHANGED <<path_to_inode, next_inode, dead>>

InsertEntry(t) ==
  /\ pc[t] = "insert_entry"
  /\ inode_to_entry' = Insert(inode_to_entry, inode[t], path[t])
  /\ Return(t)
  /\ UNCHANGED <<path_to_inode, next_inode, dead>>

-----------------------------------------------------------------------------
(* remove: the caller looked the number up before *)

LookupForRemove(t, p) ==
  /\ "remove" \in Ops
  /\ pc[t] = "idle"
  /\ \/ p \notin DOMAIN path_to_inode /\ UNCHANGED locals
     \/ p \in DOMAIN path_to_inode /\ Goto(t, "remove_entry", path_to_inode[p], RootPath)
  /\ UNCHANGED <<path_to_inode, inode_to_entry, next_inode, dead>>

\* Mutant: the path to forget is not taken from the entry.
RemoveEntryPathless(t) ==
  /\ pc[t] = "remove_entry"
  /\ \/ /\ inode[t] \notin DOMAIN inode_to_entry
        /\ Return(t)
        /\ UNCHANGED <<inode_to_entry, dead>>
     \/ /\ inode[t] \in DOMAIN inode_to_entry
        /\ inode_to_entry' = Remove(inode_to_entry, inode[t])
        /\ dead' = dead \cup {inode[t]}
        /\ Goto(t, "remove_path", NoInode, path[t])
  /\ UNCHANGED <<path_to_inode, next_inode>>

\* The path to forget is the one found in the removed entry.
RemoveEntry(t) ==
  /\ pc[t] = "remove_entry"
  /\ \/ /\ inode[t] \notin DOMAIN inode_to_entry
        /\ Return(t)
        /\ UNCHANGED <<inode_to_entry, dead>>
     \/ /\ inode[t] \in DOMAIN inode_to_entry
        /\ inode_to_entry' = Remove(inode_to_entry, inode[t])
        /\ dead' = dead \cup {inode[t]}
        /\ Goto(t, "remove_path", NoInode, inode_to_entry[inode[t]])
  /\ UNCHANGED <<path_to_inode, next_inode>>

RemovePath(t) ==
  /\ pc[t] = "remove_path"
  /\ path_to_inode' = Remove(path_to_inode, path[t])
  /\ Return(t)
  /\ UNCHANGED <<inode_to_entry, next_inode, dead>>

-----------------------------------------------------------------------------
(* remove_by_path *)

RemoveByPath(t, p) ==
  /\ "remove_by_path" \in Ops
  /\ pc[t] = "idle"
  /\ \/ p \notin DOMAIN path_to_inode /\ UNCHANGED <<path_to_inode, locals>>
     \/ /\ p \in DOMAIN path_to_inode
        /\ path_to_inode' = Remove(path_to_inode, p)
        /\ Goto(t, "remove_entry_of", path_to_inode[p], RootPath)
  /\ UNCHANGED <<inode_to_entry, next_inode, dead>>

RemoveEntryOf(t) ==
  /\ pc[t] = "remove_entry_of"
  /\ inode_to_entry' = Remove(inode_to_entry, inode[t])
  /\ dead' = dead \cup ({inode[t]} \cap DOMAIN inode_to_entry)
  /\ Return(t)
  /\ UNCHANGED <<path_to_inode, next_inode>>

-----------------------------------------------------------------------------
(* rename *)

\* Mutant: the old path is looked up, not removed.
RenameByGet(t, old, new) ==
  /\ "rename" \in Ops
  /\ pc[t] = "idle"
  /\ \/ old \notin DOMAIN path_to_inode /\ UNCHANGED locals
     \/ old \in DOMAIN path_to_inode /\ Goto(t, "rename_insert", path_to_inode[old], new)
  /\ UNCHANGED <<path_to_inode, inode_to_entry, next_inode, dead>>

Rename(t, old, new) ==
  /\ "rename" \in Ops
  /\ pc[t] = "idle"
  /\ \/ old \notin DOMAIN path_to_inode /\ UNCHANGED <<path_to_inode, locals>>
     \/ /\ old \in DOMAIN path_to_inode
        /\ path_to_inode' = Remove(path_to_inode, old)
        /\ Goto(t, "rename_insert", path_to_inode[old], new)
  /\ UNCHANGED <<inode_to_entry, next_inode, dead>>

RenameInsert(t) ==
  /\ pc[t] = "rename_insert"
  /\ path_to_inode' = Insert(path_to_inode, path[t], inode[t])
  /\ Goto(t, "rename_entry", inode[t], path[t])
  /\ UNCHANGED <<inode_to_entry, next_inode, dead>>

\* Mutant: the entry keeps its old path.
RenameEntryForgotten(t) ==
  /\ pc[t] = "rename_entry"
  /\ Return(t)
  /\ UNCHANGED <<path_to_inode, inode_to_entry, next_inode, dead>>

\* An entry that is gone by now is left alone.
RenameEntry(t) ==
  /\ pc[t] = "rename_entry"
  /\ inode_to_entry' = IF inode[t] \in DOMAIN inode_to_entry
                       THEN Insert(inode_to_entry, inode[t], path[t])
                       ELSE inode_to_entry
  /\ Return(t)
  /\ UNCHANGED <<path_to_inode, next_inode, dead>>

-----------------------------------------------------------------------------
Step(t) ==
  \/ \E p \in ChildPaths : GetOrCreate(t, p)
  \/ FetchAdd(t)
  \/ InsertPath(t)
  \/ InsertEntry(t)
  \/ \E p \in ChildPaths : LookupForRemove(t, p)
  \/ RemoveEntry(t)
  \/ RemovePath(t)
  \/ \E p \in ChildPaths : RemoveByPath(t, p)
  \/ RemoveEntryOf(t)
  \/ \E old, new \in ChildPaths : Rename(t, old, new)
  \/ RenameInsert(t)
  \/ RenameEntry(t)

Next == \E t \in Threads : Step(t)

Spec == Init /\ [][Next]_vars

-----------------------------------------------------------------------------
Labels == {"idle", "fetch_add", "insert_path", "insert_entry", "remove_entry",
           "remove_path", "remove_entry_of", "rename_insert", "rename_entry"}

\* The type of the table and of what the threads hold.
TypeOK ==
  /\ DOMAIN path_to_inode \subseteq Paths
  /\ \A p \in DOMAIN path_to_inode : path_to_inode[p] \in Nat
  /\ DOMAIN inode_to_entry \subseteq Nat
  /\ \A i \in DOMAIN inode_to_entry : inode_to_entry[i] \in Paths
  /\ next_inode \in Nat
  /\ pc \in [Threads -> Labels]
  /\ inode \in [Threads -> Nat]
  /\ path \in [Threads -> Paths]
  /\ dead \subseteq Nat

\* Two paths never resolve to one inode number, however creations, renames and
\* removals interleave (path_to_inode of inode.rs): otherwise the kernel would
\* take two files for one and share its page cache between them.
PathsHaveDistinctInodes ==
  \A p, q \in DOMAIN path_to_inode :
    path_to_inode[p] = path_to_inode[q] => p = q

\* A number whose entry was removed never gets an entry again, whichever thread
\* is still on its way with it: attribute cache, data cache and write buffers
\* are keyed by number, and reuse would serve one file's bytes as another's.
InodesNeverReused == dead \cap DOMAIN inode_to_entry = {}

\* The root keeps number 1 and number 1 keeps the root's path: remove's second
\* call forgets a path read out of an entry, and rename rewrites entries.
RootIntact ==
  /\ RootPath \in DOMAIN path_to_inode
  /\ path_to_inode[RootPath] = ROOT_INODE
  /\ ROOT_INODE \in DOMAIN inode_to_entry
  /\ inode_to_entry[ROOT_INODE] = RootPath

Quiescent == \A t \in Threads : pc[t] = "idle"

\* Between requests every mapped path leads to an entry that carries this very
\* path, so get_path(get_inode(p)) = p: what core.rs relies on to address OBS.
MappedPathsResolve ==
  Quiescent =>
    \A p \in DOMAIN path_to_inode :
      /\ path_to_inode[p] \in DOMAIN inode_to_entry
      /\ inode_to_entry[path_to_inode[p]] = p

-----------------------------------------------------------------------------
(* The abstract specification implemented *)

\* Who holds a number: the path mapped to it, a request on its way to map it,
\* or, once it was handed out, nobody.
Holder(i) ==
  IF \E p \in DOMAIN path_to_inode : path_to_inode[p] = i
  THEN CHOOSE p \in DOMAIN path_to_inode : path_to_inode[p] = i
  ELSE IF i >= next_inode THEN "fresh"
  ELSE IF \E t \in Threads : pc[t] \in {"insert_path", "rename_insert"} /\ inode[t] = i
  THEN "request"
  ELSE "gone"

Identity ==
  INSTANCE InodeIdentity WITH
    Numbers <- ROOT_INODE..MaxInode,
    holder <- [i \in ROOT_INODE..MaxInode |-> Holder(i)]

\* However the calls of the methods interleave, every number goes the way
\* InodeIdentity lays down: above all, a number that a removal, a rename over its
\* path or a second creation took its path from never names a path again.
KeepsIdentity == Identity!Spec
==============================================================================
