------------------------- MODULE InodeManagerProofs -------------------------
(***************************************************************************)
(* What InodeManager guarantees for every set of threads and paths and     *)
(* every bound: the table is well typed, two paths never share an inode    *)
(* number, a number whose entry is gone never comes back, numbers live as  *)
(* InodeIdentity says, and paths resolve while methods do not overlap.     *)
(***************************************************************************)
EXTENDS InodeManagerSerial, FiniteSetTheorems, TLAPS

\* Threads that took a number out of the counter or out of path_to_inode and
\* have not put it into path_to_inode yet.
Carries(t) == pc[t] \in {"insert_path", "rename_insert"}

\* Threads inside get_or_create_inode that own a new number without an entry.
Creates(t) == pc[t] \in {"insert_path", "insert_entry"}

\* Every number in sight was handed out by the counter.
Allocated ==
  /\ \A p \in DOMAIN path_to_inode : path_to_inode[p] < next_inode
  /\ \A i \in DOMAIN inode_to_entry \cup dead : i < next_inode
  /\ \A t \in Threads : Carries(t) \/ Creates(t) => inode[t] < next_inode

\* A carried number is in no path's slot and in nobody else's hands.
CarriedExclusively ==
  /\ \A t \in Threads : Carries(t) =>
       \A p \in DOMAIN path_to_inode : path_to_inode[p] # inode[t]
  /\ \A t, u \in Threads :
       Carries(t) /\ Carries(u) /\ inode[t] = inode[u] => t = u

\* A number under creation has no entry, never had one, and has one creator.
CreatedOnce ==
  /\ \A t \in Threads : Creates(t) =>
       inode[t] \notin DOMAIN inode_to_entry \cup dead
  /\ \A t, u \in Threads :
       Creates(t) /\ Creates(u) /\ inode[t] = inode[u] => t = u

\* Nobody carries the root's number or is about to forget or rewrite its path.
RootReserved ==
  /\ \A i \in DOMAIN inode_to_entry : i # ROOT_INODE => inode_to_entry[i] \in ChildPaths
  /\ \A t \in Threads : inode[t] # ROOT_INODE
  /\ \A t \in Threads :
       pc[t] \notin {"idle", "remove_entry", "remove_entry_of"} => path[t] \in ChildPaths

\* The inductive invariant.
TableInv ==
  /\ TypeOK
  /\ Allocated
  /\ PathsHaveDistinctInodes
  /\ CarriedExclusively
  /\ CreatedOnce
  /\ InodesNeverReused
  /\ RootIntact
  /\ RootReserved

-----------------------------------------------------------------------------
\* The initial table, with nothing but the root in it, is as it should be.
LEMMA InitTable == Init => TableInv
<1> SUFFICES ASSUME Init PROVE TableInv
  OBVIOUS
<1> USE DEF Init, ROOT_INODE, NoInode
<1>1. TypeOK
  BY DEF TypeOK, Paths, Labels
<1>2. Allocated
  BY DEF Allocated, Carries, Creates
<1>3. PathsHaveDistinctInodes /\ InodesNeverReused
  BY DEF PathsHaveDistinctInodes, InodesNeverReused
<1>4. CarriedExclusively /\ CreatedOnce
  BY DEF CarriedExclusively, CreatedOnce, Carries, Creates
<1>5. RootIntact /\ RootReserved
  BY DEF RootIntact, RootReserved
<1> QED
  BY <1>1, <1>2, <1>3, <1>4, <1>5 DEF TableInv

\* Every step of every thread keeps the table as it should be: the numbers
\* in path_to_inode, in the hands of a rename and in the hands of a creation
\* are kept apart by the atomicity of fetch_add and of DashMap::remove.
LEMMA StepTable == TableInv /\ [Next]_vars => TableInv'
<1> SUFFICES ASSUME TableInv, [Next]_vars PROVE TableInv'
  OBVIOUS
<1> USE DEF TableInv
<1>1. CASE UNCHANGED vars
  BY <1>1 DEF vars, TypeOK, Allocated, PathsHaveDistinctInodes, CarriedExclusively,
             CreatedOnce, InodesNeverReused, RootIntact, RootReserved, Carries, Creates
<1>2. CASE Next
  <2> PICK t \in Threads : Step(t)
    BY <1>2 DEF Next
  <2>1. ASSUME NEW p \in ChildPaths, GetOrCreate(t, p)
       PROVE  TableInv'
    <3> USE <2>1 DEF GetOrCreate, Goto, NoInode, locals, TypeOK
    <3>1. TypeOK'
      BY DEF Paths, Labels
    <3>2. Allocated'
      BY DEF Allocated, Carries, Creates
    <3>3. PathsHaveDistinctInodes'
      BY DEF PathsHaveDistinctInodes, CarriedExclusively, Carries
    <3>4. CarriedExclusively'
      BY DEF PathsHaveDistinctInodes, CarriedExclusively, Allocated, Carries
    <3>5. CreatedOnce'
      BY DEF CreatedOnce, Allocated, Creates
    <3>6. InodesNeverReused'
      BY DEF InodesNeverReused, CreatedOnce, Creates
    <3>7. RootIntact'
      BY PathsAssumption DEF RootIntact, RootReserved, Carries, ROOT_INODE
    <3>8. RootReserved'
      BY PathsAssumption DEF RootIntact, RootReserved, PathsHaveDistinctInodes, Allocated,
           Paths, ROOT_INODE
    <3> QED
      BY <3>1, <3>2, <3>3, <3>4, <3>5, <3>6, <3>7, <3>8
  <2>2. CASE FetchAdd(t)
    <3> USE <2>2 DEF FetchAdd, Goto, TypeOK
    <3>1. TypeOK'
      BY DEF Paths, Labels
    <3>2. Allocated'
      <4>1. next_inode < next_inode' /\ next_inode \in Nat
        OBVIOUS
      <4>2. \A m \in Nat : m < next_inode => m < next_inode'
        OBVIOUS
      <4>3. /\ \A p \in DOMAIN path_to_inode : path_to_inode[p] < next_inode'
            /\ \A i \in DOMAIN inode_to_entry \cup dead : i < next_inode'
        BY <4>2 DEF Allocated
      <4>4. ASSUME NEW u \in Threads, Carries(u)' \/ Creates(u)'
            PROVE  inode'[u] < next_inode'
        <5>1. CASE u = t
          BY <4>1, <5>1
        <5>2. CASE u # t
          <6>1. Carries(u) \/ Creates(u)
            BY <4>4, <5>2 DEF Carries, Creates
          <6>2. inode[u] < next_inode /\ inode[u] \in Nat /\ inode'[u] = inode[u]
            BY <5>2, <6>1 DEF Allocated
          <6> QED
            BY <6>2, <4>2
        <5> QED
          BY <5>1, <5>2
      <4> QED
        BY <4>3, <4>4 DEF Allocated
    <3>3. PathsHaveDistinctInodes'
      BY DEF PathsHaveDistinctInodes, CarriedExclusively, Carries
    <3>4. CarriedExclusively'
      BY DEF PathsHaveDistinctInodes, CarriedExclusively, Allocated, Carries
    <3>5. CreatedOnce'
      BY DEF CreatedOnce, Allocated, Creates
    <3>6. InodesNeverReused'
      BY DEF InodesNeverReused, CreatedOnce, Creates
    <3>7. RootIntact'
      BY PathsAssumption DEF RootIntact, RootReserved, Carries, ROOT_INODE
    <3>8. RootReserved'
      BY PathsAssumption DEF RootIntact, RootReserved, PathsHaveDistinctInodes, Allocated,
           Paths, ROOT_INODE
    <3> QED
      BY <3>1, <3>2, <3>3, <3>4, <3>5, <3>6, <3>7, <3>8
  <2>3. CASE InsertPath(t)
    <3> USE <2>3 DEF InsertPath, Goto, Insert, TypeOK
    <3>1. TypeOK'
      BY DEF Paths, Labels
    <3>2. Allocated'
      BY DEF Allocated, Carries, Creates
    <3>3. PathsHaveDistinctInodes'
      BY DEF PathsHaveDistinctInodes, CarriedExclusively, Carries
    <3>4. CarriedExclusively'
      BY DEF PathsHaveDistinctInodes, CarriedExclusively, Allocated, Carries
    <3>5. CreatedOnce'
      BY DEF CreatedOnce, Allocated, Creates
    <3>6. InodesNeverReused'
      BY DEF InodesNeverReused, CreatedOnce, Creates
    <3>7. RootIntact'
      BY PathsAssumption DEF RootIntact, RootReserved, Carries, ROOT_INODE
    <3>8. RootReserved'
      BY PathsAssumption DEF RootIntact, RootReserved, PathsHaveDistinctInodes, Allocated,
           Paths, ROOT_INODE
    <3> QED
      BY <3>1, <3>2, <3>3, <3>4, <3>5, <3>6, <3>7, <3>8
  <2>4. CASE InsertEntry(t)
    <3> USE <2>4 DEF InsertEntry, Return, Goto, NoInode, Insert, TypeOK
    <3>1. TypeOK'
      BY DEF Paths, Labels
    <3>2. Allocated'
      BY DEF Allocated, Carries, Creates
    <3>3. PathsHaveDistinctInodes'
      BY DEF PathsHaveDistinctInodes, CarriedExclusively, Carries
    <3>4. CarriedExclusively'
      BY DEF PathsHaveDistinctInodes, CarriedExclusively, Allocated, Carries
    <3>5. CreatedOnce'
      BY DEF CreatedOnce, Allocated, Creates
    <3>6. InodesNeverReused'
      BY DEF InodesNeverReused, CreatedOnce, Creates
    <3>7. RootIntact'
      BY PathsAssumption DEF RootIntact, RootReserved, Carries, ROOT_INODE
    <3>8. RootReserved'
      BY PathsAssumption DEF RootIntact, RootReserved, PathsHaveDistinctInodes, Allocated,
           Paths, ROOT_INODE
    <3> QED
      BY <3>1, <3>2, <3>3, <3>4, <3>5, <3>6, <3>7, <3>8
  <2>5. ASSUME NEW p \in ChildPaths, LookupForRemove(t, p)
       PROVE  TableInv'
    <3> USE <2>5 DEF LookupForRemove, Goto, locals, TypeOK
    <3>1. TypeOK'
      BY DEF Paths, Labels
    <3>2. Allocated'
      BY DEF Allocated, Carries, Creates
    <3>3. PathsHaveDistinctInodes'
      BY DEF PathsHaveDistinctInodes, CarriedExclusively, Carries
    <3>4. CarriedExclusively'
      BY DEF PathsHaveDistinctInodes, CarriedExclusively, Allocated, Carries
    <3>5. CreatedOnce'
      BY DEF CreatedOnce, Allocated, Creates
    <3>6. InodesNeverReused'
      BY DEF InodesNeverReused, CreatedOnce, Creates
    <3>7. RootIntact'
      BY PathsAssumption DEF RootIntact, RootReserved, Carries, ROOT_INODE
    <3>8. RootReserved'
      BY PathsAssumption DEF RootIntact, RootReserved, PathsHaveDistinctInodes, Allocated,
           Paths, ROOT_INODE
    <3> QED
      BY <3>1, <3>2, <3>3, <3>4, <3>5, <3>6, <3>7, <3>8
  <2>6. CASE RemoveEntry(t)
    <3> USE <2>6 DEF RemoveEntry, Goto, Return, NoInode, Remove, TypeOK
    <3>1. TypeOK'
      BY DEF Paths, Labels
    <3>2. Allocated'
      BY DEF Allocated, Carries, Creates
    <3>3. PathsHaveDistinctInodes'
      BY DEF PathsHaveDistinctInodes, CarriedExclusively, Carries
    <3>4. CarriedExclusively'
      BY DEF PathsHaveDistinctInodes, CarriedExclusively, Allocated, Carries
    <3>5. CreatedOnce'
      BY DEF CreatedOnce, Allocated, Creates
    <3>6. InodesNeverReused'
      BY DEF InodesNeverReused, CreatedOnce, Creates
    <3>7. RootIntact'
      BY PathsAssumption DEF RootIntact, RootReserved, Carries, ROOT_INODE
    <3>8. RootReserved'
      BY PathsAssumption DEF RootIntact, RootReserved, PathsHaveDistinctInodes, Allocated,
           Paths, ROOT_INODE
    <3> QED
      BY <3>1, <3>2, <3>3, <3>4, <3>5, <3>6, <3>7, <3>8
  <2>7. CASE RemovePath(t)
    <3> USE <2>7 DEF RemovePath, Return, Goto, NoInode, Remove, TypeOK
    <3>1. TypeOK'
      BY DEF Paths, Labels
    <3>2. Allocated'
      BY DEF Allocated, Carries, Creates
    <3>3. PathsHaveDistinctInodes'
      BY DEF PathsHaveDistinctInodes, CarriedExclusively, Carries
    <3>4. CarriedExclusively'
      BY DEF PathsHaveDistinctInodes, CarriedExclusively, Allocated, Carries
    <3>5. CreatedOnce'
      BY DEF CreatedOnce, Allocated, Creates
    <3>6. InodesNeverReused'
      BY DEF InodesNeverReused, CreatedOnce, Creates
    <3>7. RootIntact'
      BY PathsAssumption DEF RootIntact, RootReserved, Carries, ROOT_INODE
    <3>8. RootReserved'
      BY PathsAssumption DEF RootIntact, RootReserved, PathsHaveDistinctInodes, Allocated,
           Paths, ROOT_INODE
    <3> QED
      BY <3>1, <3>2, <3>3, <3>4, <3>5, <3>6, <3>7, <3>8
  <2>8. ASSUME NEW p \in ChildPaths, RemoveByPath(t, p)
       PROVE  TableInv'
    <3> USE <2>8 DEF RemoveByPath, Goto, locals, Remove, TypeOK
    <3>1. TypeOK'
      BY DEF Paths, Labels
    <3>2. Allocated'
      BY DEF Allocated, Carries, Creates
    <3>3. PathsHaveDistinctInodes'
      BY DEF PathsHaveDistinctInodes, CarriedExclusively, Carries
    <3>4. CarriedExclusively'
      BY DEF PathsHaveDistinctInodes, CarriedExclusively, Allocated, Carries
    <3>5. CreatedOnce'
      BY DEF CreatedOnce, Allocated, Creates
    <3>6. InodesNeverReused'
      BY DEF InodesNeverReused, CreatedOnce, Creates
    <3>7. RootIntact'
      BY PathsAssumption DEF RootIntact, RootReserved, Carries, ROOT_INODE
    <3>8. RootReserved'
      BY PathsAssumption DEF RootIntact, RootReserved, PathsHaveDistinctInodes, Allocated,
           Paths, ROOT_INODE
    <3> QED
      BY <3>1, <3>2, <3>3, <3>4, <3>5, <3>6, <3>7, <3>8
  <2>9. CASE RemoveEntryOf(t)
    <3> USE <2>9 DEF RemoveEntryOf, Return, Goto, NoInode, Remove, TypeOK
    <3>1. TypeOK'
      BY DEF Paths, Labels
    <3>2. Allocated'
      BY DEF Allocated, Carries, Creates
    <3>3. PathsHaveDistinctInodes'
      BY DEF PathsHaveDistinctInodes, CarriedExclusively, Carries
    <3>4. CarriedExclusively'
      BY DEF PathsHaveDistinctInodes, CarriedExclusively, Allocated, Carries
    <3>5. CreatedOnce'
      BY DEF CreatedOnce, Allocated, Creates
    <3>6. InodesNeverReused'
      BY DEF InodesNeverReused, CreatedOnce, Creates
    <3>7. RootIntact'
      BY PathsAssumption DEF RootIntact, RootReserved, Carries, ROOT_INODE
    <3>8. RootReserved'
      BY PathsAssumption DEF RootIntact, RootReserved, PathsHaveDistinctInodes, Allocated,
           Paths, ROOT_INODE
    <3> QED
      BY <3>1, <3>2, <3>3, <3>4, <3>5, <3>6, <3>7, <3>8
  <2>10. ASSUME NEW old \in ChildPaths, NEW new \in ChildPaths, Rename(t, old, new)
       PROVE  TableInv'
    <3> USE <2>10 DEF Rename, Goto, locals, Remove, TypeOK
    <3>1. TypeOK'
      BY DEF Paths, Labels
    <3>2. Allocated'
      BY DEF Allocated, Carries, Creates
    <3>3. PathsHaveDistinctInodes'
      BY DEF PathsHaveDistinctInodes, CarriedExclusively, Carries
    <3>4. CarriedExclusively'
      BY DEF PathsHaveDistinctInodes, CarriedExclusively, Allocated, Carries
    <3>5. CreatedOnce'
      BY DEF CreatedOnce, Allocated, Creates
    <3>6. InodesNeverReused'
      BY DEF InodesNeverReused, CreatedOnce, Creates
    <3>7. RootIntact'
      BY PathsAssumption DEF RootIntact, RootReserved, Carries, ROOT_INODE
    <3>8. RootReserved'
      BY PathsAssumption DEF RootIntact, RootReserved, PathsHaveDistinctInodes, Allocated,
           Paths, ROOT_INODE
    <3> QED
      BY <3>1, <3>2, <3>3, <3>4, <3>5, <3>6, <3>7, <3>8
  <2>11. CASE RenameInsert(t)
    <3> USE <2>11 DEF RenameInsert, Goto, Insert, TypeOK
    <3>1. TypeOK'
      BY DEF Paths, Labels
    <3>2. Allocated'
      BY DEF Allocated, Carries, Creates
    <3>3. PathsHaveDistinctInodes'
      BY DEF PathsHaveDistinctInodes, CarriedExclusively, Carries
    <3>4. CarriedExclusively'
      BY DEF PathsHaveDistinctInodes, CarriedExclusively, Allocated, Carries
    <3>5. CreatedOnce'
      BY DEF CreatedOnce, Allocated, Creates
    <3>6. InodesNeverReused'
      BY DEF InodesNeverReused, CreatedOnce, Creates
    <3>7. RootIntact'
      BY PathsAssumption DEF RootIntact, RootReserved, Carries, ROOT_INODE
    <3>8. RootReserved'
      BY PathsAssumption DEF RootIntact, RootReserved, PathsHaveDistinctInodes, Allocated,
           Paths, ROOT_INODE
    <3> QED
      BY <3>1, <3>2, <3>3, <3>4, <3>5, <3>6, <3>7, <3>8
  <2>12. CASE RenameEntry(t)
    <3> USE <2>12 DEF RenameEntry, Return, Goto, NoInode, Insert, TypeOK
    <3>1. TypeOK'
      BY DEF Paths, Labels
    <3>2. Allocated'
      BY DEF Allocated, Carries, Creates
    <3>3. PathsHaveDistinctInodes'
      BY DEF PathsHaveDistinctInodes, CarriedExclusively, Carries
    <3>4. CarriedExclusively'
      BY DEF PathsHaveDistinctInodes, CarriedExclusively, Allocated, Carries
    <3>5. CreatedOnce'
      BY DEF CreatedOnce, Allocated, Creates
    <3>6. InodesNeverReused'
      BY DEF InodesNeverReused, CreatedOnce, Creates
    <3>7. RootIntact'
      BY PathsAssumption DEF RootIntact, RootReserved, Carries, ROOT_INODE
    <3>8. RootReserved'
      BY PathsAssumption DEF RootIntact, RootReserved, PathsHaveDistinctInodes, Allocated,
           Paths, ROOT_INODE
    <3> QED
      BY <3>1, <3>2, <3>3, <3>4, <3>5, <3>6, <3>7, <3>8
  <2> QED
    BY <2>1, <2>2, <2>3, <2>4, <2>5, <2>6, <2>7, <2>8, <2>9, <2>10, <2>11, <2>12 DEF Step
<1> QED
  BY <1>1, <1>2

\* The inductive invariant holds in every reachable state.
THEOREM TableInvariant == Spec => []TableInv
<1> QED
  BY InitTable, StepTable, PTL DEF Spec

\* The table and the threads' locals keep their types (inode.rs).
THEOREM TypeCorrect == Spec => []TypeOK
<1>1. TableInv => TypeOK
  BY DEF TableInv
<1> QED
  BY <1>1, TableInvariant, PTL

\* No two paths ever resolve to one inode number, whatever the interleaving of
\* creations, renames and removals (path_to_inode of inode.rs).
THEOREM DistinctInodes == Spec => []PathsHaveDistinctInodes
<1>1. TableInv => PathsHaveDistinctInodes
  BY DEF TableInv
<1> QED
  BY <1>1, TableInvariant, PTL

\* An inode number is never given a second life, so whatever the caches still
\* hold under a dead number is never served for another file.
THEOREM NeverReused == Spec => []InodesNeverReused
<1>1. TableInv => InodesNeverReused
  BY DEF TableInv
<1> QED
  BY <1>1, TableInvariant, PTL

\* The root is never forgotten, renumbered or renamed.
THEOREM RootStays == Spec => []RootIntact
<1>1. TableInv => RootIntact
  BY DEF TableInv
<1> QED
  BY <1>1, TableInvariant, PTL

-----------------------------------------------------------------------------
(* InodeManager implements InodeIdentity *)

\* The requests that have passed the bound's check find a number below it.
BoundKept == next_inode + Cardinality(Allocating) <= MaxInode + 1

\* What Holder says, case by case, where no two paths share a number.
HolderCases ==
  \A i \in ROOT_INODE..MaxInode :
    /\ \A p \in DOMAIN path_to_inode : path_to_inode[p] = i => Holder(i) = p
    /\ (\A p \in DOMAIN path_to_inode : path_to_inode[p] # i) =>
         /\ i >= next_inode => Holder(i) = "fresh"
         /\ i < next_inode /\ (\E t \in Threads : Carries(t) /\ inode[t] = i) =>
              Holder(i) = "request"
         /\ i < next_inode /\ (\A t \in Threads : Carries(t) => inode[t] # i) =>
              Holder(i) = "gone"

\* The cases of Holder follow from the table's invariant.
LEMMA HolderByCases == TableInv => HolderCases
<1> SUFFICES ASSUME TableInv, NEW i \in ROOT_INODE..MaxInode
             PROVE  HolderCases!(i)
  BY DEF HolderCases
<1>1. ASSUME NEW p \in DOMAIN path_to_inode, path_to_inode[p] = i
      PROVE  Holder(i) = p
  BY <1>1 DEF Holder, TableInv, PathsHaveDistinctInodes
<1>2. ASSUME \A p \in DOMAIN path_to_inode : path_to_inode[p] # i
      PROVE  /\ i >= next_inode => Holder(i) = "fresh"
             /\ i < next_inode /\ (\E t \in Threads : Carries(t) /\ inode[t] = i) =>
                  Holder(i) = "request"
             /\ i < next_inode /\ (\A t \in Threads : Carries(t) => inode[t] # i) =>
                  Holder(i) = "gone"
  BY <1>2 DEF Holder, Carries, TableInv, TypeOK
<1> QED
  BY <1>1, <1>2

\* The threads are finitely many, so those about to draw a number can be counted.
LEMMA AllocatingFinite ==
  IsFiniteSet(Allocating) /\ Cardinality(Allocating) \in Nat
BY BoundAssumption, FS_Subset, FS_CardinalityType DEF Allocating

\* The bound holds at first.
LEMMA InitBound == Init => BoundKept
<1> SUFFICES ASSUME Init PROVE BoundKept
  OBVIOUS
<1>1. Allocating = {}
  BY DEF Init, Allocating
<1> QED
  BY <1>1, FS_EmptySet, BoundAssumption DEF Init, BoundKept, ROOT_INODE

\* No step exceeds the bound: a number drawn was spoken for before.
LEMMA StepBound == TableInv /\ BoundKept /\ [Next]_vars => BoundKept'
<1> SUFFICES ASSUME TableInv, BoundKept, [Next]_vars PROVE BoundKept'
  OBVIOUS
<1> USE DEF TableInv, TypeOK
<1>1. ASSUME NEW t \in Threads, NEW p \in ChildPaths, GetOrCreate(t, p)
      PROVE  BoundKept'
  <2>1. CASE UNCHANGED locals
    BY <1>1, <2>1 DEF GetOrCreate, locals, BoundKept, Allocating
  <2>2. CASE next_inode + Cardinality(Allocating) <= MaxInode /\ Goto(t, "fetch_add", NoInode, p)
    <3>1. Allocating' = Allocating \cup {t} /\ t \notin Allocating
      BY <1>1, <2>2 DEF GetOrCreate, Goto, Allocating
    <3>2. Cardinality(Allocating \cup {t}) = Cardinality(Allocating) + 1
      BY <3>1, AllocatingFinite, FS_AddElement
    <3>3. Cardinality(Allocating)' = Cardinality(Allocating) + 1
      BY <3>1, <3>2
    <3> QED
      BY <1>1, <2>2, <3>3, AllocatingFinite, BoundAssumption DEF GetOrCreate, BoundKept
  <2> QED
    BY <1>1, <2>1, <2>2 DEF GetOrCreate
<1>2. ASSUME NEW t \in Threads, FetchAdd(t)
      PROVE  BoundKept'
  <2>1. Allocating' = Allocating \ {t} /\ t \in Allocating
    BY <1>2 DEF FetchAdd, Goto, Allocating
  <2>2. Cardinality(Allocating \ {t}) = Cardinality(Allocating) - 1
    BY <2>1, AllocatingFinite, FS_RemoveElement
  <2>3. Cardinality(Allocating)' = Cardinality(Allocating) - 1
    BY <2>1, <2>2
  <2> QED
    BY <1>2, <2>3, AllocatingFinite, BoundAssumption DEF FetchAdd, BoundKept
<1>3. ASSUME Allocating' = Allocating, next_inode' = next_inode
      PROVE  BoundKept'
  BY <1>3 DEF BoundKept
<1>4. CASE UNCHANGED vars
  BY <1>3, <1>4 DEF vars, Allocating
<1>5. ASSUME NEW t \in Threads, Step(t)
      PROVE  BoundKept'
  <2> USE DEF Goto, Return, locals, Allocating
  <2>1. CASE InsertPath(t) \/ InsertEntry(t)
    BY <1>3, <2>1 DEF InsertPath, InsertEntry
  <2>2. CASE \E p \in ChildPaths : LookupForRemove(t, p)
    BY <1>3, <2>2 DEF LookupForRemove
  <2>3. CASE RemoveEntry(t) \/ RemovePath(t)
    BY <1>3, <2>3 DEF RemoveEntry, RemovePath
  <2>4. CASE \E p \in ChildPaths : RemoveByPath(t, p)
    BY <1>3, <2>4 DEF RemoveByPath
  <2>5. CASE RemoveEntryOf(t)
    BY <1>3, <2>5 DEF RemoveEntryOf
  <2>6. CASE \E old, new \in ChildPaths : Rename(t, old, new)
    BY <1>3, <2>6 DEF Rename
  <2>7. CASE RenameInsert(t) \/ RenameEntry(t)
    BY <1>3, <2>7 DEF RenameInsert, RenameEntry
  <2> QED
    BY <1>1, <1>2, <1>5, <2>1, <2>2, <2>3, <2>4, <2>5, <2>6, <2>7 DEF Step
<1> QED
  BY <1>4, <1>5 DEF Next

\* A thread about to draw finds a number below the bound.
LEMMA DrawsBelowBound ==
  ASSUME TableInv, BoundKept, NEW t \in Threads, pc[t] = "fetch_add"
  PROVE  next_inode \in ROOT_INODE..MaxInode
<1>1. t \in Allocating
  BY DEF Allocating
<1>2. Cardinality(Allocating) # 0
  BY <1>1, AllocatingFinite, FS_EmptySet
<1>3. next_inode > ROOT_INODE
  BY DEF TableInv, Allocated, RootIntact
<1> QED
  BY <1>2, <1>3, AllocatingFinite, BoundAssumption DEF BoundKept, TableInv, TypeOK, ROOT_INODE

\* At first the root has its number and every other number is to be issued.
LEMMA InitIdentity == Init => Identity!Init
<1> SUFFICES ASSUME Init PROVE Identity!Init
  OBVIOUS
<1> DEFINE Numbers == ROOT_INODE..MaxInode
<1>1. Identity!First = ROOT_INODE
  BY BoundAssumption DEF Identity!First, ROOT_INODE
<1>2. HolderCases
  BY InitTable, HolderByCases
<1>3. ASSUME NEW i \in Numbers
      PROVE  Holder(i) = IF i = ROOT_INODE THEN RootPath ELSE "fresh"
  <2>1. CASE i = ROOT_INODE
    BY <1>2, <2>1 DEF HolderCases, Init
  <2>2. CASE i # ROOT_INODE
    BY <1>2, <2>2 DEF HolderCases, Init, ROOT_INODE
  <2> QED
    BY <2>1, <2>2
<1> QED
  BY <1>1, <1>3 DEF Identity!Init

\* Where no path is mapped anew and no thread picks a number up or lays one down,
\* every number keeps its holder.
LEMMA HoldersStay ==
  ASSUME TableInv, TableInv', next_inode' = next_inode,
         DOMAIN path_to_inode' = DOMAIN path_to_inode,
         \A p \in DOMAIN path_to_inode : path_to_inode'[p] = path_to_inode[p],
         \A t \in Threads : Carries(t)' = Carries(t),
         \A t \in Threads : Carries(t) => inode'[t] = inode[t]
  PROVE  \A i \in ROOT_INODE..MaxInode : Holder(i)' = Holder(i)
<1>1. HolderCases /\ HolderCases'
  BY HolderByCases, PTL
<1> SUFFICES ASSUME NEW i \in ROOT_INODE..MaxInode PROVE Holder(i)' = Holder(i)
  OBVIOUS
<1>2. CASE \E p \in DOMAIN path_to_inode : path_to_inode[p] = i
  BY <1>1, <1>2 DEF HolderCases
<1>3. CASE \A p \in DOMAIN path_to_inode : path_to_inode[p] # i
  BY <1>1, <1>3 DEF HolderCases, TableInv, TypeOK
<1> QED
  BY <1>2, <1>3

\* Then nothing happens to the numbers.
LEMMA IdentityStutters ==
  ASSUME \A i \in ROOT_INODE..MaxInode : Holder(i)' = Holder(i)
  PROVE  UNCHANGED [i \in ROOT_INODE..MaxInode |-> Holder(i)]
OBVIOUS

\* No path has the number that stands for none, and no request carries it.
NumbersReal ==
  /\ \A p \in DOMAIN path_to_inode : path_to_inode[p] # NoInode
  /\ \A t \in Threads : Carries(t) => inode[t] # NoInode

\* Numbers come from the counter, which starts above it.
LEMMA InitReal == Init => NumbersReal
BY DEF Init, NumbersReal, Carries, ROOT_INODE, NoInode

LEMMA StepReal == TableInv /\ NumbersReal /\ [Next]_vars => NumbersReal'
<1> SUFFICES ASSUME TableInv, NumbersReal, [Next]_vars PROVE NumbersReal'
  OBVIOUS
<1>1. next_inode # NoInode
  BY DEF TableInv, Allocated, RootIntact, TypeOK, NoInode
<1> USE DEF TableInv, TypeOK, NumbersReal, Carries
<1>2. CASE UNCHANGED vars
  BY <1>2 DEF vars
<1>3. ASSUME NEW t \in Threads, Step(t)
      PROVE  NumbersReal'
  <2> USE DEF Goto, Return, locals, Insert, Remove
  <2>1. CASE (\E p \in ChildPaths : GetOrCreate(t, p)) \/ FetchAdd(t)
    BY <1>1, <2>1 DEF GetOrCreate, FetchAdd
  <2>2. CASE InsertPath(t) \/ InsertEntry(t)
    BY <2>2 DEF InsertPath, InsertEntry
  <2>3. CASE \E p \in ChildPaths : LookupForRemove(t, p) \/ RemoveByPath(t, p)
    BY <2>3 DEF LookupForRemove, RemoveByPath
  <2>4. CASE RemoveEntry(t) \/ RemovePath(t) \/ RemoveEntryOf(t)
    BY <2>4 DEF RemoveEntry, RemovePath, RemoveEntryOf
  <2>5. CASE \E old, new \in ChildPaths : Rename(t, old, new)
    BY <2>5 DEF Rename
  <2>6. CASE RenameInsert(t) \/ RenameEntry(t)
    BY <2>6 DEF RenameInsert, RenameEntry
  <2> QED
    BY <1>3, <2>1, <2>2, <2>3, <2>4, <2>5, <2>6 DEF Step
<1> QED
  BY <1>2, <1>3 DEF Next

\* The numbers of the table and those carried are among the ones accounted for.
LEMMA NumbersInRange ==
  ASSUME TableInv, BoundKept, NumbersReal
  PROVE  /\ \A p \in DOMAIN path_to_inode : path_to_inode[p] \in ROOT_INODE..MaxInode
         /\ \A t \in Threads : Carries(t) => inode[t] \in ROOT_INODE..MaxInode
<1>1. next_inode <= MaxInode + 1
  BY AllocatingFinite, BoundAssumption DEF BoundKept, TableInv, TypeOK
<1> QED
  BY <1>1, BoundAssumption
  DEF TableInv, TypeOK, Allocated, NumbersReal, ROOT_INODE, NoInode

\* The next number goes to the request that draws it.
LEMMA FetchAddIssues ==
  ASSUME TableInv, TableInv', BoundKept, NEW t \in Threads, FetchAdd(t)
  PROVE  Identity!Next
<1>1. HolderCases /\ HolderCases'
  BY HolderByCases, PTL
<1>2. next_inode \in ROOT_INODE..MaxInode
  BY DrawsBelowBound DEF FetchAdd
<1>3. next_inode \in Nat /\ next_inode' = next_inode + 1
  BY DEF FetchAdd, TableInv, TypeOK
<1>4. Holder(next_inode) = "fresh"
  BY <1>1, <1>2, <1>3 DEF HolderCases, TableInv, TypeOK, Allocated
<1>5. ASSUME NEW j \in ROOT_INODE..MaxInode, j < next_inode
      PROVE  Holder(j) # "fresh"
  BY <1>1, <1>5, HolderAssumption DEF HolderCases, TableInv, TypeOK
<1>6. ASSUME NEW j \in ROOT_INODE..MaxInode
      PROVE  Holder(j)' = IF j = next_inode THEN "request" ELSE Holder(j)
  <2>1. CASE j = next_inode
    BY <1>1, <1>3, <2>1 DEF HolderCases, FetchAdd, Goto, Carries, TableInv, TypeOK, Allocated
  <2>2. CASE j # next_inode /\ \E p \in DOMAIN path_to_inode : path_to_inode[p] = j
    BY <1>1, <2>2 DEF HolderCases, FetchAdd
  <2>3. CASE j # next_inode /\ \A p \in DOMAIN path_to_inode : path_to_inode[p] # j
    BY <1>1, <1>3, <2>3 DEF HolderCases, FetchAdd, Goto, Carries, TableInv, TypeOK
  <2> QED
    BY <2>1, <2>2, <2>3
<1>7. Identity!Issue(next_inode)
  BY <1>2, <1>4, <1>5, <1>6 DEF Identity!Issue
<1> QED
  BY <1>2, <1>7 DEF Identity!Next

\* A number is held by a path if and only if the path is mapped to it.
LEMMA HeldByPath ==
  ASSUME HolderCases, TableInv, NEW i \in ROOT_INODE..MaxInode, NEW p \in ChildPaths
  PROVE  Holder(i) = p <=> p \in DOMAIN path_to_inode /\ path_to_inode[p] = i
<1>1. CASE \E q \in DOMAIN path_to_inode : path_to_inode[q] = i
  BY <1>1 DEF HolderCases, TableInv, PathsHaveDistinctInodes
<1>2. CASE \A q \in DOMAIN path_to_inode : path_to_inode[q] # i
  <2>1. Holder(i) \in {"fresh", "request", "gone"}
    BY <1>2 DEF HolderCases, TableInv, TypeOK
  <2> QED
    BY <1>2, <2>1, HolderAssumption DEF Paths
<1> QED
  BY <1>1, <1>2

\* A request puts its number under a path; the one that was there is gone.
LEMMA InsertBinds ==
  ASSUME TableInv, TableInv', BoundKept, NumbersReal,
         NEW t \in Threads, InsertPath(t) \/ RenameInsert(t)
  PROVE  Identity!Next
<1>1. HolderCases /\ HolderCases'
  BY HolderByCases, PTL
<1> DEFINE i == inode[t]
           p == path[t]
<1> USE DEF Carries
<1>2. /\ Carries(t)
      /\ path_to_inode' = Insert(path_to_inode, p, i)
      /\ next_inode' = next_inode
      /\ \A u \in Threads : Carries(u)' <=> Carries(u) /\ u # t
      /\ \A u \in Threads : inode'[u] = inode[u]
  BY DEF InsertPath, RenameInsert, Goto, TableInv, TypeOK
<1>3. i \in ROOT_INODE..MaxInode /\ p \in ChildPaths
  BY <1>2, NumbersInRange DEF TableInv, RootReserved
<1>4. i < next_inode /\ \A q \in DOMAIN path_to_inode : path_to_inode[q] # i
  BY <1>2 DEF TableInv, Allocated, CarriedExclusively
<1>5. Holder(i) = "request"
  BY <1>1, <1>2, <1>3, <1>4 DEF HolderCases
<1>6. ASSUME NEW j \in ROOT_INODE..MaxInode
      PROVE  Holder(j)' = IF j = i THEN p ELSE IF Holder(j) = p THEN "gone" ELSE Holder(j)
  <2>1. CASE j = i
    <3>1. p \in DOMAIN path_to_inode' /\ path_to_inode'[p] = i
      BY <1>2 DEF Insert
    <3> QED
      BY <1>1, <2>1, <3>1 DEF HolderCases
  <2>2. CASE j # i /\ Holder(j) = p
    <3>1. p \in DOMAIN path_to_inode /\ path_to_inode[p] = j
      BY <1>1, <1>3, <2>2, HeldByPath
    <3>2. \A q \in DOMAIN path_to_inode' : path_to_inode'[q] # j
      BY <1>2, <2>2, <3>1 DEF Insert, TableInv, PathsHaveDistinctInodes
    <3>3. j < next_inode' /\ \A u \in Threads : Carries(u)' => inode'[u] # j
      BY <1>2, <3>1 DEF TableInv, Allocated, CarriedExclusively
    <3> QED
      BY <1>1, <2>2, <3>2, <3>3 DEF HolderCases
  <2>3. CASE j # i /\ \E q \in DOMAIN path_to_inode : q # p /\ path_to_inode[q] = j
    <3>1. PICK q \in DOMAIN path_to_inode : q # p /\ path_to_inode[q] = j
      BY <2>3
    <3>2. q \in DOMAIN path_to_inode' /\ path_to_inode'[q] = j
      BY <1>2, <3>1 DEF Insert
    <3> QED
      BY <1>1, <2>3, <3>1, <3>2 DEF HolderCases
  <2>4. CASE j # i /\ \A q \in DOMAIN path_to_inode : path_to_inode[q] # j
    <3>1. \A q \in DOMAIN path_to_inode' : path_to_inode'[q] # j
      BY <1>2, <2>4 DEF Insert
    <3>2. (\E u \in Threads : Carries(u) /\ inode[u] = j)
            <=> (\E u \in Threads : Carries(u)' /\ inode'[u] = j)
      BY <1>2, <2>4
    <3>3. Holder(j)' = Holder(j)
      BY <1>1, <1>2, <2>4, <3>1, <3>2 DEF HolderCases, TableInv, TypeOK
    <3>4. Holder(j) # p
      BY <1>1, <1>3, <2>4, HeldByPath
    <3> QED
      BY <2>4, <3>3, <3>4
  <2>5. \A q \in DOMAIN path_to_inode : path_to_inode[q] = j => q # p \/ Holder(j) = p
    BY <1>1, <1>3, HeldByPath
  <2> QED
    BY <2>1, <2>2, <2>3, <2>4, <2>5
<1>7. Identity!Bind(i, p)
  BY <1>3, <1>5, <1>6 DEF Identity!Bind
<1> QED
  BY <1>3, <1>7 DEF Identity!Next

\* A path that is forgotten gives its number up, and nobody takes it ...
LEMMA RemoveDrops ==
  ASSUME TableInv, TableInv', BoundKept, NumbersReal, NEW p \in ChildPaths,
         p \in DOMAIN path_to_inode, path_to_inode' = Remove(path_to_inode, p),
         next_inode' = next_inode,
         \A t \in Threads : Carries(t)' = Carries(t),
         \A t \in Threads : Carries(t) => inode'[t] = inode[t]
  PROVE  Identity!Next
<1>1. HolderCases /\ HolderCases'
  BY HolderByCases, PTL
<1> DEFINE i == path_to_inode[p]
<1>2. i \in ROOT_INODE..MaxInode /\ Holder(i) = p
  BY <1>1, NumbersInRange DEF HolderCases
<1>3. ASSUME NEW j \in ROOT_INODE..MaxInode
      PROVE  Holder(j)' = IF j = i THEN "gone" ELSE Holder(j)
  <2>1. CASE j = i
    <3>1. \A q \in DOMAIN path_to_inode' : path_to_inode'[q] # j
      BY <2>1 DEF Remove, TableInv, PathsHaveDistinctInodes
    <3>2. j < next_inode' /\ \A u \in Threads : Carries(u)' => inode'[u] # j
      BY <2>1 DEF TableInv, Allocated, CarriedExclusively
    <3> QED
      BY <1>1, <2>1, <3>1, <3>2 DEF HolderCases
  <2>2. CASE j # i /\ \E q \in DOMAIN path_to_inode : path_to_inode[q] = j
    BY <1>1, <2>2 DEF HolderCases, Remove
  <2>3. CASE j # i /\ \A q \in DOMAIN path_to_inode : path_to_inode[q] # j
    <3>1. \A q \in DOMAIN path_to_inode' : path_to_inode'[q] # j
      BY <2>3 DEF Remove
    <3> QED
      BY <1>1, <2>3, <3>1 DEF HolderCases, TableInv, TypeOK
  <2> QED
    BY <2>1, <2>2, <2>3
<1>4. Identity!Drop(i)
  BY <1>2, <1>3 DEF Identity!Drop
<1> QED
  BY <1>2, <1>4 DEF Identity!Next

\* ... unless the request that forgets it is a rename, which carries it on.
LEMMA RenameTakes ==
  ASSUME TableInv, TableInv', BoundKept, NumbersReal,
         NEW t \in Threads, NEW old \in ChildPaths, NEW new \in ChildPaths,
         Rename(t, old, new), old \in DOMAIN path_to_inode
  PROVE  Identity!Next
<1>1. HolderCases /\ HolderCases'
  BY HolderByCases, PTL
<1> DEFINE i == path_to_inode[old]
<1> USE DEF Carries
<1>2. /\ path_to_inode' = Remove(path_to_inode, old)
      /\ next_inode' = next_inode
      /\ Carries(t)' /\ inode'[t] = i
      /\ \A u \in Threads : u # t => Carries(u)' = Carries(u) /\ inode'[u] = inode[u]
      /\ ~Carries(t)
  BY DEF Rename, Goto, TableInv, TypeOK
<1>3. i \in ROOT_INODE..MaxInode /\ Holder(i) = old
  BY <1>1, NumbersInRange DEF HolderCases
<1>4. ASSUME NEW j \in ROOT_INODE..MaxInode
      PROVE  Holder(j)' = IF j = i THEN "request" ELSE Holder(j)
  <2>1. CASE j = i
    <3>1. \A q \in DOMAIN path_to_inode' : path_to_inode'[q] # j
      BY <1>2, <2>1 DEF Remove, TableInv, PathsHaveDistinctInodes
    <3>2. j < next_inode'
      BY <1>2, <2>1 DEF TableInv, Allocated
    <3> QED
      BY <1>1, <1>2, <2>1, <3>1, <3>2 DEF HolderCases
  <2>2. CASE j # i /\ \E q \in DOMAIN path_to_inode : path_to_inode[q] = j
    BY <1>1, <1>2, <2>2 DEF HolderCases, Remove
  <2>3. CASE j # i /\ \A q \in DOMAIN path_to_inode : path_to_inode[q] # j
    <3>1. \A q \in DOMAIN path_to_inode' : path_to_inode'[q] # j
      BY <1>2, <2>3 DEF Remove
    <3>2. (\E u \in Threads : Carries(u) /\ inode[u] = j)
            <=> (\E u \in Threads : Carries(u)' /\ inode'[u] = j)
      BY <1>2, <2>3
    <3> QED
      BY <1>1, <1>2, <2>3, <3>1, <3>2 DEF HolderCases, TableInv, TypeOK
  <2> QED
    BY <2>1, <2>2, <2>3
<1>5. Identity!Take(i)
  BY <1>3, <1>4 DEF Identity!Take
<1> QED
  BY <1>3, <1>5 DEF Identity!Next

\* Every step is one of the abstract table's or leaves all numbers where they are.
LEMMA StepIdentity ==
  ASSUME TableInv, TableInv', BoundKept, NumbersReal, [Next]_vars
  PROVE  Identity!Next \/ UNCHANGED [i \in ROOT_INODE..MaxInode |-> Holder(i)]
<1> DEFINE Stays == \A i \in ROOT_INODE..MaxInode : Holder(i)' = Holder(i)
<1> SUFFICES Identity!Next \/ Stays
  BY IdentityStutters
<1>1. CASE UNCHANGED vars
  BY <1>1, HoldersStay DEF vars, Carries
<1>2. ASSUME NEW t \in Threads, Step(t)
      PROVE  Identity!Next \/ Stays
  <2> USE DEF TableInv, TypeOK
  <2>1. ASSUME NEW p \in ChildPaths, GetOrCreate(t, p) \/ LookupForRemove(t, p)
        PROVE  Stays
    BY <2>1, HoldersStay DEF GetOrCreate, LookupForRemove, Goto, locals, Carries
  <2>2. CASE FetchAdd(t)
    BY <2>2, FetchAddIssues
  <2>3. CASE InsertPath(t) \/ RenameInsert(t)
    BY <2>3, InsertBinds
  <2>4. CASE InsertEntry(t) \/ RemoveEntry(t) \/ RemoveEntryOf(t) \/ RenameEntry(t)
    BY <2>4, HoldersStay
    DEF InsertEntry, RemoveEntry, RemoveEntryOf, RenameEntry, Return, Goto, Carries
  <2>5. CASE RemovePath(t)
    <3>1. /\ path_to_inode' = Remove(path_to_inode, path[t]) /\ path[t] \in ChildPaths
          /\ next_inode' = next_inode
          /\ \A u \in Threads : Carries(u)' = Carries(u)
          /\ \A u \in Threads : Carries(u) => inode'[u] = inode[u]
      BY <2>5 DEF RemovePath, Return, Goto, Carries, RootReserved
    <3>2. CASE path[t] \in DOMAIN path_to_inode
      BY <3>1, <3>2, RemoveDrops
    <3>3. CASE path[t] \notin DOMAIN path_to_inode
      BY <3>1, <3>3, HoldersStay DEF Remove
    <3> QED
      BY <3>2, <3>3
  <2>6. ASSUME NEW p \in ChildPaths, RemoveByPath(t, p)
        PROVE  Identity!Next \/ Stays
    <3>1. CASE p \in DOMAIN path_to_inode
      <4>1. /\ path_to_inode' = Remove(path_to_inode, p)
            /\ next_inode' = next_inode
            /\ \A u \in Threads : Carries(u)' = Carries(u)
            /\ \A u \in Threads : Carries(u) => inode'[u] = inode[u]
        BY <2>6, <3>1 DEF RemoveByPath, Goto, Carries
      <4> QED
        BY <3>1, <4>1, RemoveDrops
    <3>2. CASE p \notin DOMAIN path_to_inode
      BY <2>6, <3>2, HoldersStay DEF RemoveByPath, locals, Carries
    <3> QED
      BY <3>1, <3>2
  <2>7. ASSUME NEW old \in ChildPaths, NEW new \in ChildPaths, Rename(t, old, new)
        PROVE  Identity!Next \/ Stays
    <3>1. CASE old \in DOMAIN path_to_inode
      BY <2>7, <3>1, RenameTakes
    <3>2. CASE old \notin DOMAIN path_to_inode
      BY <2>7, <3>2, HoldersStay DEF Rename, locals, Carries
    <3> QED
      BY <3>1, <3>2
  <2> QED
    BY <1>2, <2>1, <2>2, <2>3, <2>4, <2>5, <2>6, <2>7 DEF Step
<1> QED
  BY <1>1, <1>2 DEF Next

\* However the calls of the table's methods interleave, every number is issued
\* once, held by one path or one request at a time, and gone for good when nobody
\* holds it any more (inode.rs): the table implements InodeIdentity.
THEOREM NumbersKeepIdentity == Spec => KeepsIdentity
<1> DEFINE Inv == TableInv /\ BoundKept /\ NumbersReal
<1>1. Init => Inv
  BY InitTable, InitBound, InitReal
<1>2. Inv /\ [Next]_vars => Inv'
  BY StepTable, StepBound, StepReal
<1>3. Inv /\ Inv' /\ [Next]_vars =>
        [Identity!Next]_[i \in ROOT_INODE..MaxInode |-> Holder(i)]
  BY StepIdentity
<1> QED
  BY <1>1, <1>2, <1>3, InitIdentity, PTL DEF Spec, KeepsIdentity, Identity!Spec

-----------------------------------------------------------------------------
(* Methods that run one after the other *)

Resolves(p) ==
  /\ path_to_inode[p] \in DOMAIN inode_to_entry
  /\ inode_to_entry[path_to_inode[p]] = p

\* The path whose entry, or whose mapping, a method under way has yet to set right.
Owed(t) == IF pc[t] \in {"insert_entry", "remove_path", "rename_entry"}
           THEN {path[t]} ELSE {}

\* What a method that runs alone finds as it left it.
Undisturbed(t) ==
  /\ pc[t] \in {"insert_entry", "rename_entry"} =>
       path[t] \in DOMAIN path_to_inode /\ path_to_inode[path[t]] = inode[t]
  /\ pc[t] = "remove_entry" =>
       \E p \in DOMAIN path_to_inode : path_to_inode[p] = inode[t]
  /\ pc[t] = "remove_entry_of" =>
       \A p \in DOMAIN path_to_inode : path_to_inode[p] # inode[t]
  /\ pc[t] \in {"rename_insert", "rename_entry"} => inode[t] \in DOMAIN inode_to_entry

Alone == \A t, u \in Threads : Busy(t) /\ Busy(u) => t = u
AllSettled == \A p \in DOMAIN path_to_inode :
                Resolves(p) \/ \E t \in Threads : p \in Owed(t)

SerialInv == ~overlapped => Alone /\ AllSettled /\ \A t \in Threads : Undisturbed(t)

LEMMA InitSerial == SerialInit => SerialInv
BY DEF SerialInit, Init, SerialInv, Alone, Busy, AllSettled, Resolves, Undisturbed

\* A method that runs alone keeps its own promises from call to call.
LEMMA StepAlone ==
  ASSUME TableInv, AllSettled, NEW t \in Threads, Undisturbed(t), Step(t),
         \A u \in Threads \ {t} : ~Busy(u)
  PROVE  AllSettled' /\ Undisturbed(t)'
<1> USE DEF TableInv, TypeOK, Goto, Return, locals, Insert, Remove,
            AllSettled, Resolves, Owed, Undisturbed, Busy
<1>1. CASE \E p \in ChildPaths : GetOrCreate(t, p)
  BY <1>1 DEF GetOrCreate
<1>2. CASE FetchAdd(t)
  BY <1>2 DEF FetchAdd
<1>3. CASE InsertPath(t)
  BY <1>3 DEF InsertPath
<1>4. CASE InsertEntry(t)
  BY <1>4 DEF InsertEntry, PathsHaveDistinctInodes
<1>5. CASE \E p \in ChildPaths : LookupForRemove(t, p)
  BY <1>5 DEF LookupForRemove
<1>6. CASE RemoveEntry(t)
  BY <1>6 DEF RemoveEntry, PathsHaveDistinctInodes
<1>7. CASE RemovePath(t)
  BY <1>7 DEF RemovePath
<1>8. CASE \E p \in ChildPaths : RemoveByPath(t, p)
  BY <1>8 DEF RemoveByPath, PathsHaveDistinctInodes
<1>9. CASE RemoveEntryOf(t)
  BY <1>9 DEF RemoveEntryOf
<1>10. CASE \E old, new \in ChildPaths : Rename(t, old, new)
  BY <1>10 DEF Rename
<1>11. CASE RenameInsert(t)
  BY <1>11 DEF RenameInsert, CarriedExclusively, Carries
<1>12. CASE RenameEntry(t)
  BY <1>12 DEF RenameEntry, PathsHaveDistinctInodes
<1> QED
  BY <1>1, <1>2, <1>3, <1>4, <1>5, <1>6, <1>7, <1>8, <1>9, <1>10, <1>11, <1>12 DEF Step

\* A method whose call finds another one under way only looks a path up in vain
\* or finds one at once, unless the two overlap from then on.
LEMMA StepBeside ==
  ASSUME TableInv, NEW t \in Threads, Step(t), ~Busy(t), ~Busy(t)'
  PROVE  UNCHANGED <<path_to_inode, inode_to_entry, locals>>
BY DEF TableInv, TypeOK, Step, Busy, locals, Goto, Return, GetOrCreate, FetchAdd,
   InsertPath, InsertEntry, LookupForRemove, RemoveEntry, RemovePath, RemoveByPath,
   RemoveEntryOf, Rename, RenameInsert, RenameEntry

\* Only the thread that takes the step goes on.
LEMMA OthersStay ==
  ASSUME TableInv, NEW t \in Threads, Step(t), NEW u \in Threads \ {t}
  PROVE  pc'[u] = pc[u] /\ inode'[u] = inode[u] /\ path'[u] = path[u]
BY DEF TableInv, TypeOK, Step, locals, Goto, Return, GetOrCreate, FetchAdd,
   InsertPath, InsertEntry, LookupForRemove, RemoveEntry, RemovePath, RemoveByPath,
   RemoveEntryOf, Rename, RenameInsert, RenameEntry

LEMMA StepSerial ==
  TableInv /\ SerialInv /\ [SerialNext]_<<vars, overlapped>> => SerialInv'
<1> SUFFICES ASSUME TableInv, SerialInv, [SerialNext]_<<vars, overlapped>>, ~overlapped'
             PROVE  Alone' /\ AllSettled' /\ \A t \in Threads : Undisturbed(t)'
  BY DEF SerialInv
<1>1. CASE UNCHANGED <<vars, overlapped>>
  BY <1>1 DEF vars, SerialInv, Alone, Busy, AllSettled, Resolves, Owed, Undisturbed
<1>2. CASE SerialNext
  <2>1. Alone /\ AllSettled /\ \A t \in Threads : Undisturbed(t)
    BY <1>2 DEF SerialNext, SerialInv
  <2>2. Alone'
    BY <1>2 DEF SerialNext, Alone
  <2>3. PICK t \in Threads : Step(t)
    BY <1>2 DEF SerialNext, Next
  <2>4. \A u \in Threads \ {t} : Busy(u)' = Busy(u)
    BY <2>3, OthersStay DEF Busy
  <2>5. CASE \A u \in Threads \ {t} : ~Busy(u)
    <3>1. AllSettled' /\ Undisturbed(t)'
      BY <2>1, <2>3, <2>5, StepAlone
    <3>2. ASSUME NEW u \in Threads \ {t}
          PROVE  Undisturbed(u)'
      BY <2>4, <2>5 DEF Busy, Undisturbed
    <3> QED
      BY <2>2, <3>1, <3>2
  <2>6. CASE \E u \in Threads \ {t} : Busy(u)
    <3>1. ~Busy(t) /\ ~Busy(t)'
      BY <2>1, <2>2, <2>4, <2>6 DEF Alone
    <3>2. UNCHANGED <<path_to_inode, inode_to_entry, locals>>
      BY <2>3, <3>1, StepBeside
    <3> QED
      BY <2>1, <2>2, <3>2 DEF locals, AllSettled, Resolves, Owed, Undisturbed
  <2> QED
    BY <2>5, <2>6
<1> QED
  BY <1>1, <1>2

\* As long as the calls of the table's methods do not overlap, every mapped path
\* leads to an entry that carries this very path, whatever the calls are (inode.rs).
THEOREM ResolvesSerially == SerialSpec => []ResolvesUnlessOverlapped
<1>1. SerialInit => TableInv /\ SerialInv
  BY InitTable, InitSerial DEF SerialInit
<1>2. TableInv /\ SerialInv /\ [SerialNext]_<<vars, overlapped>> => TableInv' /\ SerialInv'
  BY StepTable, StepSerial DEF SerialNext, vars
<1>3. SerialInv => ResolvesUnlessOverlapped
  BY DEF SerialInv, ResolvesUnlessOverlapped, MappedPathsResolve, Quiescent, AllSettled,
     Resolves, Owed
<1> QED
  BY <1>1, <1>2, <1>3, PTL DEF SerialSpec
=============================================================================
