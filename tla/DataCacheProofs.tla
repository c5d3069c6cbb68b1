---------------------------- MODULE DataCacheProofs ----------------------------
(***************************************************************************)
(* What DataCache guarantees for all sizes, limits and numbers of tasks:   *)
(* the account of the memory never falls below the bytes it stands for,    *)
(* what is on disk stays within its limit, and a put that makes room       *)
(* undisturbed leaves no more in memory than the limit allows.             *)
(***************************************************************************)
EXTENDS DataCache, Integers, FiniteSetTheorems, TLAPS

-----------------------------------------------------------------------------
(* Sums *)

Places(f) == UNION {{x} \X (1..f[x]) : x \in DOMAIN f}
NatMap(f) == IsFiniteSet(DOMAIN f) /\ \A x \in DOMAIN f : f[x] \in Nat
ValueAt(f, x) == IF x \in DOMAIN f THEN f[x] ELSE 0
Rest(f, x) == [y \in DOMAIN f \ {x} |-> f[y]]

LEMMA PlacesAre ==
  ASSUME NEW f
  PROVE  \A p : p \in Places(f) <=>
           \E x \in DOMAIN f : \E n \in 1..f[x] : p = <<x, n>>
  BY DEF Places

\* The bytes of one place.
LEMMA OnePlace ==
  ASSUME NEW x, NEW n \in Nat
  PROVE  IsFiniteSet({x} \X (1..n)) /\ Cardinality({x} \X (1..n)) = n
<1>1. IsFiniteSet(1..n) /\ Cardinality(1..n) = n
  BY FS_Interval
<1>2. IsFiniteSet({x}) /\ Cardinality({x}) = 1
  BY FS_Singleton
<1>3. /\ IsFiniteSet({x} \X (1..n))
      /\ Cardinality({x} \X (1..n)) = Cardinality({x}) * Cardinality(1..n)
  BY <1>1, <1>2, FS_Product
<1> QED
  BY <1>1, <1>2, <1>3

\* A sum of finitely many numbers is a number.
LEMMA BytesType ==
  ASSUME NEW f, NatMap(f)
  PROVE  IsFiniteSet(Places(f)) /\ Bytes(f) \in Nat
<1> DEFINE place == [x \in DOMAIN f |-> {x} \X (1..f[x])]
           T == {{x} \X (1..f[x]) : x \in DOMAIN f}
<1>1. IsFiniteSet(T)
  <2>1. place \in Surjection(DOMAIN f, T)
    BY DEF Surjection
  <2> HIDE DEF place, T
  <2> QED
    BY <2>1, FS_Surjection DEF NatMap
<1>2. \A S \in T : IsFiniteSet(S)
  BY OnePlace DEF NatMap
<1>3. IsFiniteSet(UNION T)
  <2> HIDE DEF T
  <2> QED
    BY <1>1, <1>2, FS_UNION
<1>4. IsFiniteSet(Places(f))
  BY <1>3 DEF Places
<1> QED
  BY <1>4, FS_CardinalityType DEF Bytes, Places

\* A sum is that of the rest and one value.
LEMMA BytesSplit ==
  ASSUME NEW f, NatMap(f), NEW x
  PROVE  /\ NatMap(Rest(f, x)) /\ Bytes(Rest(f, x)) \in Nat /\ ValueAt(f, x) \in Nat
         /\ Bytes(f) = Bytes(Rest(f, x)) + ValueAt(f, x)
<1> DEFINE r == Rest(f, x)
           n == ValueAt(f, x)
           own == {x} \X (1..n)
<1>1. /\ DOMAIN r = DOMAIN f \ {x} /\ \A y \in DOMAIN r : r[y] = f[y]
  BY DEF Rest
<1>2. NatMap(r) /\ n \in Nat
  BY <1>1, FS_RemoveElement DEF NatMap, ValueAt
<1>3. IsFiniteSet(Places(r)) /\ Bytes(r) \in Nat /\ Bytes(f) \in Nat
  BY <1>2, BytesType
<1>4. IsFiniteSet(own) /\ Cardinality(own) = n
  BY <1>2, OnePlace
<1>5. Places(f) = Places(r) \cup own
  <2>1. \A p : p \in own <=> x \in DOMAIN f /\ \E i \in 1..f[x] : p = <<x, i>>
    BY DEF ValueAt
  <2>2. \A p : p \in Places(f) => p \in Places(r) \cup own
    BY <1>1, <2>1, PlacesAre
  <2>3. \A p : p \in Places(r) \cup own => p \in Places(f)
    BY <1>1, <2>1, PlacesAre
  <2> QED
    BY <2>2, <2>3
<1>6. Places(r) \cap own = {}
  BY <1>1, PlacesAre
<1> HIDE DEF own, n, r
<1>7. Cardinality(Places(f)) = Cardinality(Places(r)) + n
  <2>1. Cardinality(Places(r) \cup own)
          = Cardinality(Places(r)) + Cardinality(own) - Cardinality(Places(r) \cap own)
    BY <1>3, <1>4, FS_Union
  <2>2. Cardinality({}) = 0 /\ Cardinality(Places(r)) \in Nat
    BY <1>3, FS_EmptySet, FS_CardinalityType
  <2>3. Cardinality(Places(r) \cup own) = Cardinality(Places(r)) + n - 0
    BY <1>4, <1>6, <2>1, <2>2
  <2> QED
    BY <1>2, <1>5, <2>2, <2>3
<1> QED
  BY <1>2, <1>3, <1>7 DEF Bytes, Places, r, n

\* Sums of maps that differ in one place.
LEMMA BytesDiffer ==
  ASSUME NEW f, NEW g, NatMap(f), NatMap(g), NEW x,
         DOMAIN f \ {x} = DOMAIN g \ {x}, \A y \in DOMAIN f \ {x} : f[y] = g[y]
  PROVE  /\ Bytes(f) \in Nat /\ Bytes(g) \in Nat /\ ValueAt(f, x) \in Nat /\ ValueAt(g, x) \in Nat
         /\ Bytes(g) + ValueAt(f, x) = Bytes(f) + ValueAt(g, x)
<1>1. Rest(f, x) = Rest(g, x)
  BY DEF Rest
<1>2. Bytes(f) \in Nat /\ Bytes(g) \in Nat
  BY BytesType
<1>3. /\ Bytes(Rest(f, x)) \in Nat /\ ValueAt(f, x) \in Nat
      /\ Bytes(f) = Bytes(Rest(f, x)) + ValueAt(f, x)
  BY BytesSplit
<1>4. ValueAt(g, x) \in Nat /\ Bytes(g) = Bytes(Rest(g, x)) + ValueAt(g, x)
  BY BytesSplit
<1> QED
  BY <1>1, <1>2, <1>3, <1>4

\* No value is more than the sum, and smaller values have a smaller sum.
LEMMA BytesBound ==
  ASSUME NEW f, NEW g, NatMap(f), NatMap(g),
         \A x \in DOMAIN f : x \in DOMAIN g /\ f[x] <= g[x]
  PROVE  Bytes(f) \in Nat /\ Bytes(g) \in Nat /\ Bytes(f) <= Bytes(g)
<1>1. Bytes(f) \in Nat /\ Bytes(g) \in Nat /\ IsFiniteSet(Places(g))
  BY BytesType
<1>2. Places(f) \subseteq Places(g)
  <2> SUFFICES ASSUME NEW x \in DOMAIN f, NEW n \in 1..f[x] PROVE <<x, n>> \in Places(g)
    BY PlacesAre
  <2>1. x \in DOMAIN g /\ n \in 1..g[x]
    BY DEF NatMap
  <2> QED
    BY <2>1, PlacesAre
<1>3. Cardinality(Places(f)) <= Cardinality(Places(g))
  BY <1>1, <1>2, FS_Subset
<1> QED
  BY <1>1, <1>3 DEF Bytes, Places
-----------------------------------------------------------------------------
(* Blocks by key *)

MapOK(m) ==
  DOMAIN m \subseteq AllKeys /\ IsFiniteSet(DOMAIN m) /\ \A k \in DOMAIN m : m[k] \in Cached
SizesOf(m) == [k \in DOMAIN m |-> m[k].size]

LEMMA TotalType ==
  ASSUME NEW m, MapOK(m)
  PROVE  NatMap(SizesOf(m)) /\ Total(m) = Bytes(SizesOf(m)) /\ Total(m) \in Nat
<1>1. NatMap(SizesOf(m))
  BY DEF NatMap, SizesOf, Cached, MapOK
<1> QED
  BY <1>1, BytesType DEF Total, SizesOf

\* What is left when keys are removed.
LEMMA WithoutFacts ==
  ASSUME NEW m, MapOK(m), NEW K
  PROVE  /\ MapOK(Without(m, K)) /\ DOMAIN Without(m, K) = DOMAIN m \ K
         /\ Total(m) \in Nat /\ Total(Without(m, K)) \in Nat
         /\ Total(Without(m, K)) <= Total(m)
<1> DEFINE w == Without(m, K)
<1>1. DOMAIN w = DOMAIN m \ K /\ \A k \in DOMAIN w : w[k] = m[k]
  BY DEF Without
<1>2. IsFiniteSet(DOMAIN m \ K)
  BY FS_Difference DEF MapOK
<1> HIDE DEF w
<1>3. MapOK(w)
  BY <1>1, <1>2 DEF MapOK
<1>4. /\ NatMap(SizesOf(m)) /\ Total(m) = Bytes(SizesOf(m)) /\ Total(m) \in Nat
      /\ NatMap(SizesOf(w)) /\ Total(w) = Bytes(SizesOf(w)) /\ Total(w) \in Nat
  BY <1>3, TotalType
<1>5. \A k \in DOMAIN SizesOf(w) :
        k \in DOMAIN SizesOf(m) /\ SizesOf(w)[k] <= SizesOf(m)[k]
  BY <1>1, <1>3 DEF SizesOf, Cached, MapOK
<1>6. Total(w) <= Total(m)
  BY <1>4, <1>5, BytesBound
<1> QED
  BY <1>1, <1>3, <1>4, <1>6 DEF w

\* Removing one block takes its bytes off the total.
LEMMA RemoveFacts ==
  ASSUME NEW m, MapOK(m), NEW k
  PROVE  /\ Sized(m, k) \in Nat
         /\ Total(Without(m, {k})) + Sized(m, k) = Total(m)
<1> DEFINE w == Without(m, {k})
<1>1. MapOK(w) /\ DOMAIN w = DOMAIN m \ {k} /\ \A j \in DOMAIN w : w[j] = m[j]
  BY WithoutFacts DEF Without
<1> HIDE DEF w
<1>2. /\ NatMap(SizesOf(m)) /\ Total(m) = Bytes(SizesOf(m)) /\ Total(m) \in Nat
      /\ NatMap(SizesOf(w)) /\ Total(w) = Bytes(SizesOf(w)) /\ Total(w) \in Nat
  BY <1>1, TotalType
<1>3. /\ DOMAIN SizesOf(m) \ {k} = DOMAIN SizesOf(w) \ {k}
      /\ \A j \in DOMAIN SizesOf(m) \ {k} : SizesOf(m)[j] = SizesOf(w)[j]
      /\ ValueAt(SizesOf(w), k) = 0 /\ ValueAt(SizesOf(m), k) = Sized(m, k)
  BY <1>1 DEF SizesOf, ValueAt, Sized
<1>4. /\ Bytes(SizesOf(m)) \in Nat /\ Bytes(SizesOf(w)) \in Nat
      /\ Sized(m, k) \in Nat
      /\ Bytes(SizesOf(w)) + Sized(m, k) = Bytes(SizesOf(m)) + 0
  BY <1>2, <1>3, BytesDiffer
<1> QED
  BY <1>2, <1>4 DEF w

\* An insertion replaces the bytes of a key.
LEMMA LatestFacts ==
  ASSUME NEW m, MapOK(m), NEW b, b.key \in AllKeys, b.size \in Nat, NEW n \in Nat
  PROVE  /\ MapOK(Latest(m, b, n)) /\ DOMAIN Latest(m, b, n) = DOMAIN m \cup {b.key}
         /\ Sized(m, b.key) \in Nat /\ Total(m) \in Nat /\ Total(Latest(m, b, n)) \in Nat
         /\ Total(Latest(m, b, n)) + Sized(m, b.key) = Total(m) + b.size
<1> DEFINE k == b.key
           c == [size |-> b.size, last_access |-> n]
           w == Latest(m, b, n)
<1>1. c \in Cached /\ c.size = b.size
  BY DEF Cached
<1>2. DOMAIN w = DOMAIN m \cup {k} /\ w[k] = c /\ \A j \in DOMAIN w : j # k => w[j] = m[j]
  BY DEF Latest, Map!Insert
<1>3. IsFiniteSet(DOMAIN m \cup {k})
  BY FS_AddElement DEF MapOK
<1> HIDE DEF w, c
<1>4. MapOK(w)
  BY <1>1, <1>2, <1>3 DEF MapOK
<1>5. /\ NatMap(SizesOf(m)) /\ Total(m) = Bytes(SizesOf(m)) /\ Total(m) \in Nat
      /\ NatMap(SizesOf(w)) /\ Total(w) = Bytes(SizesOf(w)) /\ Total(w) \in Nat
  BY <1>4, TotalType
<1>6. /\ DOMAIN SizesOf(m) \ {k} = DOMAIN SizesOf(w) \ {k}
      /\ \A j \in DOMAIN SizesOf(m) \ {k} : SizesOf(m)[j] = SizesOf(w)[j]
      /\ ValueAt(SizesOf(w), k) = b.size /\ ValueAt(SizesOf(m), k) = Sized(m, k)
  BY <1>1, <1>2 DEF SizesOf, ValueAt, Sized
<1>7. /\ Bytes(SizesOf(m)) \in Nat /\ Bytes(SizesOf(w)) \in Nat
      /\ Sized(m, k) \in Nat
      /\ Bytes(SizesOf(w)) + Sized(m, k) = Bytes(SizesOf(m)) + b.size
  BY <1>5, <1>6, BytesDiffer
<1> QED
  BY <1>2, <1>4, <1>5, <1>7 DEF w, k

\* An access moves bytes nowhere.
LEMMA TouchFacts ==
  ASSUME NEW m, MapOK(m), NEW k \in DOMAIN m, NEW n \in Nat
  PROVE  /\ MapOK(Touch(m, k, n)) /\ DOMAIN Touch(m, k, n) = DOMAIN m
         /\ Total(Touch(m, k, n)) = Total(m)
<1> DEFINE b == Block(k, m[k].size)
<1>1. b.key = k /\ b.size = m[k].size /\ k \in AllKeys /\ m[k].size \in Nat
  BY DEF Block, MapOK, Cached
<1>2. Touch(m, k, n) = Latest(m, b, n) /\ Sized(m, k) = m[k].size
  BY DEF Touch, Sized
<1> HIDE DEF b
<1>3. /\ MapOK(Latest(m, b, n)) /\ DOMAIN Latest(m, b, n) = DOMAIN m \cup {b.key}
      /\ Total(m) \in Nat /\ Total(Latest(m, b, n)) \in Nat
      /\ Total(Latest(m, b, n)) + Sized(m, b.key) = Total(m) + b.size
  BY <1>1, LatestFacts
<1> QED
  BY <1>1, <1>2, <1>3

-----------------------------------------------------------------------------
(* Types and locks *)

\* Where a task has a block in its hands.
WithBlock == {"disk_lookup", "disk_read", "reserve", "insert"} \cup Making

Jobs == [keys : SUBSET (Inodes \X Nat), removed : Nat, inode : Inodes \cup {0}]

TaskOK(l, b, v, j) ==
  /\ l \in Labels /\ b \in Blocks /\ v \in Blocks /\ j \in Jobs
  /\ l \in WithBlock => b.key \in AllKeys
  /\ l \in {"remove_oldest"} \cup Evicting => v.key \in AllKeys

TasksOK ==
  /\ pc \in [Tasks -> Labels] /\ block \in [Tasks -> Blocks]
  /\ victim \in [Tasks -> Blocks] /\ job \in [Tasks -> Jobs]
  /\ \A t \in Tasks : TaskOK(pc[t], block[t], victim[t], job[t])

BooksOK ==
  /\ MapOK(memory) /\ MapOK(entries)
  /\ memory_usage \in Nat /\ current_size \in Nat
  /\ DOMAIN files \subseteq AllKeys /\ \A k \in DOMAIN files : files[k] \in Nat

LocksOK ==
  /\ {usage_lock, entries_lock, size_lock} \subseteq Tasks \cup {Free}
  /\ \A t \in Tasks :
       /\ pc[t] \in Making <=> usage_lock = t
       /\ pc[t] \in {"disk_check", "disk_sum"} => size_lock = t
       /\ pc[t] = "disk_count" => entries_lock = t

\* No block was accessed after now.
NotLater(m) == \A k \in DOMAIN m : m[k].last_access <= clock
TimesOK ==
  /\ clock \in Nat /\ now \in [Tasks -> Nat] /\ overtaken \subseteq Tasks
  /\ NotLater(memory) /\ NotLater(entries)

TypeInv == BooksOK /\ LocksOK /\ TasksOK /\ TimesOK

\* What a step makes of its task.
Moves(t, l, b, v, j) ==
  /\ TaskOK(l, b, v, j)
  /\ pc' = [pc EXCEPT ![t] = l] /\ block' = [block EXCEPT ![t] = b]
  /\ victim' = [victim EXCEPT ![t] = v] /\ job' = [job EXCEPT ![t] = j]
MovesOK(t) == \E l \in Labels, b \in Blocks, v \in Blocks, j \in Jobs : Moves(t, l, b, v, j)

LEMMA Goes ==
  ASSUME TasksOK, NEW t \in Tasks, NEW l \in Labels, Goto(t, l), UNCHANGED locals,
         l \in WithBlock => block[t].key \in AllKeys,
         l \in {"remove_oldest"} \cup Evicting => victim[t].key \in AllKeys
  PROVE  MovesOK(t)
<1>1. /\ block[t] \in Blocks /\ victim[t] \in Blocks /\ job[t] \in Jobs
      /\ block' = [block EXCEPT ![t] = block[t]] /\ victim' = [victim EXCEPT ![t] = victim[t]]
      /\ job' = [job EXCEPT ![t] = job[t]]
  BY DEF TasksOK, locals
<1> QED
  BY <1>1 DEF Goto, MovesOK, Moves, TaskOK

LEMMA Returns ==
  ASSUME TasksOK, NEW t \in Tasks, Return(t)
  PROVE  MovesOK(t)
<1>1. NoBlock \in Blocks
  BY DEF NoBlock, Block, Blocks
<1>2. NoJob \in Jobs
  BY DEF NoJob, Jobs
<1>3. TaskOK("idle", NoBlock, NoBlock, NoJob) /\ "idle" \in Labels
  BY <1>1, <1>2 DEF TaskOK, Labels, WithBlock, Making, Evicting
<1> QED
  BY <1>1, <1>2, <1>3 DEF Return, Goto, MovesOK, Moves

LEMMA Stays ==
  ASSUME TasksOK, NEW t \in Tasks, UNCHANGED <<pc, block, victim, job>>
  PROVE  MovesOK(t)
<1>1. /\ pc[t] \in Labels /\ block[t] \in Blocks /\ victim[t] \in Blocks /\ job[t] \in Jobs
      /\ TaskOK(pc[t], block[t], victim[t], job[t])
      /\ pc' = [pc EXCEPT ![t] = pc[t]]
      /\ block' = [block EXCEPT ![t] = block[t]] /\ victim' = [victim EXCEPT ![t] = victim[t]]
      /\ job' = [job EXCEPT ![t] = job[t]]
  BY DEF TasksOK
<1>2. Moves(t, pc[t], block[t], victim[t], job[t])
  BY <1>1 DEF Moves
<1> QED
  BY <1>1, <1>2 DEF MovesOK

LEMMA KeyFacts ==
  ASSUME NEW i \in Inodes, NEW o \in Offsets
  PROVE  /\ BlockKey(i, o) \in AllKeys /\ AllKeys \subseteq Inodes \X Nat
         /\ \A n \in Sizes : RangeKeys(i, o, n) \subseteq Inodes \X Nat
<1>1. \A a \in Nat : a \div BlockSize \in Nat /\ a * BlockSize \in Nat
  BY BlockSizeAssumption
<1>2. BlockKey(i, o) \in AllKeys
  BY DEF AllKeys
<1>3. AllKeys \subseteq Inodes \X Nat
  <2> SUFFICES ASSUME NEW k \in AllKeys PROVE k \in Inodes \X Nat
    OBVIOUS
  <2>1. PICK h \in Inodes, a \in Offsets : k = <<h, (a \div BlockSize) * BlockSize>>
    BY DEF AllKeys, BlockKey
  <2>2. (a \div BlockSize) * BlockSize \in Nat
    BY <1>1, SizeAssumption
  <2> QED
    BY <2>1, <2>2
<1>4. ASSUME NEW n \in Sizes PROVE RangeKeys(i, o, n) \subseteq Inodes \X Nat
  <2>1. o \div BlockSize \in Nat
    BY <1>1, SizeAssumption
  <2>2. o + n + BlockSize - 1 \in Nat
    BY BlockSizeAssumption, SizeAssumption
  <2>3. (o + n + BlockSize - 1) \div BlockSize \in Nat
    BY <1>1, <2>2
  <2>4. \A b \in (o \div BlockSize) .. ((o + n + BlockSize - 1) \div BlockSize) - 1 :
          b \in Nat
    BY <2>1, <2>3
  <2> QED
    BY <1>1, <2>4 DEF RangeKeys
<1> QED
  BY <1>2, <1>3, <1>4

\* Requests.
LEMMA RequestMoves ==
  ASSUME TypeInv, NEW t \in Tasks, Request(t)
  PROVE  MovesOK(t)
<1>1. /\ TasksOK /\ block[t] \in Blocks /\ victim[t] \in Blocks /\ job[t] \in Jobs
  BY DEF TypeInv, TasksOK
<1>2. ASSUME NEW i \in Inodes, NEW o \in Offsets, NEW n \in Sizes \cup {0}, NEW l \in Labels,
             l \in {"disk_lookup", "reserve"},
             block' = [block EXCEPT ![t] = Block(BlockKey(i, o), n)], Goto(t, l),
             UNCHANGED <<victim, job>>
      PROVE  MovesOK(t)
  <2>1. Block(BlockKey(i, o), n) \in Blocks /\ Block(BlockKey(i, o), n).key \in AllKeys
    BY KeyFacts, SizeAssumption DEF Block, Blocks
  <2> DEFINE b == Block(BlockKey(i, o), n)
  <2>2. /\ victim' = [victim EXCEPT ![t] = victim[t]] /\ job' = [job EXCEPT ![t] = job[t]]
        /\ block' = [block EXCEPT ![t] = b] /\ pc' = [pc EXCEPT ![t] = l]
    BY <1>1, <1>2 DEF TasksOK, Goto
  <2>3. b \in Blocks /\ b.key \in AllKeys
    BY <2>1
  <2> HIDE DEF b
  <2>4. TaskOK(l, b, victim[t], job[t])
    BY <1>1, <1>2, <2>3 DEF TaskOK, Evicting
  <2>5. Moves(t, l, b, victim[t], job[t])
    BY <2>2, <2>4 DEF Moves
  <2> QED
    BY <1>1, <2>3, <2>5 DEF MovesOK
<1>3. ASSUME NEW i \in Inodes, NEW o \in Offsets, Get(t, i, o) PROVE MovesOK(t)
  BY <1>1, <1>2, <1>3, Stays DEF Get, Labels, Making, Evicting
<1>4. ASSUME NEW i \in Inodes, NEW o \in Offsets, NEW n \in Sizes, Put(t, i, o, n)
      PROVE  MovesOK(t)
  BY <1>2, <1>4 DEF Put, Labels
<1>5. ASSUME NEW K \in SUBSET (Inodes \X Nat), NEW i \in Inodes \cup {0}, Removal(t, K, i)
      PROVE  MovesOK(t)
  <2> DEFINE j == [keys |-> K, removed |-> 0, inode |-> i]
  <2>1. j \in Jobs /\ "remove" \in Labels
    BY DEF Jobs, Labels
  <2>2. /\ pc' = [pc EXCEPT ![t] = "remove"] /\ job' = [job EXCEPT ![t] = j]
        /\ victim' = [victim EXCEPT ![t] = victim[t]] /\ block' = [block EXCEPT ![t] = block[t]]
    BY <1>1, <1>5 DEF Removal, Goto, TasksOK
  <2> HIDE DEF j
  <2> QED
    BY <1>1, <2>1, <2>2 DEF MovesOK, Moves, TaskOK, WithBlock, Making, Evicting
<1>6. ASSUME NEW i \in Inodes, NEW o \in Offsets, NEW n \in Sizes, InvalidateRange(t, i, o, n)
      PROVE  MovesOK(t)
  BY <1>5, <1>6, KeyFacts DEF InvalidateRange
<1>7. ASSUME NEW i \in Inodes, NEW o \in Offsets, Invalidate(t, i) PROVE MovesOK(t)
  <2>1. {k \in DOMAIN memory : k[1] = i} \in SUBSET (Inodes \X Nat)
    BY KeyFacts DEF TypeInv, BooksOK, MapOK
  <2>2. (IF DiskEnabled THEN i ELSE 0) \in Inodes \cup {0}
    OBVIOUS
  <2> QED
    BY <1>5, <1>7, <2>1, <2>2 DEF Invalidate
<1> QED
  BY <1>3, <1>4, <1>6, <1>7 DEF Request
\* Steps of a call: those that leave the task's locals alone ...
LEMMA PlainMoves ==
  ASSUME TypeInv, NEW t \in Tasks,
         \/ LockUsage(t) \/ TakeNow(t) \/ EnoughRoom(t) \/ FindNone(t) \/ LockSize(t)
         \/ UnlockSize(t) \/ EvictEntry(t) \/ SumEntries(t) \/ CreateFile(t) \/ WriteFile(t) \/ InsertEntry(t) \/ CountEntry(t)
  PROVE  MovesOK(t)
<1>1. /\ TasksOK
      /\ pc[t] \in WithBlock => block[t].key \in AllKeys
      /\ pc[t] \in Evicting => victim[t].key \in AllKeys
  BY DEF TypeInv, TasksOK, TaskOK
<1>2. ASSUME NEW l \in Labels, Goto(t, l), UNCHANGED locals, pc[t] \in Evicting
      PROVE  MovesOK(t)
  BY <1>1, <1>2, Goes DEF WithBlock, Making
<1>3. CASE LockUsage(t)
  BY <1>1, <1>3, Goes DEF LockUsage, Labels, WithBlock, Making, Evicting
<1>4. CASE TakeNow(t) \/ EnoughRoom(t) \/ FindNone(t)
  BY <1>1, <1>4, Goes
     DEF TakeNow, EnoughRoom, FindNone, Reserve, Labels, WithBlock, Making, Evicting
<1>5. CASE \/ LockSize(t) \/ UnlockSize(t) \/ SumEntries(t) \/ CreateFile(t) \/ InsertEntry(t)
           \/ CountEntry(t)
  BY <1>2, <1>5 DEF LockSize, UnlockSize, SumEntries, CreateFile, InsertEntry, CountEntry,
                    Labels, Making, Evicting
<1>6. CASE EvictEntry(t) \/ WriteFile(t)
  BY <1>2, <1>6 DEF EvictEntry, WriteFile, Labels, Making, Evicting
<1> QED
  BY <1>3, <1>4, <1>5, <1>6

\* ... and the others.
LEMMA StepMoves ==
  ASSUME TypeInv, NEW t \in Tasks, Step(t)
  PROVE  MovesOK(t)
<1>1. /\ TasksOK /\ BooksOK /\ block[t] \in Blocks /\ victim[t] \in Blocks /\ job[t] \in Jobs
      /\ TaskOK(pc[t], block[t], victim[t], job[t]) /\ pc[t] \in Labels
      /\ pc' = [pc EXCEPT ![t] = pc[t]] <=> pc' = pc
      /\ block' = [block EXCEPT ![t] = block[t]] <=> block' = block
      /\ victim' = [victim EXCEPT ![t] = victim[t]] <=> victim' = victim
      /\ job' = [job EXCEPT ![t] = job[t]] <=> job' = job
  BY DEF TypeInv, TasksOK
<1>2. CASE DiskLookup(t)
  BY <1>1, <1>2, Goes, Returns DEF DiskLookup, TaskOK, Labels, WithBlock, Making, Evicting
<1>3. CASE DiskRead(t)
  <2>1. CASE block[t].key \in DOMAIN files
    <3> DEFINE b == [block[t] EXCEPT !.size = files[block[t].key]]
    <3>1. b \in Blocks /\ b.key = block[t].key
      BY <1>1, <2>1 DEF BooksOK, Blocks
    <3>2. /\ block' = [block EXCEPT ![t] = b] /\ Goto(t, "reserve") /\ UNCHANGED <<victim, job>>
          /\ pc[t] = "disk_read"
      BY <1>1, <1>3, <2>1 DEF DiskRead, TasksOK
    <3> HIDE DEF b
    <3>3. TaskOK("reserve", b, victim[t], job[t]) /\ "reserve" \in Labels
      BY <1>1, <3>1, <3>2 DEF TaskOK, Labels, WithBlock, Making, Evicting
    <3>4. Moves(t, "reserve", b, victim[t], job[t])
      BY <1>1, <3>2, <3>3 DEF Moves, Goto
    <3> QED
      BY <1>1, <3>1, <3>3, <3>4 DEF MovesOK
  <2>2. CASE block[t].key \notin DOMAIN files
    BY <1>1, <1>3, <2>2, Returns DEF DiskRead
  <2> QED
    BY <2>1, <2>2
<1>4. ASSUME NEW l \in Labels, NEW v \in Blocks, v.key \in AllKeys, pc[t] \in Making,
             Goto(t, l), victim' = [victim EXCEPT ![t] = v], UNCHANGED <<block, job>>
      PROVE  MovesOK(t)
  <2>1. TaskOK(l, block[t], v, job[t])
    BY <1>1, <1>4 DEF TaskOK, WithBlock
  <2>2. Moves(t, l, block[t], v, job[t])
    BY <1>1, <1>4, <2>1 DEF Moves, Goto
  <2> QED
    BY <1>1, <2>2 DEF MovesOK
<1>5. CASE FindOldest(t)
  <2>1. PICK k \in Oldest(memory) : victim' = [victim EXCEPT ![t] = Block(k, 0)]
    BY <1>5 DEF FindOldest
  <2>2. Block(k, 0) \in Blocks /\ Block(k, 0).key \in AllKeys
    BY <1>1 DEF Oldest, Block, Blocks, BooksOK, MapOK
  <2>3. "remove_oldest" \in Labels /\ pc[t] \in Making
    BY <1>5 DEF FindOldest, Labels, Making
  <2> QED
    BY <1>4, <1>5, <2>1, <2>2, <2>3 DEF FindOldest
<1>6. CASE RemoveOldest(t)
  <2>1. pc[t] \in Making /\ victim[t].key \in AllKeys /\ block[t].key \in AllKeys
    BY <1>1, <1>6 DEF RemoveOldest, TaskOK, WithBlock, Making
  <2>2. CASE victim[t].key \in DOMAIN memory
    <3> DEFINE v == [victim[t] EXCEPT !.size = Sized(memory, victim[t].key)]
               l == IF DiskEnabled THEN "disk_put" ELSE "evicted"
    <3>1. v \in Blocks /\ v.key \in AllKeys
      BY <1>1, <2>1, RemoveFacts DEF BooksOK, Blocks
    <3>2. /\ victim' = [victim EXCEPT ![t] = v] /\ Goto(t, l) /\ UNCHANGED <<block, job>>
      BY <1>1, <1>6, <2>2 DEF RemoveOldest, TasksOK
    <3>3. l \in Labels
      BY DEF Labels, Making, Evicting
    <3> HIDE DEF v, l
    <3> QED
      BY <1>4, <2>1, <3>1, <3>2, <3>3
  <2>3. CASE victim[t].key \notin DOMAIN memory
    BY <1>1, <1>6, <2>1, <2>3, Goes DEF RemoveOldest, Reserve, Labels, WithBlock, Making, Evicting
  <2> QED
    BY <2>2, <2>3
<1>7. CASE Evicted(t)
  <2>1. pc[t] = "evicted" /\ Goto(t, "evict") /\ UNCHANGED <<block, job>>
        /\ victim' = [victim EXCEPT ![t] = NoBlock]
    BY <1>7 DEF Evicted
  <2>2. NoBlock \in Blocks /\ TaskOK("evict", block[t], NoBlock, job[t]) /\ "evict" \in Labels
    BY <1>1, <2>1 DEF NoBlock, Block, Blocks, TaskOK, Labels, WithBlock, Making, Evicting
  <2>3. Moves(t, "evict", block[t], NoBlock, job[t])
    BY <1>1, <2>1, <2>2 DEF Moves, Goto
  <2> QED
    BY <1>1, <2>2, <2>3 DEF MovesOK
<1>8. CASE InsertBlock(t) \/ DiskInvalidate(t)
  BY <1>1, <1>8, Returns DEF InsertBlock, DiskInvalidate
<1>9. ASSUME NEW k \in job[t].keys, RemoveBlock(t, k) PROVE MovesOK(t)
  <2> DEFINE j == [job[t] EXCEPT !.keys = @ \ {k}, !.removed = @ + Sized(memory, k)]
  <2>1. Sized(memory, k) \in Nat
    BY <1>1, RemoveFacts DEF BooksOK
  <2>2. j \in Jobs
    <3>1. job[t] \in [keys : SUBSET (Inodes \X Nat), removed : Nat, inode : Inodes \cup {0}]
      BY <1>1 DEF Jobs
    <3>2. job[t].keys \ {k} \in SUBSET (Inodes \X Nat)
      BY <3>1
    <3>3. job[t].removed + Sized(memory, k) \in Nat
      BY <2>1, <3>1
    <3> QED
      BY <3>1, <3>2, <3>3 DEF Jobs
  <2>3. job' = [job EXCEPT ![t] = j] /\ UNCHANGED <<pc, block, victim>>
    BY <1>1, <1>9 DEF RemoveBlock, TasksOK
  <2> HIDE DEF j
  <2>4. Moves(t, pc[t], block[t], victim[t], j)
    BY <1>1, <2>2, <2>3 DEF Moves, TaskOK
  <2> QED
    BY <1>1, <2>2, <2>4 DEF MovesOK
<1>10. CASE Subtract(t)
  BY <1>1, <1>10, Goes, Returns DEF Subtract, Labels, WithBlock, Making, Evicting
<1> QED
  BY <1>2, <1>3, <1>5, <1>6, <1>7, <1>8, <1>9, <1>10, PlainMoves DEF Step

\* What a move leaves alone.
LEMMA MoveFacts ==
  ASSUME TasksOK, NEW t \in Tasks, MovesOK(t)
  PROVE  /\ TasksOK'
         /\ \A u \in Tasks : u # t =>
              /\ pc'[u] = pc[u] /\ block'[u] = block[u]
              /\ victim'[u] = victim[u] /\ job'[u] = job[u]
<1>1. PICK l \in Labels, b \in Blocks, v \in Blocks, j \in Jobs : Moves(t, l, b, v, j)
  BY DEF MovesOK
<1>2. /\ pc' \in [Tasks -> Labels] /\ block' \in [Tasks -> Blocks]
      /\ victim' \in [Tasks -> Blocks] /\ job' \in [Tasks -> Jobs]
      /\ pc'[t] = l /\ block'[t] = b /\ victim'[t] = v /\ job'[t] = j
      /\ \A u \in Tasks : u # t =>
           /\ pc'[u] = pc[u] /\ block'[u] = block[u]
           /\ victim'[u] = victim[u] /\ job'[u] = job[u]
  BY <1>1 DEF Moves, TasksOK
<1>3. \A u \in Tasks : TaskOK(pc'[u], block'[u], victim'[u], job'[u])
  BY <1>1, <1>2 DEF Moves, TasksOK
<1>4. TasksOK'
  BY <1>2, <1>3 DEF TasksOK, TaskOK
<1> QED
  BY <1>2, <1>4

\* The clock goes on, and nothing is accessed after what it says.
LEMMA TimesStep ==
  ASSUME TypeInv, NEW t \in Tasks, Request(t) \/ Step(t)
  PROVE  TimesOK'
<1>1. /\ clock \in Nat /\ now \in [Tasks -> Nat] /\ overtaken \subseteq Tasks
      /\ NotLater(memory) /\ NotLater(entries)
      /\ \A k \in DOMAIN memory : memory[k].last_access \in Nat
      /\ \A k \in DOMAIN entries : entries[k].last_access \in Nat
  BY DEF TypeInv, TimesOK, BooksOK, MapOK, Cached
<1>2. Instants \subseteq Nat /\ \A n \in Instants : clock <= n
  BY <1>1 DEF Instants
<1>3. \A u \in Tasks : Disturb(u) => overtaken' \subseteq Tasks
  BY <1>1 DEF Disturb
\* The books after a step: nothing was accessed, or one block just now.
<1> DEFINE Later(m, n) == \A k \in DOMAIN m : m[k].last_access <= n
<1>4. ASSUME NEW m, \A k \in DOMAIN m : m[k].last_access \in Nat /\ m[k].last_access <= clock,
             NEW n \in Instants, NEW b, NEW K
      PROVE  Later(m, n) /\ Later(Latest(m, b, n), n) /\ Later(Without(m, K), n)
  <2>1. Later(m, n)
    BY <1>1, <1>2, <1>4
  <2>2. Later(Latest(m, b, n), n)
    BY <1>2, <2>1 DEF Latest, Map!Insert
  <2> QED
    BY <2>1, <2>2 DEF Without
<1>5. ASSUME clock' \in Instants \/ clock' = clock, overtaken' \subseteq Tasks,
             now' \in [Tasks -> Nat], Later(memory', clock'), Later(entries', clock')
      PROVE  TimesOK'
  BY <1>1, <1>2, <1>5 DEF TimesOK, NotLater
<1>6. ASSUME UNCHANGED clock, overtaken' \subseteq Tasks, now' \in [Tasks -> Nat],
             \E K : memory' = Without(memory, K) \/ memory' = memory,
             \E K : entries' = Without(entries, K) \/ entries' = entries
      PROVE  TimesOK'
  <2>1. Later(memory', clock') /\ Later(entries', clock')
    BY <1>1, <1>6 DEF Without, NotLater
  <2> QED
    BY <1>5, <1>6, <2>1
<1>7. ASSUME NEW i \in Inodes, NEW o \in Offsets, Get(t, i, o) PROVE TimesOK'
  <2>1. now' = now /\ entries' = entries
    BY <1>7 DEF Get, disk
  <2>2. CASE BlockKey(i, o) \in DOMAIN memory
    <3>1. /\ clock' \in Instants /\ Disturb(t)
          /\ memory' = Touch(memory, BlockKey(i, o), clock')
      BY <1>7, <2>2 DEF Get
    <3>2. Later(memory', clock') /\ Later(entries', clock')
      BY <1>1, <1>4, <2>1, <3>1 DEF Touch, NotLater
    <3> QED
      BY <1>1, <1>3, <1>5, <2>1, <3>1, <3>2
  <2>3. CASE BlockKey(i, o) \notin DOMAIN memory
    <3>1. UNCHANGED <<clock, overtaken, memory>>
      BY <1>7, <2>3 DEF Get
    <3> QED
      BY <1>1, <1>6, <2>1, <3>1
  <2> QED
    BY <2>2, <2>3
<1>8. CASE Request(t)
  <2>1. CASE UNCHANGED <<times, memory, disk>>
    BY <1>1, <1>6, <2>1 DEF times, disk
  <2> QED
    BY <1>7, <1>8, <2>1 DEF Request, Put, InvalidateRange, Invalidate, Removal
<1>9. CASE DiskLookup(t)
  <2>1. UNCHANGED <<now, overtaken, memory>>
    BY <1>9 DEF DiskLookup
  <2>2. CASE block[t].key \in DOMAIN entries
    <3>1. clock' \in Instants /\ entries' = Touch(entries, block[t].key, clock')
      BY <1>9, <2>2 DEF DiskLookup
    <3>2. Later(memory', clock') /\ Later(entries', clock')
      BY <1>1, <1>4, <2>1, <3>1 DEF Touch, NotLater
    <3> QED
      BY <1>1, <1>5, <2>1, <3>1, <3>2
  <2>3. CASE block[t].key \notin DOMAIN entries
    <3>1. UNCHANGED <<clock, entries>>
      BY <1>9, <2>3 DEF DiskLookup
    <3> QED
      BY <1>1, <1>6, <2>1, <3>1
  <2> QED
    BY <2>2, <2>3
<1>10. CASE TakeNow(t)
  <2>1. /\ clock' \in Instants /\ now' = [now EXCEPT ![t] = clock']
        /\ UNCHANGED <<memory, entries>> /\ overtaken' \subseteq Tasks
    BY <1>1, <1>10 DEF TakeNow, disk
  <2>2. Later(memory', clock') /\ Later(entries', clock')
    BY <1>1, <1>4, <2>1 DEF NotLater
  <2> QED
    BY <1>1, <1>2, <1>5, <2>1, <2>2
<1>11. CASE EnoughRoom(t) \/ FindOldest(t) \/ FindNone(t) \/ RemoveOldest(t)
  <2>1. now' \in [Tasks -> Nat]
    BY <1>1, <1>11 DEF EnoughRoom, FindOldest, FindNone, RemoveOldest, Reserve
  <2>2. UNCHANGED <<clock, entries>> /\ overtaken' \subseteq Tasks
    BY <1>1, <1>11 DEF EnoughRoom, FindOldest, FindNone, RemoveOldest, Reserve, disk
  <2>3. memory' = memory \/ memory' = Without(memory, {victim[t].key})
    BY <1>11 DEF EnoughRoom, FindOldest, FindNone, RemoveOldest, Reserve
  <2> QED
    BY <1>6, <2>1, <2>2, <2>3
<1>12. CASE InsertBlock(t)
  <2>1. /\ clock' \in Instants /\ Disturb(t) /\ UNCHANGED <<now, entries>>
        /\ memory' = Latest(memory, block[t], clock')
    BY <1>12 DEF InsertBlock, disk
  <2>2. Later(memory', clock') /\ Later(entries', clock')
    BY <1>1, <1>4, <2>1 DEF NotLater
  <2> QED
    BY <1>1, <1>3, <1>5, <2>1, <2>2
<1>13. CASE InsertEntry(t)
  <2>1. /\ clock' \in Instants /\ UNCHANGED <<now, overtaken, memory>>
        /\ entries' = Latest(entries, victim[t], clock')
    BY <1>13 DEF InsertEntry
  <2>2. Later(memory', clock') /\ Later(entries', clock')
    BY <1>1, <1>4, <2>1 DEF NotLater
  <2> QED
    BY <1>1, <1>5, <2>1, <2>2
<1>14. ASSUME NEW k \in job[t].keys, RemoveBlock(t, k) PROVE TimesOK'
  <2>1. /\ UNCHANGED <<clock, now, entries>> /\ Disturb(t) /\ memory' = Without(memory, {k})
    BY <1>14 DEF RemoveBlock, disk
  <2> QED
    BY <1>1, <1>3, <1>6, <2>1
<1>15. CASE EvictEntry(t)
  <2>1. /\ UNCHANGED <<times, memory>>
        /\ entries' = entries \/ \E k \in Oldest(entries) : entries' = Without(entries, {k})
    BY <1>15 DEF EvictEntry
  <2> QED
    BY <1>1, <1>6, <2>1 DEF times
<1>16. CASE DiskInvalidate(t)
  <2>1. /\ UNCHANGED <<times, memory>>
        /\ entries' = Without(entries, {k \in DOMAIN entries : k[1] = job[t].inode})
    BY <1>16 DEF DiskInvalidate
  <2> QED
    BY <1>1, <1>6, <2>1 DEF times
<1>17. CASE \/ DiskRead(t) \/ LockUsage(t) \/ Evicted(t) \/ LockSize(t) \/ UnlockSize(t)
            \/ SumEntries(t) \/ CreateFile(t) \/ WriteFile(t) \/ CountEntry(t) \/ Subtract(t)
  <2>1. UNCHANGED <<times, memory, entries>>
    BY <1>17 DEF DiskRead, LockUsage, Evicted, LockSize, UnlockSize, SumEntries, CreateFile,
                 WriteFile, CountEntry, Subtract, disk
  <2> QED
    BY <1>1, <1>6, <2>1 DEF times
<1> QED
  BY <1>8, <1>9, <1>10, <1>11, <1>12, <1>13, <1>14, <1>15, <1>16, <1>17 DEF Step

\* The maps and the accounts.
LEMMA BooksStep ==
  ASSUME TypeInv, clock' \in Nat, NEW t \in Tasks, Request(t) \/ Step(t)
  PROVE  BooksOK'
<1>1. /\ BooksOK /\ MapOK(memory) /\ MapOK(entries)
      /\ block[t] \in Blocks /\ victim[t] \in Blocks /\ job[t] \in Jobs
      /\ pc[t] \in WithBlock => block[t].key \in AllKeys
      /\ pc[t] \in Evicting => victim[t].key \in AllKeys
      /\ block[t].size \in Nat /\ victim[t].size \in Nat /\ job[t].removed \in Nat
      /\ \A a, b \in Nat : a + b \in Nat /\ Minus(a, b) \in Nat
  BY DEF TypeInv, BooksOK, TasksOK, TaskOK, Blocks, Jobs, Minus
<1>2. CASE UNCHANGED <<memory, memory_usage, disk>>
  BY <1>1, <1>2 DEF BooksOK, MapOK, disk
<1>0. (MapOK(memory)' <=> MapOK(memory')) /\ (MapOK(entries)' <=> MapOK(entries'))
  BY DEF MapOK
<1>3. ASSUME MapOK(memory'), memory_usage' \in Nat, UNCHANGED disk PROVE BooksOK'
  BY <1>0, <1>1, <1>3 DEF BooksOK, disk
<1>4. ASSUME MapOK(entries'), current_size' \in Nat, UNCHANGED <<memory, memory_usage>>,
             DOMAIN files' \subseteq AllKeys, \A k \in DOMAIN files' : files'[k] \in Nat
      PROVE  BooksOK'
  BY <1>0, <1>1, <1>4 DEF BooksOK
<1>5. ASSUME NEW i \in Inodes, NEW o \in Offsets, Get(t, i, o) PROVE BooksOK'
  <2>1. CASE BlockKey(i, o) \in DOMAIN memory
    <3>1. memory' = Touch(memory, BlockKey(i, o), clock') /\ UNCHANGED <<memory_usage, disk>>
      BY <1>5, <2>1 DEF Get
    <3>2. MapOK(memory') /\ memory_usage' \in Nat
      BY <1>1, <2>1, <3>1, TouchFacts DEF BooksOK
    <3> QED
      BY <1>3, <3>1, <3>2
  <2>2. CASE BlockKey(i, o) \notin DOMAIN memory
    BY <1>2, <1>5, <2>2 DEF Get
  <2> QED
    BY <2>1, <2>2
<1>6. CASE Request(t)
  BY <1>2, <1>5, <1>6 DEF Request, Put, InvalidateRange, Invalidate, Removal
<1>7. CASE \/ DiskRead(t) \/ LockUsage(t) \/ TakeNow(t) \/ FindOldest(t) \/ LockSize(t)
           \/ UnlockSize(t)
  BY <1>2, <1>7 DEF DiskRead, LockUsage, TakeNow, FindOldest, LockSize, UnlockSize
<1>8. CASE EnoughRoom(t) \/ FindNone(t) \/ Evicted(t) \/ Subtract(t)
  <2>1. memory_usage' \in Nat /\ UNCHANGED <<memory, disk>>
    BY <1>1, <1>8 DEF EnoughRoom, FindNone, Reserve, Evicted, Subtract, BooksOK
  <2> QED
    BY <1>1, <1>3, <2>1
<1>9. CASE RemoveOldest(t)
  <2>1. UNCHANGED disk
    BY <1>9 DEF RemoveOldest, Reserve
  <2>2. MapOK(memory')
    <3>1. memory' = memory \/ memory' = Without(memory, {victim[t].key})
      BY <1>9 DEF RemoveOldest, Reserve
    <3>2. MapOK(memory) /\ MapOK(Without(memory, {victim[t].key}))
      BY <1>1, WithoutFacts
    <3> QED
      BY <3>1, <3>2
  <2>3. memory_usage' \in Nat
    <3>1. memory_usage' = memory_usage \/ memory_usage' = memory_usage + block[t].size
      BY <1>9 DEF RemoveOldest, Reserve
    <3> QED
      BY <1>1, <3>1 DEF BooksOK
  <2> QED
    BY <1>3, <2>1, <2>2, <2>3
<1>10. CASE InsertBlock(t)
  <2>1. /\ memory' = Latest(memory, block[t], clock') /\ block[t].key \in AllKeys
        /\ UNCHANGED <<memory_usage, disk>>
    BY <1>1, <1>10 DEF InsertBlock, WithBlock
  <2>2. MapOK(memory') /\ memory_usage' \in Nat
    BY <1>1, <2>1, LatestFacts DEF BooksOK
  <2> QED
    BY <1>3, <2>1, <2>2
<1>11. ASSUME NEW k \in job[t].keys, RemoveBlock(t, k) PROVE BooksOK'
  <2>1. MapOK(memory') /\ memory_usage' \in Nat /\ UNCHANGED disk
    BY <1>1, <1>11, WithoutFacts DEF RemoveBlock, BooksOK
  <2> QED
    BY <1>3, <2>1
<1>12. CASE DiskLookup(t)
  <2>1. CASE block[t].key \in DOMAIN entries
    <3>1. /\ entries' = Touch(entries, block[t].key, clock')
          /\ UNCHANGED <<memory, memory_usage, current_size, files>>
      BY <1>12, <2>1 DEF DiskLookup
    <3>2. MapOK(entries')
      BY <1>1, <2>1, <3>1, TouchFacts
    <3> QED
      BY <1>1, <1>4, <3>1, <3>2 DEF BooksOK
  <2>2. CASE block[t].key \notin DOMAIN entries
    BY <1>2, <1>12, <2>2 DEF DiskLookup, disk
  <2> QED
    BY <2>1, <2>2
<1>13. CASE EvictEntry(t)
  <2>1. UNCHANGED <<memory, memory_usage, current_size>>
    BY <1>13 DEF EvictEntry
  <2>2. ASSUME NEW h, entries' = Without(entries, {h}), files' = Map!Remove(files, h)
        PROVE  BooksOK'
    <3>1. MapOK(entries')
      BY <1>1, <2>2, WithoutFacts
    <3>2. DOMAIN files' \subseteq AllKeys /\ \A k \in DOMAIN files' : files'[k] \in Nat
      BY <1>1, <2>2 DEF BooksOK, Map!Remove
    <3> QED
      BY <1>1, <1>4, <2>1, <3>1, <3>2 DEF BooksOK
  <2>3. CASE UNCHANGED <<entries, files>>
    BY <1>2, <2>1, <2>3 DEF disk
  <2> QED
    BY <1>13, <2>2, <2>3 DEF EvictEntry
<1>14. CASE SumEntries(t)
  <2>1. current_size' \in Nat /\ UNCHANGED <<memory, memory_usage, entries, files>>
    BY <1>1, <1>14, TotalType DEF SumEntries, MapOK
  <2> QED
    BY <1>1, <1>4, <2>1 DEF BooksOK
<1>15. CASE CreateFile(t) \/ WriteFile(t)
  <2>1. victim[t].key \in AllKeys /\ UNCHANGED <<memory, memory_usage, entries, current_size>>
    BY <1>1, <1>15 DEF CreateFile, WriteFile, Evicting
  <2>2. \/ files' = Map!Insert(files, victim[t].key, 0)
        \/ \E n \in Nat : files' = Map!Insert(files, victim[t].key, n)
        \/ files' = files
    <3>1. 0..victim[t].size \subseteq Nat /\ victim[t].size \in Nat /\ 0 \in Nat
      BY <1>1
    <3> QED
      BY <1>15, <3>1 DEF CreateFile, WriteFile, Filled
  <2>3. DOMAIN files' \subseteq AllKeys /\ \A k \in DOMAIN files' : files'[k] \in Nat
    BY <1>1, <2>1, <2>2 DEF BooksOK, Map!Insert
  <2> QED
    BY <1>1, <1>4, <2>1, <2>3 DEF BooksOK
<1>16. CASE InsertEntry(t)
  <2>1. /\ entries' = Latest(entries, victim[t], clock') /\ victim[t].key \in AllKeys
        /\ UNCHANGED <<memory, memory_usage, current_size, files>>
    BY <1>1, <1>16 DEF InsertEntry, Evicting
  <2>2. MapOK(entries')
    BY <1>1, <2>1, LatestFacts
  <2> QED
    BY <1>1, <1>4, <2>1, <2>2 DEF BooksOK
<1>17. CASE CountEntry(t)
  <2>1. current_size' \in Nat /\ UNCHANGED <<memory, memory_usage, entries, files>>
    BY <1>1, <1>17 DEF CountEntry, BooksOK
  <2> QED
    BY <1>1, <1>4, <2>1 DEF BooksOK
<1>18. CASE DiskInvalidate(t)
  <2> DEFINE K == {k \in DOMAIN entries : k[1] = job[t].inode}
  <2>1. /\ entries' = Without(entries, K) /\ files' = Without(files, K)
        /\ UNCHANGED <<memory, memory_usage, current_size>>
    BY <1>18 DEF DiskInvalidate
  <2> HIDE DEF K
  <2>2. MapOK(entries')
    BY <1>1, <2>1, WithoutFacts
  <2>3. DOMAIN files' \subseteq AllKeys /\ \A k \in DOMAIN files' : files'[k] \in Nat
    BY <1>1, <2>1 DEF BooksOK, Without
  <2> QED
    BY <1>1, <1>4, <2>1, <2>2, <2>3 DEF BooksOK
<1> QED
  BY <1>6, <1>7, <1>8, <1>9, <1>10, <1>11, <1>12, <1>13, <1>14, <1>15, <1>16, <1>17, <1>18
     DEF Step

\* Who holds which lock.
LEMMA LocksStep ==
  ASSUME TypeInv, TasksOK', NEW t \in Tasks, Request(t) \/ Step(t)
  PROVE  LocksOK'
<1>1. /\ LocksOK /\ pc \in [Tasks -> Labels] /\ pc' \in [Tasks -> Labels]
      /\ Free \notin Tasks
  BY TaskAssumption DEF TypeInv, TasksOK
<1>2. \A u \in Tasks : u # t => pc'[u] = pc[u]
  BY RequestMoves, StepMoves, MoveFacts DEF TypeInv
<1>3. ASSUME UNCHANGED locks, pc'[t] \in Making <=> pc[t] \in Making,
             pc'[t] \in {"disk_check", "disk_sum"} => pc[t] \in {"disk_check", "disk_sum"},
             pc'[t] # "disk_count"
      PROVE  LocksOK'
  BY <1>1, <1>2, <1>3 DEF LocksOK, locks
<1>4. CASE Request(t)
  <2>1. UNCHANGED locks /\ (pc' = pc \/ pc'[t] \in {"disk_lookup", "reserve", "remove"})
        /\ pc[t] = "idle"
    BY <1>1, <1>4 DEF Request, Call, Get, Put, InvalidateRange, Invalidate, Removal, Goto
  <2> QED
    BY <1>3, <2>1 DEF Making, Evicting
<1>5. CASE \/ DiskLookup(t) \/ DiskRead(t) \/ TakeNow(t) \/ FindOldest(t) \/ Evicted(t)
           \/ InsertBlock(t) \/ SumEntries(t) \/ CreateFile(t) \/ WriteFile(t) \/ Subtract(t) \/ DiskInvalidate(t)
           \/ \E k \in job[t].keys : RemoveBlock(t, k)
  <2>1. CASE DiskLookup(t) \/ DiskRead(t) \/ Subtract(t) \/ DiskInvalidate(t) \/ InsertBlock(t)
    BY <1>1, <1>3, <2>1 DEF DiskLookup, DiskRead, Subtract, DiskInvalidate, InsertBlock, Return,
                            Goto, Making, Evicting
  <2>2. CASE \/ TakeNow(t) \/ FindOldest(t) \/ Evicted(t) \/ SumEntries(t) \/ CreateFile(t)
             \/ WriteFile(t)
    BY <1>1, <1>3, <2>2 DEF TakeNow, FindOldest, Evicted, SumEntries, CreateFile, WriteFile, Goto, Making,
                            Evicting
  <2>3. CASE \E k \in job[t].keys : RemoveBlock(t, k)
    <3>1. UNCHANGED <<locks, pc>> /\ pc[t] = "remove"
      BY <2>3 DEF RemoveBlock
    <3> QED
      BY <1>3, <3>1
  <2> QED
    BY <1>5, <2>1, <2>2, <2>3
<1>6. CASE LockUsage(t)
  <2>1. /\ usage_lock = Free /\ usage_lock' = t /\ UNCHANGED <<entries_lock, size_lock>>
        /\ pc'[t] = "evict"
    BY <1>1, <1>6 DEF LockUsage, Goto
  <2> QED
    BY <1>1, <1>2, <2>1 DEF LocksOK, Making, Evicting
<1>7. CASE EnoughRoom(t) \/ FindNone(t) \/ (RemoveOldest(t) /\ Reserve(t))
  <2>1. /\ pc[t] \in Making /\ usage_lock' = Free /\ UNCHANGED <<entries_lock, size_lock>>
        /\ pc'[t] = "insert"
    BY <1>1, <1>7 DEF EnoughRoom, FindNone, RemoveOldest, Reserve, Goto, Making
  <2> QED
    BY <1>1, <1>2, <2>1 DEF LocksOK, Making, Evicting
<1>8. CASE RemoveOldest(t) /\ UNCHANGED locks
  <2>1. pc[t] = "remove_oldest" /\ usage_lock = t /\ usage_lock' = t
    BY <1>1, <1>8 DEF RemoveOldest, LocksOK, locks, Making
  <2>2. ~ Reserve(t)
    BY <1>1, <2>1 DEF Reserve
  <2>3. pc'[t] \in {"disk_put", "evicted"}
    BY <1>1, <1>8, <2>2 DEF RemoveOldest, Goto
  <2> QED
    BY <1>3, <1>8, <2>1, <2>3 DEF Making, Evicting
<1>9. CASE LockSize(t)
  <2>1. /\ size_lock = Free /\ size_lock' = t /\ UNCHANGED <<entries_lock, usage_lock>>
        /\ pc[t] = "disk_put" /\ pc'[t] = "disk_check"
    BY <1>1, <1>9 DEF LockSize, Goto
  <2> QED
    BY <1>1, <1>2, <2>1 DEF LocksOK, Making, Evicting
<1>10. CASE UnlockSize(t) \/ EvictEntry(t)
  <2>1. /\ pc[t] = "disk_check" /\ UNCHANGED <<entries_lock, usage_lock>>
        /\ \/ size_lock' = Free /\ pc'[t] \in {"disk_create", "evicted"}
           \/ size_lock' = size_lock /\ pc'[t] = "disk_sum"
    BY <1>1, <1>10 DEF UnlockSize, EvictEntry, Goto
  <2> QED
    BY <1>1, <1>2, <2>1 DEF LocksOK, Making, Evicting
<1>11. CASE InsertEntry(t)
  <2>1. /\ entries_lock = Free /\ entries_lock' = t /\ UNCHANGED <<size_lock, usage_lock>>
        /\ pc[t] = "disk_insert" /\ pc'[t] = "disk_count"
    BY <1>1, <1>11 DEF InsertEntry, Goto
  <2> QED
    BY <1>1, <1>2, <2>1 DEF LocksOK, Making, Evicting
<1>12. CASE CountEntry(t)
  <2>1. /\ entries_lock' = Free /\ UNCHANGED <<size_lock, usage_lock>>
        /\ pc[t] = "disk_count" /\ pc'[t] = "evicted"
    BY <1>1, <1>12 DEF CountEntry, Goto
  <2> QED
    BY <1>1, <1>2, <2>1 DEF LocksOK, Making, Evicting
<1>13. CASE RemoveOldest(t)
  BY <1>7, <1>8, <1>13 DEF RemoveOldest
<1> QED
  BY <1>4, <1>5, <1>6, <1>7, <1>9, <1>10, <1>11, <1>12, <1>13 DEF Step

LEMMA StepType == TypeInv /\ [Next]_vars => TypeInv'
<1> SUFFICES ASSUME TypeInv, [Next]_vars PROVE TypeInv'
  OBVIOUS
<1>1. ASSUME NEW t \in Tasks, Request(t) \/ Step(t) PROVE TypeInv'
  <2>1. TasksOK'
    BY <1>1, RequestMoves, StepMoves, MoveFacts DEF TypeInv
  <2>2. TimesOK' /\ clock' \in Nat
    BY <1>1, TimesStep DEF TimesOK
  <2> QED
    BY <1>1, <2>1, <2>2, BooksStep, LocksStep DEF TypeInv
<1>2. CASE UNCHANGED vars
  <2>1. UNCHANGED <<memory, memory_usage, entries, current_size, files, usage_lock,
                    entries_lock, size_lock, pc, block, victim, job, clock, now, overtaken>>
    BY <1>2 DEF vars, times, disk, locks, locals
  <2>2. BooksOK' /\ LocksOK' /\ TasksOK' /\ TimesOK'
    BY <2>1 DEF TypeInv, BooksOK, LocksOK, TasksOK, TaskOK, TimesOK, NotLater, MapOK
  <2> QED
    BY <2>2 DEF TypeInv
<1> QED
  BY <1>1, <1>2 DEF Next, Finished

LEMMA InitType == Init => TypeInv
<1> SUFFICES ASSUME Init PROVE TypeInv
  OBVIOUS
<1>1. MapOK(Map!EmptyMap)
  BY FS_EmptySet DEF MapOK, Map!EmptyMap
<1>2. BooksOK /\ LocksOK
  BY <1>1, TaskAssumption DEF Init, BooksOK, LocksOK, Map!EmptyMap, Making, Evicting
<1>3. NoBlock \in Blocks /\ NoJob \in Jobs
  BY DEF NoBlock, Block, Blocks, NoJob, Jobs
<1>4. TasksOK
  BY <1>3 DEF Init, TasksOK, TaskOK, Labels, WithBlock, Making, Evicting
<1>5. TimesOK
  BY DEF Init, TimesOK, NotLater, Map!EmptyMap
<1> QED
  BY <1>2, <1>4, <1>5 DEF TypeInv

\* The invariant of the types and the locks holds in every behaviour: at most one
\* task makes room at a time, whatever the calls on the maps do meanwhile.
THEOREM TypeInvariant == Spec => []TypeInv
  BY InitType, StepType, PTL DEF Spec

\* The cache keeps its type, and room is made by one task at a time, the one that
\* holds memory_usage (data.rs:148-161).
THEOREM TypeCorrect == Spec => []TypeOK
<1>1. TypeInv => TypeOK
  BY DEF TypeInv, BooksOK, LocksOK, TasksOK, TimesOK, NotLater, MapOK, TypeOK
<1> QED
  BY <1>1, TypeInvariant, PTL
-----------------------------------------------------------------------------
(* The account of the memory *)

\* What a task has on its way into the map, or taken out of it and not yet off
\* the account.
HeldBy(l, b, v, j) ==
  CASE l = "insert" -> b.size
    [] l \in Evicting -> v.size
    [] l = "remove" -> j.removed
    [] OTHER -> 0
Hold == [t \in Tasks |-> HeldBy(pc[t], block[t], victim[t], job[t])]

\* The account covers what the map and the tasks hold.  It may be higher: an
\* insertion that replaces a block leaves the old one's bytes on it.
Covered == Total(memory) + Bytes(Hold) <= memory_usage
AccountInv == TypeInv /\ Covered

LEMMA HoldType ==
  ASSUME TasksOK
  PROVE  NatMap(Hold) /\ Bytes(Hold) \in Nat /\ \A t \in Tasks : Hold[t] <= Bytes(Hold)
<1>1. \A t \in Tasks : HeldBy(pc[t], block[t], victim[t], job[t]) \in Nat
  BY DEF TasksOK, TaskOK, Blocks, Jobs, HeldBy
<1>2. DOMAIN Hold = Tasks /\ NatMap(Hold)
  BY <1>1, TaskAssumption DEF Hold, NatMap
<1>3. Bytes(Hold) \in Nat
  BY <1>2, BytesType
<1>4. ASSUME NEW t \in Tasks PROVE Hold[t] <= Bytes(Hold)
  <2>1. ValueAt(Hold, t) = Hold[t] /\ Hold[t] \in Nat
    BY <1>2 DEF ValueAt, NatMap
  <2>2. /\ Bytes(Rest(Hold, t)) \in Nat
        /\ Bytes(Hold) = Bytes(Rest(Hold, t)) + ValueAt(Hold, t)
    BY <1>2, BytesSplit
  <2> QED
    BY <2>1, <2>2
<1> QED
  BY <1>2, <1>3, <1>4

\* A step changes what its task holds.
LEMMA HoldStep ==
  ASSUME TasksOK, TasksOK', NEW t \in Tasks,
         \A u \in Tasks : u # t => /\ pc'[u] = pc[u] /\ block'[u] = block[u]
                                   /\ victim'[u] = victim[u] /\ job'[u] = job[u]
  PROVE  LET had == HeldBy(pc[t], block[t], victim[t], job[t])
             has == HeldBy(pc'[t], block'[t], victim'[t], job'[t])
         IN /\ Bytes(Hold) \in Nat /\ Bytes(Hold)' \in Nat /\ had \in Nat /\ has \in Nat
            /\ had <= Bytes(Hold)
            /\ Bytes(Hold)' + had = Bytes(Hold) + has
<1> DEFINE g == [u \in Tasks |-> HeldBy(pc'[u], block'[u], victim'[u], job'[u])]
           had == HeldBy(pc[t], block[t], victim[t], job[t])
           has == HeldBy(pc'[t], block'[t], victim'[t], job'[t])
<1>1. \A u \in Tasks : g[u] \in Nat
  BY DEF TasksOK, TaskOK, Blocks, Jobs, HeldBy
<1>2. NatMap(g) /\ DOMAIN g = Tasks /\ g[t] = has
  BY <1>1, TaskAssumption DEF NatMap
<1>3. NatMap(Hold) /\ DOMAIN Hold = Tasks /\ Hold[t] = had /\ Hold[t] <= Bytes(Hold)
  BY HoldType DEF Hold
<1>4. \A u \in Tasks \ {t} : Hold[u] = g[u]
  BY DEF Hold, HeldBy
<1>5. Hold' = g
  BY DEF Hold, HeldBy, Evicting
<1>6. Bytes(Hold)' = Bytes(g)
  BY <1>5 DEF Bytes
<1> HIDE DEF g, had, has
<1>7. ValueAt(Hold, t) = had /\ ValueAt(g, t) = has
  BY <1>2, <1>3 DEF ValueAt
<1>8. /\ Bytes(Hold) \in Nat /\ Bytes(g) \in Nat
      /\ ValueAt(Hold, t) \in Nat /\ ValueAt(g, t) \in Nat
      /\ Bytes(g) + ValueAt(Hold, t) = Bytes(Hold) + ValueAt(g, t)
  <2>1. /\ DOMAIN Hold \ {t} = DOMAIN g \ {t}
        /\ \A u \in DOMAIN Hold \ {t} : Hold[u] = g[u]
    BY <1>2, <1>3, <1>4
  <2> QED
    BY <1>2, <1>3, <2>1, BytesDiffer
<1> QED
  BY <1>3, <1>6, <1>7, <1>8 DEF had, has

\* Every call keeps the account covered.
LEMMA CoveredStep ==
  ASSUME AccountInv, TypeInv', NEW t \in Tasks, Request(t) \/ Step(t)
  PROVE  Covered'
<1> DEFINE had == HeldBy(pc[t], block[t], victim[t], job[t])
           has == HeldBy(pc'[t], block'[t], victim'[t], job'[t])
<1>1. /\ TypeInv /\ TasksOK /\ TasksOK' /\ MapOK(memory) /\ memory_usage \in Nat
      /\ pc \in [Tasks -> Labels] /\ block \in [Tasks -> Blocks] /\ victim \in [Tasks -> Blocks]
      /\ job \in [Tasks -> Jobs]
      /\ block[t].size \in Nat /\ victim[t].size \in Nat /\ job[t].removed \in Nat
      /\ pc[t] \in WithBlock => block[t].key \in AllKeys
      /\ Total(memory) + Bytes(Hold) <= memory_usage /\ clock' \in Nat
  BY DEF AccountInv, Covered, TypeInv, TasksOK, BooksOK, TimesOK, TaskOK, Blocks, Jobs
<1>2. MovesOK(t)
  BY <1>1, RequestMoves, StepMoves
<1>3. \A u \in Tasks : u # t => /\ pc'[u] = pc[u] /\ block'[u] = block[u]
                                /\ victim'[u] = victim[u] /\ job'[u] = job[u]
  BY <1>1, <1>2, MoveFacts
<1>4. PICK h \in Nat :
        /\ Bytes(Hold) \in Nat /\ Bytes(Hold)' = h /\ had \in Nat /\ has \in Nat
        /\ had <= Bytes(Hold) /\ h + had = Bytes(Hold) + has
  BY <1>1, <1>3, HoldStep
<1>5. Total(memory) \in Nat /\ memory_usage' \in Nat
  BY <1>1, WithoutFacts DEF TypeInv, BooksOK
<1>6. ASSUME Total(memory') + has + memory_usage <= Total(memory) + had + memory_usage',
             Total(memory') \in Nat
      PROVE  Covered'
  <2>1. Total(memory') + h <= memory_usage'
    <3> HIDE DEF had, has
    <3> QED
      BY <1>1, <1>4, <1>5, <1>6
  <2>2. Total(memory)' = Total(memory')
    BY DEF Total, Bytes
  <2> QED
    BY <1>4, <2>1, <2>2 DEF Covered
<1>7. CASE UNCHANGED <<memory, memory_usage>> /\ has = had
  BY <1>4, <1>5, <1>6, <1>7
<1>8. ASSUME NEW i \in Inodes, NEW o \in Offsets, Get(t, i, o) PROVE Covered'
  <2>1. pc[t] = "idle" /\ pc'[t] \in {"idle", "disk_lookup"} /\ UNCHANGED memory_usage
    BY <1>1, <1>8 DEF Get, Call, Goto
  <2>2. had = 0 /\ has = 0
    BY <2>1 DEF HeldBy, Evicting
  <2>3. Total(memory') = Total(memory)
    BY <1>1, <1>8, TouchFacts DEF Get
  <2> QED
    BY <1>1, <1>5, <1>6, <2>1, <2>2, <2>3
<1>9. CASE \E i \in Inodes, o \in Offsets :
             (\E n \in Sizes : Put(t, i, o, n) \/ InvalidateRange(t, i, o, n)) \/ Invalidate(t, i)
  <2>1. /\ pc[t] = "idle" /\ UNCHANGED <<memory, memory_usage>>
        /\ pc'[t] = "reserve" \/ (pc'[t] = "remove" /\ job'[t].removed = 0)
    BY <1>1, <1>9 DEF Put, InvalidateRange, Invalidate, Removal, Call, Goto
  <2>2. had = 0 /\ has = 0
    BY <2>1 DEF HeldBy, Evicting
  <2> QED
    BY <1>7, <2>1, <2>2
<1>10. CASE \/ DiskLookup(t) \/ DiskRead(t) \/ LockUsage(t) \/ TakeNow(t) \/ FindOldest(t)
            \/ DiskInvalidate(t)
  <2>1. /\ UNCHANGED <<memory, memory_usage>>
        /\ pc[t] \in {"disk_lookup", "disk_read", "reserve", "evict", "scan", "disk_invalidate"}
        /\ pc'[t] \in {"idle", "disk_read", "reserve", "evict", "scan", "remove_oldest"}
    BY <1>1, <1>10 DEF DiskLookup, DiskRead, LockUsage, TakeNow, FindOldest, DiskInvalidate,
                       Return, Goto
  <2>2. had = 0 /\ has = 0
    BY <2>1 DEF HeldBy, Evicting
  <2> QED
    BY <1>7, <2>1, <2>2
<1>11. CASE \/ LockSize(t) \/ UnlockSize(t) \/ EvictEntry(t) \/ SumEntries(t) \/ CreateFile(t)
            \/ WriteFile(t) \/ InsertEntry(t) \/ CountEntry(t)
  <2>1. UNCHANGED <<memory, memory_usage, victim>> /\ pc[t] \in Evicting /\ pc'[t] \in Evicting
    BY <1>1, <1>11 DEF LockSize, UnlockSize, EvictEntry, SumEntries, CreateFile, WriteFile,
                       InsertEntry, CountEntry, locals, Goto, Evicting
  <2>2. had = victim[t].size /\ has = victim[t].size
    BY <2>1 DEF HeldBy, Evicting
  <2> QED
    BY <1>7, <2>1, <2>2
<1>12. ASSUME Reserve(t), pc[t] \in {"evict", "scan", "remove_oldest"} PROVE Covered'
  <2>1. /\ memory_usage' = memory_usage + block[t].size /\ memory' = memory
        /\ block' = block /\ pc'[t] = "insert"
    BY <1>1, <1>12 DEF Reserve, locals, Goto
  <2>2. had = 0 /\ has = block[t].size
    BY <1>12, <2>1 DEF HeldBy, Evicting
  <2> QED
    BY <1>1, <1>5, <1>6, <2>1, <2>2
<1>13. CASE RemoveOldest(t)
  <2>1. CASE victim[t].key \in DOMAIN memory
    <3>1. /\ pc[t] = "remove_oldest" /\ pc'[t] \in Evicting /\ memory_usage' = memory_usage
          /\ victim'[t].size = Sized(memory, victim[t].key)
          /\ memory' = Without(memory, {victim[t].key})
      <4>1. victim' = [victim EXCEPT ![t] =
                         [victim[t] EXCEPT !.size = Sized(memory, victim[t].key)]]
        BY <1>1, <1>13, <2>1 DEF RemoveOldest
      <4>2. [victim[t] EXCEPT !.size = Sized(memory, victim[t].key)].size
              = Sized(memory, victim[t].key)
        BY <1>1 DEF Blocks
      <4> QED
        BY <1>1, <1>13, <2>1, <4>1, <4>2 DEF RemoveOldest, Goto, Evicting
    <3>2. had = 0 /\ has = Sized(memory, victim[t].key)
      BY <3>1 DEF HeldBy, Evicting
    <3>3. /\ Sized(memory, victim[t].key) \in Nat
          /\ Total(memory') + Sized(memory, victim[t].key) = Total(memory)
      BY <1>1, <3>1, RemoveFacts
    <3>4. Total(memory') \in Nat
      BY <1>1, <3>1, WithoutFacts
    <3> QED
      BY <1>1, <1>5, <1>6, <3>1, <3>2, <3>3, <3>4
  <2>2. CASE victim[t].key \notin DOMAIN memory
    BY <1>12, <1>13, <2>2 DEF RemoveOldest
  <2> QED
    BY <2>1, <2>2
<1>14. CASE EnoughRoom(t) \/ FindNone(t)
  BY <1>12, <1>14 DEF EnoughRoom, FindNone
<1>15. CASE Evicted(t)
  <2>1. /\ pc[t] = "evicted" /\ pc'[t] = "evict" /\ memory' = memory
        /\ memory_usage' = Minus(memory_usage, victim[t].size)
    BY <1>1, <1>15 DEF Evicted, Goto
  <2>2. had = victim[t].size /\ has = 0
    BY <2>1 DEF HeldBy, Evicting
  <2>3. victim[t].size <= memory_usage
    BY <1>1, <1>4, <1>5, <2>2
  <2>4. memory_usage' = memory_usage - victim[t].size
    BY <2>1, <2>3 DEF Minus
  <2> QED
    BY <1>1, <1>5, <1>6, <2>1, <2>2, <2>4
<1>16. CASE InsertBlock(t)
  <2>1. /\ pc[t] = "insert" /\ pc'[t] = "idle" /\ memory_usage' = memory_usage
        /\ memory' = Latest(memory, block[t], clock') /\ block[t].key \in AllKeys
    BY <1>1, <1>16 DEF InsertBlock, Return, Goto, WithBlock
  <2>2. had = block[t].size /\ has = 0
    BY <2>1 DEF HeldBy, Evicting
  <2>3. /\ Total(memory') \in Nat /\ Sized(memory, block[t].key) \in Nat
        /\ Total(memory') + Sized(memory, block[t].key) = Total(memory) + block[t].size
    BY <1>1, <2>1, LatestFacts
  <2> QED
    BY <1>1, <1>5, <1>6, <2>1, <2>2, <2>3
<1>17. ASSUME NEW k \in job[t].keys, RemoveBlock(t, k) PROVE Covered'
  <2>1. /\ pc[t] = "remove" /\ pc'[t] = "remove" /\ memory_usage' = memory_usage
        /\ memory' = Without(memory, {k})
        /\ job'[t].removed = job[t].removed + Sized(memory, k)
    BY <1>1, <1>17 DEF RemoveBlock, Jobs
  <2>2. had = job[t].removed /\ has = job[t].removed + Sized(memory, k)
    BY <2>1 DEF HeldBy, Evicting
  <2>3. /\ Sized(memory, k) \in Nat /\ Total(memory') \in Nat
        /\ Total(memory') + Sized(memory, k) = Total(memory)
    BY <1>1, <2>1, RemoveFacts, WithoutFacts
  <2> QED
    BY <1>1, <1>5, <1>6, <2>1, <2>2, <2>3
<1>18. CASE Subtract(t)
  <2>1. /\ pc[t] = "remove" /\ pc'[t] \in {"disk_invalidate", "idle"} /\ memory' = memory
        /\ memory_usage' = Minus(memory_usage, job[t].removed)
    BY <1>1, <1>18 DEF Subtract, Return, Goto
  <2>2. had = job[t].removed /\ has = 0
    BY <2>1 DEF HeldBy, Evicting
  <2>3. job[t].removed <= memory_usage
    BY <1>1, <1>4, <1>5, <2>2
  <2>4. memory_usage' = memory_usage - job[t].removed
    BY <2>1, <2>3 DEF Minus
  <2> QED
    BY <1>1, <1>5, <1>6, <2>1, <2>2, <2>4
<1> QED
  BY <1>8, <1>9, <1>10, <1>11, <1>13, <1>14, <1>15, <1>16, <1>17, <1>18 DEF Request, Step

LEMMA AccountStep == AccountInv /\ [Next]_vars => AccountInv'
<1> SUFFICES ASSUME AccountInv, [Next]_vars PROVE AccountInv'
  OBVIOUS
<1>1. TypeInv'
  BY StepType DEF AccountInv
<1>2. ASSUME NEW t \in Tasks, Request(t) \/ Step(t) PROVE Covered'
  BY <1>1, <1>2, CoveredStep
<1>3. CASE UNCHANGED vars
  <2>1. UNCHANGED <<memory, memory_usage, pc, block, victim, job>>
    BY <1>3 DEF vars, locals
  <2>2. Hold' = [t \in Tasks |-> HeldBy(pc'[t], block'[t], victim'[t], job'[t])]
    BY DEF Hold, HeldBy, Evicting
  <2>3. Hold' = Hold
    BY <2>1, <2>2 DEF Hold
  <2>4. Bytes(Hold)' = Bytes(Hold) /\ Total(memory)' = Total(memory)
    BY <2>1, <2>3 DEF Total, Bytes
  <2> QED
    BY <1>1, <2>1, <2>4 DEF AccountInv, Covered
<1> QED
  BY <1>1, <1>2, <1>3 DEF Next, Finished, AccountInv

LEMMA AccountInit == Init => AccountInv
<1> SUFFICES ASSUME Init PROVE AccountInv
  OBVIOUS
<1>1. TypeInv /\ TasksOK
  BY InitType DEF TypeInv
<1>2. NatMap(Hold) /\ \A t \in DOMAIN Hold : Hold[t] = 0
  BY <1>1, HoldType DEF Init, Hold, HeldBy, Evicting
<1>3. Bytes(Hold) = 0
  <2>1. Places(Hold) = {}
    BY <1>2, PlacesAre
  <2> QED
    BY <2>1, FS_EmptySet DEF Bytes, Places
<1>4. Total(memory) = 0
  <2>1. DOMAIN SizesOf(memory) = {}
    BY DEF Init, Map!EmptyMap, SizesOf
  <2>2. Places(SizesOf(memory)) = {}
    BY <2>1, PlacesAre
  <2> QED
    BY <2>2, FS_EmptySet DEF Total, Bytes, Places, SizesOf
<1> QED
  BY <1>1, <1>3, <1>4 DEF AccountInv, Covered, Init

THEOREM AccountInvariant == Spec => []AccountInv
  BY AccountInit, AccountStep, PTL DEF Spec

LEMMA AccountMeans ==
  AccountInv => /\ UsageCoversMemory
                /\ Total(memory) + Reserved \in Nat /\ memory_usage \in Nat
<1> DEFINE f == [t \in Tasks |-> IF pc[t] = "insert" THEN block[t].size ELSE 0]
<1> SUFFICES ASSUME AccountInv
             PROVE  /\ UsageCoversMemory
                    /\ Total(memory) + Reserved \in Nat /\ memory_usage \in Nat
  OBVIOUS
<1>1. TasksOK /\ Total(memory) \in Nat /\ memory_usage \in Nat
  BY WithoutFacts DEF AccountInv, TypeInv, BooksOK
<1>2. \A t \in Tasks : block[t].size \in Nat
  BY <1>1 DEF TasksOK, Blocks
<1>3. NatMap(f) /\ DOMAIN f = Tasks
  BY <1>2, TaskAssumption DEF NatMap
<1>4. NatMap(Hold) /\ DOMAIN Hold = Tasks
  BY <1>1, HoldType DEF Hold
<1>5. ASSUME NEW t \in Tasks PROVE f[t] <= Hold[t]
  <2>1. Hold[t] \in Nat
    BY <1>4 DEF NatMap
  <2>2. CASE pc[t] = "insert"
    <3>1. HeldBy(pc[t], block[t], victim[t], job[t]) = block[t].size
      BY <2>2 DEF HeldBy, Evicting
    <3>2. Hold[t] = HeldBy(pc[t], block[t], victim[t], job[t])
      BY DEF Hold
    <3> QED
      BY <1>2, <2>2, <3>1, <3>2
  <2> QED
    BY <2>1, <2>2
<1>6. Reserved = Bytes(f)
  BY DEF Reserved
<1> HIDE DEF f
<1>7. Bytes(f) \in Nat /\ Bytes(Hold) \in Nat /\ Bytes(f) <= Bytes(Hold)
  BY <1>3, <1>4, <1>5, BytesBound
<1> QED
  BY <1>1, <1>6, <1>7 DEF AccountInv, Covered, UsageCoversMemory

\* memory_usage never falls below what the map holds and what is on its way into
\* it: what evict_one and the invalidations take off is what they have taken out,
\* and saturating_sub never saturates (data.rs:146-260).
THEOREM AccountCovers == Spec => []UsageCoversMemory
  BY AccountMeans, AccountInvariant, PTL

\* A search that nobody gets into has a block to find, and the block it found is
\* still there.
Undisturbed ==
  \A t \in Tasks \ overtaken :
    /\ pc[t] = "scan" => \A k \in DOMAIN memory : memory[k].last_access < now[t]
    /\ pc[t] = "remove_oldest" => victim[t].key \in DOMAIN memory
RoomInv == AccountInv /\ Undisturbed

LEMMA UndisturbedStep ==
  ASSUME TypeInv, Undisturbed, NEW t \in Tasks, Request(t) \/ Step(t)
  PROVE  Undisturbed'
<1>1. /\ TasksOK /\ TimesOK /\ pc \in [Tasks -> Labels] /\ now \in [Tasks -> Nat]
      /\ victim \in [Tasks -> Blocks]
      /\ \A u \in Tasks : pc[u] \in Making <=> usage_lock = u
      /\ \A k \in DOMAIN memory : memory[k].last_access \in Nat
  BY DEF TypeInv, TasksOK, TimesOK, LocksOK, BooksOK, MapOK, Cached
<1>2. \A u \in Tasks : u # t => pc'[u] = pc[u] /\ victim'[u] = victim[u]
  BY <1>1, RequestMoves, StepMoves, MoveFacts
\* It suffices to look at the searches of others, and at one that starts here.
<1>3. ASSUME \A u \in Tasks : u # t => now'[u] = now[u] /\ (u \in overtaken => u \in overtaken'),
             pc'[t] \notin Searching,
             \A u \in Tasks : u # t /\ pc[u] \in Searching /\ u \notin overtaken' =>
               memory' = memory
      PROVE  Undisturbed'
  BY <1>2, <1>3 DEF Undisturbed, Searching
<1>4. ASSUME UNCHANGED now, Disturb(t), pc'[t] \notin Searching PROVE Undisturbed'
  BY <1>3, <1>4 DEF Disturb
<1>5. ASSUME UNCHANGED <<now, overtaken, memory>>, pc'[t] \notin Searching PROVE Undisturbed'
  BY <1>3, <1>5
<1>6. ASSUME pc[t] \in Making PROVE \A u \in Tasks : u # t => pc[u] \notin Searching
  BY <1>1, <1>6 DEF Making, Searching
<1>7. CASE Request(t)
  <2>1. pc'[t] \notin Searching
    BY <1>1, <1>7 DEF Request, Get, Put, InvalidateRange, Invalidate, Removal, Call, Goto, Searching
  <2>2. now' = now /\ (Disturb(t) \/ UNCHANGED <<overtaken, memory>>)
    BY <1>7 DEF Request, Get, Put, InvalidateRange, Invalidate, Removal, times
  <2> QED
    BY <1>4, <1>5, <2>1, <2>2
<1>8. CASE InsertBlock(t) \/ \E k \in job[t].keys : RemoveBlock(t, k)
  <2>1. pc'[t] \notin Searching /\ now' = now /\ Disturb(t)
    BY <1>1, <1>8 DEF InsertBlock, RemoveBlock, Return, Goto, Searching
  <2> QED
    BY <1>4, <2>1
<1>9. CASE TakeNow(t)
  <2>1. /\ pc[t] \in Making /\ pc'[t] = "scan" /\ now' = [now EXCEPT ![t] = clock']
        /\ clock' \in Nat /\ memory' = memory
        /\ t \notin overtaken' => \A k \in DOMAIN memory : ~ (memory[k].last_access >= clock')
    BY <1>1, <1>9 DEF TakeNow, Goto, Making, Instants, TimesOK
  <2>2. t \notin overtaken' => \A k \in DOMAIN memory' : memory'[k].last_access < now'[t]
    BY <1>1, <2>1
  <2>3. \A u \in Tasks : u # t => pc'[u] \notin Searching
    BY <1>2, <1>6, <2>1
  <2> QED
    BY <2>1, <2>2, <2>3 DEF Undisturbed, Searching
<1>10. CASE FindOldest(t)
  <2>1. /\ pc[t] \in Making /\ pc'[t] = "remove_oldest" /\ memory' = memory
        /\ victim'[t].key \in DOMAIN memory
    BY <1>1, <1>10 DEF FindOldest, Goto, Making, Oldest, Block
  <2>2. \A u \in Tasks : u # t => pc'[u] \notin Searching
    BY <1>2, <1>6, <2>1
  <2> QED
    BY <2>1, <2>2 DEF Undisturbed, Searching
<1>11. CASE EnoughRoom(t) \/ FindNone(t) \/ RemoveOldest(t) \/ Evicted(t)
  <2>1. pc[t] \in Making /\ pc'[t] \notin Searching
    BY <1>1, <1>11 DEF EnoughRoom, FindNone, RemoveOldest, Evicted, Reserve, Goto, Making,
                       Evicting, Searching
  <2>2. \A u \in Tasks : pc'[u] \notin Searching
    BY <1>2, <1>6, <2>1
  <2> QED
    BY <2>2 DEF Undisturbed, Searching
<1>12. CASE \/ DiskLookup(t) \/ DiskRead(t) \/ LockUsage(t) \/ LockSize(t) \/ UnlockSize(t)
            \/ EvictEntry(t) \/ SumEntries(t) \/ CreateFile(t) \/ WriteFile(t) \/ InsertEntry(t)
            \/ CountEntry(t) \/ Subtract(t) \/ DiskInvalidate(t)
  <2>1. UNCHANGED <<now, overtaken, memory>>
    BY <1>12 DEF DiskLookup, DiskRead, LockUsage, LockSize, UnlockSize, EvictEntry, SumEntries,
                 CreateFile, WriteFile, InsertEntry, CountEntry, Subtract, DiskInvalidate, times
  <2>2. pc'[t] \notin Searching
    BY <1>1, <1>12 DEF DiskLookup, DiskRead, LockUsage, LockSize, UnlockSize, EvictEntry,
                       SumEntries, CreateFile, WriteFile, InsertEntry, CountEntry, Subtract,
                       DiskInvalidate, Return, Goto, Searching
  <2> QED
    BY <1>5, <2>1, <2>2
<1> QED
  BY <1>7, <1>8, <1>9, <1>10, <1>11, <1>12 DEF Step

LEMMA RoomInvariant == Spec => []RoomInv
<1>1. Init => Undisturbed
  BY DEF Init, Undisturbed
<1>2. AccountInv /\ Undisturbed /\ [Next]_vars => Undisturbed'
  <2> SUFFICES ASSUME AccountInv, Undisturbed, [Next]_vars PROVE Undisturbed'
    OBVIOUS
  <2>1. CASE UNCHANGED vars
    BY <2>1 DEF vars, times, locals, Undisturbed
  <2> QED
    BY <2>1, UndisturbedStep DEF Next, Finished, AccountInv
<1> QED
  BY <1>1, <1>2, AccountInvariant, PTL DEF Spec, RoomInv

\* A put that makes room undisturbed leaves no more in memory and on its way there
\* than the limit, however the account has been exceeded before: evict_one has a
\* block to find and finds it still there, so that put_memory only stops when the
\* block fits (data.rs:146-161).
THEOREM RoomIsMade == Spec => LimitRestored
<1> DEFINE Meant == /\ UsageCoversMemory
                    /\ Total(memory) + Reserved \in Nat /\ memory_usage \in Nat
           Restores == \A t \in Tasks \ overtaken :
             pc[t] # "insert" /\ pc'[t] = "insert" /\ DOMAIN memory # {} =>
               Total(memory') + Reserved' <= MemoryLimit
<1>1. ASSUME RoomInv, Meant', [Next]_vars PROVE [Restores]_vars
  <2> SUFFICES ASSUME NEW t \in Tasks \ overtaken, pc[t] # "insert", pc'[t] = "insert",
                      DOMAIN memory # {}
               PROVE  Total(memory') + Reserved' <= MemoryLimit
    OBVIOUS
  <2>1. /\ TypeInv /\ pc \in [Tasks -> Labels] /\ block[t].size \in Nat
        /\ \A k \in DOMAIN memory : memory[k].last_access \in Nat
        /\ now[t] \in Nat
    BY <1>1 DEF RoomInv, AccountInv, TypeInv, TasksOK, TimesOK, BooksOK, MapOK, Cached, Blocks
  <2>2. PICK u \in Tasks : Request(u) \/ Step(u)
    BY <1>1 DEF Next, Finished, vars
  <2>3. u = t
    <3>1. MovesOK(u)
      BY <2>1, <2>2, RequestMoves, StepMoves
    <3> QED
      BY <2>1, <3>1 DEF MovesOK, Moves
  <2>4. EnoughRoom(t)
    <3>1. ~ Request(t)
      BY <2>1 DEF Request, Get, Put, InvalidateRange, Invalidate, Removal, Call, Goto
    <3>2. ~ FindNone(t)
      BY <1>1, <2>1 DEF FindNone, RoomInv, Undisturbed
    <3>3. ~ RemoveOldest(t)
      BY <1>1, <2>1 DEF RemoveOldest, Goto, RoomInv, Undisturbed
    <3>4. ~ (TakeNow(t) \/ FindOldest(t) \/ DiskLookup(t) \/ DiskRead(t) \/ LockUsage(t)
             \/ Evicted(t) \/ InsertBlock(t) \/ \E k \in job[t].keys : RemoveBlock(t, k))
      BY <2>1 DEF TakeNow, FindOldest, DiskLookup, DiskRead, LockUsage, Evicted, InsertBlock,
                  RemoveBlock, Return, Goto
    <3>5. ~ (LockSize(t) \/ UnlockSize(t) \/ EvictEntry(t) \/ SumEntries(t) \/ CreateFile(t)
             \/ WriteFile(t) \/ InsertEntry(t) \/ CountEntry(t) \/ Subtract(t)
             \/ DiskInvalidate(t))
      BY <2>1 DEF LockSize, UnlockSize, EvictEntry, SumEntries, CreateFile, WriteFile,
                  InsertEntry, CountEntry, Subtract, DiskInvalidate, Return, Goto
    <3> QED
      BY <2>2, <2>3, <3>1, <3>2, <3>3, <3>4, <3>5 DEF Step
  <2>5. memory_usage' = memory_usage + block[t].size /\ ~ TooMuch(t)
    BY <2>4 DEF EnoughRoom, Reserve
  <2>6. memory_usage' <= MemoryLimit
    BY <1>1, <2>1, <2>5, SizeAssumption DEF TooMuch, RoomInv, AccountInv, TypeInv, BooksOK
  <2>7. /\ Total(memory') + Reserved' \in Nat /\ memory_usage' \in Nat
        /\ Total(memory') + Reserved' <= memory_usage'
    <3>1. Total(memory)' = Total(memory')
      BY DEF Total, Bytes
    <3> QED
      BY <1>1, <3>1 DEF UsageCoversMemory
  <2> HIDE DEF Meant
  <2> QED
    BY <2>6, <2>7, SizeAssumption
<1>2. Spec => []Meant
  BY AccountMeans, AccountInvariant, PTL
<1> HIDE DEF Meant, Restores
<1>3. Spec => [][Restores]_vars
  BY <1>1, <1>2, RoomInvariant, PTL DEF Spec
<1> QED
  BY <1>3 DEF LimitRestored, Restores
-----------------------------------------------------------------------------
(* The disk *)

\* Where the block to evict has room on disk and is not yet counted there.
Placing == {"disk_create", "disk_write", "disk_insert", "disk_count"}

\* current_size covers the entries, but for one that is about to be counted, and
\* no one but the task that places a block raises it: put is called under
\* memory_usage.
DiskBooks ==
  /\ Total(entries) <= DiskLimit
  /\ \A t \in Tasks : pc[t] = "disk_count" => Total(entries) <= current_size + victim[t].size
  /\ (\A t \in Tasks : pc[t] # "disk_count") => Total(entries) <= current_size
  /\ \A t \in Tasks : pc[t] \in Placing => current_size + victim[t].size <= DiskLimit
DiskInv == TypeInv /\ DiskBooks

LEMMA DiskBooksStep ==
  ASSUME DiskInv, TypeInv', NEW t \in Tasks, Request(t) \/ Step(t)
  PROVE  DiskBooks'
<1>1. /\ TypeInv /\ TasksOK /\ MapOK(entries) /\ MapOK(entries') /\ MapOK(memory)
      /\ current_size \in Nat /\ current_size' \in Nat /\ DiskLimit \in Nat /\ clock' \in Nat
      /\ pc \in [Tasks -> Labels] /\ victim \in [Tasks -> Blocks]
      /\ \A u \in Tasks : victim[u].size \in Nat /\ victim'[u].size \in Nat
      /\ \A u \in Tasks : pc[u] \in Making => usage_lock = u
      /\ pc[t] \in {"remove_oldest"} \cup Evicting => victim[t].key \in AllKeys
  BY SizeAssumption DEF DiskInv, TypeInv, TasksOK, BooksOK, LocksOK, TimesOK, TaskOK, Blocks
<1>2. MovesOK(t)
  BY <1>1, RequestMoves, StepMoves
<1>3. \A u \in Tasks : u # t => pc'[u] = pc[u] /\ victim'[u] = victim[u]
  BY <1>1, <1>2, MoveFacts
<1>4. Total(entries) \in Nat /\ Total(entries') \in Nat /\ Total(entries)' = Total(entries')
  <2>1. Total(entries) \in Nat /\ Total(entries') \in Nat
    BY <1>1, TotalType DEF MapOK
  <2>2. Total(entries)' = Total(entries')
    BY DEF Total, Bytes
  <2> QED
    BY <2>1, <2>2
<1>5. /\ Total(entries) <= DiskLimit
      /\ \A u \in Tasks : pc[u] = "disk_count" => Total(entries) <= current_size + victim[u].size
      /\ (\A u \in Tasks : pc[u] # "disk_count") => Total(entries) <= current_size
      /\ \A u \in Tasks : pc[u] \in Placing => current_size + victim[u].size <= DiskLimit
  BY DEF DiskInv, DiskBooks
<1>6. pc[t] \in Making => \A u \in Tasks : u # t => pc[u] \notin Making
  BY <1>1
<1>7. ASSUME Total(entries') <= Total(entries), current_size' = current_size,
             pc[t] # "disk_count", pc'[t] # "disk_count",
             pc'[t] \in Placing => victim'[t].size = victim[t].size
                                   /\ current_size + victim[t].size <= DiskLimit
      PROVE  DiskBooks'
  <2>1. Total(entries') <= DiskLimit
    BY <1>1, <1>4, <1>5, <1>7
  <2>2. ASSUME NEW u \in Tasks, pc'[u] = "disk_count"
        PROVE  Total(entries') <= current_size' + victim'[u].size
    <3>1. u # t /\ pc[u] = "disk_count" /\ victim'[u] = victim[u] /\ victim[u].size \in Nat
      BY <1>1, <1>3, <1>7, <2>2
    <3>2. Total(entries) <= current_size + victim[u].size
      BY <1>5, <3>1
    <3> QED
      BY <1>1, <1>4, <1>7, <3>1, <3>2
  <2>3. ASSUME \A u \in Tasks : pc'[u] # "disk_count"
        PROVE  Total(entries') <= current_size'
    <3>1. \A u \in Tasks : pc[u] # "disk_count"
      BY <1>3, <1>7, <2>3
    <3> QED
      BY <1>1, <1>4, <1>5, <1>7, <3>1
  <2>4. ASSUME NEW u \in Tasks, pc'[u] \in Placing
        PROVE  current_size' + victim'[u].size <= DiskLimit
    BY <1>3, <1>5, <1>7, <2>4
  <2> QED
    BY <1>4, <2>1, <2>2, <2>3, <2>4 DEF DiskBooks
<1>8. CASE \E i \in Inodes, o \in Offsets :
             \/ Get(t, i, o) \/ Invalidate(t, i)
             \/ \E n \in Sizes : Put(t, i, o, n) \/ InvalidateRange(t, i, o, n)
  <2>1. /\ UNCHANGED <<entries, current_size>> /\ pc[t] = "idle"
        /\ pc'[t] \in {"idle", "disk_lookup", "reserve", "remove"}
    BY <1>1, <1>8 DEF Get, Put, InvalidateRange, Invalidate, Removal, Call, Goto, disk
  <2> QED
    BY <1>4, <1>7, <2>1 DEF Placing
<1>9. CASE \/ DiskRead(t) \/ LockUsage(t) \/ TakeNow(t) \/ FindOldest(t) \/ FindNone(t)
           \/ EnoughRoom(t) \/ RemoveOldest(t)
           \/ Evicted(t) \/ InsertBlock(t) \/ LockSize(t) \/ Subtract(t)
  <2>1. /\ UNCHANGED <<entries, current_size>>
        /\ pc[t] \in {"disk_read", "reserve", "evict", "scan", "remove_oldest", "evicted", "insert",
                      "disk_put", "remove"}
        /\ pc'[t] \in {"idle", "reserve", "evict", "scan", "remove_oldest", "evicted", "insert",
                       "disk_put", "disk_check", "disk_invalidate"}
    BY <1>1, <1>9 DEF DiskRead, LockUsage, TakeNow, FindOldest, FindNone, EnoughRoom,
                      RemoveOldest, Reserve,
                      Evicted, InsertBlock, LockSize, Subtract, Return, Goto, disk
  <2> QED
    BY <1>4, <1>7, <2>1 DEF Placing
<1>10. ASSUME NEW k \in job[t].keys, RemoveBlock(t, k) PROVE DiskBooks'
  <2>1. UNCHANGED <<entries, current_size, pc>> /\ pc[t] = "remove"
    BY <1>10 DEF RemoveBlock, disk
  <2> QED
    BY <1>4, <1>7, <2>1 DEF Placing
<1>11. CASE CreateFile(t) \/ WriteFile(t)
  <2>1. /\ UNCHANGED <<entries, current_size, victim>> /\ pc[t] \in {"disk_create", "disk_write"}
        /\ pc'[t] \in {"disk_write", "disk_insert", "evicted"}
    BY <1>1, <1>11 DEF CreateFile, WriteFile, locals, Goto
  <2> QED
    BY <1>4, <1>5, <1>7, <2>1 DEF Placing
<1>12. CASE UnlockSize(t)
  <2>1. /\ UNCHANGED <<entries, current_size, victim>> /\ pc[t] = "disk_check"
        /\ pc'[t] = "disk_create" /\ ~ Overfull(t)
    BY <1>1, <1>12 DEF UnlockSize, disk, locals, Goto
  <2>2. current_size + victim[t].size <= DiskLimit
    BY <1>1, <2>1 DEF Overfull
  <2> QED
    BY <1>4, <1>7, <2>1, <2>2
<1>13. CASE DiskLookup(t)
  <2>1. /\ UNCHANGED current_size /\ pc[t] = "disk_lookup" /\ pc'[t] \in {"idle", "disk_read"}
        /\ \/ block[t].key \in DOMAIN entries /\ entries' = Touch(entries, block[t].key, clock')
           \/ entries' = entries
    BY <1>1, <1>13 DEF DiskLookup, Return, Goto
  <2>2. Total(entries') = Total(entries)
    BY <1>1, <2>1, TouchFacts
  <2> QED
    BY <1>4, <1>7, <2>1, <2>2 DEF Placing
<1>14. CASE EvictEntry(t)
  <2>1. /\ UNCHANGED current_size /\ pc[t] = "disk_check" /\ pc'[t] \in {"disk_sum", "evicted"}
        /\ (\E k \in Oldest(entries) : entries' = Without(entries, {k})) \/ entries' = entries
    BY <1>1, <1>14 DEF EvictEntry, Goto
  <2>2. ASSUME NEW k, entries' = Without(entries, {k}) PROVE Total(entries') <= Total(entries)
    BY <1>1, <2>2, WithoutFacts
  <2>3. CASE entries' = entries
    BY <1>4, <1>7, <2>1, <2>3 DEF Placing
  <2>4. CASE \E k \in Oldest(entries) : entries' = Without(entries, {k})
    <3>1. Total(entries') <= Total(entries)
      BY <2>2, <2>4
    <3> QED
      BY <1>4, <1>7, <2>1, <3>1 DEF Placing
  <2> QED
    BY <2>1, <2>3, <2>4
<1>15. CASE DiskInvalidate(t)
  <2>1. /\ UNCHANGED current_size /\ pc[t] = "disk_invalidate" /\ pc'[t] = "idle"
        /\ entries' = Without(entries, {k \in DOMAIN entries : k[1] = job[t].inode})
    BY <1>1, <1>15 DEF DiskInvalidate, Return, Goto
  <2>2. Total(entries') <= Total(entries)
    BY <1>1, <2>1, WithoutFacts
  <2> QED
    BY <1>4, <1>7, <2>1, <2>2 DEF Placing
<1>16. ASSUME pc[t] \in Making, pc'[t] \notin Placing, Total(entries') <= current_size',
              Total(entries') <= DiskLimit
       PROVE  DiskBooks'
  <2>1. \A u \in Tasks : pc'[u] \notin Placing
    BY <1>3, <1>6, <1>16 DEF Making, Evicting, Placing
  <2>2. \A u \in Tasks : pc'[u] # "disk_count"
    BY <2>1 DEF Placing
  <2> QED
    BY <1>4, <1>16, <2>1, <2>2 DEF DiskBooks
<1>17. CASE SumEntries(t)
  <2>1. /\ current_size' = Total(entries) /\ entries' = entries
        /\ pc[t] = "disk_sum" /\ pc'[t] = "disk_check"
    BY <1>1, <1>17 DEF SumEntries, Goto
  <2> QED
    BY <1>4, <1>5, <1>16, <2>1 DEF Making, Evicting, Placing
<1>18. CASE CountEntry(t)
  <2>1. /\ current_size' = current_size + victim[t].size /\ entries' = entries
        /\ pc[t] = "disk_count" /\ pc'[t] = "evicted"
    BY <1>1, <1>18 DEF CountEntry, Goto
  <2> QED
    BY <1>4, <1>5, <1>16, <2>1 DEF Making, Evicting, Placing
<1>19. CASE InsertEntry(t)
  <2>1. /\ UNCHANGED <<current_size, victim>> /\ entries' = Latest(entries, victim[t], clock')
        /\ pc[t] = "disk_insert" /\ pc'[t] = "disk_count"
    BY <1>1, <1>19 DEF InsertEntry, locals, Goto
  <2>2. \A u \in Tasks : u # t => pc[u] \notin Making
    BY <1>6, <2>1 DEF Making, Evicting
  <2>3. Total(entries) <= current_size /\ current_size + victim[t].size <= DiskLimit
    BY <1>5, <2>1, <2>2 DEF Making, Evicting, Placing
  <2>4. /\ victim[t].key \in AllKeys /\ Sized(entries, victim[t].key) \in Nat
        /\ Total(entries') + Sized(entries, victim[t].key) = Total(entries) + victim[t].size
    BY <1>1, <2>1, LatestFacts DEF Evicting
  <2>5. Total(entries') <= current_size + victim[t].size
    BY <1>1, <1>4, <2>3, <2>4
  <2>6. Total(entries') <= DiskLimit
    BY <1>1, <1>4, <2>3, <2>5
  <2>7. \A u \in Tasks : pc'[u] \in Placing => u = t
    BY <1>3, <2>2 DEF Making, Evicting, Placing
  <2>8. \A u \in Tasks : pc'[u] = "disk_count" => Total(entries') <= current_size' + victim'[u].size
    BY <2>1, <2>5, <2>7 DEF Placing
  <2>9. \A u \in Tasks : pc'[u] \in Placing => current_size' + victim'[u].size <= DiskLimit
    BY <2>1, <2>3, <2>7
  <2> QED
    BY <1>4, <2>1, <2>6, <2>8, <2>9 DEF DiskBooks
<1> QED
  BY <1>8, <1>9, <1>10, <1>11, <1>12, <1>13, <1>14, <1>15, <1>17, <1>18, <1>19 DEF Request, Step

LEMMA DiskStep == DiskInv /\ [Next]_vars => DiskInv'
<1> SUFFICES ASSUME DiskInv, [Next]_vars PROVE DiskInv'
  OBVIOUS
<1>1. TypeInv'
  BY StepType DEF DiskInv
<1>2. ASSUME NEW t \in Tasks, Request(t) \/ Step(t) PROVE DiskBooks'
  BY <1>1, <1>2, DiskBooksStep
<1>3. CASE UNCHANGED vars
  <2>1. UNCHANGED <<entries, current_size, pc, victim>>
    BY <1>3 DEF vars, disk, locals
  <2>2. Total(entries)' = Total(entries)
    BY <2>1 DEF Total, Bytes
  <2> QED
    BY <1>1, <2>1, <2>2 DEF DiskInv, DiskBooks
<1> QED
  BY <1>1, <1>2, <1>3 DEF Next, Finished, DiskInv

LEMMA DiskInit == Init => DiskInv
<1> SUFFICES ASSUME Init PROVE DiskInv
  OBVIOUS
<1>1. Total(entries) = 0
  <2>1. DOMAIN SizesOf(entries) = {}
    BY DEF Init, Map!EmptyMap, SizesOf
  <2>2. Places(SizesOf(entries)) = {}
    BY <2>1, PlacesAre
  <2> QED
    BY <2>2, FS_EmptySet DEF Total, Bytes, Places, SizesOf
<1>2. current_size = 0 /\ \A t \in Tasks : pc[t] = "idle"
  BY DEF Init
<1> QED
  BY <1>1, <1>2, InitType, SizeAssumption DEF DiskInv, DiskBooks, Placing

\* The entries never exceed the disk limit: the puts do not overlap, so that the
\* room found under current_size's lock is still there when the entry is counted
\* (data.rs:338-372).
THEOREM DiskIsBounded == Spec => []DiskBounded
<1>1. DiskInv => DiskBounded
  BY DEF DiskInv, DiskBooks, DiskBounded
<1> QED
  BY <1>1, DiskInit, DiskStep, PTL DEF Spec
==============================================================================
