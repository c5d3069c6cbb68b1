------------------------------ MODULE DataCache ------------------------------
(***************************************************************************)
(* src/cache/data.rs: blocks of files, in memory and, once evicted from    *)
(* there, in files of a cache directory.                                   *)
(*                                                                         *)
(* Three locks guard the books, none the blocks: memory_usage the bytes    *)
(* accounted for memory, entries and current_size what the cache directory *)
(* is taken to hold.  An action is a call on the map of blocks, a stretch  *)
(* under a lock, or one operation on a file; tasks interleave between them *)
(* and wait for a lock by not being enabled.  A block is abstracted to its *)
(* length and the instant of its last access, in ticks of a clock that may *)
(* stand still between two accesses.                                       *)
(***************************************************************************)
EXTENDS Naturals, FiniteSets, Blocks

Map == INSTANCE DashMap

CONSTANTS
  Tasks,
  Inodes,
  Offsets,       \* offsets that get and put are called with
  Sizes,         \* lengths of blocks
  MemoryLimit,
  DiskLimit,
  DiskEnabled,   \* whether cache_dir is configured
  DiskMayFail,   \* whether writing a cache file may fail
  MaxCalls,      \* bound on the calls of a behaviour
  MaxClock       \* bound on the clock, which stands still from there on

ASSUME SizeAssumption ==
  /\ MemoryLimit \in Nat /\ DiskLimit \in Nat
  /\ Sizes \subseteq Nat /\ Offsets \subseteq Nat /\ MaxClock \in Nat

Free == "free"

\* A process runs finitely many tasks, and a Mutex tells them from nobody.
ASSUME TaskAssumption == IsFiniteSet(Tasks) /\ Free \notin Tasks

NoKey == <<0, 0>>

VARIABLES
  clock,         \* what Instant::now gives
  memory,        \* memory_cache: per key, the size of its block and its last access
  memory_usage,
  entries,       \* the disk cache's entries, of the same form
  current_size,
  files,         \* cache directory: length of the file of a key
  usage_lock, entries_lock, size_lock,  \* the task that holds each Mutex
  pc,            \* per task: its next step
  block,         \* per task: the block in its hands
  now,           \* per task: the instant evict_one starts from
  victim,        \* per task: the block it evicts
  job,           \* per task: what an invalidation has to remove and has removed
  overtaken,     \* history: tasks whose search for a block to evict found the
                 \* memory accessed, or changed by others, since it started
  calls

locks == <<usage_lock, entries_lock, size_lock>>
disk == <<entries, current_size, files>>
times == <<clock, now, overtaken>>
locals == <<block, victim, job>>
vars == <<times, memory, memory_usage, disk, locks, pc, locals, calls>>

Block(k, n) == [key |-> k, size |-> n]
NoBlock == Block(NoKey, 0)
NoJob == [keys |-> {}, removed |-> 0, inode |-> 0]

Without(m, K) == [k \in DOMAIN m \ K |-> m[k]]
Sized(m, k) == IF k \in DOMAIN m THEN m[k].size ELSE 0

\* The sum of f's values, as the number of pairs of a place and a byte there.
Bytes(f) == Cardinality(UNION {{x} \X (1..f[x]) : x \in DOMAIN f})
Total(m) == Bytes([k \in DOMAIN m |-> m[k].size])

\* Instant::now: later than the last one, or the same.
Instants == {n \in {clock, clock + 1} : n <= MaxClock}

Latest(m, b, n) == Map!Insert(m, b.key, [size |-> b.size, last_access |-> n])
Touch(m, k, n) == Latest(m, Block(k, m[k].size), n)
Oldest(m) == {k \in DOMAIN m : \A j \in DOMAIN m : m[k].last_access <= m[j].last_access}

\* u64::saturating_sub
Minus(a, b) == IF b <= a THEN a - b ELSE 0

Init ==
  /\ clock = 0 /\ now = [t \in Tasks |-> 0] /\ overtaken = {}
  /\ memory = Map!EmptyMap /\ memory_usage = 0
  /\ entries = Map!EmptyMap /\ current_size = 0 /\ files = Map!EmptyMap
  /\ usage_lock = Free /\ entries_lock = Free /\ size_lock = Free
  /\ pc = [t \in Tasks |-> "idle"]
  /\ block = [t \in Tasks |-> NoBlock]
  /\ victim = [t \in Tasks |-> NoBlock]
  /\ job = [t \in Tasks |-> NoJob]
  /\ calls = 0

Goto(t, l) == pc' = [pc EXCEPT ![t] = l]

\* Another task gets into the search for a block to evict.
Searching == {"scan", "remove_oldest"}
Disturb(t) ==
  overtaken' = overtaken \cup
    {u \in Tasks \ {t} : pc[u] \in Searching /\ memory' # memory}

\* A call ends; the task forgets its locals.
Return(t) ==
  /\ Goto(t, "idle")
  /\ block' = [block EXCEPT ![t] = NoBlock]
  /\ victim' = [victim EXCEPT ![t] = NoBlock]
  /\ job' = [job EXCEPT ![t] = NoJob]

Call(t) == pc[t] = "idle" /\ calls < MaxCalls /\ calls' = calls + 1

-----------------------------------------------------------------------------
(* get *)

\* A hit in memory touches the block; otherwise the disk is asked.
Get(t, i, offset) ==
  LET k == BlockKey(i, offset) IN
  /\ Call(t)
  /\ \/ /\ k \in DOMAIN memory
        /\ clock' \in Instants
        /\ memory' = Touch(memory, k, clock')
        /\ Disturb(t)
        /\ UNCHANGED <<pc, block>>
     \/ /\ k \notin DOMAIN memory /\ DiskEnabled
        /\ block' = [block EXCEPT ![t] = Block(k, 0)]
        /\ Goto(t, "disk_lookup")
        /\ UNCHANGED <<clock, overtaken, memory>>
     \/ /\ k \notin DOMAIN memory /\ ~DiskEnabled
        /\ UNCHANGED <<clock, overtaken, memory, pc, block>>
  /\ UNCHANGED <<now, memory_usage, disk, locks, victim, job>>

DiskLookup(t) ==
  /\ pc[t] = "disk_lookup" /\ entries_lock = Free
  /\ \/ /\ block[t].key \in DOMAIN entries
        /\ clock' \in Instants
        /\ entries' = Touch(entries, block[t].key, clock')
        /\ Goto(t, "disk_read")
        /\ UNCHANGED locals
     \/ /\ block[t].key \notin DOMAIN entries
        /\ Return(t)
        /\ UNCHANGED <<clock, entries>>
  /\ UNCHANGED <<now, overtaken, memory, memory_usage, current_size, files, locks, calls>>

\* The file is read after the lock was dropped: it may be gone, or cut while it
\* is written anew.  What was read is promoted to memory.
DiskRead(t) ==
  /\ pc[t] = "disk_read"
  /\ \/ /\ block[t].key \in DOMAIN files
        /\ block' = [block EXCEPT ![t].size = files[block[t].key]]
        /\ Goto(t, "reserve")
        /\ UNCHANGED <<victim, job>>
     \/ /\ block[t].key \notin DOMAIN files
        /\ Return(t)
  /\ UNCHANGED <<times, memory, memory_usage, disk, locks, calls>>

-----------------------------------------------------------------------------
(* put: room is made and reserved under memory_usage, the insertion follows *)

Put(t, i, offset, n) ==
  /\ Call(t)
  /\ block' = [block EXCEPT ![t] = Block(BlockKey(i, offset), n)]
  /\ Goto(t, "reserve")
  /\ UNCHANGED <<times, memory, memory_usage, disk, locks, victim, job>>

\* Mutant: the lock is dropped before room is made.
LockUsageBriefly(t) ==
  /\ pc[t] = "reserve" /\ usage_lock = Free
  /\ Goto(t, "evict")
  /\ UNCHANGED <<times, memory, memory_usage, disk, locks, locals, calls>>

LockUsage(t) ==
  /\ pc[t] = "reserve" /\ usage_lock = Free
  /\ usage_lock' = t
  /\ Goto(t, "evict")
  /\ UNCHANGED <<times, memory, memory_usage, disk, entries_lock, size_lock, locals, calls>>

TooMuch(t) == memory_usage + block[t].size > MemoryLimit /\ DOMAIN memory # {}

\* evict_one takes the time: at the instant of the last access, or before it ...
TakeNow(t) ==
  /\ pc[t] = "evict" /\ TooMuch(t)
  /\ clock' \in Instants
  /\ now' = [now EXCEPT ![t] = clock']
  /\ overtaken' = IF \E k \in DOMAIN memory : memory[k].last_access >= clock'
                  THEN overtaken \cup {t} ELSE overtaken
  /\ Goto(t, "scan")
  /\ UNCHANGED <<memory, memory_usage, disk, locks, locals, calls>>

\* Mutant: the reservation is forgotten.
ReserveNothing(t) ==
  /\ UNCHANGED memory_usage
  /\ usage_lock' = Free
  /\ Goto(t, "insert")
  /\ now' = [now EXCEPT ![t] = 0]
  /\ overtaken' = overtaken \ {t}
  /\ UNCHANGED <<clock, memory, disk, entries_lock, size_lock, locals, calls>>

\* The bytes are accounted for before the block is in the map.
Reserve(t) ==
  /\ memory_usage' = memory_usage + block[t].size
  /\ usage_lock' = Free
  /\ Goto(t, "insert")
  /\ now' = [now EXCEPT ![t] = 0]
  /\ overtaken' = overtaken \ {t}
  /\ UNCHANGED <<clock, memory, disk, entries_lock, size_lock, locals, calls>>

EnoughRoom(t) == pc[t] = "evict" /\ ~TooMuch(t) /\ Reserve(t)

\* ... looks for the least recently used of the blocks last accessed before,
\* the map's iteration being one step here ...
FindOldest(t) ==
  /\ pc[t] = "scan"
  /\ \E k \in Oldest(memory) :
       /\ memory[k].last_access < now[t]
       /\ victim' = [victim EXCEPT ![t] = Block(k, 0)]
  /\ now' = [now EXCEPT ![t] = 0]
  /\ Goto(t, "remove_oldest")
  /\ UNCHANGED <<clock, overtaken, memory, memory_usage, disk, locks, block, job, calls>>

\* (none when every block was accessed, or inserted, at that instant or since:
\* evict_one returns None, and put_memory stops making room)
FindNone(t) ==
  /\ pc[t] = "scan"
  /\ \A k \in DOMAIN memory : memory[k].last_access >= now[t]
  /\ Reserve(t)

\* ... and removes it by its key.  When another task has removed it meanwhile
\* evict_one returns None here too.
RemoveOldest(t) ==
  /\ pc[t] = "remove_oldest"
  /\ \/ /\ victim[t].key \in DOMAIN memory
        /\ victim' = [victim EXCEPT ![t].size = Sized(memory, victim[t].key)]
        /\ memory' = Without(memory, {victim[t].key})
        /\ overtaken' = overtaken \ {t}
        /\ Goto(t, IF DiskEnabled THEN "disk_put" ELSE "evicted")
        /\ UNCHANGED <<clock, now, memory_usage, disk, locks, block, job, calls>>
     \/ /\ victim[t].key \notin DOMAIN memory
        /\ Reserve(t)

Evicted(t) ==
  /\ pc[t] = "evicted"
  /\ memory_usage' = Minus(memory_usage, victim[t].size)
  /\ victim' = [victim EXCEPT ![t] = NoBlock]
  /\ Goto(t, "evict")
  /\ UNCHANGED <<times, memory, disk, locks, block, job, calls>>

InsertBlock(t) ==
  /\ pc[t] = "insert"
  /\ clock' \in Instants
  /\ memory' = Latest(memory, block[t], clock')
  /\ Disturb(t)
  /\ Return(t)
  /\ UNCHANGED <<now, memory_usage, disk, locks, calls>>

-----------------------------------------------------------------------------
(* The disk cache's put, called by evict_one under memory_usage *)

LockSize(t) ==
  /\ pc[t] = "disk_put" /\ size_lock = Free
  /\ size_lock' = t
  /\ Goto(t, "disk_check")
  /\ UNCHANGED <<times, memory, memory_usage, disk, usage_lock, entries_lock, locals, calls>>

\* Mutant: the file to come is not counted.
OverfullAlready(t) == current_size > DiskLimit

Overfull(t) == current_size + victim[t].size > DiskLimit

\* Mutant: the lock is kept while the file is written.
KeepSizeLock(t) ==
  /\ pc[t] = "disk_check" /\ ~Overfull(t)
  /\ Goto(t, "disk_create")
  /\ UNCHANGED <<times, memory, memory_usage, disk, locks, locals, calls>>

UnlockSize(t) ==
  /\ pc[t] = "disk_check" /\ ~Overfull(t)
  /\ size_lock' = Free
  /\ Goto(t, "disk_create")
  /\ UNCHANGED <<times, memory, memory_usage, disk, usage_lock, entries_lock, locals, calls>>

\* evict_one_locked and, with nothing left to evict, the early return.
EvictEntry(t) ==
  /\ pc[t] = "disk_check" /\ Overfull(t) /\ entries_lock = Free
  /\ \/ /\ \E k \in Oldest(entries) :
             /\ entries' = Without(entries, {k})
             /\ files' = Map!Remove(files, k)
        /\ Goto(t, "disk_sum")
        /\ UNCHANGED size_lock
     \/ /\ DOMAIN entries = {}
        /\ size_lock' = Free
        /\ Goto(t, "evicted")
        /\ UNCHANGED <<entries, files>>
  /\ UNCHANGED <<times, memory, memory_usage, current_size, usage_lock, entries_lock, locals, calls>>

\* calculate_size takes the lock of the entries once more.
SumEntries(t) ==
  /\ pc[t] = "disk_sum" /\ entries_lock = Free
  /\ current_size' = Total(entries)
  /\ Goto(t, "disk_check")
  /\ UNCHANGED <<times, memory, memory_usage, entries, files, locks, locals, calls>>

\* File::create cuts the file to nothing, or fails and leaves what is there.
CreateFile(t) ==
  /\ pc[t] = "disk_create"
  /\ \/ /\ files' = Map!Insert(files, victim[t].key, 0)
        /\ Goto(t, "disk_write")
     \/ /\ DiskMayFail
        /\ Goto(t, "evicted")
        /\ UNCHANGED files
  /\ UNCHANGED <<times, memory, memory_usage, entries, current_size, locks, locals, calls>>

\* A file that was removed since it was created is written and lost; a write_all
\* that fails leaves part of the block.  No failure leaves an entry.
Filled(k, n) == IF k \in DOMAIN files THEN Map!Insert(files, k, n) ELSE files
WriteFile(t) ==
  /\ pc[t] = "disk_write"
  /\ \/ /\ files' = Filled(victim[t].key, victim[t].size)
        /\ Goto(t, "disk_insert")
     \/ /\ DiskMayFail
        /\ \E n \in 0..victim[t].size :
             n < victim[t].size /\ files' = Filled(victim[t].key, n)
        /\ Goto(t, "evicted")
  /\ UNCHANGED <<times, memory, memory_usage, entries, current_size, locks, locals, calls>>

\* The entry is inserted and counted with both locks held ...
InsertEntry(t) ==
  /\ pc[t] = "disk_insert" /\ entries_lock = Free
  /\ entries_lock' = t
  /\ clock' \in Instants
  /\ entries' = Latest(entries, victim[t], clock')
  /\ Goto(t, "disk_count")
  /\ UNCHANGED <<now, overtaken, memory, memory_usage, current_size, files, usage_lock, size_lock, locals, calls>>

\* ... the second taken while the first is held, the other way round than above.
CountEntry(t) ==
  /\ pc[t] = "disk_count" /\ size_lock = Free
  /\ current_size' = current_size + victim[t].size
  /\ entries_lock' = Free
  /\ Goto(t, "evicted")
  /\ UNCHANGED <<times, memory, memory_usage, entries, files, usage_lock, size_lock, locals, calls>>

-----------------------------------------------------------------------------
(* invalidate and invalidate_range *)

\* The blocks to remove from memory and the inode to remove from disk, 0 for
\* none; what remains is done block by block.
Removal(t, K, i) ==
  /\ Call(t)
  /\ job' = [job EXCEPT ![t] = [keys |-> K, removed |-> 0, inode |-> i]]
  /\ Goto(t, "remove")
  /\ UNCHANGED <<times, memory, memory_usage, disk, locks, block, victim>>

Invalidate(t, i) ==
  Removal(t, {k \in DOMAIN memory : k[1] = i}, IF DiskEnabled THEN i ELSE 0)

\* Copies on disk stay.
InvalidateRange(t, i, offset, n) == Removal(t, RangeKeys(i, offset, n), 0)

\* Mutant: a block counts as removed whether it was found or not.
RemoveBlockBlindly(t, k) ==
  /\ pc[t] = "remove" /\ k \in job[t].keys
  /\ memory' = Without(memory, {k})
  /\ job' = [job EXCEPT ![t].keys = @ \ {k}, ![t].removed = @ + BlockSize]
  /\ Disturb(t)
  /\ UNCHANGED <<clock, now, memory_usage, disk, locks, pc, block, victim, calls>>

RemoveBlock(t, k) ==
  /\ pc[t] = "remove" /\ k \in job[t].keys
  /\ memory' = Without(memory, {k})
  /\ job' = [job EXCEPT ![t].keys = @ \ {k}, ![t].removed = @ + Sized(memory, k)]
  /\ Disturb(t)
  /\ UNCHANGED <<clock, now, memory_usage, disk, locks, pc, block, victim, calls>>

\* Only what was found in the map is taken off the account, and only then.
Subtract(t) ==
  /\ pc[t] = "remove" /\ job[t].keys = {} /\ usage_lock = Free
  /\ memory_usage' = Minus(memory_usage, job[t].removed)
  /\ \/ job[t].inode # 0 /\ Goto(t, "disk_invalidate") /\ UNCHANGED locals
     \/ job[t].inode = 0 /\ Return(t)
  /\ UNCHANGED <<times, memory, disk, locks, calls>>

\* current_size keeps what the entries counted for.
DiskInvalidate(t) ==
  LET K == {k \in DOMAIN entries : k[1] = job[t].inode} IN
  /\ pc[t] = "disk_invalidate" /\ entries_lock = Free
  /\ entries' = Without(entries, K)
  /\ files' = Without(files, K)
  /\ Return(t)
  /\ UNCHANGED <<times, memory, memory_usage, current_size, locks, calls>>

-----------------------------------------------------------------------------
Request(t) ==
  \E i \in Inodes, offset \in Offsets :
    \/ Get(t, i, offset)
    \/ \E n \in Sizes : Put(t, i, offset, n) \/ InvalidateRange(t, i, offset, n)
    \/ Invalidate(t, i)

Step(t) ==
  \/ DiskLookup(t) \/ DiskRead(t)
  \/ LockUsage(t) \/ TakeNow(t) \/ EnoughRoom(t)
  \/ FindOldest(t) \/ FindNone(t) \/ RemoveOldest(t)
  \/ Evicted(t) \/ InsertBlock(t)
  \/ LockSize(t) \/ UnlockSize(t) \/ EvictEntry(t) \/ SumEntries(t)
  \/ CreateFile(t) \/ WriteFile(t) \/ InsertEntry(t) \/ CountEntry(t)
  \/ \E k \in job[t].keys : RemoveBlock(t, k)
  \/ Subtract(t) \/ DiskInvalidate(t)

AllAnswered == calls = MaxCalls /\ \A t \in Tasks : pc[t] = "idle"

\* The last call has returned: a bounded behaviour ends here, any other end is
\* a deadlock.
Finished == AllAnswered /\ UNCHANGED vars

Next == (\E t \in Tasks : Request(t) \/ Step(t)) \/ Finished

Spec == Init /\ [][Next]_vars

\* The worker threads run every task that no lock holds up.
FairSpec == Spec /\ \A t \in Tasks : WF_vars(Step(t))

-----------------------------------------------------------------------------
AllKeys == {BlockKey(i, o) : i \in Inodes, o \in Offsets}
Blocks == [key : AllKeys \cup {NoKey}, size : Nat]
\* What a task does while it evicts a block, and while it makes room.
Evicting == {"disk_put", "disk_check", "disk_sum", "disk_create", "disk_write",
             "disk_insert", "disk_count", "evicted"}
Making == {"evict", "scan", "remove_oldest"} \cup Evicting
Labels == {"idle", "disk_lookup", "disk_read", "reserve", "insert", "remove", "disk_invalidate"}
            \cup Making

\* The type of the cache; room is made by one task at a time, that which holds
\* memory_usage (data.rs:148-161), and no access is later than the clock.
Cached == [size : Nat, last_access : Nat]
TypeOK ==
  /\ \A m \in {memory, entries} :
       /\ DOMAIN m \subseteq AllKeys
       /\ \A k \in DOMAIN m : m[k] \in Cached /\ m[k].last_access <= clock
  /\ memory_usage \in Nat /\ current_size \in Nat /\ clock \in Nat
  /\ DOMAIN files \subseteq AllKeys
  /\ {usage_lock, entries_lock, size_lock} \subseteq Tasks \cup {Free}
  /\ pc \in [Tasks -> Labels]
  /\ \A t \in Tasks : pc[t] \in Making <=> usage_lock = t
  /\ block \in [Tasks -> Blocks] /\ victim \in [Tasks -> Blocks] /\ now \in [Tasks -> Nat]
  /\ overtaken \subseteq Tasks

\* Bytes of blocks on their way into the map.
Reserved == Bytes([t \in Tasks |-> IF pc[t] = "insert" THEN block[t].size ELSE 0])

\* memory_usage never falls below what the map holds and what tasks are about to
\* insert, although blocks enter and leave the map outside its lock (put_memory,
\* evict_one, invalidate_range): if it did, the cache would outgrow its limit
\* for good, by a little more with every race.
UsageCoversMemory == Total(memory) + Reserved <= memory_usage

\* A put that makes room undisturbed brings the bytes in memory and on their way
\* there back within the limit, whatever races came before (put_memory,
\* data.rs:146-161).  Not so one that is overtaken: evict_one considers only what
\* was last accessed before the instant it took, so blocks touched or inserted at
\* that instant or since, or an invalidation that takes the block it chose, make
\* it return None, upon which put_memory inserts over the limit.  Nor one that
\* finds the memory empty while blocks of others are on their way there.
LimitRestored ==
  [][\A t \in Tasks \ overtaken :
       pc[t] # "insert" /\ pc'[t] = "insert" /\ DOMAIN memory # {} =>
         Total(memory') + Reserved' <= MemoryLimit]_vars

\* The entries never exceed the disk limit, although the check, the file and the
\* count are made under separate locks (DiskCache::put): the puts do not overlap,
\* for evict_one calls them under memory_usage.
DiskBounded == Total(entries) <= DiskLimit

\* Every call returns: the locks of entries and current_size are taken in both
\* orders, and a get waits for them while others hold memory_usage.
CallsReturn == \A t \in Tasks : pc[t] # "idle" ~> pc[t] = "idle"
==============================================================================
