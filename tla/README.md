# Formal models of obsfuse

obsfuse mounts a bucket of an object store (Huawei OBS, through OpenDAL) as a
file system, by FUSE on Unix and WinFSP on Windows. This directory holds TLA+
models of the parts where its correctness is decided, the TLC runs that check
them on small instances, and proofs that TLAPS checks for instances of any size.
`PROJECT.json` links every definition to the source lines it stands for, every
run to its properties, and every property to a hazard of the code.

To repeat the checks, in this directory:

    tlc -workers 2 -config InodeConcurrent.cfg MCInodeManager
    tlapm InodeManagerProofs.tla

## 1. The system

The kernel sends requests; the FUSE front end serves each one in a tokio task of
its own, so handlers of several requests interleave wherever they await. They
share these parts:

| Part | State | Operations | Used by |
|------|-------|------------|---------|
| Inode table (`fs/inode.rs`) | `path_to_inode`, `inode_to_entry` (two DashMaps), counter `next_inode` | get_or_create_inode, get_inode, get_path, remove, remove_by_path, rename | every handler |
| Metadata cache (`cache/metadata.rs`) | `attr_cache` by inode, `negative_cache` by path, `dir_cache` (never filled), all with a time to live | get/put/update/invalidate_attr, is/put/remove_negative | name space handlers, write |
| Write buffer (`cache/write_buffer.rs`) | per inode an `Arc<Mutex<FileWriteBuffer>>` in a DashMap | write, flush, sync_flush, release, truncate, flush_all | write, fsync, flush, release, setattr, open(O_TRUNC), destroy |
| Multipart uploader (`storage/multipart.rs`) | parts of an upload | write, complete, abort | write buffer |
| Data cache (`cache/data.rs`) | blocks in memory and on disk, accounted bytes | get, put, evict, invalidate, invalidate_range | read, write, truncate, unlink |
| Read-ahead (`cache/readahead.rs`) | read pattern per inode, prefetched ranges, permits | record_read, get/store_prefetched, prefetch task | read, truncate, unlink |
| Handle table (`fs/handle.rs`) | open handles, counter | open, update, close | open, create, release, read, write |
| Store client (`storage/obs.rs`) | the bucket | stat, list, read, write, delete, copy, create_dir | all handlers |
| Handlers (`fs/core.rs`) | none of their own | do_lookup ... do_release | front ends |
| Front ends (`fs/fuse_impl.rs`, `fs/winfsp_impl.rs`) | a context per open file (WinFSP) | one method per request | kernel |
| Process (`main.rs`, `config.rs`) | settings, mount point | load, merge, validate, mount, clean up, unmount | user |
| Retry (`storage/retry.rs`), attributes, permissions, directories, platform, metrics | see PROJECT.json | no state shared between requests, or no caller | |

Hard behaviours, and what makes each part correct:

* **Inode table.** A method is several atomic DashMap calls without a common
  lock. Correct when two paths never share a number, a number is never reused
  (attributes, blocks and buffers are keyed by it), the root survives, and a
  mapped path leads to an entry with this path.
* **Write buffer.** Awaits the buffer's Mutex and the store; keeps map guards
  across awaits; a PUT replaces the whole object; PUTs fail. Correct when no
  accepted byte vanishes, what fsync vouched for is stored, memory is bounded
  and every request is answered.
* **Name space.** Handlers await the store several times and then update table
  and caches call by call; rename is copy and delete; the store fails, and an
  error may hide a success; lookups run without the directory's lock. Correct
  when no contents are lost, both caches agree with the store, and the kernel is
  told the truth.
* **Read path.** A read asks the prefetched ranges, the block cache and the store
  in turn, never the write buffer; a fetch or prefetch in flight races a write's
  invalidation; blocks are keyed by aligned offsets. Correct when a read returns
  bytes the file has had lately, written ones included, and no handle is left behind.
* **Data cache.** Two levels, three locks taken in both orders, and a concurrent
  map that changes outside all of them. Correct when the account covers what is
  held, both levels keep their bounds, and every call returns.
* **Front ends.** FUSE names files by number and directory positions by count;
  WinFSP names files by path and deletes in cleanup, before the last close.
  Correct when a removed name stays removed and a listing in pages is exact.
* **Process.** Settings come in four layers; the mount survives the process.
  Correct when only complete settings are served, a stop leaves no mount, and a
  start after a crash does not mount over a stale one.

## 2. Modules

| Module | Models | Extends |
|--------|--------|---------|
| `DashMap` | single calls of the concurrent map | |
| `InodeIdentity` | the life of an inode number, which InodeManager implements | |
| `InodeManager` | the inode table, one action per map or counter call | DashMap, InodeIdentity (instances) |
| `InodeManagerSerial` | the same with a history of overlapping calls | InodeManager |
| `InodeManagerProofs` | theorems of both | InodeManagerSerial, FiniteSetTheorems, TLAPS |
| `WriteBuffer` | write buffer, multipart uploader, flush paths of core.rs | DashMap (instance) |
| `WriteBufferProofs` | its types, locks and bounds proved | WriteBuffer, SequenceTheorems, TLAPS |
| `WriteBufferBytesProofs` | what becomes of its bytes, proved | WriteBufferProofs |
| `Namespace` | the name space handlers over store, table and metadata cache | DashMap (instance) |
| `NamespaceProofs` | its theorems | Namespace, SequenceTheorems, TLAPS |
| `Blocks` | how offsets become block keys | |
| `DataCache` | the data cache's two levels, lock by lock | Blocks |
| `DataCacheProofs` | its theorems | DataCache, FiniteSetTheorems, WellFoundedInduction, TLAPS |
| `FileIO` | files that are open: handlers over handles, write buffer, block cache, read-ahead | Blocks, WriteBuffer (instance) |
| `FileIOProofs` | its theorems | FileIO, WriteBufferBytesProofs (instance), TLAPS |
| `FrontEnds` | the requests of both front ends over names, handles and buffered bytes | DashMap (instance) |
| `FrontEndsProofs` | its theorems | FrontEnds, SequenceTheorems, FiniteSetTheorems, WellFoundedInduction, TLAPS |
| `Launch` | configuration, mounting, stopping, crashes | |
| `LaunchProofs` | its theorems | Launch, TLAPS |
| `MC...` | constants for TLC | the module they are named after |

### InodeManager

The variables are the fields of the struct. `pc`, `inode` and `path` say which
call of which method each thread makes next, and with which number and path;
`dead` is a history variable. get_or_create_inode is `GetOrCreate` (the lookup),
`FetchAdd`, `InsertPath`, `InsertEntry`; remove is `LookupForRemove` (get_inode,
as core.rs calls it first), `RemoveEntry`, `RemovePath`; rename is `Rename`,
`RenameInsert`, `RenameEntry`. An entry is abstracted to its path. Methods are
called the way core.rs calls them: never with the root's path.

`InodeIdentity` is the abstract view on which the caches rely: each number has a
holder (a path, a request about to give it to one, or nobody), is issued once, in
order, and once gone never has a holder again. `Holder` maps the table's state to
it; every call of a method is a step of InodeIdentity or stutters
(`KeepsIdentity`). `RenameInsert` over a mapped path and a second creation of the
same path are both `Bind`, which sends the path's former number off for good.

`InodeManagerSerial` adds `overlapped`: whether two methods have ever run at a
time. The two maps agree as long as none have (`ResolvesUnlessOverlapped`).

### WriteBuffer

An action is a stretch from one await to the next, which the task runs alone
because it holds the buffer's Mutex. `buffers` is the map from inode to Arc,
`buf` what is behind an Arc, `lock` the holder of its Mutex. `Guarded` and
`Blocked` model the shard guard that flush and flush_all keep across awaits, and
`WorkerFree` the worker threads that blocked calls occupy. A byte is the number
of its acceptance, so that objects show which write each byte came from; `fate`
records why bytes left the buffers: stored by an acknowledged PUT, lost with a
failed one, recorded as a part of a multipart upload, cut by truncation to 0, or
dropped by another truncation. do_write finds the file's size in the attribute
cache; any size of `FileSizes` may be there. Left out: do_write's updates of data
cache and the closing of handles, which FileIO adds; sparse contents, for the
buffer itself ignores offsets when it appends.

### Namespace

A path is the sequence of its names; the store is the set of files with their
contents and the set of directory markers. Each await of a handler is an action:
the store's answer and the decision taken on it. What a handler does after its
last answer is a `script` of calls on table and caches, each an action, so that
other handlers come in between; the calls of the table are atomic here, and
InodeManager shows how they interleave more finely. Expiry and eviction may drop
any cache entry at any time (`ExpireAttr`, `ExpireNegative`).

External, modelled from the way src/ uses it: `Locks`, the directory locks the
kernel takes around changes and listings, while a lookup that revalidates a name
takes none; `Unknown`, names the kernel takes for absent, which it creates; the
store, where the stat of `p/` finds a marker only (do_lookup goes on to list for
"implicit" directories) and a listing holds the directory's own marker (rmdir
filters it). An error of the store may hide that it did what it was asked.
set_children and dir_cache are left out because nothing reads them.


### DataCache

The two levels of the cache: `memory` (a concurrent map), the account
`memory_usage` behind its Mutex, and the disk cache's `entries` and
`current_size`, each behind one of its own. Every call that takes or drops a lock,
changes a map or touches a cache file is an action, so that a put that evicts is
`Put`, `LockUsage`, `TakeNow`, `FindOldest`, `RemoveOldest`, `LockSize`, ...
`CountEntry`, `Evicted`, `EnoughRoom`, `InsertBlock`. A block is its length and the
instant of its last access. Instants are ticks of a `clock` that may stand still
between two accesses, as `Instant::now` may, so that blocks may be equally old. The sum of lengths is the number of pairs of a key and a
byte below its length, a form that proofs can reason about. A removal works through
its keys one at a time, as the loops of invalidate and invalidate_range do.

The memory has no bound that always holds. evict_one takes the time (`TakeNow`), then
considers only blocks last accessed before. It returns None when other tasks have
touched or inserted every block at that instant or since (`FindNone`), and when an
invalidation has taken the block it chose; put_memory then stops making room and
inserts its block all the same, so that every such race may add one. `overtaken` is the
history of these races: the puts that found an access not older than their instant, or
the memory changed by another task before they removed their block. What holds is
`LimitRestored`: a put that makes room and was not overtaken leaves the memory within
the limit, whatever races came before. (It also leaves out a put that finds the memory
empty: blocks of others may be on their way there.)

### FileIO

The composition of the file handlers with what they share: it instantiates
WriteBuffer, whose steps a write, flush, truncation or release takes first, and
adds the block cache, the read-ahead with its background tasks, and the handle
table. `io` is the request each task serves: a read is `Read` (prefetched data,
then the cache, up to the first await), `Fetch`, `Fetched` (the block is cached
and the read recorded), `Reply`; a change is an arrival, `BufferStep` or
`BufferFails`, and `Finish` with the invalidations of its handler. `prefetches`
are the tasks that record_read spawned. Here blocks keep their bytes and calls on
the data cache are atomic: how it counts and evicts is DataCache's subject. There
is no disk level. The variables of the write buffer are changed by WriteBuffer's
actions alone, so that FileIO implements WriteBuffer (`UsesWriteBuffer`).

How old may the bytes be that a read returns? `recent` is the history by which
`ReadsReturnRecentBytes` judges: per block, every object the file has had since the
last change of the block, a write that overlaps it or a truncation, was answered while
the block was `Quiet`, that is with no bytes of it under way to a reader or prefetched. So the
property says that the answer drops every older copy, whichever of the prefetched data,
the cache and the store the next read gets its bytes from. It does not promise more,
because the code does not keep more:

* bytes that were answered and not yet flushed are not read (`ReadAfterWrite`, which
  do_read breaks and `io_unflushed` shows);
* bytes that a read caches between a write's answer and its flush are from before the
  write, and nothing drops them when the flush comes;
* a flush makes the buffered bytes the whole object (write_buffer.rs:268) while the
  write drops the blocks of its own range (core.rs:420): another cached block stays
  what it was;
* a fetch under way, or data prefetched, when a change is answered (core.rs:364) stays
  or is put into the caches afterwards.

### FrontEnds

Both front ends over one small name space, chosen by `platform` in `Init`. A
request is atomic up to the calls that change objects: `puts`, `changes` and
`pending` are PUTs, writes and a removal or rename under way. `contexts` are the
kernel's open files, `doomed` the marks of WinFSP's delete-on-close, and each open
directory has a stream. `Children` and `FromOffset` are do_readdir's listing and
its offsets, `NumberAll` the get_or_create_inode of several names in turn, `AfterMarker` WinFSP's way to go on in it. `Found` stands for the
lookup that Namespace models with its caches. WinFSP's kernel side (marks, cleanup
with the last handle, close after cleanup) is external, as are the FUSE kernel's
offsets.

### Launch

One process after another on one mount point. A field of the configuration is the
name of the source it came from; `CliSets`, `EnvSets` and `FileSets` enumerate what
each source may give. `Start` is main up to the validation, the actions from
`Create` to `Exit` are mount_unix, `Kill` a crash, `Panic` the hook that detaches
the mount. A process that ends with its mount in place leaves it stale; whether a
stale mount point can be stat'ed depends on attributes the kernel has cached.

## 3. Runs

Twelve runs, nine that pass and three that show where code and documents part.

| Run | Question | Instance |
|-----|----------|----------|
| `inode_concurrent` | are numbers safe under all interleavings; do they live as InodeIdentity says; do paths resolve? | 2 threads, 3 paths, all methods, 5 numbers |
| `buffer_safety` | what does a buffer hold, where do bytes go, is every request answered? | 2 tasks, 2 workers, 1 inode, 3 requests, failing PUTs, multipart |
| `buffer_shared` | does fsync vouch for other tasks' writes; do later writes win? | 2 tasks, no close, no failures |
| `buffer_tail` (violated) | do synced bytes stay stored while a file is written in sequence? | 1 task |
| `names_kept` | are contents ever lost? | 2 tasks that create, list, remove and rename in a two-level tree, failing store |
| `names_sequential` | do caches agree with the store and answers tell the truth? | 1 task, two-level tree, expiry |
| `data_cache` | is the account right, is the memory's limit restored and the disk's kept, does every call return? | 2 tasks, 2 blocks, 4 calls, failing disk |
| `file_io` | do reads return recent bytes; are handles accounted for; is the write buffer used as specified? | 2 tasks, 1 file of 2 blocks, all requests, failing PUTs |
| `io_offsets` (violated) | do reads within a block return recent bytes? | 1 task, reads only |
| `io_unflushed` (violated) | does a read return what a write was answered for? | 1 task, writes and reads |
| `front_ends` | does a removed name stay away; is a listing in pages exact? | either front end, 2 files, 1 directory, 4 requests, failing store |
| `launch` | what is served, and what do stops and crashes leave? | 3 starts, 512 combinations of sources |

What the violations show, with the documents they contradict, is in the
findings of PROJECT.json:

* `buffer_tail`: a file is written at 0, synced, written on from there and synced. The
  second flush PUTs what is in the buffer, the second write's bytes, as the whole
  object (write_buffer.rs:266-268), and those of the first, which an fsync had vouched
  for, are gone. The property speaks of files written in sequence, where no write is
  over another's bytes.
* `io_offsets`: bytes fetched from within a block are cached as the block's first
  ones, and a read of its beginning is answered with them.
* `io_unflushed`: a write is answered and buffered, and a read of the same bytes, which
  never looks at the write buffer, fetches the old ones from the store.

Passing runs exclude what is known to break their property, and say so. Each
exclusion is listed as a hazard at its line:

* `ResolvesUnlessOverlapped`: two methods that overlap, a removal between the calls
  of a rename, may leave a path whose number has no entry.
* `buffer_shared`: close (a write that holds the buffer while release takes it out
  of the map ends in a buffer nobody finds; an fsync between the removal and the
  PUT returns Ok), failing PUTs (the bytes are gone and the next fsync returns Ok),
  multipart uploads (parts are never sent) and truncation to a size other than 0
  (buffered bytes are dropped).
* `RequestsAnswered`: fewer workers than tasks. On one worker a write blocks the
  thread on the shard that a flush guards, and neither goes on.
* `names_kept`: lookups. A negative entry that a lookup in flight puts after a create
  makes the kernel take an existing file for absent, and its next create replaces
  the contents by an empty object.
* `names_sequential`: rename (the target's negative entry stays), a failing store
  (every error counts as absence, and rmdir ignores the error of its delete), a
  second task (a lookup in flight puts back a negative entry or the attributes of a
  removed file) and readdir (a marker is entered as a child of its own directory).
* `file_io`: reads are of whole blocks (the others are `io_offsets`), and the property
  bounds the age of what they return as section 2 says: it is neither read-after-write
  (`io_unflushed`) nor freshness after a flush. Within that bound nothing is left out:
  writes of one block or both, flushes, truncations, failing PUTs, fetches and
  prefetches overlap as they like.
* `LimitRestored` leaves out puts that were overtaken while they looked for a block to
  evict, and puts that found the memory empty (section 2).
* `AnswersAreTrue` judges getattr of files only: one of a directory is answered ENOENT
  once its attributes have expired (core.rs:312).
* `RemovalLasts` exempts removed names with bytes buffered or under way, or with
  another live file's buffer under their name: those PUTs make the name anew.
* `EndpointOfRegion` exempts a region given by the command line and the environment
  at once: merge_env, called last, replaces the region and not the endpoint derived
  from it. It also makes the environment override the command line, where
  doc/architecture.md:616-617 ranks them the other way round.

### Bounds

`MaxInode`, `MaxHandles`, `MaxReads`, `MaxStarts` and `MaxCalls` bound the numbers
handed out, the reads, starts and requests made. Two tasks are enough for every
race between a handler and one other; the races listed as hazards all take two.

* WriteBuffer: buffer size, part size and threshold are 2, 2 and 3 bytes, so that
  writes of 1 and 3 bytes meet each limit below, at and above it. Three requests are two
  that fill a buffer and one of the other task that takes part in it; what more could
  do to the safety properties is settled by the theorems.
* Namespace: a file beside a directory with a file, the smallest tree with a parent
  to lose, a name to overwrite and a directory to find empty or not. Four requests
  are a create, a change by each task and one to observe them; five with one task.
* DataCache: memory holds one full block or two half ones, the disk three bytes, so
  that a put evicts on both levels; offsets 0 and 3 name two blocks, the second by an
  unaligned offset, from which a range runs into the next block. Four calls
  are two to fill both levels and two that race. The clock has three instants, from the
  last of which it stands still (`MaxClock`): accesses at different instants, at the
  same one, and at evict_one's own. What more calls could do to the
  account, the limit and the disk is settled by the theorems.
* FileIO: two blocks of two bytes, a window of one block, one permit. Reads are aligned
  and of one block's length; writes are of two bytes at 0 and 1, the first block alone or
  both, in sequence or not; a buffer of three bytes holds one write and is flushed by
  two; the read-ahead starts at the first sequential read (the program
  waits for `seq_threshold`, 3 by default) so that a prefetch can happen within
  two reads. Two handles, two reads and two changes: a release beside the use of
  another handle, a read before and after a change.
* FrontEnds: the page holds two entries of at most five, so that a stream of one
  directory takes several pages between which a change comes. Four requests open,
  write, remove and make again.
* Launch: a first start, its crash, and two more over what it left.

### Fairness

Three liveness properties, each under weak fairness of what the program does by
itself; nobody has to make a request.

* `RequestsAnswered` (WriteBuffer): weak fairness of each task's `Run`: the runtime
  polls every task that can go on, on a worker thread that is not blocked, and the
  store answers every PUT. It suffices for the wait on a Mutex because requests
  are bounded; tokio's Mutex queues fairly.
* `CallsReturn` (DataCache): weak fairness of each task's `Step`. The Mutexes are
  parking_lot's, held across no await, so that a holder always goes on; with
  calls bounded nobody can be overtaken for ever.
* `StopEnds` (Launch): weak fairness of `Stop`, main's own steps after the signal.

## 4. Theorems

Proved for all values of the constants that satisfy the modules' assumptions, for
which TLC checks that the instances do. Each module of theorems states an
inductive invariant, proves that `Init` implies it and that each action keeps it,
and derives the properties. PROJECT.json lists the results.

**InodeManagerProofs** proves `TypeOK`, `PathsHaveDistinctInodes`,
`InodesNeverReused` and `RootIntact` as invariants of `Spec`, for any number of
threads and paths. None is inductive: a thread may hold a number it has not put
into the map yet. `TableInv` adds that every number in sight is below the
counter (`Allocated`), that a number in the hands of a creation or a rename is in
no slot and in no other hands (`CarriedExclusively`), that a number under creation
never had an entry (`CreatedOnce`), and that nobody is about to touch the root
(`RootReserved`). The argument rests on fetch_add and on DashMap::remove being
atomic: each hands a number to one thread.

`NumbersKeepIdentity` is the refinement: under `TableInv`, each call maps to the
step of InodeIdentity named in section 2 or to a stutter. It needs
`HolderAssumption` (the three words for "no path" are no paths).
`ResolvesSerially` proves `ResolvesUnlessOverlapped` of InodeManagerSerial: while
calls have not overlapped at most one thread is busy, and at each of its steps
the invariant says by how much the maps differ.

**WriteBufferProofs** proves `TypeOK` (with it mutual exclusion by the Mutexes),
`CleanMeansEmpty` and `BuffersBounded` as invariants of `Spec` for all sizes,
tasks, inodes and workers. `BufferInv` strengthens them to the states in which a
task holds the Mutex: a clean buffer is empty even then (`CleanEmpty`), the buffer
is empty while its PUT is under way (`EmptyDuringPut`), and a buffer over its
limit belongs to a task about to flush it (`OverOnlyToFlush`). The assumptions are
those of `SizesAssumption`; that the part size is positive is one of them, and
config.rs does not check it: with 0, write would never leave its loop.

**WriteBufferBytesProofs** follows the bytes, on top of `BufferInv`:

* `NoByteDropped` (`BytesAccountedFor`): every byte has one place, a buffer, a
  request that carries it, or one of the fates. `AccountInv` adds at which steps
  requests carry bytes, and that nobody works on a buffer that is not yet made.
* `BuffersHaveOneHome`: a buffer serves one inode all its life. A release takes it out
  of the map while others still work on it and a new one may be made at once, but the
  requests that have it in their hands are all of its inode.
* `OrderKept` (`AcceptanceOrder`): bytes in a buffer and in a request's hands are
  ascending, and none is newer than the last one accepted (`OrderInv`). It assumes
  that the contents before the mount are in order (`Ascending(Before)`): their
  numbers are the model's to choose.
* `SyncedStored` (`SyncedBytesWereStored`) and `LaterWins` (`LaterWriteWins`) need
  `NoRelease`, for a close breaks both (section 3). The first also needs
  `SinglePuts`: PUTs do not fail, the multipart threshold is out of reach, and
  truncations are to 0. The second needs `OwnPaths`, no two inodes with one path,
  and `OldObjects`, contents before the mount are older than what is written; it
  holds with failing PUTs and uploads.

  Both rest on `OpenInv`: without a close a buffer stays the one of its inode, every
  byte that is left is in it or with the task that holds its Mutex (`NoneStranded`),
  and so the Mutex orders the PUTs of a file.

**FileIOProofs** proves `UsesWriteBuffer`, the refinement of WriteBuffer by the file
handlers: a request's arrival, steps and end map to WriteBuffer's, and reads,
prefetches, opens and invalidations stutter. So WriteBuffer's theorems hold of
FileIO, and `FileIOTypeCorrect` takes the buffer's part of `TypeOK` from them.
`HandlesKept` proves `HandlesAccountedFor`; `HandleInv` adds that only opens and
releases have a handle in their hands, each one of its own that the kernel does not
hold. Besides WriteBuffer's assumptions
`FileIOAssumption` says that reads are of at least one byte, as the kernel's are, and
that an open may truncate to 0.

`ReadsAreTrue` proves `ReadsReturnRecentBytes`, under the hypothesis `BlockwiseReads`,
which the instance of `file_io` satisfies and that of `io_offsets` does not: reads begin
where blocks do and are of one size, for a block keeps what was fetched from the offset
asked for, and neither the block nor the read-ahead's window is shorter than a read. Of
writes, truncations, paths and failures nothing is assumed.

`ReadInv` says that each block in the cache, each prefetched window and whatever a
request or a prefetch task has fetched is a slice of a version in `recent`
(`CachedRecent`, `AheadRecent`, `RequestsRecent`, `TasksRecent`), and that the object as
it is belongs to it (`RecentTyped`). Steps of the write buffer only add versions. The end
of a write or truncation takes versions away, but only for blocks it changes, which have
then left the cache and, being quiet, are in no one's hands: invalidate_range rounds the
end of its range up far enough to drop every block that the write overlaps, and a
truncation drops all.

**NamespaceProofs** proves `TypeOK` and `ContentsKept` for any tree that has the
directories of its paths (`TreeAssumption`), any number of tasks, any files before
the mount and any failures of the store. `TypeInv` says what a handler has in its
hands at each step, and what its script may hold. For `NoContentsLost` `KeptInv` adds
that a create which is about to PUT found nothing there, that what a rename is about to
delete is what it has copied, and that the directories of two requests are disjoint
(`Locks`), so that both stay true while the store is awaited. Its hypothesis, that
`Ops` is without lookup, is that of `names_kept`.

While one request follows another, none of them a rename or a readdir, the caches agree
with the store:
`NegativesAreAbsent`, `CachedKindsHold` and `AnswersTrue` prove the three properties of
`names_sequential` for any tree whose directories have markers and any number of
requests other than rename and readdir, with entries of both caches
expiring between any two steps. `SerialInv` strengthens them to the states within a
request. Its parts are `TreeKept` (no name is a file's and a directory's, every
directory has its marker), `TableKept` (the two maps of the inode table are inverse and
numbers in use are below the counter), `NamesKept` (every numbered path is in the store
and its cached kind is right, every negative one is not; but for the path whose removal
or creation the handler has yet to record: `Leaving`, `Coming`) and `StageKept` (what each
stage of a handler has learned, which calls of its script remain and what they rely on).
The hypotheses are those of the run, each one needed:

* `SerialNoRenameReaddir`: one task, for a lookup under way puts back what a change has corrected; a
  store that answers, for an error counts as absence; no rename, which leaves its target
  in the negative cache; no readdir, which enters a marker below its own directory.
* `MarkedTree`: directories have their markers at the mount. One that its files imply
  goes with the last of them, while the table and the attribute cache keep it.

Of answers, `AnswersTrue` says what `AnswersAreTrue` judges: getattr of a directory is
not in it.

**DataCacheProofs** proves all four safety properties for any finite set of tasks
and any sizes, offsets and limits:

* `TypeCorrect`: `TypeInv` says which task holds which Mutex at each step, and that no
  access is later than the clock.
* `AccountCovers` (`UsageCoversMemory`): not inductive, because a block leaves the
  map before its bytes leave the account. `Covered` counts what an eviction or
  a removal has taken out as well (`Hold`); then each step moves bytes between the map
  and one task's hands, and the subtractions take off what those hands hold, so
  that saturating_sub never saturates.
* `RoomIsMade` (`LimitRestored`): a search that is not overtaken finds a block, because
  every block in a memory that is not empty was accessed before its instant, and finds it
  still there (`RoomInv`). So the reservation follows a successful check, which leaves
  the account within the limit, and the account covers the rest.
* `DiskIsBounded` (`DiskBounded`): puts on disk happen under `memory_usage`, so that
  between a put's check and its count nobody else raises `current_size`
  (`DiskBooks`); removals only lower what the entries hold.

**FrontEndsProofs** proves `TypeOK`, `RemovalLasts` and `ListingExact` for either front end, any
names, objects and number of requests and handles, and any failures of the store.
`TypeInv` has one part per group of variables: the two maps of the inode table agree
(`TableFits`), only names of files have bytes buffered, accepted or under way
(`BytesFit`), a stream delivers names a listing may hold and only a file is open as one
(`ContextsFit`), every handle is one open file's or one release's (`HandlesFit`), and the
target of a rename under way was not removed since (`PendingFits`). What a request does
to the table is one lemma for all of them (`Grown`: it keeps what is there and adds
names from a known set), and `Later` says what survives a removal or rename as well.

`RemovalLasts` (`RemovalsLast`) is not inductive: the object of a removed name would come
back by a PUT long after. `GoneFit` adds that nothing is left of a removed file under
which a PUT could start (`NothingLeft`): no PUT under way, no write or truncation that
has its path, no bytes buffered under it, no number that goes by its name, and no
buffer of its name with a live inode, which could be filled again. The end of unlink,
rmdir and rename establishes it, unless the history says that something was left; after
that a number gets a name only by a lookup that finds it, by a listing, or on the way to
a name. So the theorem has two hypotheses, which the instance of `front_ends`
satisfies: `FilesAreLeaves`, no file is on the way to another name, and `NoNamesakes`, no
file has the name of its own directory. Without the second the property does not
hold: readdir takes a directory's marker for a child of the directory's name
(core.rs:263) and gives the removed file of that name a number.

`ListingExact` (`ListingsExact`) speaks of streams that have ended; `StreamsFit` says of
every stream under way where it is. Each entry has a rank, by which every listing of
every directory ascends: the dots, the directory's marker, then the names in the
store's order (`ListingAscends`, from the recursive `Sorted` by induction over the
order). As long as nothing happened that the stream is not proof against (`Steady`),
what it delivered ascends; it left out no lasting entry of a rank it has passed; and
the directory, if it has its number still, lists all of it. Over FUSE what was delivered
is moreover the beginning of the listing, so that the count of entries is the position.
A page then takes the stream on from where it stands: FUSE's offsets cut the listing
after the entries counted (`OffsetsCount`), WinFSP's marker after its only occurrence
(`MarkerFollowed`), and entries taken from there keep all parts (`MoreTaken`). A
change of the store takes a name out of what lasts, or over FUSE ends the stream's
steadiness (`NotedStream`). The stream's directory keeps its name as long as its number
lives, because only files are renamed (`Later`). Ascending ranks make every entry
delivered once. The hypothesis is `PlainNames`, which the instance of `front_ends`
satisfies: no name is a dot, no path is a file's and a directory's, the store lists each
name once, and no child has the name of its directory. The last is needed because of
core.rs:263 again: such a child and the directory's own marker are two entries of one
name, and after a WinFSP page that ends with the second comes what follows the first.

**LaunchProofs** proves the five safety properties for all combinations of sources
and any number of starts. `LaunchInv` adds that the configuration is a function of
what the sources gave and passed validation (`ConfigInv`), and that a stale mount
which can be stat'ed was tried before the mount (`CleanedInv`). `EndpointFitsRegion`
has the exception that its property has: a region given by command line and environment.

Model-checked only:

* Liveness (`RequestsAnswered`, `CallsReturn`, `StopEnds`), which is outside the
  prover's reach together with ENABLED.

## 5. Not modelled

* `storage/retry.rs`, flush_expired and flush_task, StreamingWriter, dir_cache, and
  the clear and stats methods of the caches: nothing in the program calls them.
* `fs/attr.rs`, `fs/permission.rs`, `fs/dir.rs`, `fs/platform.rs`: functions from
  one value to another, without state and without an order of calls.
* The attributes kept in inode entries (sizes, times, reference counts): no handler
  answers from them but setattr's fallback. Position, flags and times of a handle:
  nothing reads them.
* `utils/`: counters that no handler reads back, and the error type.
* WinFSP's host, volume information, security descriptors and attributes; the
  unmounting tools of systems other than Linux; logging and sizes of the
  configuration, which are constants of the modules.
* Contents of blocks on disk: DataCache's blocks have lengths only, so that the
  copies invalidate_range leaves on disk contradict no property here.

## 6. Plan

Modelled: the parts that section 2 names. Proved: every safety property of the passing
runs, under the hypotheses of section 4. What could follow:

* Read-after-write and freshness after a flush, once do_read looks at the write buffer and
  a flush drops the blocks of what it replaces; reads within a block, once data.rs keeps
  where a block's bytes begin: `BlockwiseReads` would then go.
* Attributes (attr.rs) and the platform's conversions, which keep no state, as pure
  operators.
