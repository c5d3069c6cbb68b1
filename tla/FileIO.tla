-------------------------------- MODULE FileIO -------------------------------
(***************************************************************************)
(* Open files: the file requests of src/fs/fuse_impl.rs and src/fs/core.rs *)
(* over the handle table (src/fs/handle.rs), the write buffer (module      *)
(* WriteBuffer), the data cache (its blocks in memory, src/cache/data.rs)  *)
(* and the read-ahead with its background tasks (src/cache/readahead.rs).  *)
(*                                                                         *)
(* A request runs from await to await, as in WriteBuffer, whose steps are  *)
(* taken over; what do_write, do_truncate and do_release do once the write *)
(* buffer has returned is a step of its own, for other worker threads run  *)
(* meanwhile.  Here a block keeps its bytes, and calls on the data cache   *)
(* are atomic: how it counts and evicts is the subject of DataCache.       *)
(***************************************************************************)
EXTENDS Naturals, Sequences, FiniteSets, Blocks

Map == INSTANCE DashMap

CONSTANTS
  Tasks, Inodes, PathOf, ShardOf, Workers, Ops, BufferSize, MultipartThreshold,
  PartSize, Lengths, Offsets, FileSizes, TruncateSizes, PutMayFail, Before,
  MaxCalls,         \* all of WriteBuffer
  ReadOffsets, ReadSizes,
  Window,           \* config.window_size of the read-ahead
  Concurrency,      \* its permits
  SeqThreshold,     \* sequential reads that start it
  MaxHandles,       \* bound on the handles opened in a behaviour
  MaxReads          \* bound on the reads of a behaviour

VARIABLES
  buffers, buf, lock, store, pc, req, calls, owner, fate, synced,  \* of WriteBuffer
  cached,           \* data cache: bytes of each block
  read_states,      \* read-ahead: ReadState of each inode
  prefetch_buffer,  \* read-ahead: bytes by inode and offset
  prefetches,       \* the prefetch tasks that run
  handles,          \* handle table: inode of each handle
  next_handle,
  io,               \* per task: the file request it serves
  reads,            \* reads made so far; their numbers tell prefetch tasks apart
  held,             \* history: the handles the kernel has
  leaked,           \* history: handles of a failed release or truncating open
  recent            \* history: per block, what the file's object has been since the
                    \* last change of the block that was answered while it was quiet

WB == INSTANCE WriteBuffer

\* What WriteBuffer assumes of its constants, and what is asked of the others.
ASSUME WriteBufferAssumption ==
  /\ BufferSize \in Nat \ {0} /\ MultipartThreshold \in Nat \ {0}
  /\ PartSize \in Nat \ {0}
  /\ Lengths \subseteq Nat \ {0} /\ Offsets \subseteq Nat
  /\ FileSizes \subseteq Nat /\ TruncateSizes \subseteq Nat
  /\ MaxCalls \in Nat /\ Before \in Seq(Nat)
  /\ Ops \subseteq WB!OpNames /\ PutMayFail \in BOOLEAN
  /\ "free" \notin Tasks
ASSUME FileIOAssumption ==
  /\ ReadOffsets \subseteq Nat /\ ReadSizes \subseteq Nat \ {0}
  /\ 0 \in TruncateSizes           \* an open may truncate

buffering == <<buffers, buf, lock, store, pc, req, calls, owner, fate, synced>>
ahead == <<read_states, prefetch_buffer, prefetches>>
table == <<handles, next_handle, held, leaked>>
vars == <<buffering, cached, ahead, table, io, reads, recent>>

Request(op, step, i, fh, offset, size, data) ==
  [op |-> op, step |-> step, inode |-> i, fh |-> fh, offset |-> offset, size |-> size,
   data |-> data]

NoRequest == Request("none", "idle", 0, 0, 0, 0, <<>>)

ReadBlocks == {BlockKey(i, o) : i \in Inodes, o \in ReadOffsets}
Object(i) == store[PathOf[i]]

Init ==
  /\ WB!Init
  /\ cached = Map!EmptyMap
  /\ read_states = Map!EmptyMap /\ prefetch_buffer = Map!EmptyMap /\ prefetches = {}
  /\ handles = Map!EmptyMap /\ next_handle = 1 /\ held = {} /\ leaked = {}
  /\ io = [t \in Tasks |-> NoRequest]
  /\ reads = 0
  /\ recent = [k \in ReadBlocks |-> {Object(k[1])}]

Idle(t) == io[t] = NoRequest
Become(t, r) == io' = [io EXCEPT ![t] = r]

\* The bytes of s from offset on, n of them at most.
Slice(s, offset, n) ==
  SubSeq(s, offset + 1, IF offset + n <= Len(s) THEN offset + n ELSE Len(s))

FilesOpen == {handles[fh] : fh \in held}

-----------------------------------------------------------------------------
(* History: how old the bytes of a block may be *)

\* Whether block k has bytes of the n from offset on.
Overlaps(k, offset, n) == k[2] < offset + n /\ offset < k[2] + BlockSize

\* No bytes of the block are on their way to a reader, or laid in for one.
Quiet(k) ==
  /\ \A t \in Tasks : io[t].step \in {"fetched", "reply"} =>
       ~(io[t].inode = k[1] /\ Overlaps(k, io[t].offset, io[t].size))
  /\ \A p \in prefetches :
       ~(p.step = "store" /\ p.inode = k[1] /\ Overlaps(k, p.offset, Window))
  /\ \A e \in DOMAIN prefetch_buffer : ~(e[1] = k[1] /\ Overlaps(k, e[2], Window))

\* The blocks a request changes: a write those it overlaps, a truncation all.
Changed(r) ==
  {k \in ReadBlocks :
     /\ r.inode = k[1]
     /\ r.op \in {"write", "setattr", "open"}
     /\ r.op = "write" => Overlaps(k, r.offset, r.size)}

\* A change is answered.
Renew(r) ==
  recent' = [k \in ReadBlocks |-> IF k \in Changed(r) /\ Quiet(k)' THEN {Object(k[1])}
                                  ELSE recent[k]]

\* The write buffer has had a word with the store.
Remember == recent' = [k \in ReadBlocks |-> recent[k] \cup {Object(k[1])'}]

-----------------------------------------------------------------------------
(* Opening *)

OpenHandle(i) ==
  /\ next_handle <= MaxHandles
  /\ handles' = Map!Insert(handles, next_handle, i)
  /\ next_handle' = next_handle + 1

Open(t, i) ==
  /\ Idle(t) /\ OpenHandle(i)
  /\ held' = held \cup {next_handle}
  /\ UNCHANGED <<buffering, cached, ahead, leaked, io, reads, recent>>

\* With O_TRUNC the reply waits for a truncation; the handle is there before.
OpenTruncating(t, i) ==
  /\ Idle(t) /\ OpenHandle(i)
  /\ WB!Truncate(t, i, 0)
  /\ Become(t, Request("open", "buffer", i, next_handle, 0, 0, <<>>))
  /\ UNCHANGED <<cached, ahead, held, leaked, reads, recent>>

-----------------------------------------------------------------------------
(* do_read, up to its first await: the prefetched data, then the block cache *)

\* Data that was prefetched for the very offset, and whose TTL has not passed.
ReadPrefetched(t, i, offset, size) ==
  /\ <<i, offset>> \in DOMAIN prefetch_buffer
  /\ Become(t, Request("read", "reply", i, 0, offset, size,
                       Slice(prefetch_buffer[<<i, offset>>], 0, size)))
  /\ UNCHANGED <<cached, prefetch_buffer>>

\* There is none or it has expired.  The block, unless it was evicted meanwhile,
\* answers as far as it goes.
ReadCached(t, i, offset, size) ==
  LET k == BlockKey(i, offset)
      start == offset % BlockSize
  IN
  /\ prefetch_buffer' = Map!Remove(prefetch_buffer, <<i, offset>>)
  /\ cached' \in {cached, Map!Remove(cached, k)}
  /\ \/ /\ k \in DOMAIN cached' /\ start < Len(cached'[k])
        /\ Become(t, Request("read", "reply", i, 0, offset, size, Slice(cached'[k], start, size)))
     \/ /\ ~(k \in DOMAIN cached' /\ start < Len(cached'[k]))
        /\ Become(t, Request("read", "fetch", i, 0, offset, size, <<>>))

Read(t, i, offset, size) ==
  /\ Idle(t) /\ i \in FilesOpen
  /\ reads < MaxReads /\ reads' = reads + 1
  /\ ReadPrefetched(t, i, offset, size) \/ ReadCached(t, i, offset, size)
  /\ UNCHANGED <<buffering, read_states, prefetches, table, recent>>

\* The store answers with a range of the object as it is now, or fails.
Fetch(t) ==
  /\ io[t].step = "fetch"
  /\ \/ Become(t, [io[t] EXCEPT !.step = "fetched",
                                !.data = Slice(Object(io[t].inode), io[t].offset, io[t].size)])
     \/ Become(t, NoRequest)
  /\ UNCHANGED <<buffering, cached, ahead, table, reads, recent>>

NewReadState == [next |-> 0, seq_count |-> 0, prefetch_offset |-> 0]

\* Only comparisons with the threshold are made of seq_count.
Count(s, offset) ==
  IF offset # s.next THEN 1
  ELSE IF s.seq_count < SeqThreshold THEN s.seq_count + 1 ELSE SeqThreshold

PrefetchTask(id, i, offset, size) ==
  [id |-> id, inode |-> i, offset |-> offset + size,
   step |-> "spawned", data |-> <<>>]

\* record_read: a run of sequential reads prefetches the window after it, unless
\* that begins in or right after a window already asked for.
RecordRead(i, offset, size) ==
  LET s == Map!Get(read_states, i, NewReadState)
      count == Count(s, offset)
      end == offset + size
      wanted == offset = s.next /\ count >= SeqThreshold /\ end > s.prefetch_offset
  IN
  /\ read_states' = Map!Insert(read_states, i,
       [next |-> end, seq_count |-> count,
        prefetch_offset |-> IF wanted THEN end + Window ELSE s.prefetch_offset])
  /\ prefetches' = IF wanted THEN prefetches \cup {PrefetchTask(reads, i, offset, size)}
                   ELSE prefetches

\* What was fetched is cached under its block, and the read recorded.
Fetched(t) ==
  LET r == io[t] IN
  /\ r.step = "fetched"
  /\ cached' = Map!Insert(cached, BlockKey(r.inode, r.offset), r.data)
  /\ RecordRead(r.inode, r.offset, r.size)
  /\ Become(t, [r EXCEPT !.step = "reply"])
  /\ UNCHANGED <<buffering, prefetch_buffer, table, reads, recent>>

Reply(t) ==
  /\ io[t].step = "reply"
  /\ Become(t, NoRequest)
  /\ UNCHANGED <<buffering, cached, ahead, table, reads, recent>>

-----------------------------------------------------------------------------
(* prefetch_task *)

Permits == Concurrency - Cardinality({p \in prefetches : p.step # "spawned"})

\* Without a permit the window is skipped; a fetch may fail.
Prefetch(p) ==
  LET Go(q) == prefetches' = (prefetches \ {p}) \cup q IN
  /\ \/ p.step = "spawned" /\ Permits > 0 /\ Go({[p EXCEPT !.step = "fetch"]})
     \/ p.step = "spawned" /\ Permits = 0 /\ Go({})
     \/ /\ p.step = "fetch"
        /\ \/ Go({[p EXCEPT !.step = "store", !.data = Slice(Object(p.inode), p.offset, Window)]})
           \/ Go({})
  /\ UNCHANGED <<buffering, cached, read_states, prefetch_buffer, table, io, reads, recent>>

\* Stored whatever has become of the file meanwhile.
StorePrefetched(p) ==
  /\ p.step = "store"
  /\ prefetch_buffer' = Map!Insert(prefetch_buffer, <<p.inode, p.offset>>, p.data)
  /\ prefetches' = prefetches \ {p}
  /\ UNCHANGED <<buffering, cached, read_states, table, io, reads, recent>>

-----------------------------------------------------------------------------
(* do_write, do_truncate, do_fsync, do_flush, do_release and flush_all: first *)
(* the write buffer, then the caches and the handle                           *)

Buffer(t, op, i, fh, offset, size) ==
  /\ Idle(t)
  /\ Become(t, Request(op, "buffer", i, fh, offset, size, <<>>))
  /\ UNCHANGED <<cached, ahead, handles, next_handle, leaked, reads, recent>>

\* file_size is what the attribute cache has to say.
Write(t, i, offset, len, file_size) ==
  /\ i \in FilesOpen
  /\ WB!Write(t, i, offset, len, file_size)
  /\ Buffer(t, "write", i, 0, offset, len) /\ UNCHANGED held

\* A setattr that carries a size.
Setattr(t, i, size) ==
  WB!Truncate(t, i, size) /\ Buffer(t, "setattr", i, 0, 0, size) /\ UNCHANGED held

\* Both FLUSH and FSYNC; they end with the write buffer's return.
Flush(t, i) ==
  /\ i \in FilesOpen
  /\ WB!Flush(t, i) /\ Buffer(t, "flush", i, 0, 0, 0) /\ UNCHANGED held

\* Mutant: the handle is taken for the inode.
ReleaseHandle(t, fh) ==
  /\ fh \in held /\ held' = held \ {fh}
  /\ WB!Release(t, fh)
  /\ Buffer(t, "release", handles[fh], fh, 0, 0)

\* The kernel sends one RELEASE for a handle, whatever the answer.
Release(t, fh) ==
  /\ fh \in held /\ held' = held \ {fh}
  /\ WB!Release(t, handles[fh])
  /\ Buffer(t, "release", handles[fh], fh, 0, 0)

Destroy(t) == WB!ArriveForAll(t) /\ Buffer(t, "destroy", 0, 0, 0, 0) /\ UNCHANGED held

\* The write buffer works on the request, or returns Ok.
BufferStep(t) ==
  /\ io[t].step = "buffer" /\ WB!Progress(t)
  /\ Become(t, IF pc'[t] = "idle" THEN [io[t] EXCEPT !.step = "finish"] ELSE io[t])
  /\ Remember
  /\ UNCHANGED <<cached, ahead, table, reads>>

\* It returns an error: the rest of the handler is skipped.
BufferFails(t) ==
  /\ io[t].step = "buffer" /\ WB!PutFails(t)
  /\ Become(t, NoRequest)
  /\ Remember
  /\ leaked' = leaked \cup ({io[t].fh} \ {0})
  /\ UNCHANGED <<cached, ahead, handles, next_handle, held, reads>>

\* The blocks of the written range are dropped, prefetched data is not.
FinishWrite(t) ==
  LET r == io[t]
      written == RangeKeys(r.inode, r.offset, r.size)
  IN
  /\ r.op = "write"
  /\ cached' = [k \in DOMAIN cached \ written |-> cached[k]]
  /\ UNCHANGED <<ahead, table>>

\* Blocks, prefetched data and the read state go; a prefetch under way does not.
FinishTruncate(t) ==
  LET r == io[t]
      Others(m) == [k \in {x \in DOMAIN m : x[1] # r.inode} |-> m[k]]
  IN
  /\ r.op \in {"setattr", "open"}
  /\ cached' = Others(cached) /\ prefetch_buffer' = Others(prefetch_buffer)
  /\ read_states' = Map!Remove(read_states, r.inode)
  /\ held' = held \cup ({r.fh} \ {0})
  /\ UNCHANGED <<prefetches, handles, next_handle, leaked>>

\* Mutant: the handle stays in the table.
FinishReleaseOpen(t) ==
  /\ io[t].op = "release" /\ UNCHANGED <<cached, ahead, table>>

\* Mutant: every handle of the file is closed.
FinishReleaseAll(t) ==
  /\ io[t].op = "release"
  /\ handles' = [fh \in {x \in DOMAIN handles : handles[x] # io[t].inode} |-> handles[fh]]
  /\ UNCHANGED <<cached, ahead, next_handle, held, leaked>>

FinishRelease(t) ==
  /\ io[t].op = "release"
  /\ handles' = Map!Remove(handles, io[t].fh)
  /\ UNCHANGED <<cached, ahead, next_handle, held, leaked>>

FinishFlush(t) ==
  /\ io[t].op \in {"flush", "destroy"} /\ UNCHANGED <<cached, ahead, table>>

Finish(t) ==
  /\ io[t].step = "finish"
  /\ FinishWrite(t) \/ FinishTruncate(t) \/ FinishRelease(t) \/ FinishFlush(t)
  /\ Become(t, NoRequest)
  /\ Renew(io[t])
  /\ UNCHANGED <<buffering, reads>>

-----------------------------------------------------------------------------
Arrive(t) ==
  \/ Destroy(t)
  \/ \E fh \in held : Release(t, fh)
  \/ \E i \in Inodes :
       \/ Open(t, i) \/ OpenTruncating(t, i) \/ Flush(t, i)
       \/ \E offset \in ReadOffsets, size \in ReadSizes : Read(t, i, offset, size)
       \/ \E offset \in Offsets, len \in Lengths, size \in FileSizes :
            Write(t, i, offset, len, size)
       \/ \E size \in TruncateSizes : Setattr(t, i, size)

Advance(t) ==
  Fetch(t) \/ Fetched(t) \/ Reply(t) \/ BufferStep(t) \/ BufferFails(t) \/ Finish(t)

\* Nobody has to make a request; anything else that stops is a deadlock.
Quiescent == prefetches = {} /\ \A t \in Tasks : Idle(t)

\* A task, one of the read-ahead's included, only runs on a worker thread that no
\* other task blocks.
Next ==
  \/ \E t \in Tasks : WB!WorkerFree(t) /\ (Arrive(t) \/ Advance(t))
  \/ \E p \in prefetches : WB!WorkerFree(p) /\ (Prefetch(p) \/ StorePrefetched(p))
  \/ Quiescent /\ UNCHANGED vars

Spec == Init /\ [][Next]_vars

-----------------------------------------------------------------------------
Steps == {"idle", "fetch", "fetched", "reply", "buffer", "finish"}

\* The type of the state; the write buffer serves exactly the requests that wait
\* for it, and a handle the kernel has is in the table.
TypeOK ==
  /\ WB!TypeOK
  /\ DOMAIN cached \subseteq {BlockKey(i, o) : i \in Inodes, o \in ReadOffsets}
  /\ DOMAIN prefetch_buffer \subseteq Inodes \X Nat
  /\ \A t \in Tasks : io[t].step \in Steps /\ (pc[t] # "idle" => io[t].step = "buffer")
  /\ held \subseteq DOMAIN handles

\* Whichever of prefetch buffer, block cache and store a read gets its bytes from
\* (do_read), they are the bytes at its offset of something the object has been
\* since the last change of the block, a write or a truncation, that was answered
\* while no bytes of the block were under way to a reader or prefetched: the
\* answer has then dropped every older copy.
ReadsReturnRecentBytes ==
  \A t \in Tasks : LET r == io[t] IN r.step = "reply" =>
    \E v \in recent[BlockKey(r.inode, r.offset)] :
      /\ r.data = Slice(v, r.offset, r.size)
      /\ \A k \in ReadBlocks :
           k[1] = r.inode /\ Overlaps(k, r.offset, r.size) => v \in recent[k]

\* A write that has been answered is read (doc/architecture.md): where a run of
\* sequential writes is still in the file's buffer, a read returns its bytes.
ReadAfterWrite ==
  \A t \in Tasks : io[t].step = "reply" /\ io[t].inode \in DOMAIN buffers =>
    LET r == io[t]
        b == buf[buffers[r.inode]]
        start == b.next_offset - Len(b.data)
    IN b.sequential_write =>
         \A at \in start .. b.next_offset - 1 :
           at \in r.offset .. r.offset + r.size - 1 =>
             /\ at - r.offset < Len(r.data)
             /\ r.data[at - r.offset + 1] = b.data[at - start + 1]

\* A handle in the table is in the kernel's hands, in those of a request, or lost
\* by a release or a truncating open that failed (do_release, open): no other
\* path leaves one behind, and none closes one that is in use.
HandlesAccountedFor ==
  DOMAIN handles = held \cup leaked \cup ({io[t].fh : t \in Tasks} \ {0})

\* Whatever requests of all kinds overlap, the write buffer only ever takes steps
\* that WriteBuffer allows: what is said of it there holds under open files.
UsesWriteBuffer == WB!Spec
=============================================================================
