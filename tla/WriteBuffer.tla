----------------------------- MODULE WriteBuffer -----------------------------
(***************************************************************************)
(* src/cache/write_buffer.rs with the multipart uploader it drives         *)
(* (src/storage/multipart.rs) and the flush paths of src/fs/core.rs: one   *)
(* buffer per inode, filled by writes and emptied into the object store.   *)
(*                                                                         *)
(* Request tasks interleave at the points where the code awaits: the       *)
(* buffer's tokio Mutex and the store's answer to a PUT.  Between two      *)
(* awaits a task runs alone, for it holds the Mutex, so one action is one  *)
(* stretch from await to await.  The DashMap of buffers is locked by shard *)
(* for the length of a call; flush and flush_all keep their shard's guard  *)
(* across both awaits, and entry() and remove() then block the worker      *)
(* thread they run on.                                                     *)
(*                                                                         *)
(* A byte is the number of its acceptance: the n-th byte that a write puts *)
(* into a buffer, or sends directly, is n.  An object is the sequence of   *)
(* the bytes of its last PUT, for a PUT replaces the whole object.         *)
(***************************************************************************)
EXTENDS Naturals, Sequences, FiniteSets, DashMap

CONSTANTS
  Tasks,              \* request tasks
  Inodes,
  PathOf,             \* object path of each inode
  ShardOf,            \* shard of the buffers map that holds each inode
  Workers,            \* threads of the tokio runtime
  Ops,                \* requests the tasks make
  BufferSize,         \* config.buffer_size, in bytes
  MultipartThreshold, \* config.multipart_threshold
  PartSize,           \* config.part_size
  Lengths,            \* lengths of a write
  Offsets,            \* offsets of a write
  FileSizes,          \* sizes do_write may find in the attribute cache
  TruncateSizes,      \* sizes asked of truncate
  PutMayFail,         \* whether the store may refuse a PUT
  Before,             \* what an object is before the behaviour starts
  MaxCalls            \* bound on the requests of a behaviour

OpNames == {"write", "truncate", "flush", "release", "flush_all"}

ASSUME SizesAssumption ==
  /\ BufferSize \in Nat \ {0} /\ MultipartThreshold \in Nat \ {0}
  /\ PartSize \in Nat \ {0}          \* 0 would never leave the loop of `write'
  /\ Lengths \subseteq Nat \ {0} /\ Offsets \subseteq Nat
  /\ FileSizes \subseteq Nat /\ TruncateSizes \subseteq Nat
  /\ MaxCalls \in Nat /\ Before \in Seq(Nat)
ASSUME RequestsAssumption == Ops \subseteq OpNames /\ PutMayFail \in BOOLEAN
ASSUME FreeAssumption == "free" \notin Tasks

Paths == {PathOf[i] : i \in Inodes}
Arcs == 1..MaxCalls           \* a request makes at most one buffer, its own number names it

VARIABLES
  buffers,  \* DashMap<u64, Arc<Mutex<FileWriteBuffer>>>: inode to Arc
  buf,      \* the FileWriteBuffer behind each Arc
  lock,     \* holder of each Arc's Mutex, or "free"
  store,    \* the object store
  pc,       \* per task: where it is in its request
  req,      \* per task: the request and its locals
  calls,    \* requests made so far
  owner,    \* history: the inode of every accepted byte
  fate,     \* history: what became of the bytes that left the buffers
  synced    \* history: per inode, bytes accepted before a flush that returned Ok

vars == <<buffers, buf, lock, store, pc, req, calls, owner, fate, synced>>
history == <<owner, fate, synced>>

NewBuffer(size) ==
  [data |-> <<>>, dirty |-> FALSE, size |-> size, original_size |-> size,
   multipart |-> FALSE, sequential_write |-> TRUE, next_offset |-> 0]

\* A request and its locals: `size' is the file size do_write found in the
\* attribute cache, or the size to truncate to; `mark' counts the bytes accepted
\* before it; `todo' are the inodes flush_all has still to visit; `arc' is the
\* buffer it got hold of, `own' the bytes of a direct write and `data' what the
\* PUT of a flush carries.
NewRequest(op, id, i, offset, len, size, mark, todo) ==
  [op |-> op, id |-> id, inode |-> i, offset |-> offset, len |-> len, size |-> size,
   mark |-> mark, todo |-> todo, arc |-> 0, own |-> <<>>, data |-> <<>>]

NoRequest == NewRequest("none", 0, 0, 0, 0, 0, 0, {})

Init ==
  /\ buffers = EmptyMap
  /\ buf = [a \in Arcs |-> NewBuffer(0)]
  /\ lock = [a \in Arcs |-> "free"]
  /\ store = [p \in Paths |-> Before]
  /\ pc = [t \in Tasks |-> "idle"]
  /\ req = [t \in Tasks |-> NoRequest]
  /\ calls = 0
  /\ owner = <<>>
  /\ fate = [stored |-> {}, failed |-> {}, parted |-> {}, cut |-> {}, lost |-> {}]
  /\ synced = [i \in Inodes |-> 0]

Bytes(s) == {s[k] : k \in 1..Len(s)}
Maximum(a, b) == IF a >= b THEN a ELSE b

\* Where a task holds a guard of the shard it works in.
Guards(t, s) ==
  /\ req[t].op \in {"flush", "flush_all"}
  /\ pc[t] \in {"lock", "flush", "put"}
  /\ ShardOf[req[t].inode] = s
Guarded(s) == \E t \in Tasks : Guards(t, s)

\* A call of entry() or remove() that blocks its worker thread.
Blocked(t) == pc[t] \in {"entry", "remove"} /\ Guarded(ShardOf[req[t].inode])
WorkerFree(t) == Cardinality({u \in Tasks \ {t} : Blocked(u)}) < Workers

Goto(t, l) == pc' = [pc EXCEPT ![t] = l]

\* The request returns.  A flush, fsync or close that returns Ok vouches for the
\* bytes accepted before it was made.
Return(t, ok) ==
  /\ Goto(t, "idle")
  /\ req' = [req EXCEPT ![t] = NoRequest]
  /\ synced' = IF ok /\ req[t].op \in {"flush", "release"}
               THEN [synced EXCEPT ![req[t].inode] = Maximum(@, req[t].mark)]
               ELSE synced

-----------------------------------------------------------------------------
(* Requests arrive. *)

Request(t, l, op, i, offset, len, size, todo) ==
  /\ op \in Ops /\ pc[t] = "idle" /\ calls < MaxCalls
  /\ calls' = calls + 1
  /\ req' = [req EXCEPT ![t] =
               NewRequest(op, calls + 1, i, offset, len, size, Len(owner), todo)]
  /\ Goto(t, l)
  /\ UNCHANGED <<buffers, buf, lock, store, history>>

Write(t, i, offset, len, file_size) ==
  Request(t, "entry", "write", i, offset, len, file_size, {})

Truncate(t, i, size) == Request(t, "entry", "truncate", i, 0, 0, size, {})

\* flush, and sync_flush on behalf of fsync.
Flush(t, i) == Request(t, "get", "flush", i, 0, 0, 0, {})

Release(t, i) == Request(t, "remove", "release", i, 0, 0, 0, {})

\* The iterator meets every buffer there is now, and possibly later ones.
FlushAll(t, todo) ==
  DOMAIN buffers \subseteq todo /\ Request(t, "next", "flush_all", 0, 0, 0, 0, todo)

-----------------------------------------------------------------------------
(* The buffers map. *)

\* get_or_create of write and truncate.
Entry(t) ==
  LET i == req[t].inode IN
  /\ pc[t] = "entry" /\ ~Guarded(ShardOf[i])
  /\ \/ /\ i \in DOMAIN buffers
        /\ req' = [req EXCEPT ![t].arc = buffers[i]]
        /\ UNCHANGED <<buffers, buf>>
     \/ /\ i \notin DOMAIN buffers
        /\ buffers' = Insert(buffers, i, req[t].id)
        /\ buf' = [buf EXCEPT ![req[t].id] = NewBuffer(req[t].size)]
        /\ req' = [req EXCEPT ![t].arc = req[t].id]
  /\ Goto(t, "lock")
  /\ UNCHANGED <<lock, store, calls, history>>

\* The get of flush; with no buffer there is nothing to do.
FlushGet(t) ==
  LET i == req[t].inode IN
  /\ pc[t] = "get"
  /\ \/ i \notin DOMAIN buffers /\ Return(t, TRUE)
     \/ /\ i \in DOMAIN buffers
        /\ req' = [req EXCEPT ![t].arc = buffers[i]]
        /\ Goto(t, "lock")
        /\ UNCHANGED synced
  /\ UNCHANGED <<buffers, buf, lock, store, calls, owner, fate>>

ReleaseRemove(t) ==
  LET i == req[t].inode IN
  /\ pc[t] = "remove" /\ ~Guarded(ShardOf[i])
  /\ \/ i \notin DOMAIN buffers /\ Return(t, TRUE) /\ UNCHANGED buffers
     \/ /\ i \in DOMAIN buffers
        /\ buffers' = Remove(buffers, i)
        /\ req' = [req EXCEPT ![t].arc = buffers[i]]
        /\ Goto(t, "lock")
        /\ UNCHANGED synced
  /\ UNCHANGED <<buf, lock, store, calls, owner, fate>>

FlushAllNext(t) ==
  /\ pc[t] = "next"
  /\ \/ /\ req[t].todo \cap DOMAIN buffers = {}
        /\ Return(t, TRUE)
     \/ \E i \in req[t].todo \cap DOMAIN buffers :
          /\ req' = [req EXCEPT ![t].inode = i, ![t].arc = buffers[i], ![t].todo = @ \ {i}]
          /\ Goto(t, "lock")
          /\ UNCHANGED synced
  /\ UNCHANGED <<buffers, buf, lock, store, calls, owner, fate>>

-----------------------------------------------------------------------------
(* Under the buffer's Mutex. *)

Acquire(t) ==
  /\ pc[t] = "lock" /\ lock[req[t].arc] = "free"
  /\ lock' = [lock EXCEPT ![req[t].arc] = t]
  /\ Goto(t, IF req[t].op \in {"write", "truncate"} THEN "body" ELSE "flush")
  /\ UNCHANGED <<buffers, buf, store, req, calls, history>>

Unlock(t) == lock' = [lock EXCEPT ![req[t].arc] = "free"]

\* The bytes of a write, numbered as they are accepted.
NewBytes(t) == [k \in 1..req[t].len |-> Len(owner) + k]
Accept(t) == owner' = owner \o [k \in 1..req[t].len |-> req[t].inode]

WriteEnd(t) == req[t].offset + req[t].len

\* The buffer with its sequentiality brought up to date.
Positioned(t) ==
  LET b == buf[req[t].arc] IN
  [b EXCEPT !.sequential_write = @ /\ req[t].offset = b.next_offset,
            !.next_offset = WriteEnd(t)]

IsDirect(b) == ~b.sequential_write /\ b.original_size > 0

\* A write out of sequence to a file that had contents: flush, then PUT the
\* written bytes alone.
WriteDirect(t) ==
  /\ pc[t] = "body" /\ req[t].op = "write" /\ IsDirect(Positioned(t))
  /\ buf' = [buf EXCEPT ![req[t].arc] = Positioned(t)]
  /\ req' = [req EXCEPT ![t].own = NewBytes(t)]
  /\ Accept(t)
  /\ Goto(t, "flush")
  /\ UNCHANGED <<buffers, lock, store, calls, fate, synced>>

\* Mutant: the buffer is not marked dirty.
AppendClean(t) ==
  LET data == buf[req[t].arc].data \o NewBytes(t) IN
  [Positioned(t) EXCEPT !.data = data, !.size = Maximum(@, WriteEnd(t)),
                        !.multipart = @ \/ Len(data) >= MultipartThreshold]

\* Mutant: the new bytes go in front of the buffered ones.
AppendInFront(t) ==
  LET data == NewBytes(t) \o buf[req[t].arc].data IN
  [Positioned(t) EXCEPT !.data = data, !.dirty = TRUE, !.size = Maximum(@, WriteEnd(t)),
                        !.multipart = @ \/ Len(data) >= MultipartThreshold]

Appended(t) ==
  LET data == buf[req[t].arc].data \o NewBytes(t) IN
  [Positioned(t) EXCEPT !.data = data, !.dirty = TRUE, !.size = Maximum(@, WriteEnd(t)),
                        !.multipart = @ \/ Len(data) >= MultipartThreshold]

\* How many bytes go into whole parts of a multipart upload: the loop leaves
\* less than a part.
Parted(b) == IF b.multipart THEN Len(b.data) - (Len(b.data) % PartSize) ELSE 0

WithoutParts(b) == [b EXCEPT !.data = SubSeq(b.data, Parted(b) + 1, Len(b.data))]

\* Mutant: a buffer is flushed when it is over the limit, not when it is full.
OverFull(b) == Len(b.data) > BufferSize /\ ~b.multipart

NeedsFlush(b) == Len(b.data) >= BufferSize /\ ~b.multipart

\* Any other write is appended to the buffer, wherever it is in the file.
WriteAppend(t) ==
  LET b == Appended(t) IN
  /\ pc[t] = "body" /\ req[t].op = "write" /\ ~IsDirect(Positioned(t))
  /\ buf' = [buf EXCEPT ![req[t].arc] = WithoutParts(b)]
  /\ fate' = [fate EXCEPT !.parted = @ \cup Bytes(SubSeq(b.data, 1, Parted(b)))]
  /\ Accept(t)
  /\ \/ NeedsFlush(b) /\ Goto(t, "flush") /\ UNCHANGED <<lock, req, synced>>
     \/ ~NeedsFlush(b) /\ Unlock(t) /\ Return(t, TRUE)
  /\ UNCHANGED <<buffers, store, calls>>

\* Buffered bytes and an upload under way are dropped, whatever the new size;
\* only truncation to 0 reaches the store.
TruncateBuffer(t) ==
  LET a == req[t].arc
      toZero == req[t].size = 0
  IN
  /\ pc[t] = "body" /\ req[t].op = "truncate"
  /\ buf' = [buf EXCEPT ![a] = [@ EXCEPT !.multipart = FALSE, !.data = <<>>,
                                         !.size = req[t].size, !.dirty = TRUE]]
  /\ fate' = IF toZero THEN [fate EXCEPT !.cut = @ \cup Bytes(buf[a].data)]
                       ELSE [fate EXCEPT !.lost = @ \cup Bytes(buf[a].data)]
  /\ \/ toZero /\ Goto(t, "empty") /\ UNCHANGED <<lock, req, synced>>
     \/ ~toZero /\ Unlock(t) /\ Return(t, TRUE)
  /\ UNCHANGED <<buffers, store, calls, owner>>

-----------------------------------------------------------------------------
(* flush_buffer, still under the Mutex *)

\* Where a request goes on once flush_buffer has returned Ok.
GoOn(t) ==
  \/ req[t].op = "flush_all" /\ Unlock(t) /\ Goto(t, "next") /\ UNCHANGED <<req, synced>>
  \/ req[t].own # <<>> /\ Goto(t, "direct") /\ UNCHANGED <<lock, req, synced>>
  \/ /\ req[t].op # "flush_all" /\ req[t].own = <<>>
     /\ Unlock(t) /\ Return(t, TRUE)

FlushNothing(t) ==
  LET b == buf[req[t].arc] IN
  /\ pc[t] = "flush" /\ (~b.dirty \/ b.data = <<>>)
  /\ GoOn(t)
  /\ UNCHANGED <<buffers, buf, store, calls, owner, fate>>

\* A buffer whose multipart upload has been completed.
Completed(b) == [b EXCEPT !.data = <<>>, !.multipart = FALSE, !.dirty = FALSE,
                          !.original_size = b.size]

\* Mutant: the upload is completed without the bytes still in the buffer.
FlushMultipartShort(t) ==
  LET a == req[t].arc IN
  /\ pc[t] = "flush" /\ buf[a].dirty /\ buf[a].data # <<>> /\ buf[a].multipart
  /\ buf' = [buf EXCEPT ![a] = Completed(@)]
  /\ GoOn(t)
  /\ UNCHANGED <<buffers, store, calls, owner, fate>>

\* The remaining bytes become the last part and the upload is completed, which
\* records part sizes and sends nothing to the store.
FlushMultipart(t) ==
  LET a == req[t].arc IN
  /\ pc[t] = "flush" /\ buf[a].dirty /\ buf[a].data # <<>> /\ buf[a].multipart
  /\ fate' = [fate EXCEPT !.parted = @ \cup Bytes(buf[a].data)]
  /\ buf' = [buf EXCEPT ![a] = Completed(@)]
  /\ GoOn(t)
  /\ UNCHANGED <<buffers, store, calls, owner>>

\* Mutant: the Mutex is released before the PUT is awaited.
FlushTakeUnlocked(t) ==
  LET a == req[t].arc IN
  /\ pc[t] = "flush" /\ buf[a].dirty /\ buf[a].data # <<>> /\ ~buf[a].multipart
  /\ req' = [req EXCEPT ![t].data = buf[a].data]
  /\ buf' = [buf EXCEPT ![a] = [@ EXCEPT !.data = <<>>]]
  /\ Goto(t, "put")
  /\ Unlock(t)
  /\ UNCHANGED <<buffers, store, calls, history>>

\* The data leaves the buffer before the PUT that carries it.
FlushTake(t) ==
  LET a == req[t].arc IN
  /\ pc[t] = "flush" /\ buf[a].dirty /\ buf[a].data # <<>> /\ ~buf[a].multipart
  /\ req' = [req EXCEPT ![t].data = buf[a].data]
  /\ buf' = [buf EXCEPT ![a] = [@ EXCEPT !.data = <<>>]]
  /\ Goto(t, "put")
  /\ UNCHANGED <<buffers, lock, store, calls, history>>

Path(t) == PathOf[req[t].inode]

Put(t) ==
  LET a == req[t].arc IN
  /\ pc[t] = "put"
  /\ store' = [store EXCEPT ![Path(t)] = req[t].data]
  /\ buf' = [buf EXCEPT ![a] = [@ EXCEPT !.dirty = FALSE, !.original_size = buf[a].size]]
  /\ fate' = [fate EXCEPT !.stored = @ \cup Bytes(req[t].data)]
  /\ GoOn(t)
  /\ UNCHANGED <<buffers, calls, owner>>

\* The PUT of a direct write.
DirectPut(t) ==
  LET a == req[t].arc IN
  /\ pc[t] = "direct"
  /\ store' = [store EXCEPT ![Path(t)] = req[t].own]
  /\ buf' = [buf EXCEPT ![a] = [@ EXCEPT !.size = Maximum(buf[a].size, WriteEnd(t))]]
  /\ fate' = [fate EXCEPT !.stored = @ \cup Bytes(req[t].own)]
  /\ Unlock(t) /\ Return(t, TRUE)
  /\ UNCHANGED <<buffers, calls, owner>>

\* The PUT of a truncation to 0.
EmptyPut(t) ==
  /\ pc[t] = "empty"
  /\ store' = [store EXCEPT ![Path(t)] = <<>>]
  /\ buf' = [buf EXCEPT ![req[t].arc] = [@ EXCEPT !.dirty = FALSE]]
  /\ Unlock(t) /\ Return(t, TRUE)
  /\ UNCHANGED <<buffers, calls, owner, fate>>

\* What the PUT under way carries.
Payload(t) == CASE pc[t] = "put" -> req[t].data
                [] pc[t] = "direct" -> req[t].own
                [] OTHER -> <<>>

\* Mutant: the error return leaves the Mutex locked.
PutFailsLocked(t) ==
  /\ PutMayFail
  /\ pc[t] \in {"put", "direct", "empty"}
  /\ store' \in {store, [store EXCEPT ![Path(t)] = Payload(t)]}
  /\ fate' = [fate EXCEPT !.failed = @ \cup Bytes(req[t].data) \cup Bytes(req[t].own)]
  /\ Return(t, FALSE)
  /\ UNCHANGED <<buffers, buf, lock, calls, owner>>

\* The PUT comes back with an error, whether or not the store took the object:
\* the request fails, the bytes are gone and the buffer stays dirty.
PutFails(t) ==
  /\ PutMayFail
  /\ pc[t] \in {"put", "direct", "empty"}
  /\ store' \in {store, [store EXCEPT ![Path(t)] = Payload(t)]}
  /\ fate' = [fate EXCEPT !.failed = @ \cup Bytes(req[t].data) \cup Bytes(req[t].own)]
  /\ Unlock(t) /\ Return(t, FALSE)
  /\ UNCHANGED <<buffers, buf, calls, owner>>

-----------------------------------------------------------------------------
Arrive(t) ==
  \E i \in Inodes :
    \/ \E offset \in Offsets, len \in Lengths, size \in FileSizes : Write(t, i, offset, len, size)
    \/ \E size \in TruncateSizes : Truncate(t, i, size)
    \/ Flush(t, i)
    \/ Release(t, i)

ArriveForAll(t) == \E todo \in SUBSET Inodes : FlushAll(t, todo)

Progress(t) ==
  \/ Entry(t) \/ FlushGet(t) \/ ReleaseRemove(t) \/ FlushAllNext(t)
  \/ Acquire(t) \/ WriteDirect(t) \/ WriteAppend(t) \/ TruncateBuffer(t)
  \/ FlushNothing(t) \/ FlushMultipart(t) \/ FlushTake(t)
  \/ Put(t) \/ DirectPut(t) \/ EmptyPut(t)

Advance(t) == Progress(t) \/ PutFails(t)

\* A task only runs on a worker thread that no other task blocks.
Run(t) == WorkerFree(t) /\ Advance(t)

\* Every request of the bound has been made and answered.
Exhausted ==
  /\ calls = MaxCalls /\ \A t \in Tasks : pc[t] = "idle"
  /\ UNCHANGED vars

Next ==
  \/ \E t \in Tasks : WorkerFree(t) /\ (Arrive(t) \/ ArriveForAll(t))
  \/ \E t \in Tasks : Run(t)
  \/ Exhausted

Spec == Init /\ [][Next]_vars

\* The runtime polls every task that can go on, and the store answers every
\* PUT; nobody has to make another request.  As the bound makes requests run
\* out, a waiter cannot be overtaken for ever and weak fairness is enough.
FairSpec == Spec /\ \A t \in Tasks : WF_vars(Run(t))

-----------------------------------------------------------------------------
Labels == {"idle", "entry", "get", "remove", "next", "lock", "body", "flush", "put",
           "direct", "empty"}
LockedLabels == {"body", "flush", "put", "direct", "empty"}

Buffer == [data : Seq(Nat), dirty : BOOLEAN, size : Nat, original_size : Nat,
           multipart : BOOLEAN, sequential_write : BOOLEAN, next_offset : Nat]

Requests ==
  [op : OpNames \cup {"none"}, id : Arcs \cup {0}, inode : Inodes \cup {0}, offset : Nat,
   len : Nat, size : Nat, mark : Nat, todo : SUBSET Inodes, arc : Arcs \cup {0},
   own : Seq(Nat), data : Seq(Nat)]

SharedTypeOK ==
  /\ DOMAIN buffers \subseteq Inodes
  /\ \A i \in DOMAIN buffers : buffers[i] \in Arcs
  /\ calls \in Nat
  /\ buf \in [Arcs -> Buffer]
  /\ store \in [Paths -> Seq(Nat)]
  /\ owner \in Seq(Inodes)

TaskTypeOK ==
  /\ pc \in [Tasks -> Labels]
  /\ req \in [Tasks -> Requests]
  /\ \A t \in Tasks :
       /\ pc[t] # "idle" => req[t].id \in Arcs
       /\ pc[t] \notin {"idle", "next"} => req[t].inode \in Inodes
       /\ pc[t] \in LockedLabels \cup {"lock"} => req[t].arc \in Arcs

\* A Mutex is held exactly by the task that is working on its buffer.
MutexTypeOK ==
  /\ lock \in [Arcs -> Tasks \cup {"free"}]
  /\ \A a \in Arcs, t \in Tasks :
       lock[a] = t <=> pc[t] \in LockedLabels /\ req[t].arc = a

\* The type of the state, and who holds which Mutex (write_buffer.rs).
TypeOK == SharedTypeOK /\ TaskTypeOK /\ MutexTypeOK

Unlocked(a) == lock[a] = "free"

\* A buffer nobody is working on and that is not marked dirty holds nothing:
\* flush, fsync, close and flush_all pass such a buffer by (write_buffer.rs,
\* flush_buffer's first test), so bytes in it would never be sent.
CleanMeansEmpty ==
  \A a \in Arcs : Unlocked(a) /\ ~buf[a].dirty => buf[a].data = <<>> /\ ~buf[a].multipart

\* What a file keeps in memory between requests is less than the configured
\* size, however writes, flushes and failed PUTs alternate.
BuffersBounded ==
  \A a \in Arcs : Unlocked(a) =>
    IF buf[a].multipart THEN Len(buf[a].data) < PartSize
    ELSE Len(buf[a].data) < BufferSize /\ Len(buf[a].data) < MultipartThreshold

\* Every byte a write accepted is in a buffer, in a PUT under way, or left for
\* one of the reasons the code has: no path of write, flush_buffer, release or
\* truncate drops bytes on the floor.
BytesAccountedFor ==
  \A n \in 1..Len(owner) :
    \/ \E a \in Arcs : n \in Bytes(buf[a].data)
    \/ \E t \in Tasks : n \in Bytes(req[t].data) \cup Bytes(req[t].own)
    \/ n \in fate.stored \cup fate.failed \cup fate.parted \cup fate.cut \cup fate.lost

\* Buffers keep bytes in the order in which writes were accepted, and so does
\* every object a PUT leaves in the store, whichever requests appended, split
\* and sent them.
Ascending(s) == \A j, k \in 1..Len(s) : j < k => s[j] < s[k]
AcceptanceOrder ==
  /\ \A a \in Arcs : Ascending(buf[a].data)
  /\ \A p \in Paths : Ascending(store[p])

\* A PUT never replaces an object by one whose bytes were all accepted earlier:
\* the later write wins, as in a file.
LaterWriteWins ==
  [][\A p \in Paths :
       store[p] # store'[p] /\ store[p] # <<>> /\ store'[p] # <<>> =>
         store'[p][Len(store'[p])] > store[p][Len(store[p])]]_vars

\* Bytes accepted before an fsync, flush or close that returned Ok have been in
\* a PUT the store acknowledged, unless the file was truncated to 0 meanwhile.
SyncedBytesWereStored ==
  \A i \in Inodes : \A n \in 1..synced[i] :
    owner[n] = i => n \in fate.stored \cup fate.cut

\* What an fsync has vouched for stays in the object (doc/architecture.md) while
\* every write of the file begins where the one before it ended, so that none
\* writes over another's bytes.
SyncedBytesAreStored ==
  \A i \in DOMAIN buffers : buf[buffers[i]].sequential_write =>
    \A n \in 1..synced[i] : owner[n] = i => n \in Bytes(store[PathOf[i]]) \cup fate.cut

\* Every request is answered.
RequestsAnswered == \A t \in Tasks : pc[t] # "idle" ~> pc[t] = "idle"
==============================================================================
