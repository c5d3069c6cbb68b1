---------------------------- MODULE FileIOProofs -----------------------------
(***************************************************************************)
(* What FileIO guarantees for every set of tasks and files and every size: *)
(* the file requests use the write buffer as WriteBuffer lays down, so     *)
(* what was proved of it holds of open files too, the state keeps its      *)
(* type, no handle is lost or closed in use, and a read returns bytes that *)
(* the object has had since the last change of them that was answered.     *)
(***************************************************************************)
EXTENDS FileIO, TLAPS

Proved == INSTANCE WriteBufferBytesProofs

-----------------------------------------------------------------------------
(* The write buffer of FileIO and the one of the proofs are one module's. *)

LEMMA SameInit == WB!Init => Proved!Init
BY
  DEF WB!Init, Proved!Init, WB!EmptyMap, Proved!EmptyMap, WB!Arcs, Proved!Arcs,
      WB!Paths, Proved!Paths, WB!NewBuffer, Proved!NewBuffer, WB!NoRequest,
      Proved!NoRequest, WB!NewRequest, Proved!NewRequest

LEMMA SameSteps ==
  ASSUME NEW t
  PROVE  /\ WB!Arrive(t) <=> Proved!Arrive(t)
         /\ WB!ArriveForAll(t) <=> Proved!ArriveForAll(t)
         /\ WB!WorkerFree(t) <=> Proved!WorkerFree(t)
         /\ WB!Entry(t) <=> Proved!Entry(t)
         /\ WB!FlushGet(t) <=> Proved!FlushGet(t)
         /\ WB!ReleaseRemove(t) <=> Proved!ReleaseRemove(t)
         /\ WB!FlushAllNext(t) <=> Proved!FlushAllNext(t)
         /\ WB!Acquire(t) <=> Proved!Acquire(t)
         /\ WB!WriteDirect(t) <=> Proved!WriteDirect(t)
         /\ WB!WriteAppend(t) <=> Proved!WriteAppend(t)
         /\ WB!TruncateBuffer(t) <=> Proved!TruncateBuffer(t)
         /\ WB!FlushNothing(t) <=> Proved!FlushNothing(t)
         /\ WB!FlushMultipart(t) <=> Proved!FlushMultipart(t)
         /\ WB!FlushTake(t) <=> Proved!FlushTake(t)
         /\ WB!Put(t) <=> Proved!Put(t)
         /\ WB!DirectPut(t) <=> Proved!DirectPut(t)
         /\ WB!EmptyPut(t) <=> Proved!EmptyPut(t)
         /\ WB!PutFails(t) <=> Proved!PutFails(t)
<1> USE
      DEF WB!Goto, Proved!Goto, WB!Unlock, Proved!Unlock, WB!Return, Proved!Return,
          WB!NoRequest, Proved!NoRequest, WB!NewRequest, Proved!NewRequest,
          WB!Maximum, Proved!Maximum, WB!Bytes, Proved!Bytes, WB!GoOn, Proved!GoOn,
          WB!Path, Proved!Path, WB!Request, Proved!Request, WB!Guards,
          Proved!Guards, WB!Guarded, Proved!Guarded, WB!Accept, Proved!Accept,
          WB!NewBytes, Proved!NewBytes, WB!WriteEnd, Proved!WriteEnd, WB!Positioned,
          Proved!Positioned, WB!IsDirect, Proved!IsDirect, WB!history,
          Proved!history
<1>1. WB!Arrive(t) <=> Proved!Arrive(t)
  BY DEF WB!Arrive, Proved!Arrive, WB!Write, Proved!Write, WB!Truncate,
         Proved!Truncate, WB!Flush, Proved!Flush, WB!Release, Proved!Release
<1>2. WB!ArriveForAll(t) <=> Proved!ArriveForAll(t)
  BY DEF WB!ArriveForAll, Proved!ArriveForAll, WB!FlushAll, Proved!FlushAll
<1>3. WB!WorkerFree(t) <=> Proved!WorkerFree(t)
  <2>1. \A u : WB!Blocked(u) <=> Proved!Blocked(u)
    BY DEF WB!Blocked, Proved!Blocked
  <2>2. {u \in Tasks \ {t} : WB!Blocked(u)} = {u \in Tasks \ {t} : Proved!Blocked(u)}
    BY <2>1
  <2> QED
    BY <2>2 DEF WB!WorkerFree, Proved!WorkerFree, WB!Cardinality, Proved!Cardinality
<1>4. WB!Entry(t) <=> Proved!Entry(t)
  BY DEF WB!Entry, Proved!Entry, WB!Insert, Proved!Insert, WB!NewBuffer,
         Proved!NewBuffer
<1>5. WB!FlushGet(t) <=> Proved!FlushGet(t)
  BY DEF WB!FlushGet, Proved!FlushGet
<1>6. WB!ReleaseRemove(t) <=> Proved!ReleaseRemove(t)
  BY DEF WB!ReleaseRemove, Proved!ReleaseRemove, WB!Remove, Proved!Remove
<1>7. WB!FlushAllNext(t) <=> Proved!FlushAllNext(t)
  BY DEF WB!FlushAllNext, Proved!FlushAllNext
<1>8. WB!Acquire(t) <=> Proved!Acquire(t)
  BY DEF WB!Acquire, Proved!Acquire
<1>9. WB!WriteDirect(t) <=> Proved!WriteDirect(t)
  BY DEF WB!WriteDirect, Proved!WriteDirect
<1>10. WB!WriteAppend(t) <=> Proved!WriteAppend(t)
  BY DEF WB!WriteAppend, Proved!WriteAppend, WB!Appended, Proved!Appended,
         WB!Parted, Proved!Parted, WB!WithoutParts, Proved!WithoutParts,
         WB!NeedsFlush, Proved!NeedsFlush
<1>11. WB!TruncateBuffer(t) <=> Proved!TruncateBuffer(t)
  BY DEF WB!TruncateBuffer, Proved!TruncateBuffer
<1>12. WB!FlushNothing(t) <=> Proved!FlushNothing(t)
  BY DEF WB!FlushNothing, Proved!FlushNothing
<1>13. WB!FlushMultipart(t) <=> Proved!FlushMultipart(t)
  BY DEF WB!FlushMultipart, Proved!FlushMultipart, WB!Completed, Proved!Completed
<1>14. WB!FlushTake(t) <=> Proved!FlushTake(t)
  BY DEF WB!FlushTake, Proved!FlushTake
<1>15. WB!Put(t) <=> Proved!Put(t)
  BY DEF WB!Put, Proved!Put
<1>16. WB!DirectPut(t) <=> Proved!DirectPut(t)
  BY DEF WB!DirectPut, Proved!DirectPut
<1>17. WB!EmptyPut(t) <=> Proved!EmptyPut(t)
  BY DEF WB!EmptyPut, Proved!EmptyPut
<1>18. WB!PutFails(t) <=> Proved!PutFails(t)
  BY DEF WB!PutFails, Proved!PutFails, WB!Payload, Proved!Payload
<1> QED
  BY <1>1, <1>2, <1>3, <1>4, <1>5, <1>6, <1>7, <1>8, <1>9, <1>10, <1>11, <1>12, <1>13, <1>14, <1>15, <1>16, <1>17, <1>18

LEMMA SameNext == [WB!Next]_buffering => [Proved!Next]_buffering
BY SameSteps DEF WB!Next, Proved!Next, WB!Run, Proved!Run, WB!Advance, Proved!Advance,
   WB!Progress, Proved!Progress, WB!Exhausted, Proved!Exhausted, WB!vars, Proved!vars

LEMMA SameTypes == WB!TypeOK <=> Proved!TypeOK
BY
  DEF WB!TypeOK, Proved!TypeOK, WB!SharedTypeOK, Proved!SharedTypeOK, WB!TaskTypeOK,
      Proved!TaskTypeOK, WB!MutexTypeOK, Proved!MutexTypeOK, WB!Buffer, Proved!Buffer,
      WB!Requests, Proved!Requests, WB!Labels, Proved!Labels, WB!LockedLabels,
      Proved!LockedLabels, WB!OpNames, Proved!OpNames, WB!Arcs, Proved!Arcs, WB!Paths,
      Proved!Paths

-----------------------------------------------------------------------------
(* Handles and the requests that carry them *)

IsRequest(r) ==
  {"op", "step", "inode", "fh", "offset", "size", "data"} \subseteq DOMAIN r

\* Numbers of handles are below the counter, and handles are of files.
HandlesTyped ==
  /\ next_handle \in Nat /\ next_handle > 0
  /\ \A fh \in DOMAIN handles : fh \in 1..(next_handle - 1) /\ handles[fh] \in Inodes

\* A request is of its type, and what it reads is something there is to read.
RequestsTyped ==
  /\ DOMAIN io = Tasks
  /\ \A t \in Tasks :
       /\ IsRequest(io[t]) /\ io[t].step \in Steps
       /\ io[t].step \in {"fetch", "fetched", "reply"} =>
            /\ io[t].op = "read"
            /\ io[t].inode \in Inodes /\ io[t].offset \in ReadOffsets /\ io[t].size \in ReadSizes

\* A handle a request carries is its alone: the kernel does not have it yet, or
\* no longer.
HandlesOwned ==
  /\ held \cap leaked = {}
  /\ \A t \in Tasks : io[t].fh # 0 =>
       io[t].op \in {"open", "release"} /\ io[t].fh \notin held \cup leaked
  /\ \A t, u \in Tasks : io[t].fh # 0 /\ io[t].fh = io[u].fh => t = u

\* The inductive invariant of the handle table.
HandleInv == HandlesTyped /\ RequestsTyped /\ HandlesOwned /\ HandlesAccountedFor

LEMMA InitHandles == Init => HandleInv
BY DEF Init, Map!EmptyMap, HandleInv, HandlesTyped, RequestsTyped, HandlesOwned,
   HandlesAccountedFor, NoRequest, Request, IsRequest, Steps

\* A request that goes on without a change of the table.
LEMMA BecomeKeeps ==
  ASSUME HandleInv, NEW t \in Tasks, NEW r, Become(t, r), UNCHANGED table,
         IsRequest(r), r.step \in Steps,
         r.step \in {"fetch", "fetched", "reply"} =>
           r.op = "read" /\ r.inode \in Inodes /\ r.offset \in ReadOffsets /\ r.size \in ReadSizes,
         r.fh = io[t].fh, r.fh # 0 => r.op = io[t].op
  PROVE  HandleInv'
<1>1. \A u \in Tasks : io'[u] = IF u = t THEN r ELSE io[u]
  BY DEF Become, HandleInv, RequestsTyped
<1>2. \A u \in Tasks : io'[u].fh = io[u].fh
  BY <1>1
<1>3. HandlesTyped' /\ RequestsTyped'
  BY <1>1 DEF Become, HandleInv, HandlesTyped, RequestsTyped, table
<1>4. HandlesOwned'
  BY <1>1, <1>2 DEF HandleInv, HandlesOwned, table
<1>5. HandlesAccountedFor'
  BY <1>2 DEF HandleInv, HandlesAccountedFor, table
<1> QED
  BY <1>3, <1>4, <1>5 DEF HandleInv

\* Any other step that leaves requests and table alone.
LEMMA TableStays ==
  ASSUME HandleInv, UNCHANGED <<io, table>>
  PROVE  HandleInv'
BY DEF HandleInv, HandlesTyped, RequestsTyped, HandlesOwned, HandlesAccountedFor, table

LEMMA OpenKeeps ==
  ASSUME HandleInv, NEW t \in Tasks, NEW i \in Inodes, Open(t, i)
  PROVE  HandleInv'
<1>1. /\ handles' = Map!Insert(handles, next_handle, i)
      /\ next_handle' = next_handle + 1 /\ held' = held \cup {next_handle}
      /\ UNCHANGED <<leaked, io>>
  BY DEF Open, OpenHandle
<1>2. next_handle \notin DOMAIN handles /\ next_handle \in Nat /\ next_handle > 0
  BY DEF HandleInv, HandlesTyped
<1>3. HandlesTyped' /\ RequestsTyped'
  BY <1>1, <1>2 DEF HandleInv, HandlesTyped, RequestsTyped, Map!Insert
<1>4. HandlesAccountedFor'
  BY <1>1 DEF HandleInv, HandlesAccountedFor, Map!Insert
<1>5. HandlesOwned'
  BY <1>1, <1>2 DEF HandleInv, HandlesOwned, HandlesAccountedFor
<1> QED
  BY <1>3, <1>4, <1>5 DEF HandleInv

LEMMA OpenTruncatingKeeps ==
  ASSUME HandleInv, NEW t \in Tasks, NEW i \in Inodes, OpenTruncating(t, i)
  PROVE  HandleInv'
<1> DEFINE r == Request("open", "buffer", i, next_handle, 0, 0, <<>>)
<1>1. /\ handles' = Map!Insert(handles, next_handle, i)
      /\ next_handle' = next_handle + 1
      /\ Become(t, r) /\ io[t] = NoRequest
      /\ UNCHANGED <<leaked, held>>
  BY DEF OpenTruncating, OpenHandle, Idle
<1>2. next_handle \notin DOMAIN handles /\ next_handle \in Nat /\ next_handle > 0
  BY DEF HandleInv, HandlesTyped
<1>3. \A u \in Tasks : io'[u] = IF u = t THEN r ELSE io[u]
  BY <1>1 DEF Become, HandleInv, RequestsTyped
<1>4. r.fh = next_handle /\ r.op = "open" /\ r.step = "buffer" /\ IsRequest(r) /\ io[t].fh = 0
  BY <1>1 DEF Request, NoRequest, IsRequest
<1> HIDE DEF r
<1>5. HandlesTyped'
  BY <1>1, <1>2 DEF HandleInv, HandlesTyped, Map!Insert
<1>6. RequestsTyped'
  BY <1>1, <1>3, <1>4 DEF Become, HandleInv, RequestsTyped, Steps
<1>7. HandlesAccountedFor'
  BY <1>1, <1>2, <1>3, <1>4 DEF HandleInv, HandlesAccountedFor, Map!Insert
<1>8. HandlesOwned'
  BY <1>1, <1>2, <1>3, <1>4 DEF HandleInv, HandlesOwned, HandlesAccountedFor
<1> QED
  BY <1>5, <1>6, <1>7, <1>8 DEF HandleInv

LEMMA ReleaseKeeps ==
  ASSUME HandleInv, NEW t \in Tasks, NEW fh \in held, Release(t, fh)
  PROVE  HandleInv'
<1> DEFINE r == Request("release", "buffer", handles[fh], fh, 0, 0, <<>>)
<1>1. /\ held' = held \ {fh} /\ Become(t, r) /\ io[t] = NoRequest
      /\ UNCHANGED <<handles, next_handle, leaked>>
  BY DEF Release, Buffer, Idle
<1>2. \A u \in Tasks : io'[u] = IF u = t THEN r ELSE io[u]
  BY <1>1 DEF Become, HandleInv, RequestsTyped
<1>3. r.fh = fh /\ r.op = "release" /\ r.step = "buffer" /\ IsRequest(r) /\ io[t].fh = 0
  BY <1>1 DEF Request, NoRequest, IsRequest
<1>4. fh # 0
  BY DEF HandleInv, HandlesTyped, HandlesAccountedFor
<1> HIDE DEF r
<1>5. HandlesTyped'
  BY <1>1 DEF HandleInv, HandlesTyped
<1>6. RequestsTyped'
  BY <1>1, <1>2, <1>3 DEF Become, HandleInv, RequestsTyped, Steps
<1>7. HandlesAccountedFor'
  BY <1>1, <1>2, <1>3, <1>4 DEF HandleInv, HandlesAccountedFor
<1>8. HandlesOwned'
  BY <1>1, <1>2, <1>3, <1>4 DEF HandleInv, HandlesOwned
<1> QED
  BY <1>5, <1>6, <1>7, <1>8 DEF HandleInv

LEMMA BufferKeeps ==
  ASSUME HandleInv, NEW t \in Tasks, NEW op \in {"write", "setattr", "flush", "destroy"},
         NEW i, NEW offset, NEW size, Buffer(t, op, i, 0, offset, size), UNCHANGED held
  PROVE  HandleInv'
<1> DEFINE r == Request(op, "buffer", i, 0, offset, size, <<>>)
<1>1. r.fh = 0 /\ r.step = "buffer" /\ IsRequest(r) /\ io[t].fh = 0
  BY DEF Buffer, Idle, Request, NoRequest, IsRequest
<1>2. Become(t, r) /\ UNCHANGED table
  BY DEF Buffer, table
<1> QED
  BY <1>1, <1>2, BecomeKeeps DEF Steps

\* A handle whose request fails is lost: the kernel knows it no more, or never did.
LEMMA FailKeeps ==
  ASSUME HandleInv, NEW t \in Tasks, BufferFails(t)
  PROVE  HandleInv'
<1>1. /\ Become(t, NoRequest) /\ leaked' = leaked \cup ({io[t].fh} \ {0})
      /\ UNCHANGED <<handles, next_handle, held>>
  BY DEF BufferFails
<1>2. \A u \in Tasks : io'[u] = IF u = t THEN NoRequest ELSE io[u]
  BY <1>1 DEF Become, HandleInv, RequestsTyped
<1>3. NoRequest.fh = 0 /\ NoRequest.step = "idle" /\ IsRequest(NoRequest)
  BY DEF Request, NoRequest, IsRequest
<1>4. HandlesTyped'
  BY <1>1 DEF HandleInv, HandlesTyped
<1>5. RequestsTyped'
  BY <1>1, <1>2, <1>3 DEF Become, HandleInv, RequestsTyped, Steps
<1>6. HandlesAccountedFor'
  BY <1>1, <1>2, <1>3 DEF HandleInv, HandlesAccountedFor
<1>7. HandlesOwned'
  BY <1>1, <1>2, <1>3 DEF HandleInv, HandlesOwned
<1> QED
  BY <1>4, <1>5, <1>6, <1>7 DEF HandleInv

\* What is done once the write buffer has returned: a truncating open hands its
\* handle to the kernel, a release closes its own.
LEMMA FinishKeeps ==
  ASSUME HandleInv, NEW t \in Tasks, Finish(t)
  PROVE  HandleInv'
<1>1. Become(t, NoRequest)
  BY DEF Finish
<1>2. \A u \in Tasks : io'[u] = IF u = t THEN NoRequest ELSE io[u]
  BY <1>1 DEF Become, HandleInv, RequestsTyped
<1>3. NoRequest.fh = 0 /\ NoRequest.step = "idle" /\ IsRequest(NoRequest)
  BY DEF Request, NoRequest, IsRequest
<1>4. RequestsTyped'
  BY <1>1, <1>2, <1>3 DEF Become, HandleInv, RequestsTyped, Steps
<1>5. CASE FinishWrite(t) \/ FinishFlush(t)
  <2>1. io[t].fh = 0 /\ UNCHANGED table
    BY <1>5 DEF FinishWrite, FinishFlush, HandleInv, HandlesOwned
  <2>2. HandlesTyped'
    BY <2>1 DEF table, HandleInv, HandlesTyped
  <2>3. HandlesAccountedFor'
    BY <1>2, <1>3, <2>1 DEF table, HandleInv, HandlesAccountedFor
  <2>4. HandlesOwned'
    BY <1>2, <1>3, <2>1 DEF table, HandleInv, HandlesOwned
  <2> QED
    BY <1>4, <2>2, <2>3, <2>4 DEF HandleInv
<1>6. CASE FinishTruncate(t)
  <2>1. held' = held \cup ({io[t].fh} \ {0}) /\ UNCHANGED <<handles, next_handle, leaked>>
    BY <1>6 DEF FinishTruncate
  <2>2. HandlesTyped'
    BY <2>1 DEF HandleInv, HandlesTyped
  <2>3. HandlesAccountedFor'
    BY <1>2, <1>3, <2>1 DEF HandleInv, HandlesAccountedFor
  <2>4. HandlesOwned'
    BY <1>2, <1>3, <2>1 DEF HandleInv, HandlesOwned
  <2> QED
    BY <1>4, <2>2, <2>3, <2>4 DEF HandleInv
<1>7. CASE FinishRelease(t)
  <2>1. /\ DOMAIN handles' = DOMAIN handles \ {io[t].fh}
        /\ \A fh \in DOMAIN handles' : handles'[fh] = handles[fh]
        /\ UNCHANGED <<next_handle, held, leaked>>
    BY <1>7 DEF FinishRelease, Map!Remove
  <2>2. HandlesTyped'
    BY <2>1 DEF HandleInv, HandlesTyped
  <2>3. 0 \notin DOMAIN handles
    BY DEF HandleInv, HandlesTyped
  <2>4. HandlesAccountedFor'
    BY <1>2, <1>3, <2>1, <2>3 DEF HandleInv, HandlesAccountedFor, HandlesOwned
  <2>5. HandlesOwned'
    BY <1>2, <1>3, <2>1 DEF HandleInv, HandlesOwned
  <2> QED
    BY <1>4, <2>2, <2>4, <2>5 DEF HandleInv
<1> QED
  BY <1>5, <1>6, <1>7 DEF Finish

LEMMA ReadKeeps ==
  ASSUME HandleInv, NEW t \in Tasks, NEW i \in Inodes,
         NEW offset \in ReadOffsets, NEW size \in ReadSizes, Read(t, i, offset, size)
  PROVE  HandleInv'
<1>1. PICK data : \E step \in {"reply", "fetch"} :
        Become(t, Request("read", step, i, 0, offset, size, data))
  BY DEF Read, ReadPrefetched, ReadCached
<1>2. PICK step \in {"reply", "fetch"} :
        Become(t, Request("read", step, i, 0, offset, size, data))
  BY <1>1
<1> DEFINE r == Request("read", step, i, 0, offset, size, data)
<1>3. /\ r.fh = 0 /\ r.op = "read" /\ r.step = step /\ IsRequest(r) /\ io[t].fh = 0
      /\ r.inode = i /\ r.offset = offset /\ r.size = size
  BY DEF Read, Idle, Request, NoRequest, IsRequest
<1>4. Become(t, r) /\ UNCHANGED table
  BY <1>2 DEF Read
<1> HIDE DEF r
<1> QED
  BY <1>3, <1>4, BecomeKeeps DEF Steps

\* A request with another step, or other bytes too, is still the same request.
SameRequest(q, r) ==
  /\ IsRequest(q) /\ q.op = r.op /\ q.inode = r.inode /\ q.fh = r.fh
  /\ q.offset = r.offset /\ q.size = r.size

LEMMA UpdatedRequest ==
  ASSUME NEW r, IsRequest(r)
  PROVE  /\ \A l : SameRequest([r EXCEPT !.step = l], r) /\ [r EXCEPT !.step = l].step = l
         /\ \A l, d : /\ SameRequest([r EXCEPT !.step = l, !.data = d], r)
                      /\ [r EXCEPT !.step = l, !.data = d].step = l
BY DEF IsRequest, SameRequest

LEMMA AdvanceKeeps ==
  ASSUME HandleInv, NEW t \in Tasks, Fetch(t) \/ Fetched(t) \/ Reply(t) \/ BufferStep(t)
  PROVE  HandleInv'
<1>1. IsRequest(io[t]) /\ io[t].step \in Steps
  BY DEF HandleInv, RequestsTyped
<1>2. CASE Become(t, NoRequest) /\ io[t].step \in {"fetch", "fetched", "reply"}
  <2>1. NoRequest.fh = 0 /\ NoRequest.step = "idle" /\ IsRequest(NoRequest)
    BY DEF Request, NoRequest, IsRequest
  <2>2. io[t].fh = 0
    BY <1>2 DEF HandleInv, RequestsTyped, HandlesOwned
  <2>3. UNCHANGED table
    BY <1>2 DEF Fetch, Fetched, Reply, BufferStep
  <2> QED
    BY <1>2, <2>1, <2>2, <2>3, BecomeKeeps DEF Steps
<1>3. CASE Fetch(t) /\ Become(t, [io[t] EXCEPT !.step = "fetched",
                 !.data = Slice(Object(io[t].inode), io[t].offset, io[t].size)])
  <2> DEFINE d == Slice(Object(io[t].inode), io[t].offset, io[t].size)
  <2> HIDE DEF d
  <2> DEFINE r == [io[t] EXCEPT !.step = "fetched", !.data = d]
  <2>1. SameRequest(r, io[t]) /\ r.step = "fetched"
    BY <1>1 DEF IsRequest, SameRequest
  <2>2. Become(t, r) /\ UNCHANGED table /\ io[t].step = "fetch"
    BY <1>3 DEF Fetch, d
  <2> HIDE DEF r
  <2> QED
    BY <2>1, <2>2, BecomeKeeps DEF Steps, HandleInv, RequestsTyped, SameRequest
<1>4. CASE Fetched(t)
  <2> DEFINE r == [io[t] EXCEPT !.step = "reply"]
  <2>1. SameRequest(r, io[t]) /\ r.step = "reply"
    BY <1>1, UpdatedRequest
  <2>2. Become(t, r) /\ UNCHANGED table /\ io[t].step = "fetched"
    BY <1>4 DEF Fetched
  <2> HIDE DEF r
  <2> QED
    BY <2>1, <2>2, BecomeKeeps DEF Steps, HandleInv, RequestsTyped, SameRequest
<1>5. CASE BufferStep(t) /\ Become(t, [io[t] EXCEPT !.step = "finish"])
  <2> DEFINE r == [io[t] EXCEPT !.step = "finish"]
  <2>1. SameRequest(r, io[t]) /\ r.step = "finish"
    BY <1>1, UpdatedRequest
  <2>2. Become(t, r) /\ UNCHANGED table
    BY <1>5 DEF BufferStep
  <2> HIDE DEF r
  <2> QED
    BY <2>1, <2>2, BecomeKeeps DEF Steps, SameRequest
<1>6. CASE BufferStep(t) /\ Become(t, io[t])
  <2>1. io[t].step = "buffer" /\ UNCHANGED table
    BY <1>6 DEF BufferStep
  <2> QED
    BY <1>1, <1>6, <2>1, BecomeKeeps DEF Steps
<1> QED
  BY <1>2, <1>3, <1>4, <1>5, <1>6 DEF Fetch, Reply, BufferStep

LEMMA StepHandles == HandleInv /\ [Next]_vars => HandleInv'
<1> SUFFICES ASSUME HandleInv, [Next]_vars PROVE HandleInv'
  OBVIOUS
<1>1. CASE UNCHANGED vars
  BY <1>1, TableStays DEF vars
<1>2. ASSUME NEW p \in prefetches, Prefetch(p) \/ StorePrefetched(p)
      PROVE  HandleInv'
  BY <1>2, TableStays DEF Prefetch, StorePrefetched
<1>3. ASSUME NEW t \in Tasks, Arrive(t)
      PROVE  HandleInv'
  <2>1. CASE Destroy(t)
    BY <2>1, BufferKeeps DEF Destroy
  <2>2. CASE \E fh \in held : Release(t, fh)
    BY <2>2, ReleaseKeeps
  <2>3. ASSUME NEW i \in Inodes, Open(t, i) \/ OpenTruncating(t, i)
        PROVE  HandleInv'
    BY <2>3, OpenKeeps, OpenTruncatingKeeps
  <2>4. ASSUME NEW i \in Inodes, Flush(t, i)
        PROVE  HandleInv'
    BY <2>4, BufferKeeps DEF Flush
  <2>5. ASSUME NEW i \in Inodes, NEW offset \in ReadOffsets, NEW size \in ReadSizes,
               Read(t, i, offset, size)
        PROVE  HandleInv'
    BY <2>5, ReadKeeps
  <2>6. ASSUME NEW i \in Inodes, NEW offset \in Offsets, NEW len \in Lengths,
               NEW size \in FileSizes, Write(t, i, offset, len, size)
        PROVE  HandleInv'
    BY <2>6, BufferKeeps DEF Write
  <2>7. ASSUME NEW i \in Inodes, NEW size \in TruncateSizes, Setattr(t, i, size)
        PROVE  HandleInv'
    BY <2>7, BufferKeeps DEF Setattr
  <2> QED
    BY <1>3, <2>1, <2>2, <2>3, <2>4, <2>5, <2>6, <2>7 DEF Arrive
<1>4. ASSUME NEW t \in Tasks, Advance(t)
      PROVE  HandleInv'
  BY <1>4, AdvanceKeeps, FailKeeps, FinishKeeps DEF Advance
<1> QED
  BY <1>1, <1>2, <1>3, <1>4 DEF Next

THEOREM HandleInvariant == Spec => []HandleInv
BY InitHandles, StepHandles, PTL DEF Spec

\* Every handle in the table is the kernel's, a request's, or lost by a release or
\* a truncating open that failed; none is closed in use (do_release, open).
THEOREM HandlesKept == Spec => []HandlesAccountedFor
<1>1. HandleInv => HandlesAccountedFor
  BY DEF HandleInv
<1> QED
  BY <1>1, HandleInvariant, PTL

-----------------------------------------------------------------------------
(* The write buffer under open files *)

\* A step of FileIO is a step of the write buffer or leaves it alone.
LEMMA StepUses == HandleInv /\ [Next]_vars => [WB!Next]_buffering
<1> SUFFICES ASSUME HandleInv, Next, ~UNCHANGED buffering PROVE WB!Next
  BY DEF vars
<1>1. PICK t \in Tasks : WB!WorkerFree(t) /\ (Arrive(t) \/ Advance(t))
  BY DEF Next, Prefetch, StorePrefetched, vars
<1>2. CASE Advance(t)
  <2>1. WB!Advance(t)
    BY <1>2 DEF Advance, Fetch, Fetched, Reply, Finish, BufferStep, BufferFails, WB!Advance
  <2> QED
    BY <1>1, <2>1 DEF WB!Next, WB!Run
<1>3. CASE Arrive(t)
  <2>1. CASE Destroy(t)
    BY <1>1, <2>1 DEF Destroy, WB!Next
  <2>2. ASSUME NEW fh \in held, Release(t, fh)
        PROVE  WB!Arrive(t)
    <3>1. handles[fh] \in Inodes
      BY DEF HandleInv, HandlesTyped, HandlesAccountedFor
    <3> QED
      BY <2>2, <3>1 DEF Release, WB!Arrive
  <2>3. ASSUME NEW i \in Inodes, OpenTruncating(t, i) \/ Flush(t, i)
        PROVE  WB!Arrive(t)
    BY <2>3, FileIOAssumption DEF OpenTruncating, Flush, WB!Arrive
  <2>4. ASSUME NEW i \in Inodes, NEW offset \in Offsets, NEW len \in Lengths,
               NEW size \in FileSizes, Write(t, i, offset, len, size)
        PROVE  WB!Arrive(t)
    BY <2>4 DEF Write, WB!Arrive
  <2>5. ASSUME NEW i \in Inodes, NEW size \in TruncateSizes, Setattr(t, i, size)
        PROVE  WB!Arrive(t)
    BY <2>5 DEF Setattr, WB!Arrive
  <2>6. ASSUME NEW i \in Inodes,
               Open(t, i) \/ \E offset \in ReadOffsets, size \in ReadSizes : Read(t, i, offset, size)
        PROVE  UNCHANGED buffering
    BY <2>6 DEF Open, Read
  <2> QED
    BY <1>1, <1>3, <2>1, <2>2, <2>3, <2>4, <2>5, <2>6 DEF Arrive, WB!Next
<1> QED
  BY <1>1, <1>2, <1>3

\* Whatever requests overlap, the write buffer takes only WriteBuffer's steps: the
\* handlers of fuse_impl.rs and core.rs implement that module's specification.
THEOREM ImplementsWriteBuffer == Spec => UsesWriteBuffer
<1>1. Init => WB!Init
  BY DEF Init
<1>2. UNCHANGED buffering <=> UNCHANGED WB!vars
  BY DEF buffering, WB!vars
<1> QED
  BY <1>1, <1>2, StepUses, HandleInvariant, PTL DEF Spec, UsesWriteBuffer, WB!Spec

\* So what is proved of WriteBuffer holds of it here.
LEMMA ImplementsProved == Spec => Proved!Spec
<1>1. UNCHANGED buffering <=> UNCHANGED WB!vars
  BY DEF buffering, WB!vars
<1>2. UNCHANGED buffering <=> UNCHANGED Proved!vars
  BY DEF buffering, Proved!vars
<1>3. WB!Spec => Proved!Spec
  BY <1>1, <1>2, SameInit, SameNext, PTL DEF WB!Spec, Proved!Spec
<1> QED
  BY <1>3, ImplementsWriteBuffer, PTL DEF UsesWriteBuffer

LEMMA BufferTyped == Spec => []WB!TypeOK
<1>1. Proved!Spec => []Proved!TypeOK
  BY WriteBufferAssumption, Proved!TypeCorrect DEF WB!OpNames, Proved!OpNames
<1> QED
  BY <1>1, SameTypes, ImplementsProved, PTL

LEMMA BuffersHome == Proved!Spec => [](Proved!AccountInv /\ Proved!OneHome)
BY WriteBufferAssumption, Proved!BuffersHaveOneHome DEF WB!OpNames, Proved!OpNames

-----------------------------------------------------------------------------
(* The type of the caches, and who waits for the write buffer *)

Cached == DOMAIN cached \subseteq {BlockKey(i, o) : i \in Inodes, o \in ReadOffsets}

Prefetched ==
  /\ DOMAIN prefetch_buffer \subseteq Inodes \X Nat
  /\ \A p \in prefetches :
       /\ {"inode", "offset", "step", "data"} \subseteq DOMAIN p
       /\ p.inode \in Inodes /\ p.offset \in Nat

\* The write buffer works on a request only while the request waits for it.
Waiting == \A t \in Tasks : pc[t] # "idle" => io[t].step = "buffer"

CacheInv == Cached /\ Prefetched /\ Waiting

LEMMA InitCaches == Init => CacheInv
BY DEF Init, WB!Init, Map!EmptyMap, CacheInv, Cached, Prefetched, Waiting

\* A request takes one step of the write buffer at a time.
LEMMA RequestMoves ==
  ASSUME WB!TypeOK, NEW t \in Tasks,
         WB!Arrive(t) \/ WB!ArriveForAll(t) \/ WB!Advance(t)
  PROVE  \A u \in Tasks \ {t} : pc'[u] = pc[u]
<1> USE DEF WB!TypeOK, WB!TaskTypeOK
<1>1. \A l : WB!Goto(t, l) => \A u \in Tasks \ {t} : pc'[u] = pc[u]
  BY DEF WB!Goto
<1>2. \A ok : WB!Return(t, ok) => \A u \in Tasks \ {t} : pc'[u] = pc[u]
  BY <1>1 DEF WB!Return
<1>3. CASE WB!Arrive(t) \/ WB!ArriveForAll(t)
  BY <1>1, <1>3 DEF WB!Arrive, WB!ArriveForAll, WB!Write, WB!Truncate, WB!Flush,
     WB!Release, WB!FlushAll, WB!Request
<1>4. CASE WB!GoOn(t)
  BY <1>1, <1>2, <1>4 DEF WB!GoOn
<1>5. CASE WB!Entry(t) \/ WB!FlushGet(t) \/ WB!ReleaseRemove(t) \/ WB!FlushAllNext(t)
           \/ WB!Acquire(t) \/ WB!WriteDirect(t)
  BY <1>1, <1>2, <1>5 DEF WB!Entry, WB!FlushGet, WB!ReleaseRemove, WB!FlushAllNext,
     WB!Acquire, WB!WriteDirect
<1>6. CASE WB!WriteAppend(t) \/ WB!TruncateBuffer(t) \/ WB!FlushTake(t) \/ WB!DirectPut(t)
           \/ WB!EmptyPut(t) \/ WB!PutFails(t)
  BY <1>1, <1>2, <1>6 DEF WB!WriteAppend, WB!TruncateBuffer, WB!FlushTake, WB!DirectPut,
     WB!EmptyPut, WB!PutFails
<1>7. CASE WB!FlushNothing(t) \/ WB!FlushMultipart(t) \/ WB!Put(t)
  BY <1>4, <1>7 DEF WB!FlushNothing, WB!FlushMultipart, WB!Put
<1> QED
  BY <1>3, <1>5, <1>6, <1>7 DEF WB!Advance, WB!Progress

\* A request that failed is done with the write buffer.
LEMMA FailureReturns ==
  ASSUME WB!TypeOK, NEW t \in Tasks, WB!PutFails(t)
  PROVE  pc'[t] = "idle"
BY DEF WB!TypeOK, WB!TaskTypeOK, WB!PutFails, WB!Return, WB!Goto

\* A request that arrives adds nothing to the caches; a read drops what has expired.
LEMMA ArriveCaches ==
  ASSUME NEW t \in Tasks, Arrive(t)
  PROVE  /\ DOMAIN cached' \subseteq DOMAIN cached
         /\ DOMAIN prefetch_buffer' \subseteq DOMAIN prefetch_buffer
         /\ UNCHANGED prefetches
<1>1. ASSUME NEW i \in Inodes, NEW offset \in ReadOffsets, NEW size \in ReadSizes,
             Read(t, i, offset, size)
      PROVE  /\ DOMAIN cached' \subseteq DOMAIN cached
             /\ DOMAIN prefetch_buffer' \subseteq DOMAIN prefetch_buffer
             /\ UNCHANGED prefetches
  BY <1>1 DEF Read, ReadPrefetched, ReadCached, Map!Remove
<1>2. CASE UNCHANGED <<cached, ahead>>
  BY <1>2 DEF ahead
<1>3. ASSUME NEW op, NEW i, NEW fh, NEW offset, NEW size, Buffer(t, op, i, fh, offset, size)
      PROVE  UNCHANGED <<cached, ahead>>
  BY <1>3 DEF Buffer
<1>4. CASE Destroy(t) \/ \E fh \in held : Release(t, fh)
  BY <1>2, <1>3, <1>4 DEF Destroy, Release
<1>5. ASSUME NEW i \in Inodes, Open(t, i) \/ OpenTruncating(t, i)
      PROVE  UNCHANGED <<cached, ahead>>
  BY <1>5 DEF Open, OpenTruncating
<1>6. ASSUME NEW i \in Inodes,
             \/ Flush(t, i)
             \/ \E offset \in Offsets, len \in Lengths, size \in FileSizes :
                  Write(t, i, offset, len, size)
             \/ \E size \in TruncateSizes : Setattr(t, i, size)
      PROVE  UNCHANGED <<cached, ahead>>
  BY <1>3, <1>6 DEF Flush, Write, Setattr
<1> QED
  BY <1>1, <1>2, <1>4, <1>5, <1>6 DEF Arrive

LEMMA StepCached == HandleInv /\ Cached /\ [Next]_vars => Cached'
<1> SUFFICES ASSUME HandleInv, Cached, [Next]_vars PROVE Cached'
  OBVIOUS
<1>1. CASE UNCHANGED cached
  BY <1>1 DEF Cached
<1>2. CASE DOMAIN cached' \subseteq DOMAIN cached
  BY <1>2 DEF Cached
<1>3. ASSUME NEW t \in Tasks, Fetched(t)
      PROVE  Cached'
  <2>1. io[t].inode \in Inodes /\ io[t].offset \in ReadOffsets
    BY <1>3 DEF Fetched, HandleInv, RequestsTyped
  <2>2. DOMAIN cached' = DOMAIN cached \cup {BlockKey(io[t].inode, io[t].offset)}
    BY <1>3 DEF Fetched, Map!Insert
  <2> QED
    BY <2>1, <2>2 DEF Cached
<1>4. ASSUME NEW t \in Tasks, Arrive(t)
      PROVE  Cached'
  BY <1>2, <1>4, ArriveCaches
<1>5. ASSUME NEW t \in Tasks, Fetch(t) \/ Reply(t) \/ BufferStep(t) \/ BufferFails(t) \/ Finish(t)
      PROVE  Cached'
  BY <1>1, <1>2, <1>5 DEF Fetch, Reply, BufferStep, BufferFails, Finish, FinishWrite,
     FinishTruncate, FinishRelease, FinishFlush
<1>6. ASSUME NEW p \in prefetches, Prefetch(p) \/ StorePrefetched(p)
      PROVE  Cached'
  BY <1>1, <1>6 DEF Prefetch, StorePrefetched
<1> QED
  BY <1>1, <1>3, <1>4, <1>5, <1>6 DEF Next, Advance, vars

LEMMA StepPrefetched == HandleInv /\ Prefetched /\ [Next]_vars => Prefetched'
<1> SUFFICES ASSUME HandleInv, Prefetched, [Next]_vars PROVE Prefetched'
  OBVIOUS
<1>1. CASE UNCHANGED prefetches /\ DOMAIN prefetch_buffer' \subseteq DOMAIN prefetch_buffer
  BY <1>1 DEF Prefetched
<1>2. ASSUME NEW t \in Tasks, Fetched(t)
      PROVE  Prefetched'
  <2> DEFINE r == io[t]
  <2>1. r.inode \in Inodes /\ r.offset \in Nat /\ r.size \in Nat
    BY <1>2, FileIOAssumption DEF Fetched, HandleInv, RequestsTyped
  <2>2. DOMAIN prefetch_buffer' = DOMAIN prefetch_buffer
    BY <1>2 DEF Fetched
  <2>3. prefetches' \subseteq prefetches \cup {PrefetchTask(reads, r.inode, r.offset, r.size)}
    BY <1>2 DEF Fetched, RecordRead
  <2> QED
    BY <2>1, <2>2, <2>3 DEF Prefetched, PrefetchTask
<1>3. ASSUME NEW t \in Tasks, Arrive(t)
      PROVE  Prefetched'
  BY <1>1, <1>3, ArriveCaches
<1>4. ASSUME NEW t \in Tasks, Fetch(t) \/ Reply(t) \/ BufferStep(t) \/ BufferFails(t) \/ Finish(t)
      PROVE  Prefetched'
  BY <1>1, <1>4 DEF Fetch, Reply, BufferStep, BufferFails, Finish, FinishWrite,
     FinishTruncate, FinishRelease, FinishFlush, ahead
<1>5. ASSUME NEW p \in prefetches, Prefetch(p)
      PROVE  Prefetched'
  BY <1>5 DEF Prefetch, Prefetched
<1>6. ASSUME NEW p \in prefetches, StorePrefetched(p)
      PROVE  Prefetched'
  <2>1. DOMAIN prefetch_buffer' = DOMAIN prefetch_buffer \cup {<<p.inode, p.offset>>}
    BY <1>6 DEF StorePrefetched, Map!Insert
  <2> QED
    BY <1>6, <2>1 DEF StorePrefetched, Prefetched
<1> QED
  BY <1>1, <1>2, <1>3, <1>4, <1>5, <1>6 DEF Next, Advance, vars, ahead

\* The request a task takes up or goes on with leaves the other tasks' alone.
LEMMA OthersKeepRequests ==
  ASSUME HandleInv, NEW t \in Tasks, NEW r, Become(t, r)
  PROVE  io'[t] = r /\ \A u \in Tasks \ {t} : io'[u] = io[u]
BY DEF Become, HandleInv, RequestsTyped

LEMMA StepWaiting ==
  HandleInv /\ WB!TypeOK /\ Waiting /\ [Next]_vars => Waiting'
<1> SUFFICES ASSUME HandleInv, WB!TypeOK, Waiting, [Next]_vars PROVE Waiting'
  OBVIOUS
<1>1. CASE UNCHANGED <<pc, io>>
  BY <1>1 DEF Waiting
<1>2. ASSUME NEW t \in Tasks, NEW op, NEW i, NEW fh, NEW offset, NEW size, NEW data,
             Become(t, Request(op, "buffer", i, fh, offset, size, data)),
             WB!Arrive(t) \/ WB!ArriveForAll(t)
      PROVE  Waiting'
  <2>1. io'[t].step = "buffer" /\ \A u \in Tasks \ {t} : io'[u] = io[u]
    BY <1>2, OthersKeepRequests DEF Request
  <2>2. \A u \in Tasks \ {t} : pc'[u] = pc[u]
    BY <1>2, RequestMoves
  <2> QED
    BY <2>1, <2>2 DEF Waiting
<1>3. ASSUME NEW t \in Tasks, Arrive(t), ~UNCHANGED buffering
      PROVE  Waiting'
  <2>1. CASE Destroy(t)
    BY <1>2, <2>1 DEF Destroy, Buffer
  <2>2. ASSUME NEW fh \in held, Release(t, fh)
        PROVE  Waiting'
    <3>1. WB!Arrive(t)
      BY <2>2 DEF Release, WB!Arrive, HandleInv, HandlesTyped, HandlesAccountedFor
    <3> QED
      BY <1>2, <2>2, <3>1 DEF Release, Buffer
  <2>3. ASSUME NEW i \in Inodes, OpenTruncating(t, i)
        PROVE  Waiting'
    <3>1. WB!Arrive(t)
      BY <2>3, FileIOAssumption DEF OpenTruncating, WB!Arrive
    <3> QED
      BY <1>2, <2>3, <3>1 DEF OpenTruncating
  <2>4. ASSUME NEW i \in Inodes, Flush(t, i)
        PROVE  Waiting'
    <3>1. WB!Arrive(t)
      BY <2>4 DEF Flush, WB!Arrive
    <3> QED
      BY <1>2, <2>4, <3>1 DEF Flush, Buffer
  <2>5. ASSUME NEW i \in Inodes, NEW offset \in Offsets, NEW len \in Lengths,
               NEW size \in FileSizes, Write(t, i, offset, len, size)
        PROVE  Waiting'
    <3>1. WB!Arrive(t)
      BY <2>5 DEF Write, WB!Arrive
    <3> QED
      BY <1>2, <2>5, <3>1 DEF Write, Buffer
  <2>6. ASSUME NEW i \in Inodes, NEW size \in TruncateSizes, Setattr(t, i, size)
        PROVE  Waiting'
    <3>1. WB!Arrive(t)
      BY <2>6 DEF Setattr, WB!Arrive
    <3> QED
      BY <1>2, <2>6, <3>1 DEF Setattr, Buffer
  <2>7. ~\E i \in Inodes : Open(t, i)
                           \/ \E offset \in ReadOffsets, size \in ReadSizes : Read(t, i, offset, size)
    BY <1>3 DEF Open, Read
  <2> QED
    BY <1>3, <2>1, <2>2, <2>3, <2>4, <2>5, <2>6, <2>7 DEF Arrive
<1>4. ASSUME NEW t \in Tasks, NEW r, Become(t, r), UNCHANGED pc, io[t].step # "buffer"
      PROVE  Waiting'
  BY <1>4, OthersKeepRequests DEF Waiting
<1>5. ASSUME NEW t \in Tasks, Arrive(t), UNCHANGED buffering
      PROVE  Waiting'
  <2>1. CASE UNCHANGED io
    BY <1>1, <1>5, <2>1 DEF buffering
  <2>2. CASE Idle(t) /\ \E r : Become(t, r)
    BY <1>4, <1>5, <2>2 DEF Idle, NoRequest, Request, buffering
  <2>3. ASSUME NEW op, NEW i, NEW fh, NEW offset, NEW size, Buffer(t, op, i, fh, offset, size)
        PROVE  Idle(t) /\ \E r : Become(t, r)
    BY <2>3 DEF Buffer
  <2>4. ASSUME NEW i \in Inodes,
               OpenTruncating(t, i)
                 \/ \E offset \in ReadOffsets, size \in ReadSizes : Read(t, i, offset, size)
        PROVE  Idle(t) /\ \E r : Become(t, r)
    BY <2>4 DEF OpenTruncating, Read, ReadPrefetched, ReadCached
  <2>5. ASSUME NEW i \in Inodes, Open(t, i)
        PROVE  UNCHANGED io
    BY <2>5 DEF Open
  <2>6. CASE \/ Destroy(t) \/ \E fh \in held : Release(t, fh)
             \/ \E i \in Inodes :
                  \/ Flush(t, i)
                  \/ \E offset \in Offsets, len \in Lengths, size \in FileSizes :
                       Write(t, i, offset, len, size)
                  \/ \E size \in TruncateSizes : Setattr(t, i, size)
    BY <2>2, <2>3, <2>6 DEF Destroy, Release, Flush, Write, Setattr
  <2> QED
    BY <1>5, <2>1, <2>2, <2>4, <2>5, <2>6 DEF Arrive
<1>6. ASSUME NEW t \in Tasks, BufferStep(t)
      PROVE  Waiting'
  <2>1. \A u \in Tasks \ {t} : pc'[u] = pc[u]
    BY <1>6, RequestMoves DEF BufferStep, WB!Advance
  <2>2. \A u \in Tasks \ {t} : io'[u] = io[u]
    BY <1>6, OthersKeepRequests DEF BufferStep
  <2>3. pc'[t] = "idle" \/ io'[t] = io[t]
    BY <1>6, OthersKeepRequests DEF BufferStep
  <2> QED
    BY <1>6, <2>1, <2>2, <2>3 DEF BufferStep, Waiting
<1>7. ASSUME NEW t \in Tasks, BufferFails(t)
      PROVE  Waiting'
  <2>1. \A u \in Tasks \ {t} : pc'[u] = pc[u]
    BY <1>7, RequestMoves DEF BufferFails, WB!Advance
  <2>2. \A u \in Tasks \ {t} : io'[u] = io[u]
    BY <1>7, OthersKeepRequests DEF BufferFails
  <2>3. pc'[t] = "idle"
    BY <1>7, FailureReturns DEF BufferFails
  <2> QED
    BY <2>1, <2>2, <2>3 DEF Waiting
<1>8. ASSUME NEW t \in Tasks, Fetch(t) \/ Fetched(t) \/ Reply(t) \/ Finish(t)
      PROVE  Waiting'
  BY <1>4, <1>8 DEF Fetch, Fetched, Reply, Finish, buffering
<1>9. ASSUME NEW p \in prefetches, Prefetch(p) \/ StorePrefetched(p)
      PROVE  Waiting'
  BY <1>1, <1>9 DEF Prefetch, StorePrefetched, buffering
<1>10. CASE UNCHANGED vars
  BY <1>1, <1>10 DEF vars, buffering
<1> QED
  BY <1>3, <1>5, <1>6, <1>7, <1>8, <1>9, <1>10 DEF Next, Advance

LEMMA CachesTyped == Spec => []CacheInv
<1>1. HandleInv /\ WB!TypeOK /\ CacheInv /\ [Next]_vars => CacheInv'
  BY StepCached, StepPrefetched, StepWaiting DEF CacheInv
<1> QED
  BY <1>1, InitCaches, HandleInvariant, BufferTyped, PTL DEF Spec

\* Requests, caches, handle table and the write buffer under them keep their types,
\* and the write buffer serves exactly the requests that wait for it (core.rs).
THEOREM FileIOTypeCorrect == Spec => []TypeOK
<1>1. HandleInv /\ WB!TypeOK /\ CacheInv => TypeOK
  BY DEF HandleInv, RequestsTyped, HandlesAccountedFor, CacheInv, Cached, Prefetched,
     Waiting, TypeOK
<1> QED
  BY <1>1, CachesTyped, HandleInvariant, BufferTyped, PTL

-----------------------------------------------------------------------------
(* What a read returns.  The bytes are those of a recent version of the object *)
(* only for reads that suit the code: a block is cached under its aligned      *)
(* offset but holds what was read from the offset asked for, up to its size    *)
(* (run FileIOOffsets).                                                        *)

\* Reads begin where blocks do, do not leave their block and are of one size,
\* which the read-ahead's window covers.
BlockwiseReads ==
  /\ \A o \in ReadOffsets : o % BlockSize = 0
  /\ Window \in Nat \ {0}
  /\ \A m, n \in ReadSizes : m = n /\ n <= BlockSize /\ n <= Window

\* These are bytes of a version of the block that may still be read.
OfRecent(k, data, offset, n) == \E v \in recent[k] : data = Slice(v, offset, n)

RecentTyped ==
  /\ DOMAIN recent = ReadBlocks
  /\ \A k \in ReadBlocks : recent[k] \subseteq Seq(Nat) /\ Object(k[1]) \in recent[k]

WritesTyped ==
  \A t \in Tasks : io[t].op = "write" => io[t].offset \in Nat /\ io[t].size \in Nat

CachedRecent ==
  \A i \in Inodes, o \in ReadOffsets, n \in ReadSizes :
    BlockKey(i, o) \in DOMAIN cached => OfRecent(BlockKey(i, o), cached[BlockKey(i, o)], o, n)

AheadRecent ==
  \A i \in Inodes, o \in ReadOffsets :
    <<i, o>> \in DOMAIN prefetch_buffer =>
      OfRecent(BlockKey(i, o), prefetch_buffer[<<i, o>>], o, Window)

\* What requests and prefetch tasks have fetched.
RequestRecent(r) ==
  r.step \in {"fetched", "reply"} => OfRecent(BlockKey(r.inode, r.offset), r.data, r.offset, r.size)
RequestsRecent == \A t \in Tasks : RequestRecent(io[t])

TasksRecent ==
  \A p \in prefetches : p.step = "store" /\ p.offset \in ReadOffsets =>
    OfRecent(BlockKey(p.inode, p.offset), p.data, p.offset, Window)

\* The inductive invariant of what is read: whatever lies in a cache or is under
\* way is of a version that may still be read.
ReadInv ==
  RecentTyped /\ WritesTyped /\ CachedRecent /\ AheadRecent /\ RequestsRecent /\ TasksRecent

\* What is known of the state already.
Grounds == HandleInv /\ CacheInv /\ WB!TypeOK

-----------------------------------------------------------------------------
(* Bytes and blocks *)

LEMMA SliceOfSlice ==
  ASSUME NEW s \in Seq(Nat), NEW o \in Nat, NEW n \in Nat, NEW m \in Nat, n <= m
  PROVE  Slice(Slice(s, o, m), 0, n) = Slice(s, o, n)
BY DEF Slice

LEMMA OwnBlock ==
  ASSUME BlockwiseReads, NEW i \in Inodes, NEW o \in ReadOffsets
  PROVE  BlockKey(i, o) = <<i, o>> /\ BlockKey(i, o) \in ReadBlocks /\ o \in Nat
<1>1. o \in Nat /\ o % BlockSize = 0
  BY FileIOAssumption DEF BlockwiseReads
<1>2. (o \div BlockSize) * BlockSize = o
  BY <1>1, BlockSizeAssumption
<1> QED
  BY <1>1, <1>2 DEF BlockKey, ReadBlocks

LEMMA Quotient ==
  ASSUME NEW a \in Nat
  PROVE  /\ a \div BlockSize \in Nat
         /\ \A q \in Nat : a < (q + 1) * BlockSize => a \div BlockSize <= q
         /\ \A q \in Nat : q * BlockSize <= a => q <= a \div BlockSize
<1>1. a \div BlockSize \in Nat
  BY BlockSizeAssumption
<1>2. ASSUME NEW q \in Nat, a < (q + 1) * BlockSize
      PROVE  a \div BlockSize <= q
  BY <1>2, BlockSizeAssumption, SMTT(30)
<1>3. ASSUME NEW q \in Nat, q * BlockSize <= a
      PROVE  q <= a \div BlockSize
  BY <1>3, BlockSizeAssumption, SMTT(30)
<1> QED
  BY <1>1, <1>2, <1>3

\* Blocks closer than a block's length are the same.
LEMMA SameBlock ==
  ASSUME NEW o \in Nat, NEW p \in Nat, o % BlockSize = 0, p % BlockSize = 0,
         o < p + BlockSize, p < o + BlockSize
  PROVE  o = p
<1> DEFINE q == o \div BlockSize
           r == p \div BlockSize
<1>1. q \in Nat /\ q * BlockSize = o /\ r \in Nat /\ r * BlockSize = p
  BY BlockSizeAssumption
<1>2. (q + 1) * BlockSize = o + BlockSize /\ (r + 1) * BlockSize = p + BlockSize
  BY <1>1, BlockSizeAssumption
<1>3. q <= r /\ r <= q
  BY <1>1, <1>2, Quotient
<1> HIDE DEF q, r
<1> QED
  BY <1>1, <1>3

\* invalidate_range drops each block that a byte of the range is in: its end is
\* rounded up.
LEMMA TouchedDropped ==
  ASSUME NEW i, NEW o \in Nat, NEW offset \in Nat, NEW len \in Nat,
         o % BlockSize = 0, Overlaps(<<i, o>>, offset, len)
  PROVE  <<i, o>> \in RangeKeys(i, offset, len)
<1> DEFINE q == o \div BlockSize
           e == offset + len + BlockSize - 1
<1>1. q \in Nat /\ q * BlockSize = o
  BY BlockSizeAssumption
<1>2. o < offset + len /\ offset < o + BlockSize
  BY DEF Overlaps
<1>3. (q + 1) * BlockSize = o + BlockSize /\ q + 1 \in Nat
  BY <1>1, BlockSizeAssumption
<1>4. offset \div BlockSize \in Nat /\ offset \div BlockSize <= q
  <2> HIDE DEF q
  <2> QED
    BY <1>1, <1>2, <1>3, Quotient
<1>5. e \in Nat /\ (q + 1) * BlockSize <= e
  BY <1>2, <1>3, BlockSizeAssumption
<1>6. e \div BlockSize \in Nat /\ q + 1 <= e \div BlockSize
  <2> HIDE DEF q, e
  <2> QED
    BY <1>3, <1>5, Quotient
<1>7. q \in offset \div BlockSize .. (e \div BlockSize) - 1
  <2> HIDE DEF q, e
  <2> QED
    BY <1>1, <1>4, <1>6
<1> QED
  BY <1>1, <1>7 DEF RangeKeys

LEMMA ObjectTyped ==
  ASSUME WB!TypeOK, NEW i \in Inodes
  PROVE  Object(i) \in Seq(Nat)
BY DEF WB!TypeOK, WB!SharedTypeOK, WB!Paths, Object

LEMMA BlockInode ==
  ASSUME NEW k \in ReadBlocks
  PROVE  k[1] \in Inodes
BY DEF ReadBlocks, BlockKey

-----------------------------------------------------------------------------
(* Steps under which no version is forgotten *)

Grows == \A k \in ReadBlocks : recent[k] \subseteq recent'[k]

LEMMA Versions ==
  ASSUME WB!TypeOK', RecentTyped, UNCHANGED <<store, recent>> \/ Remember
  PROVE  RecentTyped' /\ Grows
<1>1. CASE UNCHANGED <<store, recent>>
  BY <1>1 DEF RecentTyped, Grows, Object
<1>2. CASE Remember
  <2>1. \A k \in ReadBlocks : Object(k[1])' \in Seq(Nat)
    BY BlockInode DEF WB!TypeOK, WB!SharedTypeOK, WB!Paths, Object
  <2>2. /\ DOMAIN recent' = ReadBlocks
        /\ \A k \in ReadBlocks : recent'[k] = recent[k] \cup {Object(k[1])'}
    BY <1>2 DEF Remember
  <2> QED
    BY <2>1, <2>2 DEF RecentTyped, Grows
<1> QED
  BY <1>1, <1>2

LEMMA CachedKept ==
  ASSUME BlockwiseReads, CachedRecent, Grows,
         \A k \in DOMAIN cached' : k \in DOMAIN cached /\ cached'[k] = cached[k]
  PROVE  CachedRecent'
BY OwnBlock DEF CachedRecent, Grows, OfRecent

LEMMA AheadKept ==
  ASSUME BlockwiseReads, AheadRecent, Grows,
         \A k \in DOMAIN prefetch_buffer' :
           k \in DOMAIN prefetch_buffer /\ prefetch_buffer'[k] = prefetch_buffer[k]
  PROVE  AheadRecent'
BY OwnBlock DEF AheadRecent, Grows, OfRecent

LEMMA TasksKept ==
  ASSUME BlockwiseReads, CacheInv, TasksRecent, Grows,
         \A p \in prefetches' : p.step = "store" => p \in prefetches
  PROVE  TasksRecent'
<1> SUFFICES ASSUME NEW p \in prefetches', p.step = "store", p.offset \in ReadOffsets
             PROVE  OfRecent(BlockKey(p.inode, p.offset), p.data, p.offset, Window)'
  BY DEF TasksRecent
<1>1. p \in prefetches /\ p.inode \in Inodes
  BY DEF CacheInv, Prefetched
<1>2. BlockKey(p.inode, p.offset) \in ReadBlocks
  BY <1>1, OwnBlock
<1> QED
  BY <1>1, <1>2 DEF TasksRecent, Grows, OfRecent

\* The other requests keep what they have; that of t is looked at on its own.
LEMMA RequestsKept ==
  ASSUME BlockwiseReads, HandleInv, RequestsRecent, Grows, NEW t \in Tasks,
         \A u \in Tasks \ {t} : io'[u] = io[u], RequestRecent(io[t])'
  PROVE  RequestsRecent'
<1> SUFFICES ASSUME NEW u \in Tasks \ {t}, io[u].step \in {"fetched", "reply"}
             PROVE  OfRecent(BlockKey(io[u].inode, io[u].offset), io[u].data, io[u].offset,
                             io[u].size)'
  BY DEF RequestsRecent, RequestRecent
<1>1. BlockKey(io[u].inode, io[u].offset) \in ReadBlocks
  BY OwnBlock DEF HandleInv, RequestsTyped
<1> QED
  BY <1>1 DEF RequestsRecent, RequestRecent, Grows, OfRecent

LEMMA RequestsStay ==
  ASSUME BlockwiseReads, HandleInv, RequestsRecent, Grows, UNCHANGED io
  PROVE  RequestsRecent'
<1> SUFFICES ASSUME NEW u \in Tasks, io[u].step \in {"fetched", "reply"}
             PROVE  OfRecent(BlockKey(io[u].inode, io[u].offset), io[u].data, io[u].offset,
                             io[u].size)'
  BY DEF RequestsRecent, RequestRecent
<1>1. BlockKey(io[u].inode, io[u].offset) \in ReadBlocks
  BY OwnBlock DEF HandleInv, RequestsTyped
<1> QED
  BY <1>1 DEF RequestsRecent, RequestRecent, Grows, OfRecent

\* A write that goes on keeps its place.
LEMMA WritesKept ==
  ASSUME WritesTyped, NEW t \in Tasks, \A u \in Tasks \ {t} : io'[u] = io[u],
         io'[t].op = "write" =>
           \/ io'[t].offset \in Nat /\ io'[t].size \in Nat
           \/ SameRequest(io'[t], io[t])
  PROVE  WritesTyped'
BY DEF WritesTyped, SameRequest

-----------------------------------------------------------------------------
(* The steps, one by one *)

\* A request for the write buffer arrives.
Asks(t) ==
  /\ UNCHANGED <<store, recent, cached, ahead>>
  /\ \A u \in Tasks \ {t} : io'[u] = io[u]
  /\ io'[t].step = "buffer"
  /\ io'[t].op = "write" => io'[t].offset \in Nat /\ io'[t].size \in Nat

LEMMA ArriveKinds ==
  ASSUME HandleInv, NEW t \in Tasks, Arrive(t)
  PROVE  \/ Asks(t)
         \/ UNCHANGED <<store, recent, cached, ahead, io>>
         \/ \E i \in Inodes, offset \in ReadOffsets, size \in ReadSizes : Read(t, i, offset, size)
<1>1. ASSUME NEW op, NEW i, NEW fh, NEW offset, NEW size,
             Become(t, Request(op, "buffer", i, fh, offset, size, <<>>)),
             UNCHANGED <<store, recent, cached, ahead>>,
             op = "write" => offset \in Nat /\ size \in Nat
      PROVE  Asks(t)
  <2>1. /\ io'[t] = Request(op, "buffer", i, fh, offset, size, <<>>)
        /\ \A u \in Tasks \ {t} : io'[u] = io[u]
    BY <1>1, OthersKeepRequests
  <2> QED
    BY <1>1, <2>1 DEF Asks, Request
<1>2. CASE Destroy(t)
  BY <1>1, <1>2 DEF Destroy, Buffer, WB!ArriveForAll, WB!FlushAll, WB!Request
<1>3. ASSUME NEW fh \in held, Release(t, fh)
      PROVE  Asks(t)
  BY <1>1, <1>3 DEF Release, Buffer, WB!Release, WB!Request
<1>4. ASSUME NEW i \in Inodes, OpenTruncating(t, i)
      PROVE  Asks(t)
  BY <1>1, <1>4 DEF OpenTruncating, WB!Truncate, WB!Request
<1>5. ASSUME NEW i \in Inodes, Flush(t, i)
      PROVE  Asks(t)
  BY <1>1, <1>5 DEF Flush, Buffer, WB!Flush, WB!Request
<1>6. ASSUME NEW i \in Inodes, NEW offset \in Offsets, NEW len \in Lengths,
             NEW size \in FileSizes, Write(t, i, offset, len, size)
      PROVE  Asks(t)
  <2>1. offset \in Nat /\ len \in Nat
    BY WriteBufferAssumption
  <2> QED
    BY <1>1, <1>6, <2>1 DEF Write, Buffer, WB!Write, WB!Request
<1>7. ASSUME NEW i \in Inodes, NEW size \in TruncateSizes, Setattr(t, i, size)
      PROVE  Asks(t)
  BY <1>1, <1>7 DEF Setattr, Buffer, WB!Truncate, WB!Request
<1>8. ASSUME NEW i \in Inodes, Open(t, i)
      PROVE  UNCHANGED <<store, recent, cached, ahead, io>>
  BY <1>8 DEF Open, buffering
<1> QED
  BY <1>2, <1>3, <1>4, <1>5, <1>6, <1>7, <1>8 DEF Arrive

\* A request that has nothing in hand changes nothing that is read.
LEMMA EmptyHanded ==
  ASSUME BlockwiseReads, Grounds, ReadInv, WB!TypeOK',
         UNCHANGED <<store, recent>> \/ Remember,
         UNCHANGED <<cached, ahead>>,
         NEW t \in Tasks, \A u \in Tasks \ {t} : io'[u] = io[u],
         io'[t].step \notin {"fetched", "reply"},
         io'[t].op = "write" =>
           \/ io'[t].offset \in Nat /\ io'[t].size \in Nat
           \/ SameRequest(io'[t], io[t])
  PROVE  ReadInv'
<1>1. RecentTyped' /\ Grows
  BY Versions DEF ReadInv
<1>2. RequestRecent(io[t])'
  BY DEF RequestRecent
<1> QED
  BY <1>1, <1>2, CachedKept, AheadKept, TasksKept, RequestsKept, WritesKept
     DEF ReadInv, Grounds, ahead

LEMMA NothingMoves ==
  ASSUME BlockwiseReads, Grounds, ReadInv, WB!TypeOK',
         UNCHANGED <<store, recent, cached, ahead, io>>
  PROVE  ReadInv'
<1>1. RecentTyped' /\ Grows
  BY Versions DEF ReadInv
<1>2. WritesTyped'
  BY DEF ReadInv, WritesTyped
<1> QED
  BY <1>1, <1>2, CachedKept, AheadKept, TasksKept, RequestsStay DEF ReadInv, Grounds, ahead

\* A read takes what lies in the caches for its very offset (do_read).
LEMMA ReadRecent ==
  ASSUME BlockwiseReads, Grounds, ReadInv, WB!TypeOK',
         NEW t \in Tasks, NEW i \in Inodes, NEW offset \in ReadOffsets, NEW size \in ReadSizes,
         Read(t, i, offset, size)
  PROVE  ReadInv'
<1>1. UNCHANGED <<store, recent, prefetches>>
  BY DEF Read, buffering
<1>2. HandleInv /\ offset \in Nat /\ size \in Nat /\ size <= Window /\ Window \in Nat
  BY FileIOAssumption DEF Grounds, BlockwiseReads
<1>3. /\ \A k \in DOMAIN cached' : k \in DOMAIN cached /\ cached'[k] = cached[k]
      /\ \A k \in DOMAIN prefetch_buffer' :
           k \in DOMAIN prefetch_buffer /\ prefetch_buffer'[k] = prefetch_buffer[k]
  BY DEF Read, ReadPrefetched, ReadCached, Map!Remove
<1>4. PICK r : Become(t, r) /\ r.op = "read" /\ r.inode = i /\ r.offset = offset
               /\ r.size = size
               /\ \/ r.step = "fetch"
                  \/ ReadPrefetched(t, i, offset, size)
                     /\ r.data = Slice(prefetch_buffer[<<i, offset>>], 0, size)
                  \/ LET k == BlockKey(i, offset) IN
                     /\ k \in DOMAIN cached'
                     /\ r.data = Slice(cached'[k], offset % BlockSize, size)
  <2>1. CASE ReadPrefetched(t, i, offset, size)
    <3> DEFINE d == Slice(prefetch_buffer[<<i, offset>>], 0, size)
    <3> HIDE DEF d
    <3>1. Become(t, Request("read", "reply", i, 0, offset, size, d))
      BY <2>1 DEF ReadPrefetched, d
    <3> QED
      BY <2>1, <3>1 DEF Request, d
  <2>2. CASE ReadCached(t, i, offset, size)
    <3> DEFINE d == Slice(cached'[BlockKey(i, offset)], offset % BlockSize, size)
    <3> HIDE DEF d
    <3>1. \/ Become(t, Request("read", "fetch", i, 0, offset, size, <<>>))
          \/ BlockKey(i, offset) \in DOMAIN cached'
             /\ Become(t, Request("read", "reply", i, 0, offset, size, d))
      BY <2>2 DEF ReadCached, d
    <3> QED
      BY <3>1 DEF Request, d
  <2> QED
    BY <2>1, <2>2 DEF Read
<1>5. io'[t] = r /\ \A u \in Tasks \ {t} : io'[u] = io[u]
  BY <1>2, <1>4, OthersKeepRequests
<1>6. RecentTyped' /\ Grows
  BY <1>1, Versions DEF ReadInv
<1>7. BlockKey(i, offset) \in ReadBlocks
  BY OwnBlock
<1>8. r.step # "fetch" => OfRecent(BlockKey(i, offset), r.data, offset, size)
  <2>1. CASE ReadPrefetched(t, i, offset, size)
             /\ r.data = Slice(prefetch_buffer[<<i, offset>>], 0, size)
    <3>1. PICK v \in recent[BlockKey(i, offset)] :
            prefetch_buffer[<<i, offset>>] = Slice(v, offset, Window)
      BY <2>1 DEF ReadPrefetched, ReadInv, AheadRecent, OfRecent
    <3>2. v \in Seq(Nat)
      BY <1>7 DEF ReadInv, RecentTyped
    <3> QED
      BY <1>2, <2>1, <3>1, <3>2, SliceOfSlice DEF OfRecent
  <2>2. CASE /\ BlockKey(i, offset) \in DOMAIN cached'
             /\ r.data = Slice(cached'[BlockKey(i, offset)], offset % BlockSize, size)
    <3>1. PICK v \in recent[BlockKey(i, offset)] :
            cached'[BlockKey(i, offset)] = Slice(v, offset, size)
      BY <1>3, <2>2 DEF ReadInv, CachedRecent, OfRecent
    <3>2. v \in Seq(Nat) /\ offset % BlockSize = 0
      BY <1>7 DEF ReadInv, RecentTyped, BlockwiseReads
    <3> QED
      BY <1>2, <2>2, <3>1, <3>2, SliceOfSlice DEF OfRecent
  <2> QED
    BY <1>4, <2>1, <2>2
<1>9. RequestRecent(io[t])'
  BY <1>4, <1>5, <1>6, <1>7, <1>8 DEF RequestRecent, OfRecent, Grows
<1>10. WritesTyped'
  BY <1>4, <1>5, WritesKept DEF ReadInv
<1> QED
  BY <1>1, <1>3, <1>5, <1>6, <1>9, <1>10, CachedKept, AheadKept, TasksKept, RequestsKept
     DEF ReadInv, Grounds

LEMMA FetchRecent ==
  ASSUME BlockwiseReads, Grounds, ReadInv, WB!TypeOK', NEW t \in Tasks, Fetch(t)
  PROVE  ReadInv'
<1>1. /\ io[t].op = "read" /\ IsRequest(io[t])
      /\ io[t].inode \in Inodes /\ io[t].offset \in ReadOffsets
      /\ UNCHANGED <<store, recent, cached, ahead>>
  BY DEF Grounds, HandleInv, RequestsTyped, Fetch, buffering
<1>2. CASE Become(t, NoRequest)
  <2>1. io'[t] = NoRequest /\ \A u \in Tasks \ {t} : io'[u] = io[u]
    BY <1>2, OthersKeepRequests DEF Grounds
  <2>2. NoRequest.step = "idle" /\ NoRequest.op = "none"
    BY DEF NoRequest, Request
  <2> QED
    BY <1>1, <2>1, <2>2, EmptyHanded
<1>3. CASE ~Become(t, NoRequest)
  <2> DEFINE d == Slice(Object(io[t].inode), io[t].offset, io[t].size)
  <2> HIDE DEF d
  <2> DEFINE r == [io[t] EXCEPT !.step = "fetched", !.data = d]
  <2>1. r.data = d /\ SameRequest(r, io[t])
    BY <1>1 DEF IsRequest, SameRequest
  <2>2. Become(t, r)
    BY <1>3 DEF Fetch, d
  <2>3. io'[t] = r /\ \A u \in Tasks \ {t} : io'[u] = io[u]
    BY <2>2, OthersKeepRequests DEF Grounds
  <2> HIDE DEF r
  <2>4. RecentTyped' /\ Grows
    BY <1>1, Versions DEF ReadInv
  <2>5. BlockKey(io[t].inode, io[t].offset) \in ReadBlocks
        /\ BlockKey(io[t].inode, io[t].offset)[1] = io[t].inode
    BY <1>1, OwnBlock
  <2>6. RequestRecent(io[t])'
    BY <1>1, <2>1, <2>3, <2>5 DEF RequestRecent, OfRecent, SameRequest, ReadInv, RecentTyped, d
  <2>7. WritesTyped'
    BY <1>1, <2>1, <2>3, WritesKept DEF ReadInv, SameRequest
  <2> QED
    BY <1>1, <2>3, <2>4, <2>6, <2>7, CachedKept, AheadKept, TasksKept, RequestsKept
       DEF ReadInv, Grounds, ahead
<1> QED
  BY <1>2, <1>3

\* The block that a fetch becomes starts where the read did.
LEMMA FetchedRecent ==
  ASSUME BlockwiseReads, Grounds, ReadInv, WB!TypeOK', NEW t \in Tasks, Fetched(t)
  PROVE  ReadInv'
<1> DEFINE k == BlockKey(io[t].inode, io[t].offset)
           r == [io[t] EXCEPT !.step = "reply"]
<1>1. /\ io[t].op = "read" /\ IsRequest(io[t]) /\ io[t].step = "fetched"
      /\ io[t].inode \in Inodes /\ io[t].offset \in ReadOffsets /\ io[t].size \in ReadSizes
      /\ UNCHANGED <<store, recent, prefetch_buffer>>
  BY DEF Grounds, HandleInv, RequestsTyped, Fetched, buffering
<1>2. r.data = io[t].data /\ SameRequest(r, io[t])
  BY <1>1 DEF IsRequest, SameRequest
<1>3. io'[t] = r /\ \A u \in Tasks \ {t} : io'[u] = io[u]
  BY OthersKeepRequests DEF Grounds, Fetched
<1> HIDE DEF r
<1>4. RecentTyped' /\ Grows
  BY <1>1, Versions DEF ReadInv
<1>5. OfRecent(k, io[t].data, io[t].offset, io[t].size)
  BY <1>1 DEF ReadInv, RequestsRecent, RequestRecent
<1>6. CachedRecent'
  <2>1. /\ cached'[k] = io[t].data
        /\ \A l \in DOMAIN cached' : l # k => l \in DOMAIN cached /\ cached'[l] = cached[l]
    BY DEF Fetched, Map!Insert
  <2> SUFFICES ASSUME NEW i \in Inodes, NEW o \in ReadOffsets, NEW n \in ReadSizes,
                      BlockKey(i, o) \in DOMAIN cached'
               PROVE  OfRecent(BlockKey(i, o), cached[BlockKey(i, o)], o, n)'
    BY DEF CachedRecent
  <2>2. CASE BlockKey(i, o) = k
    <3>1. o = io[t].offset /\ n = io[t].size
      BY <1>1, <2>2, OwnBlock DEF BlockwiseReads
    <3> QED
      BY <1>1, <1>5, <2>1, <2>2, <3>1 DEF OfRecent
  <2>3. CASE BlockKey(i, o) # k
    BY <1>1, <2>1, <2>3 DEF ReadInv, CachedRecent, OfRecent
  <2> QED
    BY <2>2, <2>3
<1>7. RequestRecent(io[t])'
  BY <1>1, <1>2, <1>3, <1>5 DEF RequestRecent, SameRequest, OfRecent
<1>8. WritesTyped'
  BY <1>1, <1>2, <1>3, WritesKept DEF ReadInv, SameRequest
<1>9. \A p \in prefetches' : p.step = "store" => p \in prefetches
  BY DEF Fetched, RecordRead, PrefetchTask
<1> QED
  BY <1>1, <1>3, <1>4, <1>6, <1>7, <1>8, <1>9, AheadKept, TasksKept, RequestsKept
     DEF ReadInv, Grounds

LEMMA PrefetchRecent ==
  ASSUME BlockwiseReads, Grounds, ReadInv, WB!TypeOK', NEW p \in prefetches, Prefetch(p)
  PROVE  ReadInv'
<1>1. UNCHANGED <<store, recent, cached, prefetch_buffer, io>>
  BY DEF Prefetch, buffering
<1>2. RecentTyped' /\ Grows /\ WritesTyped'
  BY <1>1, Versions DEF ReadInv, WritesTyped
<1>3. TasksRecent'
  <2> DEFINE d == Slice(Object(p.inode), p.offset, Window)
  <2> HIDE DEF d
  <2>1. ASSUME NEW q \in prefetches', q.step = "store", q \notin prefetches
        PROVE  q.inode = p.inode /\ q.offset = p.offset /\ q.data = d
    <3>1. q = [p EXCEPT !.step = "fetch"] \/ q = [p EXCEPT !.step = "store", !.data = d]
      BY <2>1 DEF Prefetch, d
    <3>2. {"inode", "offset", "step", "data"} \subseteq DOMAIN p
      BY DEF Grounds, CacheInv, Prefetched
    <3> QED
      BY <2>1, <3>1, <3>2
  <2> SUFFICES ASSUME NEW q \in prefetches', q.step = "store", q.offset \in ReadOffsets
               PROVE  OfRecent(BlockKey(q.inode, q.offset), q.data, q.offset, Window)
    BY <1>1 DEF TasksRecent, OfRecent
  <2>2. CASE q \in prefetches
    BY <2>2 DEF ReadInv, TasksRecent
  <2>3. CASE q \notin prefetches
    <3>1. q.inode = p.inode /\ q.offset = p.offset /\ q.data = d /\ p.inode \in Inodes
      BY <2>1, <2>3 DEF Grounds, CacheInv, Prefetched
    <3>2. BlockKey(p.inode, p.offset) \in ReadBlocks
          /\ BlockKey(p.inode, p.offset)[1] = p.inode
      BY <3>1, OwnBlock
    <3> QED
      BY <3>1, <3>2 DEF ReadInv, RecentTyped, OfRecent, d
  <2> QED
    BY <2>2, <2>3
<1> QED
  BY <1>1, <1>2, <1>3, CachedKept, AheadKept, RequestsStay DEF ReadInv, Grounds

LEMMA StorePrefetchedRecent ==
  ASSUME BlockwiseReads, Grounds, ReadInv, WB!TypeOK', NEW p \in prefetches, StorePrefetched(p)
  PROVE  ReadInv'
<1>1. /\ UNCHANGED <<store, recent, cached, io>> /\ prefetches' \subseteq prefetches
      /\ p.step = "store" /\ p.inode \in Inodes
  BY DEF StorePrefetched, buffering, Grounds, CacheInv, Prefetched
<1>2. RecentTyped' /\ Grows /\ WritesTyped'
  BY <1>1, Versions DEF ReadInv, WritesTyped
<1>3. AheadRecent'
  <2> SUFFICES ASSUME NEW i \in Inodes, NEW o \in ReadOffsets, <<i, o>> \in DOMAIN prefetch_buffer'
               PROVE  OfRecent(BlockKey(i, o), prefetch_buffer'[<<i, o>>], o, Window)
    BY <1>1 DEF AheadRecent, OfRecent
  <2>1. prefetch_buffer'[<<p.inode, p.offset>>] = p.data
        /\ \A k \in DOMAIN prefetch_buffer' : k # <<p.inode, p.offset>> =>
             k \in DOMAIN prefetch_buffer /\ prefetch_buffer'[k] = prefetch_buffer[k]
    BY DEF StorePrefetched, Map!Insert
  <2>2. CASE <<i, o>> = <<p.inode, p.offset>>
    BY <1>1, <2>1, <2>2 DEF ReadInv, TasksRecent
  <2>3. CASE <<i, o>> # <<p.inode, p.offset>>
    BY <2>1, <2>3 DEF ReadInv, AheadRecent
  <2> QED
    BY <2>2, <2>3
<1> QED
  BY <1>1, <1>2, <1>3, CachedKept, TasksKept, RequestsStay DEF ReadInv, Grounds

LEMMA BufferRecent ==
  ASSUME BlockwiseReads, Grounds, ReadInv, WB!TypeOK',
         NEW t \in Tasks, BufferStep(t) \/ BufferFails(t) \/ Reply(t)
  PROVE  ReadInv'
<1>1. /\ UNCHANGED <<store, recent>> \/ Remember
      /\ UNCHANGED <<cached, ahead>> /\ HandleInv /\ IsRequest(io[t])
  BY DEF BufferStep, BufferFails, Reply, buffering, Grounds, HandleInv, RequestsTyped
<1>2. CASE Become(t, NoRequest)
  <2>1. io'[t] = NoRequest /\ \A u \in Tasks \ {t} : io'[u] = io[u]
    BY <1>1, <1>2, OthersKeepRequests
  <2>2. NoRequest.step = "idle" /\ NoRequest.op = "none"
    BY DEF NoRequest, Request
  <2> QED
    BY <1>1, <2>1, <2>2, EmptyHanded
<1>3. CASE BufferStep(t)
  <2> DEFINE r == [io[t] EXCEPT !.step = "finish"]
  <2>1. SameRequest(r, io[t]) /\ r.step = "finish"
    BY <1>1, UpdatedRequest
  <2>2. SameRequest(io[t], io[t])
    BY <1>1 DEF SameRequest
  <2>3. Become(t, r) \/ (Become(t, io[t]) /\ io[t].step = "buffer")
    BY <1>3 DEF BufferStep
  <2> HIDE DEF r
  <2>4. (io'[t] = r \/ (io'[t] = io[t] /\ io[t].step = "buffer"))
        /\ \A u \in Tasks \ {t} : io'[u] = io[u]
    BY <1>1, <2>3, OthersKeepRequests
  <2> QED
    BY <1>1, <2>1, <2>2, <2>4, EmptyHanded
<1> QED
  BY <1>2, <1>3 DEF BufferFails, Reply

-----------------------------------------------------------------------------
(* The answer of a change *)

\* Where older versions of a block are forgotten, no copy of them is left.
LEMMA Forgets ==
  ASSUME BlockwiseReads, Grounds, ReadInv, NEW t \in Tasks, Finish(t),
         NEW i \in Inodes, NEW o \in ReadOffsets,
         recent'[BlockKey(i, o)] # recent[BlockKey(i, o)]
  PROVE  Quiet(BlockKey(i, o))' /\ BlockKey(i, o) \notin DOMAIN cached'
<1> DEFINE k == BlockKey(i, o)
<1>1. k = <<i, o>> /\ k \in ReadBlocks /\ o \in Nat /\ o % BlockSize = 0
  BY OwnBlock DEF BlockwiseReads
<1> HIDE DEF k
<1>2. recent'[k] = IF k \in Changed(io[t]) /\ Quiet(k)' THEN {Object(k[1])} ELSE recent[k]
  BY <1>1 DEF Finish, Renew
<1>3. k \in Changed(io[t]) /\ Quiet(k)'
  BY <1>2 DEF k
<1>4. io[t].inode = i /\ io[t].op \in {"write", "setattr", "open"}
      /\ (io[t].op = "write" => Overlaps(k, io[t].offset, io[t].size))
  BY <1>1, <1>3 DEF Changed
<1>5. k \notin DOMAIN cached'
  <2>1. CASE FinishWrite(t)
    <3>1. io[t].offset \in Nat /\ io[t].size \in Nat /\ io[t].op = "write"
      BY <2>1 DEF FinishWrite, ReadInv, WritesTyped
    <3>2. k \in RangeKeys(i, io[t].offset, io[t].size)
      BY <1>1, <1>4, <3>1, TouchedDropped
    <3> QED
      BY <1>4, <2>1, <3>2 DEF FinishWrite
  <2>2. CASE FinishTruncate(t)
    BY <1>1, <1>4, <2>2 DEF FinishTruncate
  <2> QED
    BY <1>4, <2>1, <2>2 DEF Finish, FinishRelease, FinishFlush
<1> QED
  BY <1>3, <1>5 DEF k

LEMMA FinishRecent ==
  ASSUME BlockwiseReads, Grounds, ReadInv, WB!TypeOK', NEW t \in Tasks, Finish(t)
  PROVE  ReadInv'
<1>1. /\ io'[t] = NoRequest /\ \A u \in Tasks \ {t} : io'[u] = io[u]
      /\ NoRequest.step = "idle" /\ NoRequest.op = "none"
  BY OthersKeepRequests DEF Finish, Grounds, NoRequest, Request
<1>2. /\ UNCHANGED <<store, prefetches>>
      /\ \A k \in DOMAIN cached' : k \in DOMAIN cached /\ cached'[k] = cached[k]
      /\ \A k \in DOMAIN prefetch_buffer' :
           k \in DOMAIN prefetch_buffer /\ prefetch_buffer'[k] = prefetch_buffer[k]
  BY DEF Finish, FinishWrite, FinishTruncate, FinishRelease, FinishFlush, ahead, buffering
<1>3. RecentTyped'
  <2>1. \A k \in ReadBlocks : recent'[k] = {Object(k[1])} \/ recent'[k] = recent[k]
    BY DEF Finish, Renew
  <2>2. DOMAIN recent' = ReadBlocks
    BY DEF Finish, Renew
  <2>3. \A k \in ReadBlocks : Object(k[1])' = Object(k[1])
    BY <1>2 DEF Object
  <2> QED
    BY <2>1, <2>2, <2>3 DEF ReadInv, RecentTyped
<1>4. WritesTyped'
  BY <1>1, WritesKept DEF ReadInv
<1>5. ASSUME NEW i \in Inodes, NEW o \in ReadOffsets
      PROVE  BlockKey(i, o) = <<i, o>> /\ Overlaps(BlockKey(i, o), o, Window)
  BY OwnBlock, BlockSizeAssumption DEF Overlaps, BlockwiseReads
<1>6. CachedRecent'
  <2> SUFFICES ASSUME NEW i \in Inodes, NEW o \in ReadOffsets, NEW n \in ReadSizes,
                      BlockKey(i, o) \in DOMAIN cached'
               PROVE  OfRecent(BlockKey(i, o), cached[BlockKey(i, o)], o, n)'
    BY DEF CachedRecent
  <2>1. recent'[BlockKey(i, o)] = recent[BlockKey(i, o)]
    BY Forgets
  <2> QED
    BY <1>2, <2>1 DEF ReadInv, CachedRecent, OfRecent
<1>7. AheadRecent'
  <2> SUFFICES ASSUME NEW i \in Inodes, NEW o \in ReadOffsets, <<i, o>> \in DOMAIN prefetch_buffer'
               PROVE  OfRecent(BlockKey(i, o), prefetch_buffer[<<i, o>>], o, Window)'
    BY DEF AheadRecent
  <2>1. ~Quiet(BlockKey(i, o))'
    BY <1>5 DEF Quiet
  <2>2. recent'[BlockKey(i, o)] = recent[BlockKey(i, o)]
    BY <2>1, Forgets
  <2> QED
    BY <1>2, <2>2 DEF ReadInv, AheadRecent, OfRecent
<1>8. RequestsRecent'
  <2> SUFFICES ASSUME NEW u \in Tasks \ {t}, io[u].step \in {"fetched", "reply"}
               PROVE  OfRecent(BlockKey(io[u].inode, io[u].offset), io[u].data,
                               io[u].offset, io[u].size)'
    BY <1>1 DEF RequestsRecent, RequestRecent
  <2>1. PICK i \in Inodes, o \in ReadOffsets : io[u].inode = i /\ io[u].offset = o
    BY DEF Grounds, HandleInv, RequestsTyped
  <2>2. o \in Nat /\ io[u].size \in Nat \ {0}
    BY FileIOAssumption DEF Grounds, HandleInv, RequestsTyped
  <2>3. BlockKey(i, o) = <<i, o>> /\ Overlaps(<<i, o>>, o, io[u].size)
    BY <2>2, OwnBlock, BlockSizeAssumption DEF Overlaps
  <2>4. ~Quiet(BlockKey(i, o))'
    BY <1>1, <2>1, <2>3 DEF Quiet
  <2>5. recent'[BlockKey(i, o)] = recent[BlockKey(i, o)]
    BY <2>4, Forgets
  <2> QED
    BY <1>1, <2>1, <2>5 DEF ReadInv, RequestsRecent, RequestRecent, OfRecent
<1>9. TasksRecent'
  <2> SUFFICES ASSUME NEW p \in prefetches, p.step = "store", p.offset \in ReadOffsets
               PROVE  OfRecent(BlockKey(p.inode, p.offset), p.data, p.offset, Window)'
    BY <1>2 DEF TasksRecent
  <2>1. p.inode \in Inodes
    BY DEF Grounds, CacheInv, Prefetched
  <2>2. ~Quiet(BlockKey(p.inode, p.offset))'
    BY <1>2, <1>5, <2>1 DEF Quiet
  <2>3. recent'[BlockKey(p.inode, p.offset)] = recent[BlockKey(p.inode, p.offset)]
    BY <2>1, <2>2, Forgets
  <2> QED
    BY <2>3 DEF ReadInv, TasksRecent, OfRecent
<1> QED
  BY <1>3, <1>4, <1>6, <1>7, <1>8, <1>9 DEF ReadInv

-----------------------------------------------------------------------------
(* The theorem *)

LEMMA InitReads == Init => ReadInv
<1> SUFFICES ASSUME Init PROVE ReadInv
  OBVIOUS
<1>1. \A p \in WB!Paths : store[p] = Before /\ Before \in Seq(Nat)
  BY WriteBufferAssumption DEF Init, WB!Init
<1>2. \A k \in ReadBlocks : Object(k[1]) \in Seq(Nat)
  BY <1>1, BlockInode DEF Object, WB!Paths
<1>3. RecentTyped
  BY <1>2 DEF Init, RecentTyped
<1>4. \A t \in Tasks : io[t].op = "none" /\ io[t].step = "idle"
  BY DEF Init, NoRequest, Request
<1> QED
  BY <1>3, <1>4 DEF Init, Map!EmptyMap, ReadInv, WritesTyped, CachedRecent, AheadRecent,
     RequestsRecent, RequestRecent, TasksRecent

LEMMA StepReads ==
  ASSUME BlockwiseReads, Grounds, ReadInv, WB!TypeOK', [Next]_vars
  PROVE  ReadInv'
<1>1. CASE UNCHANGED vars
  BY <1>1, NothingMoves DEF vars, buffering
<1>2. ASSUME NEW p \in prefetches, Prefetch(p) \/ StorePrefetched(p)
      PROVE  ReadInv'
  BY <1>2, PrefetchRecent, StorePrefetchedRecent
<1>3. ASSUME NEW t \in Tasks, Arrive(t)
      PROVE  ReadInv'
  <2>1. HandleInv
    BY DEF Grounds
  <2>2. CASE Asks(t)
    BY <2>2, EmptyHanded DEF Asks
  <2>3. CASE UNCHANGED <<store, recent, cached, ahead, io>>
    BY <2>3, NothingMoves
  <2>4. CASE \E i \in Inodes, offset \in ReadOffsets, size \in ReadSizes : Read(t, i, offset, size)
    BY <2>4, ReadRecent
  <2> QED
    BY <1>3, <2>1, <2>2, <2>3, <2>4, ArriveKinds
<1>4. ASSUME NEW t \in Tasks, Advance(t)
      PROVE  ReadInv'
  BY <1>4, FetchRecent, FetchedRecent, BufferRecent, FinishRecent DEF Advance
<1> QED
  BY <1>1, <1>2, <1>3, <1>4 DEF Next

\* A read lies in one block, whose versions are those it may see.
LEMMA ReadsOneBlock ==
  ASSUME BlockwiseReads, HandleInv, ReadInv
  PROVE  ReadsReturnRecentBytes
<1> SUFFICES ASSUME NEW t \in Tasks, io[t].step = "reply"
             PROVE  LET r == io[t] IN
                    \E v \in recent[BlockKey(r.inode, r.offset)] :
                      /\ r.data = Slice(v, r.offset, r.size)
                      /\ \A k \in ReadBlocks :
                           k[1] = r.inode /\ Overlaps(k, r.offset, r.size) => v \in recent[k]
  BY DEF ReadsReturnRecentBytes
<1> DEFINE o == io[t].offset
           n == io[t].size
<1>1. /\ io[t].inode \in Inodes /\ o \in ReadOffsets /\ n \in ReadSizes
      /\ o \in Nat /\ n \in Nat \ {0} /\ o % BlockSize = 0 /\ n <= BlockSize
  BY FileIOAssumption DEF HandleInv, RequestsTyped, BlockwiseReads
<1>2. PICK v \in recent[BlockKey(io[t].inode, o)] : io[t].data = Slice(v, o, n)
  BY DEF ReadInv, RequestsRecent, RequestRecent, OfRecent
<1>3. ASSUME NEW k \in ReadBlocks, k[1] = io[t].inode, Overlaps(k, o, n)
      PROVE  k = BlockKey(io[t].inode, o)
  <2>1. PICK j \in Inodes, p \in ReadOffsets : k = BlockKey(j, p)
    BY DEF ReadBlocks
  <2>2. k = <<j, p>> /\ p \in Nat /\ p % BlockSize = 0
    BY <2>1, OwnBlock DEF BlockwiseReads
  <2>3. p < o + n /\ o < p + BlockSize
    BY <1>3, <2>2 DEF Overlaps
  <2>4. p < o + BlockSize
    <3> HIDE DEF o, n
    <3> QED
      BY <1>1, <2>2, <2>3, BlockSizeAssumption
  <2>5. p = o
    <3> HIDE DEF o, n
    <3> QED
      BY <1>1, <2>2, <2>3, <2>4, SameBlock
  <2> QED
    BY <1>1, <1>3, <2>2, <2>5, OwnBlock
<1> QED
  BY <1>2, <1>3

\* Aligned reads of one size return the bytes of a version the object has had since
\* the last change of the block that was answered while the block was quiet, over
\* caches, prefetches, flushes and failures in any order (do_read, do_write,
\* do_truncate), whatever is written.
THEOREM ReadsAreTrue == ASSUME BlockwiseReads PROVE Spec => []ReadsReturnRecentBytes
<1>1. Spec => []Grounds
  <2>1. HandleInv /\ CacheInv /\ WB!TypeOK => Grounds
    BY DEF Grounds
  <2> QED
    BY <2>1, CachesTyped, HandleInvariant, BufferTyped, PTL
<1>2. Grounds /\ Grounds' /\ ReadInv /\ [Next]_vars => ReadInv'
  BY StepReads DEF Grounds
<1>3. Grounds /\ ReadInv => ReadsReturnRecentBytes
  BY ReadsOneBlock DEF Grounds
<1> QED
  BY <1>1, <1>2, <1>3, InitReads, PTL DEF Spec
=============================================================================
