-------------------------- MODULE WriteBufferProofs --------------------------
(***************************************************************************)
(* What WriteBuffer guarantees for every set of tasks and inodes, every    *)
(* number of workers and requests, and every configured size: the state    *)
(* keeps its type and every Mutex its owner, a buffer that is not dirty is *)
(* empty, and what a file keeps in memory stays within the configuration.  *)
(***************************************************************************)
EXTENDS WriteBuffer, SequenceTheorems, TLAPS

\* A buffer that is not dirty is empty, even while a task works on it.
CleanEmpty == \A a \in Arcs : ~buf[a].dirty => buf[a].data = <<>> /\ ~buf[a].multipart

\* While a PUT is under way the buffer it came from is empty.
EmptyDuringPut ==
  \A t \in Tasks :
    /\ pc[t] \in {"put", "direct", "empty"} => buf[req[t].arc].data = <<>>
    /\ pc[t] \in {"put", "empty"} => ~buf[req[t].arc].multipart

\* A buffer within the configured sizes.
Within(b) ==
  IF b.multipart THEN Len(b.data) < PartSize
  ELSE Len(b.data) < BufferSize /\ Len(b.data) < MultipartThreshold

\* A buffer over the limit is about to be flushed by the task that filled it.
OverOnlyToFlush ==
  \A a \in Arcs :
    \/ Within(buf[a])
    \/ /\ buf[a].dirty /\ ~buf[a].multipart /\ buf[a].data # <<>>
       /\ \E t \in Tasks : pc[t] = "flush" /\ req[t].arc = a

\* The inductive invariant.
BufferInv == TypeOK /\ CleanEmpty /\ EmptyDuringPut /\ OverOnlyToFlush

-----------------------------------------------------------------------------
(* Types of requests *)

\* A new request is well typed when what it asks for is.
LEMMA NewRequestTyped ==
  ASSUME NEW op \in OpNames \cup {"none"}, NEW id \in Arcs \cup {0},
         NEW i \in Inodes \cup {0}, NEW offset \in Nat, NEW len \in Nat,
         NEW size \in Nat, NEW mark \in Nat, NEW todo \in SUBSET Inodes
  PROVE  NewRequest(op, id, i, offset, len, size, mark, todo) \in Requests
  BY DEF NewRequest, Requests

\* No request is one, too.
LEMMA NoRequestTyped == NoRequest \in Requests
  BY NewRequestTyped DEF NoRequest

\* A request keeps its type when one of its locals is set.
LEMMA RequestUpdateTyped ==
  ASSUME NEW r \in Requests
  PROVE  /\ \A a \in Arcs : [r EXCEPT !.arc = a] \in Requests
         /\ \A s \in Seq(Nat) : [r EXCEPT !.own = s] \in Requests
         /\ \A s \in Seq(Nat) : [r EXCEPT !.data = s] \in Requests
         /\ \A i \in Inodes, a \in Arcs, todo \in SUBSET Inodes :
              [r EXCEPT !.inode = i, !.arc = a, !.todo = todo] \in Requests
  BY DEF Requests

\* A task moves on with a request that has what its new place calls for.
LEMMA MoveTyped ==
  ASSUME TaskTypeOK, NEW t \in Tasks, NEW l \in Labels, NEW r \in Requests,
         Goto(t, l), req' = [req EXCEPT ![t] = r],
         l # "idle" => r.id \in Arcs,
         l \notin {"idle", "next"} => r.inode \in Inodes,
         l \in LockedLabels \cup {"lock"} => r.arc \in Arcs
  PROVE  TaskTypeOK'
  BY DEF Goto, TaskTypeOK, Labels

\* A task moves on with the request it has.
LEMMA StayTyped ==
  ASSUME TaskTypeOK, NEW t \in Tasks, NEW l \in Labels, Goto(t, l), UNCHANGED req,
         l # "idle" => req[t].id \in Arcs,
         l \notin {"idle", "next"} => req[t].inode \in Inodes,
         l \in LockedLabels \cup {"lock"} => req[t].arc \in Arcs
  PROVE  TaskTypeOK'
  BY DEF Goto, TaskTypeOK, Labels

\* A task that returns.
LEMMA ReturnTyped ==
  ASSUME TaskTypeOK, NEW t \in Tasks, NEW ok, Return(t, ok)
  PROVE  TaskTypeOK'
  BY NoRequestTyped DEF Return, Goto, TaskTypeOK, Labels, LockedLabels

\* A task that makes a request.
LEMMA RequestTyped ==
  ASSUME TypeOK, NEW t \in Tasks, NEW l \in {"entry", "get", "remove", "next"},
         NEW op \in OpNames, NEW i \in Inodes \cup {0}, NEW offset \in Nat,
         NEW len \in Nat, NEW size \in Nat, NEW todo \in SUBSET Inodes,
         l # "next" => i \in Inodes,
         Request(t, l, op, i, offset, len, size, todo)
  PROVE  TypeOK'
<1> DEFINE r == NewRequest(op, calls + 1, i, offset, len, size, Len(owner), todo)
<1>1. calls + 1 \in Arcs /\ Len(owner) \in Nat
  BY SizesAssumption DEF TypeOK, SharedTypeOK, Arcs, Request
<1>2. r \in Requests
  BY <1>1, NewRequestTyped
<1>3. r.id \in Arcs /\ (l # "next" => r.inode \in Inodes)
  BY <1>1 DEF NewRequest
<1>4. TaskTypeOK'
  <2> HIDE DEF r
  <2> QED
    BY <1>2, <1>3, MoveTyped DEF TypeOK, Request, Labels, LockedLabels, r
<1>5. SharedTypeOK'
  BY DEF TypeOK, SharedTypeOK, Request, history
<1>6. MutexTypeOK'
  BY <1>2 DEF TypeOK, MutexTypeOK, TaskTypeOK, Request, Goto, LockedLabels
<1> QED
  BY <1>4, <1>5, <1>6 DEF TypeOK

-----------------------------------------------------------------------------
(* Types of buffers *)

\* A fresh buffer.
LEMMA NewBufferTyped == ASSUME NEW n \in Nat PROVE NewBuffer(n) \in Buffer
  BY DEF NewBuffer, Buffer

\* Emptying a buffer, by a truncation, a completed upload or a flush.
LEMMA BufferFieldsTyped ==
  ASSUME NEW b \in Buffer
  PROVE  /\ [b EXCEPT !.data = <<>>] \in Buffer
         /\ [b EXCEPT !.data = <<>>, !.multipart = FALSE, !.dirty = FALSE,
                      !.original_size = b.size] \in Buffer
         /\ \A n \in Nat : [b EXCEPT !.multipart = FALSE, !.data = <<>>, !.size = n,
                                     !.dirty = TRUE] \in Buffer
<1>1. <<>> \in Seq(Nat) /\ FALSE \in BOOLEAN /\ TRUE \in BOOLEAN /\ b.size \in Nat
  BY DEF Buffer
<1>2. \A s \in Seq(Nat) : [b EXCEPT !.data = s] \in Buffer
  BY DEF Buffer
<1>3. \A s \in Seq(Nat), n \in Nat :
        [b EXCEPT !.data = s, !.multipart = FALSE, !.dirty = FALSE, !.original_size = n] \in Buffer
  BY DEF Buffer
<1>4. \A s \in Seq(Nat), n \in Nat :
        [b EXCEPT !.multipart = FALSE, !.data = s, !.size = n, !.dirty = TRUE] \in Buffer
  BY DEF Buffer
<1> QED
  BY <1>1, <1>2, <1>3, <1>4

\* The buffers keep their type when one is replaced by a buffer.
LEMMA BufUpdateTyped ==
  ASSUME SharedTypeOK, NEW a, NEW b \in Buffer, buf' = [buf EXCEPT ![a] = b]
  PROVE  buf' \in [Arcs -> Buffer]
  BY DEF SharedTypeOK

\* The bytes of a write are a sequence of numbers.
LEMMA NewBytesTyped ==
  ASSUME TypeOK, NEW t \in Tasks
  PROVE  /\ NewBytes(t) \in Seq(Nat)
         /\ Len(NewBytes(t)) = req[t].len
         /\ req[t].len \in Nat
<1>1. Len(owner) \in Nat /\ req[t].len \in Nat
  BY DEF TypeOK, SharedTypeOK, TaskTypeOK, Requests
<1>2. \A k \in 1..req[t].len : Len(owner) + k \in Nat
  BY <1>1
<1> QED
  BY <1>1, <1>2 DEF NewBytes

\* What a write makes of the buffer it works on.
LEMMA AppendTyped ==
  ASSUME TypeOK, NEW t \in Tasks, req[t].arc \in Arcs
  PROVE  /\ Positioned(t) \in Buffer
         /\ Appended(t) \in Buffer
         /\ WriteEnd(t) \in Nat
<1> DEFINE b == buf[req[t].arc]
<1>1. WriteEnd(t) \in Nat
  BY DEF WriteEnd, TypeOK, TaskTypeOK, Requests
<1>2. b \in Buffer
  BY DEF TypeOK, SharedTypeOK
<1>3. Positioned(t) \in Buffer
  BY <1>1, <1>2 DEF Positioned, Buffer
<1>4. b.data \o NewBytes(t) \in Seq(Nat)
  BY <1>2, NewBytesTyped DEF Buffer
<1>5. Maximum(Positioned(t).size, WriteEnd(t)) \in Nat
  BY <1>1, <1>3 DEF Maximum, Buffer
<1>6. Appended(t) \in Buffer
  <2> DEFINE data == b.data \o NewBytes(t)
  <2> HIDE DEF data
  <2>1. (Positioned(t).multipart \/ Len(data) >= MultipartThreshold) \in BOOLEAN
    OBVIOUS
  <2> QED
    BY <1>3, <1>4, <1>5, <2>1 DEF Appended, Buffer, data
<1> QED
  BY <1>1, <1>3, <1>6

\* The remainder of a division.
LEMMA ModFacts ==
  \A m \in Nat, p \in Nat : p > 0 => m % p \in 0..(p - 1) /\ m % p <= m
<1>1. \A m \in Nat, p \in Nat : p > 0 => m % p \in 0..(p - 1)
  OBVIOUS
<1>2. \A m \in Nat, p \in Nat : p > 0 => m % p <= m
  OBVIOUS
<1> QED
  BY <1>1, <1>2

\* What remains of a sequence without its first k elements.
LEMMA SuffixFacts ==
  ASSUME NEW T, NEW s \in Seq(T), NEW k \in 0..Len(s)
  PROVE  /\ SubSeq(s, k + 1, Len(s)) \in Seq(T)
         /\ Len(SubSeq(s, k + 1, Len(s))) = Len(s) - k
  BY SubSeqProperties

\* Splitting the whole parts off leaves a buffer, and less than a part of it.
LEMMA PartsFacts ==
  ASSUME NEW b \in Buffer
  PROVE  /\ Parted(b) \in 0..Len(b.data)
         /\ WithoutParts(b) \in Buffer
         /\ Len(WithoutParts(b).data) = Len(b.data) - Parted(b)
         /\ b.multipart => Len(WithoutParts(b).data) < PartSize
         /\ ~b.multipart => WithoutParts(b).data = b.data
         /\ WithoutParts(b).multipart = b.multipart
         /\ WithoutParts(b).dirty = b.dirty
<1>1. Len(b.data) \in Nat /\ b.data \in Seq(Nat) /\ b.multipart \in BOOLEAN
  BY DEF Buffer
<1>2. PartSize \in Nat /\ PartSize > 0
  BY SizesAssumption
<1>3. Len(b.data) % PartSize \in 0..(PartSize - 1) /\ Len(b.data) % PartSize <= Len(b.data)
  BY <1>1, <1>2, ModFacts
<1>4. /\ Parted(b) \in 0..Len(b.data)
      /\ b.multipart => Len(b.data) - Parted(b) < PartSize
  <2> DEFINE m == Len(b.data)
             r == Len(b.data) % PartSize
  <2>1. m \in Nat /\ r \in 0..(PartSize - 1) /\ r <= m
    BY <1>1, <1>3
  <2>2. Parted(b) = IF b.multipart THEN m - r ELSE 0
    BY DEF Parted
  <2> HIDE DEF m, r
  <2>3. Parted(b) \in 0..m /\ (b.multipart => m - Parted(b) < PartSize)
    BY <1>2, <2>1, <2>2
  <2> QED
    BY <2>3 DEF m
<1>5. /\ SubSeq(b.data, Parted(b) + 1, Len(b.data)) \in Seq(Nat)
      /\ Len(SubSeq(b.data, Parted(b) + 1, Len(b.data))) = Len(b.data) - Parted(b)
  BY <1>1, <1>4, SuffixFacts
<1>6. ~b.multipart => SubSeq(b.data, Parted(b) + 1, Len(b.data)) = b.data
  BY <1>1 DEF Parted
<1>7. WithoutParts(b) \in Buffer
  BY <1>5 DEF WithoutParts, Buffer
<1>8. /\ WithoutParts(b).data = SubSeq(b.data, Parted(b) + 1, Len(b.data))
      /\ WithoutParts(b).multipart = b.multipart
      /\ WithoutParts(b).dirty = b.dirty
  BY DEF WithoutParts, Buffer
<1> QED
  BY <1>4, <1>5, <1>6, <1>7, <1>8

-----------------------------------------------------------------------------
(* Every action keeps the types. *)

\* A task that neither holds a Mutex nor takes one.
LEMMA OutsideTyped ==
  ASSUME TypeOK, NEW t \in Tasks, NEW l \in Labels, NEW r,
         pc[t] \notin LockedLabels, l \notin LockedLabels, Goto(t, l),
         req' = [req EXCEPT ![t] = r], UNCHANGED lock
  PROVE  MutexTypeOK'
  BY DEF TypeOK, MutexTypeOK, TaskTypeOK, Goto

\* get_or_create.
LEMMA EntryTyped == ASSUME TypeOK, NEW t \in Tasks, Entry(t) PROVE TypeOK'
<1> USE DEF TypeOK
<1>1. req[t].id \in Arcs /\ req[t].inode \in Inodes /\ req[t] \in Requests /\ Goto(t, "lock")
  BY DEF Entry, TaskTypeOK
<1>2. PICK a \in Arcs : req' = [req EXCEPT ![t] = [req[t] EXCEPT !.arc = a]]
  BY <1>1 DEF Entry, SharedTypeOK
<1>3. TaskTypeOK'
  <2> DEFINE r == [req[t] EXCEPT !.arc = a]
  <2>1. r \in Requests /\ r.id \in Arcs /\ r.inode \in Inodes /\ r.arc \in Arcs
    BY <1>1, RequestUpdateTyped DEF Requests
  <2> HIDE DEF r
  <2> QED
    BY <1>1, <1>2, <2>1, MoveTyped DEF r, Labels
<1>4. SharedTypeOK'
  <2>1. NewBuffer(req[t].size) \in Buffer
    BY <1>1, NewBufferTyped DEF Requests
  <2>2. buf' \in [Arcs -> Buffer]
    BY <2>1, BufUpdateTyped DEF Entry, SharedTypeOK
  <2> QED
    BY <1>1, <2>2 DEF Entry, Insert, SharedTypeOK, history
<1>5. MutexTypeOK'
  BY <1>1, <1>2 DEF Entry, MutexTypeOK, TaskTypeOK, Goto, LockedLabels
<1> QED
  BY <1>3, <1>4, <1>5

\* The get of flush and the remove of release.
LEMMA GetTyped ==
  ASSUME TypeOK, NEW t \in Tasks, FlushGet(t) \/ ReleaseRemove(t)
  PROVE  TypeOK'
<1> USE DEF TypeOK
<1>1. pc[t] \in {"get", "remove"} /\ req[t] \in Requests /\ req[t].inode \in Inodes
  BY DEF FlushGet, ReleaseRemove, TaskTypeOK
<1>2. SharedTypeOK'
  BY DEF FlushGet, ReleaseRemove, Remove, SharedTypeOK
<1>3. UNCHANGED lock
  BY DEF FlushGet, ReleaseRemove
<1>4. CASE Return(t, TRUE)
  <2>1. TaskTypeOK'
    BY <1>4, ReturnTyped
  <2>2. MutexTypeOK'
    BY <1>1, <1>4, <1>3, OutsideTyped DEF Return, Labels, LockedLabels
  <2> QED
    BY <1>2, <2>1, <2>2
<1>5. CASE ~Return(t, TRUE)
  <2>1. PICK a \in Arcs : req' = [req EXCEPT ![t] = [req[t] EXCEPT !.arc = a]]
    BY <1>1, <1>5 DEF FlushGet, ReleaseRemove, SharedTypeOK
  <2>2. Goto(t, "lock")
    BY <1>5 DEF FlushGet, ReleaseRemove
  <2> DEFINE r == [req[t] EXCEPT !.arc = a]
  <2>3. r \in Requests /\ r.id \in Arcs /\ r.inode \in Inodes /\ r.arc \in Arcs
    BY <1>1, RequestUpdateTyped DEF Requests, TaskTypeOK
  <2>4. TaskTypeOK'
    <3> HIDE DEF r
    <3> QED
      BY <2>1, <2>2, <2>3, MoveTyped DEF r, Labels
  <2>5. MutexTypeOK'
    BY <1>1, <1>3, <2>1, <2>2, OutsideTyped DEF Labels, LockedLabels
  <2> QED
    BY <1>2, <2>4, <2>5
<1> QED
  BY <1>4, <1>5

\* The iterator of flush_all.
LEMMA FlushAllNextTyped == ASSUME TypeOK, NEW t \in Tasks, FlushAllNext(t) PROVE TypeOK'
<1> USE DEF TypeOK
<1>1. pc[t] = "next" /\ req[t] \in Requests /\ req[t].todo \in SUBSET Inodes
  BY DEF FlushAllNext, TaskTypeOK, Requests
<1>2. SharedTypeOK'
  BY DEF FlushAllNext, SharedTypeOK
<1>3. UNCHANGED lock
  BY DEF FlushAllNext
<1>4. CASE Return(t, TRUE)
  <2>1. TaskTypeOK'
    BY <1>4, ReturnTyped
  <2>2. MutexTypeOK'
    BY <1>1, <1>4, <1>3, OutsideTyped DEF Return, Labels, LockedLabels
  <2> QED
    BY <1>2, <2>1, <2>2
<1>5. CASE ~Return(t, TRUE)
  <2>1. PICK i \in req[t].todo \cap DOMAIN buffers :
          req' = [req EXCEPT ![t] = [req[t] EXCEPT !.inode = i, !.arc = buffers[i],
                                                  !.todo = req[t].todo \ {i}]]
    BY <1>1, <1>5 DEF FlushAllNext, TaskTypeOK
  <2>2. Goto(t, "lock")
    BY <1>5 DEF FlushAllNext
  <2> DEFINE r == [req[t] EXCEPT !.inode = i, !.arc = buffers[i], !.todo = req[t].todo \ {i}]
  <2>3. i \in Inodes /\ buffers[i] \in Arcs /\ req[t].todo \ {i} \in SUBSET Inodes
    BY <1>1 DEF SharedTypeOK
  <2>4. r \in Requests
    BY <1>1, <2>3, RequestUpdateTyped
  <2>5. r.id \in Arcs /\ r.inode \in Inodes /\ r.arc \in Arcs
    BY <1>1, <2>3 DEF Requests, TaskTypeOK
  <2>6. TaskTypeOK'
    <3> HIDE DEF r
    <3> QED
      BY <2>1, <2>2, <2>4, <2>5, MoveTyped DEF r, Labels
  <2>7. MutexTypeOK'
    BY <1>1, <1>3, <2>1, <2>2, OutsideTyped DEF Labels, LockedLabels
  <2> QED
    BY <1>2, <2>6, <2>7
<1> QED
  BY <1>4, <1>5

\* The acquisition of a free Mutex.
LEMMA AcquireTyped == ASSUME TypeOK, NEW t \in Tasks, Acquire(t) PROVE TypeOK'
<1> USE DEF TypeOK
<1>1. SharedTypeOK'
  BY DEF Acquire, SharedTypeOK, history
<1>2. req[t].id \in Arcs /\ req[t].inode \in Inodes /\ req[t].arc \in Arcs
  BY DEF Acquire, TaskTypeOK
<1>3. TaskTypeOK'
  BY <1>2, StayTyped DEF Acquire, Labels
<1>4. MutexTypeOK'
  BY <1>2, FreeAssumption DEF Acquire, MutexTypeOK, TaskTypeOK, Goto, LockedLabels
<1> QED
  BY <1>1, <1>3, <1>4

\* A task that works on a buffer and has its Mutex.
LEMMA Working ==
  ASSUME TypeOK, NEW t \in Tasks, pc[t] \in LockedLabels
  PROVE  /\ req[t] \in Requests /\ req[t].arc \in Arcs /\ req[t].inode \in Inodes
         /\ req[t].id \in Arcs /\ PathOf[req[t].inode] \in Paths
         /\ buf[req[t].arc] \in Buffer
         /\ lock[req[t].arc] = t
         /\ \A u \in Tasks : pc[u] \in LockedLabels /\ req[u].arc = req[t].arc => u = t
  BY DEF TypeOK, SharedTypeOK, TaskTypeOK, MutexTypeOK, LockedLabels, Paths

\* It may return, having dropped the Mutex.
LEMMA UnlockReturnTyped ==
  ASSUME TypeOK, NEW t \in Tasks, pc[t] \in LockedLabels, NEW ok, Unlock(t), Return(t, ok)
  PROVE  TaskTypeOK' /\ MutexTypeOK'
<1>1. TaskTypeOK'
  BY ReturnTyped DEF TypeOK
<1>2. MutexTypeOK'
  BY Working, FreeAssumption
     DEF TypeOK, MutexTypeOK, TaskTypeOK, Unlock, Return, Goto, LockedLabels
<1> QED
  BY <1>1, <1>2

\* It may go on under the Mutex.
LEMMA KeepLockTyped ==
  ASSUME TypeOK, NEW t \in Tasks, pc[t] \in LockedLabels, NEW l \in LockedLabels,
         Goto(t, l), UNCHANGED <<lock, req>>
  PROVE  TaskTypeOK' /\ MutexTypeOK'
<1>1. TaskTypeOK'
  BY Working, StayTyped DEF TypeOK, Labels, LockedLabels
<1>2. MutexTypeOK'
  BY DEF TypeOK, MutexTypeOK, TaskTypeOK, Goto
<1> QED
  BY <1>1, <1>2

\* After flush_buffer it does one or the other, or goes on to the next buffer.
LEMMA GoOnTyped ==
  ASSUME TypeOK, NEW t \in Tasks, pc[t] \in {"flush", "put"}, GoOn(t)
  PROVE  TaskTypeOK' /\ MutexTypeOK'
<1> USE DEF LockedLabels
<1>1. CASE Unlock(t) /\ Goto(t, "next") /\ UNCHANGED <<req, synced>>
  <2>1. TaskTypeOK'
    BY <1>1, Working, StayTyped DEF TypeOK, Labels
  <2>2. MutexTypeOK'
    BY <1>1, Working, FreeAssumption DEF TypeOK, MutexTypeOK, TaskTypeOK, Unlock, Goto
  <2> QED
    BY <2>1, <2>2
<1>2. CASE Goto(t, "direct") /\ UNCHANGED <<lock, req, synced>>
  BY <1>2, KeepLockTyped
<1>3. CASE Unlock(t) /\ Return(t, TRUE)
  BY <1>3, UnlockReturnTyped
<1> QED
  BY <1>1, <1>2, <1>3 DEF GoOn

\* The shared state keeps its type when the buffer worked on is replaced.
LEMMA SharedTyped ==
  ASSUME TypeOK, NEW t \in Tasks, pc[t] \in LockedLabels, NEW b \in Buffer,
         buf' = [buf EXCEPT ![req[t].arc] = b],
         UNCHANGED <<buffers, calls>>, store' \in [Paths -> Seq(Nat)], owner' \in Seq(Inodes)
  PROVE  SharedTypeOK'
  BY BufUpdateTyped DEF TypeOK, SharedTypeOK

\* The store keeps its type when an object is replaced.
LEMMA StoreTyped ==
  ASSUME TypeOK, NEW p, NEW s \in Seq(Nat), store' = [store EXCEPT ![p] = s]
  PROVE  store' \in [Paths -> Seq(Nat)]
  BY DEF TypeOK, SharedTypeOK

\* Accepted bytes belong to the inode written to.
LEMMA AcceptTyped ==
  ASSUME TypeOK, NEW t \in Tasks, req[t].inode \in Inodes, Accept(t)
  PROVE  owner' \in Seq(Inodes)
<1>1. req[t].len \in Nat /\ owner \in Seq(Inodes)
  BY DEF TypeOK, SharedTypeOK, TaskTypeOK, Requests
<1>2. [k \in 1..req[t].len |-> req[t].inode] \in Seq(Inodes)
  BY <1>1
<1> QED
  BY <1>1, <1>2 DEF Accept

\* The two outcomes of a write.
LEMMA WriteTyped ==
  ASSUME TypeOK, NEW t \in Tasks, WriteDirect(t) \/ WriteAppend(t)
  PROVE  TypeOK'
<1>1. pc[t] = "body" /\ pc[t] \in LockedLabels
  BY DEF WriteDirect, WriteAppend, LockedLabels
<1>2. req[t] \in Requests /\ req[t].arc \in Arcs /\ req[t].inode \in Inodes /\ req[t].id \in Arcs
  BY <1>1, Working
<1>3. owner' \in Seq(Inodes)
  BY <1>2, AcceptTyped DEF WriteDirect, WriteAppend
<1>4. /\ Positioned(t) \in Buffer
      /\ WithoutParts(Appended(t)) \in Buffer
  BY <1>2, AppendTyped, PartsFacts
<1>5. UNCHANGED <<buffers, calls, store>> /\ store \in [Paths -> Seq(Nat)]
  BY DEF WriteDirect, WriteAppend, TypeOK, SharedTypeOK
<1>6. CASE WriteDirect(t)
  <2>1. SharedTypeOK'
    <3>1. buf' = [buf EXCEPT ![req[t].arc] = Positioned(t)]
      BY <1>6 DEF WriteDirect
    <3> QED
      BY <1>1, <1>3, <1>4, <1>5, <3>1, SharedTyped
  <2> DEFINE r == [req[t] EXCEPT !.own = NewBytes(t)]
  <2>2. r \in Requests /\ r.id \in Arcs /\ r.inode \in Inodes /\ r.arc = req[t].arc
    BY <1>2, NewBytesTyped, RequestUpdateTyped DEF Requests
  <2>3. req' = [req EXCEPT ![t] = r] /\ Goto(t, "flush") /\ UNCHANGED lock
    BY <1>6 DEF WriteDirect
  <2> HIDE DEF r
  <2>4. TaskTypeOK'
    BY <1>2, <2>2, <2>3, MoveTyped DEF TypeOK, Labels
  <2>5. MutexTypeOK'
    BY <1>1, <2>2, <2>3 DEF TypeOK, MutexTypeOK, TaskTypeOK, Goto, LockedLabels
  <2> QED
    BY <2>1, <2>4, <2>5 DEF TypeOK
<1>7. CASE WriteAppend(t)
  <2>1. SharedTypeOK'
    <3>1. buf' = [buf EXCEPT ![req[t].arc] = WithoutParts(Appended(t))]
      BY <1>7 DEF WriteAppend
    <3> QED
      BY <1>1, <1>3, <1>4, <1>5, <3>1, SharedTyped
  <2>2. TaskTypeOK' /\ MutexTypeOK'
    <3>1. CASE Goto(t, "flush") /\ UNCHANGED <<lock, req, synced>>
      BY <1>1, <3>1, KeepLockTyped DEF LockedLabels
    <3>2. CASE Unlock(t) /\ Return(t, TRUE)
      BY <1>1, <3>2, UnlockReturnTyped
    <3> QED
      BY <1>7, <3>1, <3>2 DEF WriteAppend
  <2> QED
    BY <2>1, <2>2 DEF TypeOK
<1> QED
  BY <1>6, <1>7

\* Truncation, before its PUT.
LEMMA TruncateTyped == ASSUME TypeOK, NEW t \in Tasks, TruncateBuffer(t) PROVE TypeOK'
<1>1. pc[t] = "body" /\ pc[t] \in LockedLabels
  BY DEF TruncateBuffer, LockedLabels
<1>2. buf[req[t].arc] \in Buffer /\ req[t] \in Requests
  BY <1>1, Working
<1> DEFINE b == [buf[req[t].arc] EXCEPT !.multipart = FALSE, !.data = <<>>,
                                        !.size = req[t].size, !.dirty = TRUE]
<1>3. b \in Buffer /\ buf' = [buf EXCEPT ![req[t].arc] = b]
  <2>1. req[t].size \in Nat
    BY <1>2 DEF Requests
  <2>2. b \in Buffer
    BY <1>2, <2>1, BufferFieldsTyped
  <2> QED
    BY <2>2 DEF TruncateBuffer
<1>4. SharedTypeOK'
  <2> HIDE DEF b
  <2>1. UNCHANGED <<buffers, calls, store, owner>>
    BY DEF TruncateBuffer
  <2> QED
    BY <1>1, <1>3, <2>1, SharedTyped DEF TypeOK, SharedTypeOK
<1>5. TaskTypeOK' /\ MutexTypeOK'
  <2>1. CASE Goto(t, "empty") /\ UNCHANGED <<lock, req, synced>>
    BY <1>1, <2>1, KeepLockTyped DEF LockedLabels
  <2>2. CASE Unlock(t) /\ Return(t, TRUE)
    BY <1>1, <2>2, UnlockReturnTyped
  <2> QED
    BY <2>1, <2>2 DEF TruncateBuffer
<1> QED
  BY <1>4, <1>5 DEF TypeOK

\* flush_buffer, up to its PUT.
LEMMA FlushTyped ==
  ASSUME TypeOK, NEW t \in Tasks, FlushNothing(t) \/ FlushMultipart(t) \/ FlushTake(t)
  PROVE  TypeOK'
<1>1. pc[t] = "flush" /\ pc[t] \in LockedLabels
  BY DEF FlushNothing, FlushMultipart, FlushTake, LockedLabels
<1>2. /\ buf[req[t].arc] \in Buffer /\ req[t] \in Requests
      /\ req[t].arc \in Arcs /\ req[t].inode \in Inodes /\ req[t].id \in Arcs
  BY <1>1, Working
<1>3. CASE FlushNothing(t)
  <2>1. SharedTypeOK'
    BY <1>3 DEF FlushNothing, TypeOK, SharedTypeOK
  <2> QED
    BY <1>1, <1>3, <2>1, GoOnTyped DEF FlushNothing, TypeOK
<1>4. CASE FlushMultipart(t)
  <2>1. Completed(buf[req[t].arc]) \in Buffer
    BY <1>2, BufferFieldsTyped DEF Completed
  <2>2. SharedTypeOK'
    BY <1>1, <1>4, <2>1, SharedTyped DEF FlushMultipart, TypeOK, SharedTypeOK
  <2> QED
    BY <1>1, <1>4, <2>2, GoOnTyped DEF FlushMultipart, TypeOK
<1>5. CASE FlushTake(t)
  <2> DEFINE b == [buf[req[t].arc] EXCEPT !.data = <<>>]
             r == [req[t] EXCEPT !.data = buf[req[t].arc].data]
  <2>1. b \in Buffer /\ buf' = [buf EXCEPT ![req[t].arc] = b]
    BY <1>2, <1>5, BufferFieldsTyped DEF FlushTake
  <2>2. r \in Requests /\ r.id \in Arcs /\ r.inode \in Inodes /\ r.arc = req[t].arc
    BY <1>2, RequestUpdateTyped DEF Requests, Buffer
  <2>3. req' = [req EXCEPT ![t] = r] /\ Goto(t, "put") /\ UNCHANGED lock
    BY <1>5 DEF FlushTake
  <2>4. UNCHANGED <<buffers, calls, store, owner>>
    BY <1>5 DEF FlushTake, history
  <2> HIDE DEF b, r
  <2>5. SharedTypeOK'
    BY <1>1, <2>1, <2>4, SharedTyped DEF TypeOK, SharedTypeOK
  <2>6. TaskTypeOK'
    BY <1>2, <2>2, <2>3, MoveTyped DEF TypeOK, Labels
  <2>7. MutexTypeOK'
    BY <1>1, <2>2, <2>3 DEF TypeOK, MutexTypeOK, TaskTypeOK, Goto, LockedLabels
  <2> QED
    BY <2>5, <2>6, <2>7 DEF TypeOK
<1> QED
  BY <1>3, <1>4, <1>5

\* The store's answers to a PUT.
LEMMA PutTyped ==
  ASSUME TypeOK, NEW t \in Tasks, Put(t) \/ DirectPut(t) \/ EmptyPut(t) \/ PutFails(t)
  PROVE  TypeOK'
<1>1. pc[t] \in {"put", "direct", "empty"} /\ pc[t] \in LockedLabels
  BY DEF Put, DirectPut, EmptyPut, PutFails, LockedLabels
<1>2. buf[req[t].arc] \in Buffer /\ req[t] \in Requests /\ Path(t) \in Paths
  BY <1>1, Working DEF Path
<1>3. req[t].data \in Seq(Nat) /\ req[t].own \in Seq(Nat) /\ <<>> \in Seq(Nat)
  BY <1>2 DEF Requests
<1>4. UNCHANGED <<buffers, calls, owner>> /\ owner \in Seq(Inodes)
  BY DEF Put, DirectPut, EmptyPut, PutFails, TypeOK, SharedTypeOK
<1>5. store' \in [Paths -> Seq(Nat)]
  <2>1. store \in [Paths -> Seq(Nat)] /\ Payload(t) \in Seq(Nat)
    BY <1>1, <1>3 DEF TypeOK, SharedTypeOK, Payload
  <2>2. PICK s \in Seq(Nat) : store' = store \/ store' = [store EXCEPT ![Path(t)] = s]
    BY <1>3, <2>1 DEF Put, DirectPut, EmptyPut, PutFails
  <2> QED
    BY <2>1, <2>2, StoreTyped
<1>6. PICK b \in Buffer : buf' = [buf EXCEPT ![req[t].arc] = b]
  <2>1. CASE Put(t)
    <3>1. [buf[req[t].arc] EXCEPT !.dirty = FALSE, !.original_size = buf[req[t].arc].size]
            \in Buffer
      BY <1>2 DEF Buffer
    <3> QED
      BY <2>1, <3>1 DEF Put
  <2>2. CASE DirectPut(t)
    <3>1. WriteEnd(t) \in Nat
      BY <1>1, Working, AppendTyped
    <3>2. [buf[req[t].arc] EXCEPT !.size = Maximum(buf[req[t].arc].size, WriteEnd(t))]
            \in Buffer
      BY <1>2, <3>1 DEF Buffer, Maximum
    <3>3. buf' = [buf EXCEPT ![req[t].arc] =
               [buf[req[t].arc] EXCEPT !.size = Maximum(buf[req[t].arc].size, WriteEnd(t))]]
      BY <2>2 DEF DirectPut
    <3> QED
      BY <3>2, <3>3
  <2>3. CASE EmptyPut(t)
    <3>1. [buf[req[t].arc] EXCEPT !.dirty = FALSE] \in Buffer
      BY <1>2 DEF Buffer
    <3> QED
      BY <2>3, <3>1 DEF EmptyPut
  <2>4. CASE PutFails(t)
    <3>1. buf' = [buf EXCEPT ![req[t].arc] = buf[req[t].arc]]
      BY <2>4 DEF PutFails, TypeOK, SharedTypeOK
    <3> QED
      BY <1>2, <3>1
  <2> QED
    BY <2>1, <2>2, <2>3, <2>4
<1>7. SharedTypeOK'
  BY <1>1, <1>4, <1>5, <1>6, SharedTyped
<1>8. TaskTypeOK' /\ MutexTypeOK'
  <2>1. CASE Put(t)
    BY <2>1, GoOnTyped DEF Put
  <2>2. CASE ~Put(t)
    <3>1. PICK ok \in BOOLEAN : Unlock(t) /\ Return(t, ok)
      BY <2>2 DEF DirectPut, EmptyPut, PutFails
    <3> QED
      BY <1>1, <3>1, UnlockReturnTyped
  <2> QED
    BY <2>1, <2>2
<1> QED
  BY <1>7, <1>8 DEF TypeOK

\* The initial state.
LEMMA InitBuffer == Init => BufferInv
<1> SUFFICES ASSUME Init PROVE BufferInv
  OBVIOUS
<1> USE DEF Init
<1>1. SharedTypeOK
  BY NewBufferTyped, SizesAssumption DEF SharedTypeOK, EmptyMap
<1>2. TaskTypeOK
  BY NoRequestTyped DEF TaskTypeOK, Labels, LockedLabels
<1>3. MutexTypeOK
  BY FreeAssumption DEF MutexTypeOK, LockedLabels
<1>4. CleanEmpty /\ EmptyDuringPut
  BY DEF CleanEmpty, EmptyDuringPut, NewBuffer
<1>5. OverOnlyToFlush
  BY SizesAssumption DEF OverOnlyToFlush, Within, NewBuffer
<1> QED
  BY <1>1, <1>2, <1>3, <1>4, <1>5 DEF BufferInv, TypeOK

-----------------------------------------------------------------------------
(* What a step does to the contents of the buffers *)

Contents == CleanEmpty /\ EmptyDuringPut /\ OverOnlyToFlush

\* The other tasks stay where they are.
OthersStay(t) == \A u \in Tasks : u # t => pc'[u] = pc[u] /\ req'[u] = req[u]

\* A step of a task that does not touch a buffer nor hold a Mutex before.
LEMMA OutsideContents ==
  ASSUME BufferInv, NEW t \in Tasks, pc[t] \notin LockedLabels, UNCHANGED buf,
         pc'[t] \notin {"put", "direct", "empty"}, OthersStay(t)
  PROVE  Contents'
<1>1. CleanEmpty'
  BY DEF BufferInv, CleanEmpty
<1>2. EmptyDuringPut'
  BY DEF BufferInv, EmptyDuringPut, OthersStay
<1>3. OverOnlyToFlush'
  BY DEF BufferInv, OverOnlyToFlush, Within, OthersStay, LockedLabels
<1> QED
  BY <1>1, <1>2, <1>3 DEF Contents

\* A step of the task that holds the Mutex of a buffer and replaces it.
LEMMA LockedContents ==
  ASSUME BufferInv, NEW t \in Tasks, pc[t] \in LockedLabels, OthersStay(t),
         NEW b, buf' = [buf EXCEPT ![req[t].arc] = b],
         ~b.dirty => b.data = <<>> /\ ~b.multipart,
         pc'[t] \in {"put", "direct", "empty"} => b.data = <<>> /\ req'[t].arc = req[t].arc,
         pc'[t] \in {"put", "empty"} => ~b.multipart,
         \/ Within(b)
         \/ /\ b.dirty /\ ~b.multipart /\ b.data # <<>>
            /\ pc'[t] = "flush" /\ req'[t].arc = req[t].arc
  PROVE  Contents'
<1> DEFINE a == req[t].arc
<1>1. /\ a \in Arcs
      /\ \A u \in Tasks : pc[u] \in LockedLabels /\ req[u].arc = a => u = t
  BY Working DEF BufferInv
<1>2. buf'[a] = b /\ \A c \in Arcs : c # a => buf'[c] = buf[c]
  BY <1>1 DEF BufferInv, TypeOK, SharedTypeOK
<1>3. CleanEmpty'
  BY <1>2 DEF BufferInv, CleanEmpty
<1>4. EmptyDuringPut'
  <2> SUFFICES ASSUME NEW u \in Tasks
               PROVE  /\ pc'[u] \in {"put", "direct", "empty"} => buf'[req'[u].arc].data = <<>>
                      /\ pc'[u] \in {"put", "empty"} => ~buf'[req'[u].arc].multipart
    BY DEF EmptyDuringPut
  <2>1. CASE u = t
    BY <1>2, <2>1
  <2>2. CASE u # t
    <3>1. pc'[u] = pc[u] /\ req'[u] = req[u]
      BY <2>2 DEF OthersStay
    <3>2. CASE pc[u] \in {"put", "direct", "empty"}
      <4>1. req[u].arc \in Arcs /\ req[u].arc # a
        BY <1>1, <2>2, <3>2 DEF BufferInv, TypeOK, TaskTypeOK, LockedLabels
      <4> QED
        BY <1>2, <3>1, <4>1 DEF BufferInv, EmptyDuringPut
    <3> QED
      BY <3>1, <3>2
  <2> QED
    BY <2>1, <2>2
<1>5. OverOnlyToFlush'
  <2> SUFFICES ASSUME NEW c \in Arcs
               PROVE  \/ Within(buf'[c])
                      \/ /\ buf'[c].dirty /\ ~buf'[c].multipart /\ buf'[c].data # <<>>
                         /\ \E u \in Tasks : pc'[u] = "flush" /\ req'[u].arc = c
    BY DEF OverOnlyToFlush, Within
  <2>1. CASE c = a
    BY <1>2, <2>1
  <2>2. CASE c # a
    BY <1>2, <2>2 DEF BufferInv, OverOnlyToFlush, OthersStay
  <2> QED
    BY <2>1, <2>2
<1> QED
  BY <1>3, <1>4, <1>5 DEF Contents

\* An empty buffer is within every size.
LEMMA EmptyWithin == ASSUME NEW b, b.data = <<>> PROVE Within(b)
  BY SizesAssumption DEF Within

\* Requests and their way to a buffer.
LEMMA ArriveContents ==
  ASSUME BufferInv, NEW t \in Tasks, Arrive(t) \/ ArriveForAll(t)
  PROVE  Contents'
<1>1. PICK l \in {"entry", "get", "remove", "next"} :
        pc[t] = "idle" /\ Goto(t, l) /\ UNCHANGED buf /\ OthersStay(t)
  BY DEF Arrive, ArriveForAll, Write, Truncate, Flush, Release, FlushAll, Request, Goto,
         OthersStay, BufferInv, TypeOK, TaskTypeOK
<1>2. pc'[t] = l
  BY <1>1 DEF Goto, BufferInv, TypeOK, TaskTypeOK
<1> QED
  BY <1>1, <1>2, OutsideContents DEF LockedLabels

\* get_or_create: a fresh buffer is clean and empty.
LEMMA EntryContents == ASSUME BufferInv, NEW t \in Tasks, Entry(t) PROVE Contents'
<1>1. /\ pc[t] = "entry" /\ pc'[t] = "lock" /\ OthersStay(t)
      /\ req[t].id \in Arcs
  BY DEF Entry, Goto, OthersStay, BufferInv, TypeOK, TaskTypeOK
<1>2. CASE UNCHANGED buf
  BY <1>1, <1>2, OutsideContents DEF LockedLabels
<1>3. CASE buf' = [buf EXCEPT ![req[t].id] = NewBuffer(req[t].size)]
  <2> DEFINE a == req[t].id
             b == NewBuffer(req[t].size)
  <2>1. b.data = <<>> /\ ~b.multipart /\ Within(b)
    BY EmptyWithin DEF NewBuffer
  <2> HIDE DEF b
  <2>2. buf'[a] = b /\ \A c \in Arcs : c # a => buf'[c] = buf[c]
    BY <1>1, <1>3 DEF BufferInv, TypeOK, SharedTypeOK, b
  <2>3. CleanEmpty'
    BY <2>1, <2>2 DEF BufferInv, CleanEmpty
  <2>4. EmptyDuringPut'
    BY <1>1, <2>1, <2>2
       DEF BufferInv, EmptyDuringPut, OthersStay, TypeOK, TaskTypeOK, LockedLabels
  <2>5. OverOnlyToFlush'
    <3> SUFFICES ASSUME NEW c \in Arcs
                 PROVE  \/ Within(buf'[c])
                        \/ /\ buf'[c].dirty /\ ~buf'[c].multipart /\ buf'[c].data # <<>>
                           /\ \E u \in Tasks : pc'[u] = "flush" /\ req'[u].arc = c
      BY DEF OverOnlyToFlush, Within
    <3>1. CASE c = a
      BY <2>1, <2>2, <3>1
    <3>2. CASE c # a
      BY <1>1, <2>2, <3>2 DEF BufferInv, OverOnlyToFlush, OthersStay
    <3> QED
      BY <3>1, <3>2
  <2> QED
    BY <2>3, <2>4, <2>5 DEF Contents
<1> QED
  BY <1>2, <1>3 DEF Entry

\* The way to an existing buffer and its Mutex.
LEMMA ReachContents ==
  ASSUME BufferInv, NEW t \in Tasks,
         FlushGet(t) \/ ReleaseRemove(t) \/ FlushAllNext(t) \/ Acquire(t)
  PROVE  Contents'
<1>1. /\ pc[t] \in {"get", "remove", "next", "lock"} /\ UNCHANGED buf
      /\ OthersStay(t) /\ pc'[t] \in {"idle", "lock", "body", "flush"}
  <2> USE DEF Goto, OthersStay, BufferInv, TypeOK, TaskTypeOK
  <2>1. CASE FlushGet(t)
    BY <2>1 DEF FlushGet, Return
  <2>2. CASE ReleaseRemove(t)
    BY <2>2 DEF ReleaseRemove, Return
  <2>3. CASE FlushAllNext(t)
    BY <2>3 DEF FlushAllNext, Return
  <2>4. CASE Acquire(t)
    BY <2>4 DEF Acquire
  <2> QED
    BY <2>1, <2>2, <2>3, <2>4
<1> QED
  BY <1>1, OutsideContents DEF LockedLabels

\* A buffer is within the sizes unless the holder of its Mutex is to flush it.
LEMMA BodyWithin ==
  ASSUME BufferInv, NEW t \in Tasks, pc[t] \in LockedLabels, pc[t] # "flush"
  PROVE  Within(buf[req[t].arc])
  BY Working DEF BufferInv, OverOnlyToFlush, LockedLabels

\* What a write changes of a buffer's contents.
LEMMA AppendFacts ==
  ASSUME BufferInv, NEW t \in Tasks, pc[t] = "body"
  PROVE  LET b == buf[req[t].arc]
             p == Positioned(t)
             d == Appended(t)
         IN /\ p.data = b.data /\ p.dirty = b.dirty /\ p.multipart = b.multipart
            /\ d.dirty
            /\ ~d.multipart => Len(d.data) < MultipartThreshold
<1>1. /\ buf[req[t].arc] \in Buffer /\ Positioned(t) \in Buffer /\ Appended(t) \in Buffer
      /\ req[t].arc \in Arcs
  BY Working, AppendTyped DEF BufferInv, LockedLabels
<1>2. /\ Positioned(t).data = buf[req[t].arc].data
      /\ Positioned(t).dirty = buf[req[t].arc].dirty
      /\ Positioned(t).multipart = buf[req[t].arc].multipart
  BY <1>1 DEF Positioned, Buffer
<1>3. Appended(t).dirty /\ (~Appended(t).multipart => Len(Appended(t).data) < MultipartThreshold)
  <2> DEFINE data == buf[req[t].arc].data \o NewBytes(t)
  <2>1. Len(data) \in Nat
    <3>1. buf[req[t].arc].data \in Seq(Nat) /\ NewBytes(t) \in Seq(Nat)
      BY <1>1, NewBytesTyped DEF BufferInv, Buffer
    <3> QED
      BY <3>1
  <2> HIDE DEF data
  <2>2. /\ Appended(t).dirty /\ Appended(t).data = data
        /\ Len(data) >= MultipartThreshold => Appended(t).multipart
    BY <1>1 DEF Appended, Buffer, data
  <2>3. MultipartThreshold \in Nat
    BY SizesAssumption
  <2> QED
    BY <2>1, <2>2, <2>3
<1> QED
  BY <1>2, <1>3

\* The two outcomes of a write: a full buffer goes on to its flush.
LEMMA WriteContents ==
  ASSUME BufferInv, NEW t \in Tasks, WriteDirect(t) \/ WriteAppend(t)
  PROVE  Contents'
<1>1. pc[t] = "body" /\ pc[t] \in LockedLabels /\ pc \in [Tasks -> Labels] /\ TypeOK
      /\ req \in [Tasks -> Requests]
  BY DEF WriteDirect, WriteAppend, LockedLabels, BufferInv, TypeOK, TaskTypeOK
<1>2. req[t].arc \in Arcs /\ req[t] \in Requests /\ buf[req[t].arc] \in Buffer
  BY <1>1, Working
<1>3. CASE WriteDirect(t)
  <2> DEFINE b == Positioned(t)
  <2>1. OthersStay(t) /\ pc'[t] = "flush" /\ buf' = [buf EXCEPT ![req[t].arc] = b]
    BY <1>1, <1>3 DEF WriteDirect, Goto, OthersStay
  <2>2. ~b.dirty => b.data = <<>> /\ ~b.multipart
    BY <1>1, <1>2, AppendFacts DEF BufferInv, CleanEmpty
  <2>3. Within(b)
    BY <1>1, AppendFacts, BodyWithin DEF Within
  <2> HIDE DEF b
  <2> QED
    BY <1>1, <2>1, <2>2, <2>3, LockedContents
<1>4. CASE WriteAppend(t)
  <2> DEFINE d == Appended(t)
             b == WithoutParts(d)
  <2>1. d \in Buffer /\ d.dirty /\ (~d.multipart => Len(d.data) < MultipartThreshold)
    BY <1>1, <1>2, AppendTyped, AppendFacts
  <2>2. /\ buf' = [buf EXCEPT ![req[t].arc] = b] /\ OthersStay(t)
        /\ \/ NeedsFlush(d) /\ pc'[t] = "flush" /\ req' = req
           \/ ~NeedsFlush(d) /\ pc'[t] = "idle"
    BY <1>1, <1>4 DEF WriteAppend, Goto, OthersStay, Return
  <2> HIDE DEF d
  <2>3. /\ b.dirty /\ b.multipart = d.multipart
        /\ b.multipart => Len(b.data) < PartSize
        /\ ~b.multipart => b.data = d.data
        /\ Len(d.data) \in Nat /\ d.data \in Seq(Nat)
    <3>1. Len(d.data) \in Nat /\ d.data \in Seq(Nat)
      BY <2>1 DEF Buffer
    <3>2. /\ b.dirty = d.dirty /\ b.multipart = d.multipart
          /\ d.multipart => Len(b.data) < PartSize
          /\ ~d.multipart => b.data = d.data
      BY <2>1, PartsFacts
    <3> HIDE DEF b
    <3> QED
      BY <2>1, <3>1, <3>2
  <2> HIDE DEF b
  <2>4. CASE NeedsFlush(d)
    <3>1. ~b.multipart /\ b.data # <<>>
      BY <2>3, <2>4, SizesAssumption DEF NeedsFlush
    <3>2. pc'[t] = "flush" /\ req' = req
      BY <2>2, <2>4
    <3> QED
      BY <1>1, <2>2, <2>3, <3>1, <3>2, LockedContents
  <2>5. CASE ~NeedsFlush(d)
    <3>1. Within(b)
      BY <2>1, <2>3, <2>5, SizesAssumption DEF NeedsFlush, Within
    <3>2. pc'[t] = "idle"
      BY <2>2, <2>5
    <3> QED
      BY <1>1, <2>2, <2>3, <3>1, <3>2, LockedContents
  <2> QED
    BY <2>4, <2>5
<1> QED
  BY <1>3, <1>4

\* A truncation empties the buffer and ends its upload.
LEMMA TruncateContents == ASSUME BufferInv, NEW t \in Tasks, TruncateBuffer(t) PROVE Contents'
<1>1. /\ pc[t] = "body" /\ pc[t] \in LockedLabels /\ pc \in [Tasks -> Labels] /\ TypeOK
      /\ req \in [Tasks -> Requests]
  BY DEF TruncateBuffer, LockedLabels, BufferInv, TypeOK, TaskTypeOK
<1>2. buf[req[t].arc] \in Buffer
  BY <1>1, Working
<1> DEFINE b == [buf[req[t].arc] EXCEPT !.multipart = FALSE, !.data = <<>>,
                                        !.size = req[t].size, !.dirty = TRUE]
<1>3. /\ buf' = [buf EXCEPT ![req[t].arc] = b] /\ OthersStay(t)
      /\ \/ pc'[t] = "empty" /\ req' = req
         \/ pc'[t] = "idle"
  BY <1>1 DEF TruncateBuffer, Goto, OthersStay, Return
<1>4. b.dirty /\ ~b.multipart /\ b.data = <<>> /\ Within(b)
  BY <1>2, EmptyWithin DEF Buffer
<1> HIDE DEF b
<1> QED
  BY <1>1, <1>3, <1>4, LockedContents

\* A task that returns leaves the others where they are.
LEMMA ReturnMoves ==
  ASSUME TypeOK, NEW t \in Tasks, NEW ok, Return(t, ok)
  PROVE  OthersStay(t) /\ pc'[t] = "idle"
<1>1. pc \in [Tasks -> Labels] /\ req \in [Tasks -> Requests]
  BY DEF TypeOK, TaskTypeOK
<1>2. Goto(t, "idle") /\ req' = [req EXCEPT ![t] = NoRequest]
  BY DEF Return
<1>3. \A u \in Tasks : u # t => req'[u] = req[u]
  BY <1>1, <1>2
<1> QED
  BY <1>1, <1>2, <1>3 DEF Goto, OthersStay

\* Where a task goes on after flush_buffer.
LEMMA GoOnMoves ==
  ASSUME TypeOK, NEW t \in Tasks, GoOn(t)
  PROVE  OthersStay(t) /\ (pc'[t] \in {"next", "idle"} \/ (pc'[t] = "direct" /\ req' = req))
<1>1. pc \in [Tasks -> Labels] /\ req \in [Tasks -> Requests]
  BY DEF TypeOK, TaskTypeOK
<1>2. CASE Goto(t, "next") /\ UNCHANGED req
  BY <1>1, <1>2 DEF Goto, OthersStay
<1>3. CASE Goto(t, "direct") /\ UNCHANGED req
  BY <1>1, <1>3 DEF Goto, OthersStay
<1>4. CASE Return(t, TRUE)
  BY <1>4, ReturnMoves
<1> QED
  BY <1>2, <1>3, <1>4 DEF GoOn

\* flush_buffer up to its PUT: nothing to send, a completed upload, or the
\* data taken.
LEMMA FlushContents ==
  ASSUME BufferInv, NEW t \in Tasks, FlushNothing(t) \/ FlushMultipart(t) \/ FlushTake(t)
  PROVE  Contents'
<1>1. /\ pc[t] = "flush" /\ pc[t] \in LockedLabels /\ pc \in [Tasks -> Labels] /\ TypeOK
      /\ req \in [Tasks -> Requests]
  BY DEF FlushNothing, FlushMultipart, FlushTake, LockedLabels, BufferInv, TypeOK, TaskTypeOK
<1>2. /\ req[t].arc \in Arcs /\ buf[req[t].arc] \in Buffer /\ req[t] \in Requests
      /\ buf \in [Arcs -> Buffer]
  BY <1>1, Working DEF TypeOK, SharedTypeOK
<1>3. CASE FlushNothing(t)
  <2> DEFINE b == buf[req[t].arc]
  <2>1. buf' = [buf EXCEPT ![req[t].arc] = b]
    BY <1>2, <1>3 DEF FlushNothing
  <2>2. b.data = <<>> /\ (~b.dirty => ~b.multipart) /\ Within(b)
    BY <1>2, <1>3, EmptyWithin DEF FlushNothing, BufferInv, CleanEmpty
  <2>3. OthersStay(t) /\ (pc'[t] \in {"next", "idle"} \/ (pc'[t] = "direct" /\ req' = req))
    BY <1>1, <1>3, GoOnMoves DEF FlushNothing
  <2> HIDE DEF b
  <2> QED
    BY <1>1, <2>1, <2>2, <2>3, LockedContents
<1>4. CASE FlushMultipart(t)
  <2> DEFINE b == Completed(buf[req[t].arc])
  <2>1. buf' = [buf EXCEPT ![req[t].arc] = b]
    BY <1>4 DEF FlushMultipart
  <2>2. b.data = <<>> /\ ~b.multipart /\ Within(b)
    BY <1>2, EmptyWithin DEF Completed, Buffer
  <2>3. OthersStay(t) /\ (pc'[t] \in {"next", "idle"} \/ (pc'[t] = "direct" /\ req' = req))
    BY <1>1, <1>4, GoOnMoves DEF FlushMultipart
  <2> HIDE DEF b
  <2> QED
    BY <1>1, <2>1, <2>2, <2>3, LockedContents
<1>5. CASE FlushTake(t)
  <2> DEFINE b == [buf[req[t].arc] EXCEPT !.data = <<>>]
  <2>1. buf' = [buf EXCEPT ![req[t].arc] = b] /\ OthersStay(t) /\ pc'[t] = "put"
    BY <1>1, <1>5 DEF FlushTake, Goto, OthersStay
  <2>2. b.data = <<>> /\ b.dirty /\ ~b.multipart /\ Within(b)
    BY <1>2, <1>5, EmptyWithin DEF FlushTake, Buffer
  <2>3. req'[t].arc = req[t].arc
    BY <1>1, <1>2, <1>5 DEF FlushTake, Requests
  <2> HIDE DEF b
  <2> QED
    BY <1>1, <2>1, <2>2, <2>3, LockedContents
<1> QED
  BY <1>3, <1>4, <1>5

\* The answers to a PUT find the buffer empty; after a failure it stays dirty.
LEMMA PutContents ==
  ASSUME BufferInv, NEW t \in Tasks, Put(t) \/ DirectPut(t) \/ EmptyPut(t) \/ PutFails(t)
  PROVE  Contents'
<1>1. /\ pc[t] \in {"put", "direct", "empty"} /\ pc[t] \in LockedLabels
      /\ pc \in [Tasks -> Labels] /\ req \in [Tasks -> Requests] /\ TypeOK
  BY DEF Put, DirectPut, EmptyPut, PutFails, LockedLabels, BufferInv, TypeOK, TaskTypeOK
<1>2. /\ req[t].arc \in Arcs /\ buf[req[t].arc] \in Buffer
      /\ buf \in [Arcs -> Buffer]
  BY <1>1, Working DEF TypeOK, SharedTypeOK
<1>3. /\ buf[req[t].arc].data = <<>>
      /\ pc[t] \in {"put", "empty"} => ~buf[req[t].arc].multipart
      /\ ~buf[req[t].arc].dirty => ~buf[req[t].arc].multipart
  BY <1>1, <1>2 DEF BufferInv, EmptyDuringPut, CleanEmpty
<1>4. PICK b : /\ buf' = [buf EXCEPT ![req[t].arc] = b]
               /\ b.data = <<>> /\ (~b.dirty => ~b.multipart)
  <2> DEFINE c == buf[req[t].arc]
  <2>1. CASE Put(t)
    <3> WITNESS [c EXCEPT !.dirty = FALSE, !.original_size = c.size]
    <3> QED
      BY <1>2, <1>3, <2>1 DEF Put, Buffer
  <2>2. CASE DirectPut(t)
    <3> WITNESS [c EXCEPT !.size = Maximum(c.size, WriteEnd(t))]
    <3> QED
      BY <1>2, <1>3, <2>2 DEF DirectPut, Buffer
  <2>3. CASE EmptyPut(t)
    <3> WITNESS [c EXCEPT !.dirty = FALSE]
    <3> QED
      BY <1>2, <1>3, <2>3 DEF EmptyPut, Buffer
  <2>4. CASE PutFails(t)
    <3> WITNESS c
    <3> QED
      BY <1>2, <1>3, <2>4 DEF PutFails
  <2> QED
    BY <2>1, <2>2, <2>3, <2>4
<1>5. OthersStay(t) /\ (pc'[t] \in {"next", "idle"} \/ (pc'[t] = "direct" /\ req' = req))
  <2>1. CASE Put(t)
    BY <1>1, <2>1, GoOnMoves DEF Put
  <2>2. CASE ~Put(t)
    <3>1. PICK ok \in BOOLEAN : Return(t, ok)
      BY <2>2 DEF DirectPut, EmptyPut, PutFails
    <3> QED
      BY <1>1, <3>1, ReturnMoves
  <2> QED
    BY <2>1, <2>2
<1> QED
  BY <1>1, <1>4, <1>5, EmptyWithin, LockedContents

-----------------------------------------------------------------------------
(* The invariant *)

\* Requests of the interface are well typed.
LEMMA ArriveTyped ==
  ASSUME TypeOK, NEW t \in Tasks, Arrive(t) \/ ArriveForAll(t)
  PROVE  TypeOK'
<1> USE SizesAssumption DEF OpNames
<1>1. CASE Arrive(t)
  <2>1. PICK i \in Inodes :
          \/ \E offset \in Offsets, len \in Lengths, size \in FileSizes :
               Write(t, i, offset, len, size)
          \/ \E size \in TruncateSizes : Truncate(t, i, size)
          \/ Flush(t, i)
          \/ Release(t, i)
    BY <1>1 DEF Arrive
  <2>2. ASSUME NEW offset \in Offsets, NEW len \in Lengths, NEW size \in FileSizes,
               Write(t, i, offset, len, size)
        PROVE  TypeOK'
    <3>1. offset \in Nat /\ len \in Nat /\ size \in Nat
      OBVIOUS
    <3> QED
      BY <2>2, <3>1, RequestTyped DEF Write
  <2>3. ASSUME NEW size \in TruncateSizes, Truncate(t, i, size)
        PROVE  TypeOK'
    <3>1. size \in Nat
      OBVIOUS
    <3> QED
      BY <2>3, <3>1, RequestTyped DEF Truncate
  <2>4. CASE Flush(t, i)
    BY <2>4, RequestTyped DEF Flush
  <2>5. CASE Release(t, i)
    BY <2>5, RequestTyped DEF Release
  <2> QED
    BY <2>1, <2>2, <2>3, <2>4, <2>5
<1>2. CASE ArriveForAll(t)
  <2>1. PICK todo \in SUBSET Inodes : FlushAll(t, todo)
    BY <1>2 DEF ArriveForAll
  <2> QED
    BY <2>1, RequestTyped DEF FlushAll
<1> QED
  BY <1>1, <1>2

\* Every step keeps the invariant.
LEMMA StepBuffer == BufferInv /\ [Next]_vars => BufferInv'
<1> SUFFICES ASSUME BufferInv, [Next]_vars PROVE TypeOK' /\ Contents'
  BY DEF BufferInv, Contents
<1>1. TypeOK /\ Contents
  BY DEF BufferInv, Contents
<1>2. ASSUME NEW t \in Tasks, Arrive(t) \/ ArriveForAll(t)
      PROVE  TypeOK' /\ Contents'
  BY <1>1, <1>2, ArriveTyped, ArriveContents
<1>3. ASSUME NEW t \in Tasks, Advance(t)
      PROVE  TypeOK' /\ Contents'
  <2>1. CASE Entry(t)
    BY <1>1, <2>1, EntryTyped, EntryContents
  <2>2. CASE FlushGet(t) \/ ReleaseRemove(t)
    BY <1>1, <2>2, GetTyped, ReachContents
  <2>3. CASE FlushAllNext(t)
    BY <1>1, <2>3, FlushAllNextTyped, ReachContents
  <2>4. CASE Acquire(t)
    BY <1>1, <2>4, AcquireTyped, ReachContents
  <2>5. CASE WriteDirect(t) \/ WriteAppend(t)
    BY <1>1, <2>5, WriteTyped, WriteContents
  <2>6. CASE TruncateBuffer(t)
    BY <1>1, <2>6, TruncateTyped, TruncateContents
  <2>7. CASE FlushNothing(t) \/ FlushMultipart(t) \/ FlushTake(t)
    BY <1>1, <2>7, FlushTyped, FlushContents
  <2>8. CASE Put(t) \/ DirectPut(t) \/ EmptyPut(t) \/ PutFails(t)
    BY <1>1, <2>8, PutTyped, PutContents
  <2> QED
    BY <1>3, <2>1, <2>2, <2>3, <2>4, <2>5, <2>6, <2>7, <2>8 DEF Advance, Progress
<1>4. CASE UNCHANGED vars
  <2>1. TypeOK'
    BY <1>1, <1>4 DEF vars, TypeOK, SharedTypeOK, TaskTypeOK, MutexTypeOK
  <2>2. Contents'
    BY <1>1, <1>4 DEF vars, Contents, CleanEmpty, EmptyDuringPut, OverOnlyToFlush, Within
  <2> QED
    BY <2>1, <2>2
<1> QED
  BY <1>2, <1>3, <1>4 DEF Next, Run, Exhausted

\* The invariant holds in every behaviour of the write buffer
\* (write_buffer.rs, every path of write, flush, release and truncate).
THEOREM BufferInvariant == Spec => []BufferInv
  BY InitBuffer, StepBuffer, PTL DEF Spec

\* State and requests keep their types, and a Mutex is held exactly by the task
\* that works on its buffer (write_buffer.rs: no path keeps or loses a lock).
THEOREM TypeCorrect == Spec => []TypeOK
<1>1. BufferInv => TypeOK
  BY DEF BufferInv
<1> QED
  BY <1>1, BufferInvariant, PTL

\* A buffer that flush_buffer would pass by as clean holds no bytes and no
\* upload (write_buffer.rs:251).
THEOREM CleanBuffersEmpty == Spec => []CleanMeansEmpty
<1>1. BufferInv => CleanMeansEmpty
  BY DEF BufferInv, CleanEmpty, CleanMeansEmpty
<1> QED
  BY <1>1, BufferInvariant, PTL

\* Between requests a buffer is below buffer_size, or below part_size during an
\* upload, for all sizes of writes (write_buffer.rs:205-228).
THEOREM MemoryBounded == Spec => []BuffersBounded
<1>1. BufferInv => BuffersBounded
  <2> SUFFICES ASSUME BufferInv, NEW a \in Arcs, Unlocked(a)
               PROVE  Within(buf[a])
    BY DEF BuffersBounded, Within
  <2>1. ~\E t \in Tasks : pc[t] = "flush" /\ req[t].arc = a
    <3> SUFFICES ASSUME NEW t \in Tasks, pc[t] = "flush", req[t].arc = a
                 PROVE  FALSE
      OBVIOUS
    <3>1. lock[a] = t
      BY DEF BufferInv, TypeOK, MutexTypeOK, LockedLabels
    <3> QED
      BY <3>1, FreeAssumption DEF Unlocked
  <2> QED
    BY <2>1 DEF BufferInv, OverOnlyToFlush
<1> QED
  BY <1>1, BufferInvariant, PTL
==============================================================================
