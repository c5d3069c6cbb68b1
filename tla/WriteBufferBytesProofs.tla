------------------------ MODULE WriteBufferBytesProofs ------------------------
(***************************************************************************)
(* Where the bytes of WriteBuffer go, for every set of tasks and inodes    *)
(* and every configured size: none is dropped on the floor, buffers and    *)
(* objects keep the order of acceptance and, as long as no file is closed, *)
(* later writes win and a flush that returned Ok has sent its bytes.       *)
(***************************************************************************)
EXTENDS WriteBufferProofs

\* What became of the bytes that are neither in a buffer nor in a request.
Left == fate.stored \cup fate.failed \cup fate.parted \cup fate.cut \cup fate.lost
Fates == {"stored", "failed", "parted", "cut", "lost"}

Carried(t) == Bytes(req[t].data) \cup Bytes(req[t].own)

\* From its arrival at a buffer until it lets go of the Mutex.
AtWork == {"lock"} \cup LockedLabels

\* What a request carries is under way only as long as its PUTs are ahead.
RequestsCarry ==
  /\ DOMAIN fate = Fates
  /\ \A t \in Tasks :
       /\ pc[t] # "put" => Bytes(req[t].data) \subseteq Left
       /\ req[t].own # <<>> => req[t].op = "write" /\ pc[t] \in {"flush", "put", "direct"}
       /\ pc[t] = "direct" => req[t].op = "write"
       /\ pc[t] = "empty" => req[t].op = "truncate"

\* The number of a buffer nobody has made yet.
Unused(a) == a > calls \/ \E t \in Tasks : pc[t] = "entry" /\ req[t].id = a

\* Requests have numbers of their own, and nobody works on a buffer before the
\* request it is named after has made it.
NumbersFresh ==
  /\ \A t \in Tasks : pc[t] # "idle" => req[t].id <= calls
  /\ \A t, u \in Tasks :
       pc[t] # "idle" /\ pc[u] # "idle" /\ req[t].id = req[u].id => t = u
  /\ \A a \in Arcs : Unused(a) =>
       /\ buf[a].data = <<>>
       /\ \A t \in Tasks : pc[t] \in AtWork => req[t].arc # a
       /\ \A i \in DOMAIN buffers : buffers[i] # a

\* The inductive invariant of the accounts.
AccountInv == BufferInv /\ RequestsCarry /\ NumbersFresh /\ BytesAccountedFor

-----------------------------------------------------------------------------
(* Sequences of bytes *)

\* The bytes of a concatenation, a part and nothing.
LEMMA BytesFacts ==
  ASSUME NEW s \in Seq(Nat), NEW r \in Seq(Nat)
  PROVE  /\ Bytes(<<>>) = {}
         /\ Bytes(s \o r) = Bytes(s) \cup Bytes(r)
         /\ \A k \in 0..Len(s) :
              Bytes(s) = Bytes(SubSeq(s, 1, k)) \cup Bytes(SubSeq(s, k + 1, Len(s)))
<1>1. Bytes(<<>>) = {}
  BY DEF Bytes
<1>2. Bytes(s \o r) = Bytes(s) \cup Bytes(r)
  <2>1. Len(s \o r) = Len(s) + Len(r) /\ Len(s) \in Nat /\ Len(r) \in Nat
    OBVIOUS
  <2>2. \A k \in 1..Len(s) : (s \o r)[k] = s[k]
    OBVIOUS
  <2>3. \A k \in 1..Len(r) : (s \o r)[Len(s) + k] = r[k]
    OBVIOUS
  <2>4. \A k \in 1..Len(s \o r) :
          k \in 1..Len(s) \/ (k - Len(s) \in 1..Len(r) /\ k = Len(s) + (k - Len(s)))
    BY <2>1
  <2>5. Bytes(s \o r) \subseteq Bytes(s) \cup Bytes(r)
    BY <2>2, <2>3, <2>4 DEF Bytes
  <2>6. Bytes(s) \cup Bytes(r) \subseteq Bytes(s \o r)
    <3>1. \A k \in 1..Len(s) : k \in 1..Len(s \o r)
      BY <2>1
    <3>2. \A k \in 1..Len(r) : Len(s) + k \in 1..Len(s \o r)
      BY <2>1
    <3> QED
      BY <3>1, <3>2, <2>2, <2>3 DEF Bytes
  <2> QED
    BY <2>5, <2>6
<1>3. ASSUME NEW k \in 0..Len(s)
      PROVE  Bytes(s) = Bytes(SubSeq(s, 1, k)) \cup Bytes(SubSeq(s, k + 1, Len(s)))
  <2> DEFINE h == SubSeq(s, 1, k)
             e == SubSeq(s, k + 1, Len(s))
  <2>1. Len(s) \in Nat /\ k \in Nat /\ k <= Len(s)
    OBVIOUS
  <2>2. Len(h) = k /\ \A j \in 1..k : h[j] = s[j]
    BY <2>1, SubSeqProperties
  <2>3. Len(e) = Len(s) - k /\ \A j \in 1..(Len(s) - k) : e[j] = s[k + j]
    <3>1. Len(e) = Len(s) - k /\ \A j \in 1..(Len(s) - k) : e[j] = s[(k + 1) + j - 1]
      BY <2>1, SubSeqProperties
    <3>2. \A j \in 1..(Len(s) - k) : (k + 1) + j - 1 = k + j
      BY <2>1
    <3> QED
      BY <3>1, <3>2
  <2> HIDE DEF h, e
  <2>4. \A j \in 1..Len(s) : j \in 1..k \/ (j - k \in 1..(Len(s) - k) /\ j = k + (j - k))
    BY <2>1
  <2>5. Bytes(s) \subseteq Bytes(h) \cup Bytes(e)
    <3> SUFFICES ASSUME NEW j \in 1..Len(s)
                 PROVE  s[j] \in Bytes(h) \cup Bytes(e)
      BY DEF Bytes
    <3>1. CASE j \in 1..k
      BY <2>2, <3>1 DEF Bytes
    <3>2. CASE j \notin 1..k
      <4>1. j - k \in 1..(Len(s) - k) /\ j = k + (j - k)
        BY <2>4, <3>2
      <4>2. e[j - k] = s[j]
        BY <2>3, <4>1
      <4> QED
        BY <2>3, <4>1, <4>2 DEF Bytes
    <3> QED
      BY <3>1, <3>2
  <2>6. \A j \in 1..k : j \in 1..Len(s)
    BY <2>1
  <2>7. \A j \in 1..(Len(s) - k) : k + j \in 1..Len(s)
    BY <2>1
  <2>8. Bytes(h) \subseteq Bytes(s)
    BY <2>2, <2>6 DEF Bytes
  <2>9. Bytes(e) \subseteq Bytes(s)
    BY <2>3, <2>7 DEF Bytes
  <2> QED
    BY <2>5, <2>8, <2>9 DEF h, e
<1> QED
  BY <1>1, <1>2, <1>3

\* Acceptance lengthens the record of owners by the bytes of the write, which
\* are numbered after all earlier ones, in ascending order.
LEMMA AcceptFacts ==
  ASSUME TypeOK, NEW t \in Tasks, Accept(t)
  PROVE  /\ Len(owner) \in Nat /\ Len(owner') \in Nat /\ Len(owner) <= Len(owner')
         /\ Bytes(NewBytes(t)) = (Len(owner) + 1)..Len(owner')
         /\ Ascending(NewBytes(t))
         /\ \A n \in 1..Len(owner) : owner'[n] = owner[n]
         /\ \A n \in 1..Len(owner') :
              n \in 1..Len(owner) \/ (n \in Bytes(NewBytes(t)) /\ owner'[n] = req[t].inode)
<1> DEFINE m == req[t].len
           r == [k \in 1..m |-> req[t].inode]
<1>1. m \in Nat /\ owner \in Seq(Inodes) /\ Len(owner) \in Nat
  BY DEF TypeOK, SharedTypeOK, TaskTypeOK, Requests
<1>2. r \in Seq({req[t].inode}) /\ Len(r) = m /\ \A k \in 1..m : r[k] = req[t].inode
  BY <1>1
<1>3. /\ owner' = owner \o r
      /\ Len(owner') = Len(owner) + m
      /\ \A k \in 1..Len(owner) : owner'[k] = owner[k]
      /\ \A k \in 1..m : owner'[Len(owner) + k] = r[k]
  <2>1. owner' = owner \o r
    BY DEF Accept
  <2> HIDE DEF r, m
  <2> DEFINE I == Inodes \cup {req[t].inode}
  <2>2. owner \in Seq(I) /\ r \in Seq(I)
    BY <1>1, <1>2
  <2> HIDE DEF I
  <2>3. /\ Len(owner \o r) = Len(owner) + Len(r)
        /\ \A k \in 1..(Len(owner) + Len(r)) :
             (owner \o r)[k] = IF k <= Len(owner) THEN owner[k] ELSE r[k - Len(owner)]
    BY <2>2, ConcatProperties
  <2>4. \A k \in 1..Len(owner) : k \in 1..(Len(owner) + m) /\ k <= Len(owner)
    BY <1>1
  <2>5. \A k \in 1..m : /\ Len(owner) + k \in 1..(Len(owner) + m)
                        /\ ~(Len(owner) + k <= Len(owner)) /\ (Len(owner) + k) - Len(owner) = k
    BY <1>1
  <2> QED
    BY <1>2, <2>1, <2>3, <2>4, <2>5
<1>4. /\ NewBytes(t) = [k \in 1..m |-> Len(owner) + k] /\ NewBytes(t) \in Seq(Nat)
      /\ Len(NewBytes(t)) = m
  BY NewBytesTyped DEF NewBytes
<1> HIDE DEF m, r
<1>5. Bytes(NewBytes(t)) = (Len(owner) + 1)..Len(owner')
  <2>1. Bytes(NewBytes(t)) = {Len(owner) + k : k \in 1..m}
    BY <1>4 DEF Bytes
  <2>2. \A k \in 1..m : Len(owner) + k \in (Len(owner) + 1)..(Len(owner) + m)
    BY <1>1
  <2>3. \A n \in (Len(owner) + 1)..(Len(owner) + m) :
          n - Len(owner) \in 1..m /\ n = Len(owner) + (n - Len(owner))
    BY <1>1
  <2> QED
    BY <1>3, <2>1, <2>2, <2>3
<1>6. Ascending(NewBytes(t))
  BY <1>1, <1>4 DEF Ascending
<1>7. ASSUME NEW n \in 1..Len(owner')
      PROVE  n \in 1..Len(owner) \/ (n \in Bytes(NewBytes(t)) /\ owner'[n] = req[t].inode)
  <2>1. CASE n \in 1..Len(owner)
    BY <2>1
  <2>2. CASE n \notin 1..Len(owner)
    <3>1. n - Len(owner) \in 1..m /\ n = Len(owner) + (n - Len(owner))
          /\ n \in (Len(owner) + 1)..Len(owner')
      BY <1>1, <1>3, <2>2
    <3> QED
      BY <1>2, <1>3, <1>5, <3>1
  <2> QED
    BY <2>1, <2>2
<1> QED
  BY <1>1, <1>3, <1>5, <1>6, <1>7

-----------------------------------------------------------------------------
(* What a step under the Mutex does *)

LockedStep(t) ==
  \/ WriteDirect(t) \/ WriteAppend(t) \/ TruncateBuffer(t)
  \/ FlushNothing(t) \/ FlushMultipart(t) \/ FlushTake(t)
  \/ Put(t) \/ DirectPut(t) \/ EmptyPut(t) \/ PutFails(t)

\* The task goes on with the same request, whatever that carries by now.
SameRequest(t) ==
  /\ req'[t].op = req[t].op /\ req'[t].id = req[t].id /\ req'[t].inode = req[t].inode
  /\ req'[t].arc = req[t].arc /\ req'[t].mark = req[t].mark
  /\ req'[t].size = req[t].size /\ req'[t].len = req[t].len

\* Where the task goes, and what stays as it is.
Shape(t) ==
  /\ pc[t] \in LockedLabels /\ OthersStay(t) /\ UNCHANGED <<buffers, calls>>
  /\ pc'[t] \in LockedLabels \cup {"next", "idle"}
  /\ \A c \in Arcs : c # req[t].arc => buf'[c] = buf[c]
  /\ pc'[t] # "idle" => SameRequest(t)
  /\ pc'[t] = "idle" => req'[t] = NoRequest
  /\ pc'[t] = "next" => req[t].op = "flush_all"

\* The rest of a request's way after flush_buffer.
LEMMA GoOnShape ==
  ASSUME TypeOK, NEW t \in Tasks, GoOn(t)
  PROVE  /\ pc'[t] \in {"direct", "next", "idle"} /\ OthersStay(t)
         /\ pc'[t] # "idle" => req' = req
         /\ pc'[t] = "idle" => req'[t] = NoRequest /\ req[t].own = <<>>
         /\ pc'[t] = "direct" => req[t].own # <<>>
         /\ pc'[t] = "next" => req[t].op = "flush_all"
<1>1. pc \in [Tasks -> Labels] /\ req \in [Tasks -> Requests] /\ OthersStay(t)
  BY GoOnMoves DEF TypeOK, TaskTypeOK
<1>2. CASE req[t].op = "flush_all" /\ Goto(t, "next") /\ UNCHANGED req
  BY <1>1, <1>2 DEF Goto
<1>3. CASE req[t].own # <<>> /\ Goto(t, "direct") /\ UNCHANGED req
  BY <1>1, <1>3 DEF Goto
<1>4. CASE req[t].own = <<>> /\ Return(t, TRUE)
  BY <1>1, <1>4 DEF Return, Goto
<1> QED
  BY <1>1, <1>2, <1>3, <1>4 DEF GoOn

\* Each action under the Mutex has that shape.
LEMMA LockedShape ==
  ASSUME BufferInv, NEW t \in Tasks, LockedStep(t)
  PROVE  Shape(t)
<1>1. pc[t] \in LockedLabels
  BY DEF LockedStep, WriteDirect, WriteAppend, TruncateBuffer, FlushNothing, FlushMultipart,
         FlushTake, Put, DirectPut, EmptyPut, PutFails, LockedLabels
<1>2. /\ TypeOK /\ pc \in [Tasks -> Labels] /\ req \in [Tasks -> Requests]
      /\ req[t] \in Requests /\ req[t].arc \in Arcs /\ buf \in [Arcs -> Buffer]
  BY <1>1, Working DEF BufferInv, TypeOK, TaskTypeOK, SharedTypeOK
<1>3. UNCHANGED <<buffers, calls>>
  BY DEF LockedStep, WriteDirect, WriteAppend, TruncateBuffer, FlushNothing, FlushMultipart,
         FlushTake, Put, DirectPut, EmptyPut, PutFails, history
<1>4. \A c \in Arcs : c # req[t].arc => buf'[c] = buf[c]
  BY <1>2 DEF LockedStep, WriteDirect, WriteAppend, TruncateBuffer, FlushNothing,
              FlushMultipart, FlushTake, Put, DirectPut, EmptyPut, PutFails
<1>5. CASE GoOn(t)
  BY <1>1, <1>2, <1>3, <1>4, <1>5, GoOnShape DEF Shape, SameRequest, LockedLabels
<1>6. CASE \E ok \in BOOLEAN : Return(t, ok)
  <2>1. PICK ok \in BOOLEAN : Return(t, ok)
    BY <1>6
  <2>2. OthersStay(t) /\ pc'[t] = "idle" /\ req'[t] = NoRequest
    BY <1>2, <2>1, ReturnMoves DEF Return
  <2> QED
    BY <1>1, <1>3, <1>4, <2>2 DEF Shape
<1>7. CASE \E l \in LockedLabels : Goto(t, l) /\ UNCHANGED req
  BY <1>1, <1>2, <1>3, <1>4, <1>7 DEF Shape, SameRequest, Goto, OthersStay, LockedLabels
<1>8. CASE WriteDirect(t) \/ FlushTake(t)
  <2>1. /\ Goto(t, "flush") \/ Goto(t, "put")
        /\ \A u \in Tasks : u # t => req'[u] = req[u]
        /\ SameRequest(t)
    BY <1>2, <1>8 DEF WriteDirect, FlushTake, SameRequest, Requests
  <2> QED
    BY <1>1, <1>2, <1>3, <1>4, <2>1 DEF Shape, Goto, OthersStay, LockedLabels
<1> QED
  <2>1. FALSE \in BOOLEAN /\ TRUE \in BOOLEAN /\ "flush" \in LockedLabels /\ "empty" \in LockedLabels
    BY DEF LockedLabels
  <2>2. CASE FlushNothing(t) \/ FlushMultipart(t) \/ Put(t)
    BY <1>5, <2>2 DEF FlushNothing, FlushMultipart, Put
  <2>3. CASE WriteAppend(t) \/ TruncateBuffer(t)
    BY <1>6, <1>7, <2>1, <2>3 DEF WriteAppend, TruncateBuffer
  <2>4. CASE DirectPut(t) \/ EmptyPut(t) \/ PutFails(t)
    BY <1>6, <2>1, <2>4 DEF DirectPut, EmptyPut, PutFails
  <2> QED
    BY <1>8, <2>2, <2>3, <2>4 DEF LockedStep

-----------------------------------------------------------------------------
(* Where bytes go under the Mutex *)

\* What the buffer and the request held, and what was accepted, is held after
\* the step or has left for a reason.
Flow(t) ==
  LET a == req[t].arc IN
  /\ DOMAIN fate' = Fates /\ Left \subseteq Left'
  /\ Len(owner) \in Nat /\ Len(owner') \in Nat /\ Len(owner) <= Len(owner')
  /\ \A n \in 1..Len(owner) : owner'[n] = owner[n]
  /\ \A n \in 1..Len(owner') : n \notin 1..Len(owner) =>
       /\ owner'[n] = req[t].inode
       /\ n \in Bytes(buf'[a].data) \cup Carried(t)' \cup Left'
  /\ Bytes(buf[a].data) \cup Carried(t) \subseteq Bytes(buf'[a].data) \cup Carried(t)' \cup Left'
  /\ pc'[t] # "put" => Bytes(req'[t].data) \subseteq Left'
  /\ req'[t].own # <<>> => req'[t].op = "write" /\ pc'[t] \in {"flush", "put", "direct"}
  /\ pc'[t] = "direct" => req'[t].op = "write"
  /\ pc'[t] = "empty" => req'[t].op = "truncate"

\* A step that neither accepts bytes nor touches the accounts of the past.
LEMMA NoneAccepted ==
  ASSUME TypeOK, UNCHANGED owner
  PROVE  /\ Len(owner) \in Nat /\ Len(owner') \in Nat /\ Len(owner) <= Len(owner')
         /\ \A n \in 1..Len(owner) : owner'[n] = owner[n]
         /\ \A n \in 1..Len(owner') : n \in 1..Len(owner)
  BY DEF TypeOK, SharedTypeOK

\* A request that is over carries nothing.
LEMMA NothingCarried == NoRequest.data = <<>> /\ NoRequest.own = <<>> /\ Bytes(<<>>) = {}
  BY BytesFacts DEF NoRequest, NewRequest, Bytes

\* A write: the new bytes are in the buffer, in parts or in the request.
LEMMA WriteFlow ==
  ASSUME BufferInv, RequestsCarry, NEW t \in Tasks, WriteDirect(t) \/ WriteAppend(t)
  PROVE  Flow(t)
<1> DEFINE a == req[t].arc
<1>1. /\ pc[t] = "body" /\ pc[t] \in LockedLabels /\ TypeOK /\ req[t].op = "write" /\ Accept(t)
      /\ pc \in [Tasks -> Labels] /\ req \in [Tasks -> Requests] /\ buf \in [Arcs -> Buffer]
  BY DEF WriteDirect, WriteAppend, LockedLabels, BufferInv, TypeOK, TaskTypeOK, SharedTypeOK
<1>2. a \in Arcs /\ req[t] \in Requests /\ buf[a] \in Buffer /\ NewBytes(t) \in Seq(Nat)
  BY <1>1, Working, NewBytesTyped
<1>3. /\ DOMAIN fate = Fates /\ Bytes(req[t].data) \subseteq Left
      /\ req[t].own = <<>>
  BY <1>1 DEF RequestsCarry
<1>4. /\ Len(owner) \in Nat /\ Len(owner') \in Nat /\ Len(owner) <= Len(owner')
      /\ \A n \in 1..Len(owner) : owner'[n] = owner[n]
      /\ \A n \in 1..Len(owner') :
           n \in 1..Len(owner) \/ (n \in Bytes(NewBytes(t)) /\ owner'[n] = req[t].inode)
  BY <1>1, AcceptFacts
<1>5. CASE WriteDirect(t)
  <2>1. /\ buf'[a] = Positioned(t) /\ UNCHANGED fate /\ pc'[t] = "flush"
        /\ req'[t].own = NewBytes(t) /\ req'[t].data = req[t].data /\ req'[t].op = "write"
    BY <1>1, <1>2, <1>5 DEF WriteDirect, Goto, Requests, history
  <2>2. buf'[a].data = buf[a].data
    BY <1>1, <2>1, AppendFacts
  <2>3. Left' = Left
    BY <2>1 DEF Left
  <2> QED
    BY <1>3, <1>4, <2>1, <2>2, <2>3, NothingCarried DEF Flow, Carried
<1>6. CASE WriteAppend(t)
  <2> DEFINE d == Appended(t)
  <2>1. /\ buf'[a] = WithoutParts(d)
        /\ fate' = [fate EXCEPT !.parted = @ \cup Bytes(SubSeq(d.data, 1, Parted(d)))]
        /\ \/ pc'[t] = "flush" /\ req' = req
           \/ pc'[t] = "idle" /\ req'[t] = NoRequest
    BY <1>1, <1>2, <1>6 DEF WriteAppend, Goto, Return
  <2>2. d \in Buffer /\ d.data = buf[a].data \o NewBytes(t)
    BY <1>2, <1>1, AppendTyped DEF Appended, Buffer
  <2>3. buf[a].data \in Seq(Nat) /\ d.data \in Seq(Nat)
    BY <1>2, <2>2 DEF Buffer
  <2>4. Bytes(d.data) = Bytes(buf[a].data) \cup Bytes(NewBytes(t))
    BY <1>2, <2>2, <2>3, BytesFacts
  <2>5. /\ Bytes(d.data) = Bytes(SubSeq(d.data, 1, Parted(d))) \cup Bytes(buf'[a].data)
    <3>1. Parted(d) \in 0..Len(d.data)
      BY <2>2, PartsFacts
    <3>2. buf'[a].data = SubSeq(d.data, Parted(d) + 1, Len(d.data))
      BY <2>1, <2>2 DEF WithoutParts, Buffer
    <3> HIDE DEF d
    <3> QED
      BY <2>3, <3>1, <3>2, BytesFacts
  <2> HIDE DEF d
  <2>6. /\ DOMAIN fate' = Fates /\ Left \subseteq Left'
        /\ Bytes(SubSeq(d.data, 1, Parted(d))) \subseteq Left'
    <3>1. /\ DOMAIN fate' = DOMAIN fate
          /\ fate'.parted = fate.parted \cup Bytes(SubSeq(d.data, 1, Parted(d)))
          /\ fate'.stored = fate.stored /\ fate'.failed = fate.failed
          /\ fate'.cut = fate.cut /\ fate'.lost = fate.lost
      BY <1>3, <2>1 DEF Fates
    <3> QED
      BY <1>3, <3>1 DEF Left
  <2> QED
    BY <1>1, <1>3, <1>4, <2>1, <2>4, <2>5, <2>6, NothingCarried DEF Flow, Carried
<1> QED
  BY <1>5, <1>6

\* A truncation: the buffered bytes are cut or lost.
LEMMA TruncateFlow ==
  ASSUME BufferInv, RequestsCarry, NEW t \in Tasks, TruncateBuffer(t)
  PROVE  Flow(t)
<1> DEFINE a == req[t].arc
<1>1. /\ pc[t] = "body" /\ pc[t] \in LockedLabels /\ TypeOK /\ req[t].op = "truncate"
      /\ pc \in [Tasks -> Labels] /\ req \in [Tasks -> Requests] /\ buf \in [Arcs -> Buffer]
  BY DEF TruncateBuffer, LockedLabels, BufferInv, TypeOK, TaskTypeOK, SharedTypeOK
<1>2. a \in Arcs /\ buf[a] \in Buffer
  BY <1>1, Working
<1>3. /\ DOMAIN fate = Fates /\ Bytes(req[t].data) \subseteq Left
      /\ req[t].own = <<>>
  BY <1>1 DEF RequestsCarry
<1>4. DOMAIN fate' = Fates /\ Left \subseteq Left' /\ Bytes(buf[a].data) \subseteq Left'
  <2>1. CASE req[t].size = 0
    <3>1. /\ DOMAIN fate' = DOMAIN fate
          /\ fate'.cut = fate.cut \cup Bytes(buf[a].data)
          /\ fate'.stored = fate.stored /\ fate'.failed = fate.failed
          /\ fate'.parted = fate.parted /\ fate'.lost = fate.lost
      BY <1>3, <2>1 DEF TruncateBuffer, Fates
    <3> QED
      BY <1>3, <3>1 DEF Left
  <2>2. CASE req[t].size # 0
    <3>1. /\ DOMAIN fate' = DOMAIN fate
          /\ fate'.lost = fate.lost \cup Bytes(buf[a].data)
          /\ fate'.stored = fate.stored /\ fate'.failed = fate.failed
          /\ fate'.parted = fate.parted /\ fate'.cut = fate.cut
      BY <1>3, <2>2 DEF TruncateBuffer, Fates
    <3> QED
      BY <1>3, <3>1 DEF Left
  <2> QED
    BY <2>1, <2>2
<1>5. \/ pc'[t] = "empty" /\ req' = req
      \/ pc'[t] = "idle" /\ req'[t] = NoRequest
  BY <1>1 DEF TruncateBuffer, Goto, Return
<1>6. UNCHANGED owner
  BY DEF TruncateBuffer
<1> QED
  BY <1>1, <1>3, <1>4, <1>5, <1>6, NoneAccepted, NothingCarried DEF Flow, Carried

\* flush_buffer up to its PUT: the bytes stay, are sent as the last part, or
\* move to the request.
LEMMA FlushFlow ==
  ASSUME BufferInv, RequestsCarry, NEW t \in Tasks,
         FlushNothing(t) \/ FlushMultipart(t) \/ FlushTake(t)
  PROVE  Flow(t)
<1> DEFINE a == req[t].arc
<1>1. /\ pc[t] = "flush" /\ pc[t] \in LockedLabels /\ TypeOK /\ UNCHANGED owner
      /\ pc \in [Tasks -> Labels] /\ req \in [Tasks -> Requests] /\ buf \in [Arcs -> Buffer]
  BY DEF FlushNothing, FlushMultipart, FlushTake, LockedLabels, BufferInv, TypeOK, TaskTypeOK,
         SharedTypeOK, history
<1>2. a \in Arcs /\ buf[a] \in Buffer /\ req[t] \in Requests
  BY <1>1, Working
<1>3. /\ DOMAIN fate = Fates /\ Bytes(req[t].data) \subseteq Left
      /\ req[t].own # <<>> => req[t].op = "write"
  BY <1>1 DEF RequestsCarry
<1>4. CASE FlushTake(t)
  <2>1. /\ req'[t].data = buf[a].data /\ req'[t].own = req[t].own /\ req'[t].op = req[t].op
        /\ pc'[t] = "put" /\ UNCHANGED fate
    BY <1>1, <1>2, <1>4 DEF FlushTake, Requests, Goto, history
  <2>2. Left' = Left
    BY <2>1 DEF Left
  <2> QED
    BY <1>1, <1>3, <2>1, <2>2, NoneAccepted DEF Flow, Carried
<1>5. CASE FlushNothing(t) \/ FlushMultipart(t)
  <2>1. /\ DOMAIN fate' = Fates /\ Left \subseteq Left'
        /\ Bytes(buf[a].data) \subseteq Bytes(buf'[a].data) \cup Left'
    <3>1. CASE FlushNothing(t)
      BY <1>3, <3>1 DEF FlushNothing, Left
    <3>2. CASE FlushMultipart(t)
      <4>1. /\ DOMAIN fate' = DOMAIN fate
            /\ fate'.parted = fate.parted \cup Bytes(buf[a].data)
            /\ fate'.stored = fate.stored /\ fate'.failed = fate.failed
            /\ fate'.cut = fate.cut /\ fate'.lost = fate.lost
        BY <1>3, <3>2 DEF FlushMultipart, Fates
      <4> QED
        BY <1>3, <4>1 DEF Left
    <3> QED
      BY <1>5, <3>1, <3>2
  <2>2. /\ pc'[t] \in {"direct", "next", "idle"}
        /\ pc'[t] # "idle" => req' = req
        /\ pc'[t] = "idle" => req'[t] = NoRequest /\ req[t].own = <<>>
        /\ pc'[t] = "direct" => req[t].own # <<>>
        /\ pc'[t] = "next" => req[t].op = "flush_all"
    BY <1>1, <1>5, GoOnShape DEF FlushNothing, FlushMultipart
  <2>3. pc'[t] = "next" => req[t].own = <<>>
    BY <1>3, <2>2
  <2> QED
    BY <1>1, <1>3, <2>1, <2>2, <2>3, NoneAccepted, NothingCarried DEF Flow, Carried
<1> QED
  BY <1>4, <1>5

\* The answers to a PUT: what the request carried is stored or has failed.
LEMMA PutFlow ==
  ASSUME BufferInv, RequestsCarry, NEW t \in Tasks,
         Put(t) \/ DirectPut(t) \/ EmptyPut(t) \/ PutFails(t)
  PROVE  Flow(t)
<1> DEFINE a == req[t].arc
<1>1. /\ pc[t] \in {"put", "direct", "empty"} /\ pc[t] \in LockedLabels /\ TypeOK
      /\ UNCHANGED owner
      /\ pc \in [Tasks -> Labels] /\ req \in [Tasks -> Requests] /\ buf \in [Arcs -> Buffer]
  BY DEF Put, DirectPut, EmptyPut, PutFails, LockedLabels, BufferInv, TypeOK, TaskTypeOK,
         SharedTypeOK
<1>2. a \in Arcs /\ buf[a] \in Buffer /\ req[t] \in Requests
  BY <1>1, Working
<1>3. /\ DOMAIN fate = Fates /\ (pc[t] # "put" => Bytes(req[t].data) \subseteq Left)
      /\ req[t].own # <<>> => req[t].op = "write" /\ pc[t] \in {"flush", "put", "direct"}
  BY <1>1 DEF RequestsCarry
<1>4. buf'[a].data = buf[a].data
  BY <1>2, <1>1 DEF Put, DirectPut, EmptyPut, PutFails, Buffer
<1>5. CASE Put(t)
  <2>1. /\ DOMAIN fate' = Fates
        /\ fate'.stored = fate.stored \cup Bytes(req[t].data)
        /\ fate'.parted = fate.parted /\ fate'.failed = fate.failed
        /\ fate'.cut = fate.cut /\ fate'.lost = fate.lost
    BY <1>3, <1>5 DEF Put, Fates
  <2>2. Left \subseteq Left' /\ Bytes(req[t].data) \subseteq Left'
    BY <2>1 DEF Left
  <2>3. /\ pc'[t] \in {"direct", "next", "idle"}
        /\ pc'[t] # "idle" => req' = req
        /\ pc'[t] = "idle" => req'[t] = NoRequest /\ req[t].own = <<>>
        /\ pc'[t] = "direct" => req[t].own # <<>>
        /\ pc'[t] = "next" => req[t].op = "flush_all"
    BY <1>1, <1>5, GoOnShape DEF Put
  <2>4. pc'[t] = "next" => req[t].own = <<>>
    BY <1>3, <2>3
  <2> QED
    BY <1>1, <1>3, <1>4, <2>1, <2>2, <2>3, <2>4, NoneAccepted, NothingCarried DEF Flow, Carried
<1>6. CASE ~Put(t)
  <2>1. DOMAIN fate' = Fates /\ Left \subseteq Left' /\ Carried(t) \subseteq Left'
    <3>1. CASE DirectPut(t)
      <4>1. /\ DOMAIN fate' = Fates
            /\ fate'.stored = fate.stored \cup Bytes(req[t].own)
            /\ fate'.parted = fate.parted /\ fate'.failed = fate.failed
            /\ fate'.cut = fate.cut /\ fate'.lost = fate.lost /\ pc[t] = "direct"
        BY <1>3, <3>1 DEF DirectPut, Fates
      <4> QED
        BY <1>3, <4>1 DEF Left, Carried
    <3>2. CASE EmptyPut(t)
      BY <1>3, <3>2, NothingCarried DEF EmptyPut, Left, Carried
    <3>3. CASE PutFails(t)
      <4>1. /\ DOMAIN fate' = Fates
            /\ fate'.failed = fate.failed \cup Bytes(req[t].data) \cup Bytes(req[t].own)
            /\ fate'.parted = fate.parted /\ fate'.stored = fate.stored
            /\ fate'.cut = fate.cut /\ fate'.lost = fate.lost
        BY <1>3, <3>3 DEF PutFails, Fates
      <4> QED
        BY <4>1 DEF Left, Carried
    <3> QED
      BY <1>6, <3>1, <3>2, <3>3
  <2>2. pc'[t] = "idle" /\ req'[t] = NoRequest
    BY <1>1, <1>6 DEF DirectPut, EmptyPut, PutFails, Return, Goto
  <2> QED
    BY <1>1, <1>4, <2>1, <2>2, NoneAccepted, NothingCarried DEF Flow, Carried
<1> QED
  BY <1>5, <1>6

\* Every step under the Mutex.
LEMMA LockedFlow ==
  ASSUME BufferInv, RequestsCarry, NEW t \in Tasks, LockedStep(t)
  PROVE  Flow(t)
  BY WriteFlow, TruncateFlow, FlushFlow, PutFlow DEF LockedStep

-----------------------------------------------------------------------------
(* What the other steps do *)

\* A task outside the Mutexes carries nothing that is still under way, and
\* leaves the accounts alone.
Outside(t) ==
  /\ pc[t] \notin LockedLabels /\ pc'[t] \notin {"put", "direct", "empty"}
  /\ OthersStay(t) /\ UNCHANGED <<store, owner, fate>>
  /\ Bytes(req'[t].data) \subseteq Left /\ req'[t].data \in {req[t].data, <<>>}
  /\ req'[t].own = <<>>

\* A request arrives, with the next number.
Arrival(t) ==
  /\ Outside(t) /\ UNCHANGED <<buffers, buf>>
  /\ pc[t] = "idle" /\ pc'[t] \in {"entry", "get", "remove", "next"}
  /\ calls \in Nat /\ calls' = calls + 1 /\ req'[t].id = calls'
  /\ UNCHANGED synced /\ req'[t].mark = Len(owner) /\ req'[t].op \in Ops
  /\ pc'[t] = "remove" => req'[t].op = "release"
  /\ pc'[t] = "next" => req'[t].op = "flush_all"
  /\ req'[t].op = "truncate" => req'[t].size \in TruncateSizes
  /\ req'[t].op = "write" => req'[t].len \in Lengths

\* get_or_create finds a buffer or makes one under the request's number.
Creation(t) ==
  LET i == req[t].inode
      a == req[t].id
  IN
  /\ Outside(t) /\ UNCHANGED <<calls, synced>>
  /\ req'[t].op = req[t].op /\ req'[t].mark = req[t].mark
  /\ req'[t].size = req[t].size /\ req'[t].len = req[t].len
  /\ pc[t] = "entry" /\ pc'[t] = "lock"
  /\ a \in Arcs /\ req'[t].id = a /\ req'[t].inode = i /\ i \in Inodes
  /\ \/ i \in DOMAIN buffers /\ req'[t].arc = buffers[i] /\ UNCHANGED <<buffers, buf>>
     \/ /\ i \notin DOMAIN buffers /\ req'[t].arc = a
        /\ DOMAIN buffers' = DOMAIN buffers \cup {i} /\ buffers'[i] = a
        /\ \A j \in DOMAIN buffers : buffers'[j] = buffers[j]
        /\ buf'[a].data = <<>> /\ ~buf'[a].multipart
        /\ \A c \in Arcs : c # a => buf'[c] = buf[c]

\* A task finds a buffer in the map, perhaps removing it, or locks it, or has
\* nothing to do.
Reaching(t) ==
  /\ Outside(t) /\ UNCHANGED <<calls, buf>>
  /\ pc[t] \in {"get", "remove", "next", "lock"} /\ pc'[t] \in {"idle", "lock", "body", "flush"}
  /\ DOMAIN buffers' \subseteq DOMAIN buffers
  /\ \A i \in DOMAIN buffers' : buffers'[i] = buffers[i]
  /\ pc[t] # "remove" => buffers' = buffers
  /\ pc'[t] # "idle" =>
       /\ req'[t].id = req[t].id /\ req'[t].op = req[t].op /\ req'[t].mark = req[t].mark
       /\ req'[t].size = req[t].size /\ req'[t].len = req[t].len
  /\ pc'[t] = "idle" => req'[t] = NoRequest
  /\ \/ UNCHANGED synced
     \/ /\ req[t].inode \in Inodes \ DOMAIN buffers
        /\ synced' = [synced EXCEPT ![req[t].inode] = Maximum(@, req[t].mark)]
     \/ pc[t] = "next" /\ req[t].op # "flush_all"
  /\ pc'[t] = "lock" =>
       /\ req'[t].inode \in DOMAIN buffers /\ req'[t].arc = buffers[req'[t].inode]
  /\ pc'[t] \in {"body", "flush"} => pc[t] = "lock" /\ req' = req

\* Where a task outside the Mutexes starts from.
LEMMA OutsideFacts ==
  ASSUME BufferInv, RequestsCarry, NEW t \in Tasks, pc[t] \notin LockedLabels
  PROVE  /\ pc \in [Tasks -> Labels] /\ req \in [Tasks -> Requests] /\ req[t] \in Requests
         /\ Bytes(req[t].data) \subseteq Left /\ req[t].own = <<>>
         /\ Bytes(NoRequest.data) \subseteq Left /\ NoRequest.data = <<>> /\ NoRequest.own = <<>>
  BY NothingCarried
     DEF BufferInv, TypeOK, TaskTypeOK, RequestsCarry, LockedLabels

\* A request arrives.
LEMMA RequestShape ==
  ASSUME BufferInv, RequestsCarry, NEW t \in Tasks,
         NEW l \in {"entry", "get", "remove", "next"}, NEW op, NEW i, NEW offset, NEW len,
         NEW size, NEW todo, Request(t, l, op, i, offset, len, size, todo),
         l = "remove" => op = "release", l = "next" => op = "flush_all",
         op = "truncate" => size \in TruncateSizes, op = "write" => len \in Lengths
  PROVE  Arrival(t)
<1> DEFINE r == NewRequest(op, calls + 1, i, offset, len, size, Len(owner), todo)
<1>2. /\ pc[t] = "idle" /\ calls' = calls + 1 /\ Goto(t, l)
      /\ req' = [req EXCEPT ![t] = r]
      /\ UNCHANGED <<buffers, buf, store, owner, fate, synced>> /\ op \in Ops
  BY DEF Request, history
<1>3. /\ r.id = calls + 1 /\ r.own = <<>> /\ r.data = <<>>
      /\ r.op = op /\ r.mark = Len(owner) /\ r.size = size /\ r.len = len
  BY DEF NewRequest
<1> HIDE DEF r
<1>4. pc[t] \notin LockedLabels /\ calls \in Nat
  BY <1>2 DEF LockedLabels, BufferInv, TypeOK, SharedTypeOK
<1>5. pc \in [Tasks -> Labels] /\ req \in [Tasks -> Requests]
  BY <1>4, OutsideFacts
<1>6. pc'[t] = l /\ req'[t] = r /\ OthersStay(t)
  BY <1>2, <1>5 DEF Goto, OthersStay
<1> QED
  BY <1>2, <1>3, <1>4, <1>6, NothingCarried DEF Arrival, Outside

\* Each way a request arrives.
LEMMA ArrivalShape ==
  ASSUME BufferInv, RequestsCarry, NEW t \in Tasks, Arrive(t) \/ ArriveForAll(t)
  PROVE  Arrival(t)
<1>1. CASE Arrive(t)
  BY <1>1, RequestShape DEF Arrive, Write, Truncate, Flush, Release
<1>2. CASE ArriveForAll(t)
  BY <1>2, RequestShape DEF ArriveForAll, FlushAll
<1> QED
  BY <1>1, <1>2

\* get_or_create.
LEMMA CreationShape ==
  ASSUME BufferInv, RequestsCarry, NEW t \in Tasks, Entry(t)
  PROVE  Creation(t)
<1>1. pc[t] = "entry" /\ pc[t] \notin LockedLabels /\ Goto(t, "lock")
      /\ UNCHANGED <<store, calls, owner, fate, synced>>
  BY DEF Entry, LockedLabels, history
<1>2. /\ pc \in [Tasks -> Labels] /\ req \in [Tasks -> Requests] /\ req[t] \in Requests
      /\ Bytes(req[t].data) \subseteq Left /\ req[t].own = <<>>
  BY <1>1, OutsideFacts
<1>3. req[t].id \in Arcs /\ req[t].inode \in Inodes /\ buf \in [Arcs -> Buffer]
  BY <1>1 DEF BufferInv, TypeOK, TaskTypeOK, SharedTypeOK
<1>4. PICK a : /\ req' = [req EXCEPT ![t].arc = a]
               /\ \/ req[t].inode \in DOMAIN buffers /\ a = buffers[req[t].inode]
                     /\ UNCHANGED <<buffers, buf>>
                  \/ /\ req[t].inode \notin DOMAIN buffers /\ a = req[t].id
                     /\ buffers' = Insert(buffers, req[t].inode, req[t].id)
                     /\ buf' = [buf EXCEPT ![req[t].id] = NewBuffer(req[t].size)]
  BY DEF Entry
<1>5. /\ req'[t].id = req[t].id /\ req'[t].inode = req[t].inode /\ req'[t].arc = a
      /\ req'[t].data = req[t].data /\ req'[t].own = req[t].own
      /\ req'[t].op = req[t].op /\ req'[t].mark = req[t].mark
      /\ req'[t].size = req[t].size /\ req'[t].len = req[t].len
      /\ pc'[t] = "lock" /\ OthersStay(t)
  BY <1>1, <1>2, <1>4 DEF Goto, OthersStay, Requests
<1>6. Outside(t)
  BY <1>1, <1>2, <1>5 DEF Outside
<1>7. CASE UNCHANGED <<buffers, buf>> /\ req[t].inode \in DOMAIN buffers
  BY <1>1, <1>3, <1>4, <1>5, <1>6, <1>7 DEF Creation
<1>8. CASE req[t].inode \notin DOMAIN buffers
  <2>1. /\ buffers' = Insert(buffers, req[t].inode, req[t].id) /\ a = req[t].id
        /\ buf' = [buf EXCEPT ![req[t].id] = NewBuffer(req[t].size)]
    BY <1>4, <1>8
  <2>2. /\ DOMAIN buffers' = DOMAIN buffers \cup {req[t].inode}
        /\ buffers'[req[t].inode] = req[t].id
        /\ \A j \in DOMAIN buffers : buffers'[j] = buffers[j]
    BY <1>8, <2>1 DEF Insert
  <2>3. buf'[req[t].id].data = <<>> /\ ~buf'[req[t].id].multipart
        /\ \A c \in Arcs : c # req[t].id => buf'[c] = buf[c]
    BY <1>3, <2>1 DEF NewBuffer
  <2> QED
    BY <1>1, <1>3, <1>5, <1>6, <1>8, <2>1, <2>2, <2>3 DEF Creation
<1> QED
  BY <1>4, <1>7, <1>8

\* The way to an existing buffer and its Mutex.
LEMMA ReachingShape ==
  ASSUME BufferInv, RequestsCarry, NEW t \in Tasks,
         FlushGet(t) \/ ReleaseRemove(t) \/ FlushAllNext(t) \/ Acquire(t)
  PROVE  Reaching(t)
<1>1. /\ pc[t] \in {"get", "remove", "next", "lock"} /\ pc[t] \notin LockedLabels
      /\ UNCHANGED <<calls, buf, store, owner, fate>>
      /\ pc[t] # "remove" => buffers' = buffers
  BY DEF FlushGet, ReleaseRemove, FlushAllNext, Acquire, LockedLabels, history
<1>2. /\ pc \in [Tasks -> Labels] /\ req \in [Tasks -> Requests] /\ req[t] \in Requests
      /\ Bytes(req[t].data) \subseteq Left /\ req[t].own = <<>>
      /\ Bytes(NoRequest.data) \subseteq Left /\ NoRequest.data = <<>> /\ NoRequest.own = <<>>
  BY <1>1, OutsideFacts
<1>3. /\ DOMAIN buffers' \subseteq DOMAIN buffers
      /\ \A i \in DOMAIN buffers' : buffers'[i] = buffers[i]
  BY <1>1 DEF ReleaseRemove, Remove, FlushGet, FlushAllNext, Acquire
<1>4. CASE Return(t, TRUE)
  <2>1. OthersStay(t) /\ pc'[t] = "idle" /\ req'[t] = NoRequest
    BY <1>2, <1>4, ReturnMoves DEF Return, BufferInv
  <2>2. \/ UNCHANGED synced
        \/ /\ req[t].inode \in Inodes \ DOMAIN buffers
           /\ synced' = [synced EXCEPT ![req[t].inode] = Maximum(@, req[t].mark)]
        \/ pc[t] = "next" /\ req[t].op # "flush_all"
    <3>1. CASE req[t].op \notin {"flush", "release"}
      BY <1>4, <3>1 DEF Return
    <3>2. CASE req[t].op \in {"flush", "release"}
      <4>1. synced' = [synced EXCEPT ![req[t].inode] = Maximum(@, req[t].mark)]
        BY <1>4, <3>2 DEF Return
      <4>2. CASE FlushGet(t) \/ ReleaseRemove(t)
        <5>1. req[t].inode \in Inodes
          BY <1>1, <4>2 DEF FlushGet, ReleaseRemove, BufferInv, TypeOK, TaskTypeOK
        <5>2. req[t].inode \notin DOMAIN buffers
          BY <2>1, <4>2, <1>2 DEF FlushGet, ReleaseRemove, Goto
        <5> QED
          BY <4>1, <5>1, <5>2
      <4>3. CASE FlushAllNext(t) \/ Acquire(t)
        BY <1>2, <2>1, <3>2, <4>3 DEF FlushAllNext, Acquire, Goto
      <4> QED
        BY <4>2, <4>3
    <3> QED
      BY <3>1, <3>2
  <2> QED
    BY <1>1, <1>2, <1>3, <2>1, <2>2 DEF Reaching, Outside
<1>5. CASE Acquire(t)
  <2>1. pc'[t] \in {"body", "flush"} /\ req' = req /\ OthersStay(t) /\ pc[t] = "lock"
        /\ UNCHANGED synced
    BY <1>2, <1>5 DEF Acquire, Goto, OthersStay, history
  <2> QED
    BY <1>1, <1>2, <1>3, <2>1 DEF Reaching, Outside
<1>6. CASE ~Return(t, TRUE) /\ ~Acquire(t)
  <2>1. /\ pc'[t] = "lock" /\ OthersStay(t) /\ req'[t].id = req[t].id
        /\ req'[t].inode \in DOMAIN buffers /\ req'[t].arc = buffers[req'[t].inode]
        /\ req'[t].data = req[t].data /\ req'[t].own = req[t].own
        /\ req'[t].op = req[t].op /\ req'[t].mark = req[t].mark /\ UNCHANGED synced
        /\ req'[t].size = req[t].size /\ req'[t].len = req[t].len
    <3>1. CASE FlushGet(t) \/ ReleaseRemove(t)
      <4>1. /\ req[t].inode \in DOMAIN buffers /\ Goto(t, "lock") /\ UNCHANGED synced
            /\ req' = [req EXCEPT ![t] = [req[t] EXCEPT !.arc = buffers[req[t].inode]]]
        BY <1>6, <3>1 DEF FlushGet, ReleaseRemove
      <4> QED
        BY <1>2, <4>1 DEF Goto, OthersStay, Requests
    <3>2. CASE FlushAllNext(t)
      <4>1. PICK i \in DOMAIN buffers :
              /\ Goto(t, "lock") /\ UNCHANGED synced
              /\ req' = [req EXCEPT ![t] = [req[t] EXCEPT !.inode = i, !.arc = buffers[i],
                                                        !.todo = req[t].todo \ {i}]]
        BY <1>2, <1>6, <3>2 DEF FlushAllNext
      <4> QED
        BY <1>2, <4>1 DEF Goto, OthersStay, Requests
    <3> QED
      BY <1>1, <1>6, <3>1, <3>2
  <2> QED
    BY <1>1, <1>2, <1>3, <2>1 DEF Reaching, Outside
<1> QED
  BY <1>4, <1>5, <1>6

\* Every step of the specification is of one of these kinds.
LEMMA StepKinds ==
  ASSUME BufferInv, RequestsCarry, [Next]_vars
  PROVE  \/ \E t \in Tasks : Arrival(t) \/ Creation(t) \/ Reaching(t)
         \/ \E t \in Tasks : LockedStep(t)
         \/ UNCHANGED vars
<1>1. ASSUME NEW t \in Tasks, Arrive(t) \/ ArriveForAll(t)
      PROVE  Arrival(t)
  BY <1>1, ArrivalShape
<1>2. ASSUME NEW t \in Tasks, Advance(t)
      PROVE  Creation(t) \/ Reaching(t) \/ LockedStep(t)
  BY <1>2, CreationShape, ReachingShape DEF Advance, Progress, LockedStep
<1> QED
  BY <1>1, <1>2 DEF Next, Run, Exhausted

-----------------------------------------------------------------------------
(* Numbers stay fresh *)

\* A step that gives its task a new number at most, and uses no unused buffer.
LEMMA FreshStep ==
  ASSUME BufferInv, NumbersFresh, NEW t \in Tasks, OthersStay(t),
         calls \in Nat, calls' \in Nat,
         \/ calls' = calls /\ (pc'[t] # "idle" => pc[t] # "idle" /\ req'[t].id = req[t].id)
         \/ calls' = calls + 1 /\ req'[t].id = calls',
         pc'[t] = "entry" => req'[t].id > calls,
         \A a \in Arcs : Unused(a)' /\ Unused(a) =>
           /\ buf'[a].data = <<>>
           /\ pc'[t] \in AtWork => req'[t].arc # a
           /\ \A i \in DOMAIN buffers' : buffers'[i] # a
  PROVE  NumbersFresh'
<1>1. \A u \in Tasks : u # t => pc'[u] = pc[u] /\ req'[u] = req[u]
  BY DEF OthersStay
<1>2. \A u \in Tasks : pc[u] # "idle" => req[u].id \in Nat /\ req[u].id <= calls
  BY SizesAssumption DEF NumbersFresh, BufferInv, TypeOK, TaskTypeOK, Arcs
<1>3. ASSUME NEW u \in Tasks, pc'[u] # "idle" PROVE req'[u].id <= calls'
  <2>1. CASE u = t
    BY <1>2, <1>3, <2>1
  <2>2. CASE u # t
    BY <1>1, <1>2, <1>3, <2>2
  <2> QED
    BY <2>1, <2>2
<1>4. ASSUME NEW u \in Tasks, NEW v \in Tasks, pc'[u] # "idle", pc'[v] # "idle",
             req'[u].id = req'[v].id
      PROVE  u = v
  <2>1. CASE calls' = calls /\ (pc'[t] # "idle" => pc[t] # "idle" /\ req'[t].id = req[t].id)
    BY <1>1, <1>4, <2>1 DEF NumbersFresh
  <2>2. CASE calls' = calls + 1 /\ req'[t].id = calls'
    <3>1. CASE u # t /\ v # t
      BY <1>1, <1>4, <3>1 DEF NumbersFresh
    <3>2. CASE u = t /\ v # t
      BY <1>1, <1>2, <1>4, <2>2, <3>2
    <3>3. CASE u # t /\ v = t
      BY <1>1, <1>2, <1>4, <2>2, <3>3
    <3> QED
      BY <3>1, <3>2, <3>3
  <2> QED
    BY <2>1, <2>2
<1>5. ASSUME NEW a \in Arcs, Unused(a)'
      PROVE  /\ buf'[a].data = <<>>
             /\ \A u \in Tasks : pc'[u] \in AtWork => req'[u].arc # a
             /\ \A i \in DOMAIN buffers' : buffers'[i] # a
  <2>1. Unused(a)
    <3>1. CASE a > calls'
      BY <3>1, SizesAssumption DEF Unused, Arcs
    <3>2. CASE \E u \in Tasks : pc'[u] = "entry" /\ req'[u].id = a
      BY <1>1, <3>2 DEF Unused
    <3> QED
      BY <1>5, <3>1, <3>2 DEF Unused
  <2>2. \A u \in Tasks : u # t /\ pc'[u] \in AtWork => req'[u].arc # a
    BY <1>1, <2>1 DEF NumbersFresh
  <2> QED
    BY <1>5, <2>1, <2>2
<1> QED
  BY <1>3, <1>4, <1>5 DEF NumbersFresh

\* Every kind of step keeps the numbers fresh.
LEMMA NumbersStep ==
  ASSUME BufferInv, RequestsCarry, NumbersFresh, NEW t \in Tasks,
         Arrival(t) \/ Creation(t) \/ Reaching(t) \/ LockedStep(t)
  PROVE  NumbersFresh'
<1>1. calls \in Nat
  BY DEF BufferInv, TypeOK, SharedTypeOK
<1>2. CASE Arrival(t)
  <2>1. \A a \in Arcs : Unused(a) =>
           /\ buf'[a].data = <<>>
           /\ pc'[t] \in AtWork => req'[t].arc # a
           /\ \A i \in DOMAIN buffers' : buffers'[i] # a
    BY <1>2 DEF Arrival, NumbersFresh, AtWork, LockedLabels
  <2> QED
    BY <1>1, <1>2, <2>1, FreshStep DEF Arrival, Outside
<1>3. CASE Creation(t)
  <2>1. req[t].id <= calls
    BY <1>3 DEF Creation, NumbersFresh
  <2>2. ASSUME NEW a \in Arcs, Unused(a)' PROVE a # req[t].id
    <3>1. CASE a > calls
      BY <1>1, <2>1, <3>1, SizesAssumption DEF Arcs
    <3>2. CASE ~(a > calls)
      <4>1. PICK u \in Tasks : pc'[u] = "entry" /\ req'[u].id = a
        BY <1>3, <2>2, <3>2 DEF Unused, Creation
      <4>2. u # t /\ pc[u] = "entry" /\ req[u].id = a
        BY <1>3, <4>1 DEF Creation, Outside, OthersStay
      <4> QED
        BY <1>3, <4>2 DEF NumbersFresh, Creation
    <3> QED
      BY <3>1, <3>2
  <2>3. ASSUME NEW a \in Arcs, Unused(a)', Unused(a)
        PROVE  /\ buf'[a].data = <<>>
               /\ pc'[t] \in AtWork => req'[t].arc # a
               /\ \A i \in DOMAIN buffers' : buffers'[i] # a
    <3>1. a # req[t].id
      BY <2>2, <2>3
    <3>2. buf[a].data = <<>> /\ \A i \in DOMAIN buffers : buffers[i] # a
      BY <2>3 DEF NumbersFresh
    <3> QED
      BY <1>3, <3>1, <3>2 DEF Creation
  <2> QED
    BY <1>1, <1>3, <2>3, FreshStep DEF Creation, Outside
<1>4. CASE Reaching(t)
  <2>1. ASSUME NEW a \in Arcs, Unused(a)
        PROVE  /\ buf'[a].data = <<>>
               /\ pc'[t] \in AtWork => req'[t].arc # a
               /\ \A i \in DOMAIN buffers' : buffers'[i] # a
    <3>1. /\ buf[a].data = <<>> /\ \A i \in DOMAIN buffers : buffers[i] # a
          /\ pc[t] \in AtWork => req[t].arc # a
      BY <2>1 DEF NumbersFresh
    <3> QED
      BY <1>4, <3>1 DEF Reaching, AtWork, LockedLabels
  <2> QED
    BY <1>1, <1>4, <2>1, FreshStep DEF Reaching, Outside
<1>5. CASE LockedStep(t)
  <2>1. Shape(t)
    BY <1>5, LockedShape
  <2>2. ASSUME NEW a \in Arcs, Unused(a)
        PROVE  /\ buf'[a].data = <<>>
               /\ pc'[t] \in AtWork => req'[t].arc # a
               /\ \A i \in DOMAIN buffers' : buffers'[i] # a
    <3>1. buf[a].data = <<>> /\ req[t].arc # a /\ \A i \in DOMAIN buffers : buffers[i] # a
      BY <2>1, <2>2 DEF NumbersFresh, Shape, AtWork
    <3> QED
      BY <2>1, <3>1 DEF Shape, SameRequest, AtWork, LockedLabels
  <2>3. pc[t] # "idle" /\ calls' = calls /\ pc'[t] # "entry"
        /\ (pc'[t] # "idle" => req'[t].id = req[t].id) /\ OthersStay(t)
    BY <2>1 DEF Shape, SameRequest, LockedLabels
  <2> QED
    BY <1>1, <2>2, <2>3, FreshStep
<1> QED
  BY <1>2, <1>3, <1>4, <1>5

\* Requests carry what they should.
LEMMA CarryStep ==
  ASSUME BufferInv, RequestsCarry, NEW t \in Tasks,
         Arrival(t) \/ Creation(t) \/ Reaching(t) \/ LockedStep(t)
  PROVE  RequestsCarry'
<1>1. CASE LockedStep(t)
  <2>1. Flow(t) /\ OthersStay(t)
    BY <1>1, LockedFlow, LockedShape DEF Shape
  <2> QED
    BY <2>1 DEF RequestsCarry, Flow, OthersStay
<1>2. CASE Outside(t)
  <2>1. Left' = Left
    BY <1>2 DEF Outside, Left
  <2> QED
    BY <1>2, <2>1 DEF RequestsCarry, Outside, OthersStay
<1> QED
  BY <1>1, <1>2 DEF Arrival, Creation, Reaching

\* A byte that is accounted for stays so, and so are the bytes of a write.
LEMMA AccountStep ==
  ASSUME AccountInv, NEW t \in Tasks,
         Arrival(t) \/ Creation(t) \/ Reaching(t) \/ LockedStep(t)
  PROVE  BytesAccountedFor'
<1> USE DEF AccountInv
<1> DEFINE Somewhere(n) ==
             \/ \E a \in Arcs : n \in Bytes(buf[a].data)
             \/ \E u \in Tasks : n \in Carried(u)
             \/ n \in Left
<1>1. \A n \in 1..Len(owner) : Somewhere(n)
  BY DEF BytesAccountedFor, Carried, Left
<1>2. SUFFICES ASSUME NEW n \in 1..Len(owner')
               PROVE  \/ \E a \in Arcs : n \in Bytes(buf'[a].data)
                      \/ \E u \in Tasks : n \in Carried(u)'
                      \/ n \in Left'
  BY DEF BytesAccountedFor, Carried, Left
<1>3. CASE LockedStep(t)
  <2>1. Flow(t) /\ Shape(t) /\ req[t].arc \in Arcs
    BY <1>3, LockedFlow, LockedShape, Working DEF Shape, BufferInv
  <2>2. \A u \in Tasks : u # t => Carried(u)' = Carried(u)
    BY <2>1 DEF Shape, OthersStay, Carried
  <2>3. CASE n \in 1..Len(owner)
    <3>1. CASE n \in Bytes(buf[req[t].arc].data) \cup Carried(t)
      BY <2>1, <3>1 DEF Flow
    <3>2. CASE \E a \in Arcs : a # req[t].arc /\ n \in Bytes(buf[a].data)
      BY <2>1, <3>2 DEF Shape
    <3>3. CASE \E u \in Tasks : u # t /\ n \in Carried(u)
      BY <2>2, <3>3
    <3>4. CASE n \in Left
      BY <2>1, <3>4 DEF Flow
    <3> QED
      BY <1>1, <2>3, <3>1, <3>2, <3>3, <3>4
  <2>4. CASE n \notin 1..Len(owner)
    BY <2>1, <2>4 DEF Flow
  <2> QED
    BY <2>3, <2>4
<1>4. CASE Outside(t)
  <2>1. Left' = Left /\ n \in 1..Len(owner)
    BY <1>4 DEF Outside, Left
  <2>2. \A u \in Tasks : u # t => Carried(u)' = Carried(u)
    BY <1>4 DEF Outside, OthersStay, Carried
  <2>3. Carried(t) \subseteq Left
    BY <1>4, OutsideFacts, NothingCarried DEF Outside, Carried
  <2>4. \A a \in Arcs : Bytes(buf[a].data) \subseteq Bytes(buf'[a].data)
    <3>1. CASE Creation(t)
      <4>1. Unused(req[t].id) /\ buf[req[t].id].data = <<>>
        BY <3>1 DEF Creation, NumbersFresh, Unused
      <4> QED
        BY <3>1, <4>1, NothingCarried DEF Creation
    <3>2. CASE Arrival(t) \/ Reaching(t)
      BY <3>2 DEF Arrival, Reaching
    <3>3. ~LockedStep(t)
      BY <1>4, LockedShape DEF Outside, Shape
    <3> QED
      BY <3>1, <3>2, <3>3
  <2> QED
    BY <1>1, <2>1, <2>2, <2>3, <2>4
<1> QED
  BY <1>3, <1>4 DEF Arrival, Creation, Reaching

\* The initial state.
LEMMA InitAccount == Init => AccountInv
<1> SUFFICES ASSUME Init PROVE AccountInv
  OBVIOUS
<1>1. RequestsCarry
  BY NothingCarried DEF Init, RequestsCarry, Fates
<1>2. NumbersFresh
  BY DEF Init, NumbersFresh, NewBuffer, AtWork, LockedLabels, EmptyMap
<1>3. BytesAccountedFor
  BY DEF Init, BytesAccountedFor
<1> QED
  BY <1>1, <1>2, <1>3, InitBuffer DEF AccountInv

\* Every step keeps the accounts.
LEMMA StepAccount == AccountInv /\ [Next]_vars => AccountInv'
<1> SUFFICES ASSUME AccountInv, [Next]_vars PROVE AccountInv'
  OBVIOUS
<1>1. BufferInv /\ RequestsCarry /\ NumbersFresh /\ BufferInv'
  BY StepBuffer DEF AccountInv
<1>2. ASSUME NEW t \in Tasks, Arrival(t) \/ Creation(t) \/ Reaching(t) \/ LockedStep(t)
      PROVE  RequestsCarry' /\ NumbersFresh' /\ BytesAccountedFor'
  BY <1>1, <1>2, CarryStep, NumbersStep, AccountStep
<1>3. CASE UNCHANGED vars
  <2>1. RequestsCarry' /\ BytesAccountedFor'
    BY <1>1, <1>3 DEF AccountInv, vars, RequestsCarry, BytesAccountedFor, Left
  <2>2. NumbersFresh'
    BY <1>1, <1>3 DEF vars, NumbersFresh, Unused
  <2> QED
    BY <1>1, <2>1, <2>2 DEF AccountInv
<1> QED
  BY <1>1, <1>2, <1>3, StepKinds DEF AccountInv

\* The accounts are right in every behaviour.
THEOREM AccountInvariant == Spec => []AccountInv
  BY InitAccount, StepAccount, PTL DEF Spec

\* Every accepted byte is in a buffer, in a PUT under way, or left the buffers
\* for one of the reasons the code has, whatever requests interleave and
\* whichever PUTs fail (write_buffer.rs, every path of write, flush_buffer,
\* release and truncate).
THEOREM NoByteDropped == Spec => []BytesAccountedFor
<1>1. AccountInv => BytesAccountedFor
  BY DEF AccountInv
<1> QED
  BY <1>1, AccountInvariant, PTL

-----------------------------------------------------------------------------
(* Whose a buffer is.  release may take it out of the map while others still    *)
(* work on it, and a new one be made for the inode: it never becomes another's. *)

\* The buffer is the inode's: in the map, or in the hands of a request for it.
Holds(a, i) ==
  \/ i \in DOMAIN buffers /\ buffers[i] = a
  \/ \E t \in Tasks : pc[t] \in AtWork /\ req[t].arc = a /\ req[t].inode = i

OneHome == \A a \in Arcs, i, j \in Inodes : Holds(a, i) /\ Holds(a, j) => i = j

\* Nobody has a buffer that was not made.
LEMMA UnusedFree ==
  ASSUME NumbersFresh, NEW a \in Arcs, Unused(a)
  PROVE  \A i : ~Holds(a, i)
BY DEF NumbersFresh, Holds

\* A step that gives an inode a buffer makes it, and it is empty.
LEMMA HoldersStep ==
  ASSUME AccountInv, NEW t \in Tasks,
         Arrival(t) \/ Creation(t) \/ Reaching(t) \/ LockedStep(t),
         NEW a \in Arcs, NEW i, Holds(a, i)', ~Holds(a, i)
  PROVE  Creation(t) /\ Unused(a) /\ a = req[t].id /\ i = req[t].inode
         /\ buf'[a].data = <<>>
<1>1. BufferInv /\ RequestsCarry /\ NumbersFresh
  BY DEF AccountInv
<1>2. OthersStay(t)
  BY <1>1, LockedShape DEF Shape, Arrival, Creation, Reaching, Outside
<1>3. \A u \in Tasks : u # t => pc'[u] = pc[u] /\ req'[u] = req[u]
  BY <1>2 DEF OthersStay
<1>4. \/ i \in DOMAIN buffers' /\ buffers'[i] = a
      \/ pc'[t] \in AtWork /\ req'[t].arc = a /\ req'[t].inode = i
  BY <1>3 DEF Holds
<1>5. CASE Arrival(t)
  BY <1>4, <1>5 DEF Arrival, AtWork, LockedLabels, Holds
<1>6. CASE Reaching(t)
  <2>1. ~(i \in DOMAIN buffers' /\ buffers'[i] = a)
    BY <1>6 DEF Reaching, Holds
  <2>2. pc'[t] \in AtWork /\ req'[t].arc = a /\ req'[t].inode = i
    BY <1>4, <2>1
  <2>3. CASE pc'[t] = "lock"
    BY <1>6, <2>2, <2>3 DEF Reaching, Holds
  <2>4. CASE pc'[t] \in {"body", "flush"}
    BY <1>6, <2>2, <2>4 DEF Reaching, Holds, AtWork
  <2> QED
    BY <1>6, <2>2, <2>3, <2>4 DEF Reaching, AtWork, LockedLabels
<1>7. CASE LockedStep(t)
  <2>1. Shape(t)
    BY <1>1, <1>7, LockedShape
  <2> QED
    BY <1>4, <2>1 DEF Shape, SameRequest, Holds, AtWork, LockedLabels
<1>8. CASE Creation(t)
  <2>1. CASE req[t].inode \in DOMAIN buffers
    BY <1>4, <1>8, <2>1 DEF Creation, Holds
  <2>2. CASE req[t].inode \notin DOMAIN buffers
    BY <1>4, <1>8, <2>2 DEF Creation, Holds, Unused
  <2> QED
    BY <2>1, <2>2
<1> QED
  BY <1>5, <1>6, <1>7, <1>8

LEMMA HomeStep ==
  ASSUME AccountInv, OneHome, NEW t \in Tasks,
         Arrival(t) \/ Creation(t) \/ Reaching(t) \/ LockedStep(t)
  PROVE  OneHome'
<1> SUFFICES ASSUME NEW a \in Arcs, NEW i \in Inodes, NEW j \in Inodes,
                    Holds(a, i)', Holds(a, j)'
             PROVE  i = j
  BY DEF OneHome
<1>1. CASE Holds(a, i) /\ Holds(a, j)
  BY <1>1 DEF OneHome
<1>2. CASE ~Holds(a, i) /\ ~Holds(a, j)
  BY <1>2, HoldersStep
<1>3. \A k, l : ~(Holds(a, k) /\ ~Holds(a, l) /\ Holds(a, l)')
  BY HoldersStep, UnusedFree DEF AccountInv
<1> QED
  BY <1>1, <1>2, <1>3

\* A buffer serves one inode all its life, whatever releases overtake the requests
\* that got hold of it: no request's bytes are sent to another file's object
\* (write_buffer.rs, get_or_create and release).
THEOREM BuffersHaveOneHome == Spec => [](AccountInv /\ OneHome)
<1>1. Init => OneHome
  BY DEF Init, OneHome, Holds, EmptyMap, AtWork, LockedLabels
<1>2. AccountInv /\ OneHome /\ [Next]_vars => OneHome'
  <2> SUFFICES ASSUME AccountInv, OneHome, [Next]_vars PROVE OneHome'
    OBVIOUS
  <2>1. CASE UNCHANGED vars
    BY <2>1 DEF vars, OneHome, Holds
  <2> QED
    BY <2>1, StepKinds, HomeStep DEF AccountInv
<1> QED
  BY <1>1, <1>2, InitAccount, StepAccount, PTL DEF Spec

\* Under the Mutex: only the PUT changes the store, and only the task's own
\* object; only a write fills an empty buffer; and a PUT carries what was in one.
LEMMA LockedEffects ==
  ASSUME AccountInv, NEW t \in Tasks, LockedStep(t)
  PROVE  /\ \A p \in Paths : store'[p] # store[p] =>
              /\ p = Path(t)
              /\ \/ pc[t] = "put"
                 \/ pc[t] = "direct" /\ req[t].op = "write"
                 \/ pc[t] = "empty" /\ req[t].op = "truncate"
         /\ \A a \in Arcs : buf[a].data = <<>> /\ buf'[a].data # <<>> =>
              a = req[t].arc /\ req[t].op = "write"
         /\ pc'[t] = "put" => buf[req[t].arc].data # <<>> /\ req'[t].inode = req[t].inode
<1>1. BufferInv /\ RequestsCarry /\ Shape(t)
  BY LockedShape DEF AccountInv
<1>2. /\ TypeOK /\ store \in [Paths -> Seq(Nat)] /\ pc \in [Tasks -> Labels]
      /\ req \in [Tasks -> Requests] /\ buf \in [Arcs -> Buffer] /\ req[t].arc \in Arcs
  BY <1>1, Working DEF BufferInv, TypeOK, SharedTypeOK, TaskTypeOK, Shape
<1>3. ASSUME NEW p \in Paths, store'[p] # store[p]
      PROVE  p = Path(t) /\ pc[t] \in {"put", "direct", "empty"}
  BY <1>2, <1>3 DEF LockedStep, WriteDirect, WriteAppend, TruncateBuffer, FlushNothing,
     FlushMultipart, FlushTake, Put, DirectPut, EmptyPut, PutFails, history
<1>4. ASSUME NEW a \in Arcs, buf[a].data = <<>>, buf'[a].data # <<>>
      PROVE  a = req[t].arc /\ req[t].op = "write"
  <2>1. a = req[t].arc
    BY <1>1, <1>4 DEF Shape
  <2>2. CASE WriteDirect(t) \/ WriteAppend(t)
    BY <2>1, <2>2 DEF WriteDirect, WriteAppend
  <2>3. CASE TruncateBuffer(t) \/ FlushTake(t) \/ FlushMultipart(t)
    BY <1>2, <1>4, <2>1, <2>3 DEF TruncateBuffer, FlushTake, FlushMultipart, Completed, Buffer
  <2>4. CASE Put(t) \/ DirectPut(t) \/ EmptyPut(t)
    BY <1>2, <1>4, <2>1, <2>4 DEF Put, DirectPut, EmptyPut, Buffer
  <2>5. CASE FlushNothing(t) \/ PutFails(t)
    BY <1>4, <2>5 DEF FlushNothing, PutFails
  <2> QED
    BY <2>1, <2>2, <2>3, <2>4, <2>5 DEF LockedStep
<1>5. ASSUME pc'[t] = "put"
      PROVE  buf[req[t].arc].data # <<>> /\ req'[t].inode = req[t].inode
  <2>1. req'[t].inode = req[t].inode
    BY <1>1, <1>5 DEF Shape, SameRequest
  <2>2. FlushTake(t)
    <3>1. \A ok : ~Return(t, ok)
      BY <1>2, <1>5 DEF Return, Goto
    <3>2. ~GoOn(t)
      BY <1>1, <1>2, <1>5, GoOnShape
    <3>3. \A l : Goto(t, l) => l = "put"
      BY <1>2, <1>5 DEF Goto
    <3> QED
      BY <3>1, <3>2, <3>3 DEF LockedStep, WriteDirect, WriteAppend, TruncateBuffer,
         FlushNothing, FlushMultipart, Put, DirectPut, EmptyPut, PutFails
  <2> QED
    BY <2>1, <2>2 DEF FlushTake
<1> QED
  BY <1>1, <1>3, <1>4, <1>5 DEF RequestsCarry

-----------------------------------------------------------------------------
(* The order of acceptance *)

\* Bytes in the order of their acceptance, all accepted by now.
Sorted(s) == Ascending(s) /\ \A k \in 1..Len(s) : s[k] <= Len(owner)

OrderInv ==
  /\ BufferInv
  /\ \A a \in Arcs : Sorted(buf[a].data)
  /\ \A t \in Tasks : Sorted(req[t].data) /\ Sorted(req[t].own)

ObjectsInOrder == \A p \in Paths : Ascending(store[p])

\* A sequence without its first k elements.
LEMMA DropFacts ==
  ASSUME NEW s \in Seq(Nat), NEW k \in 0..Len(s)
  PROVE  LET e == SubSeq(s, k + 1, Len(s))
         IN /\ Len(e) = Len(s) - k /\ Len(s) \in Nat /\ k \in Nat
            /\ \A j \in 1..Len(e) : e[j] = s[k + j] /\ k + j \in 1..Len(s)
<1> DEFINE n == Len(s)
           e == SubSeq(s, k + 1, n)
<1>1. n \in Nat /\ k \in Nat /\ k <= n /\ k + 1 \in Int /\ n \in Int
  OBVIOUS
<1>2. \A i \in (k + 1)..n : s[i] \in Nat
  BY <1>1
<1>3. /\ Len(e) = IF k + 1 <= n THEN n - (k + 1) + 1 ELSE 0
      /\ \A j \in 1..(n - (k + 1) + 1) : e[j] = s[(k + 1) + j - 1]
  <2> HIDE DEF n
  <2> QED
    BY <1>1, <1>2, SubSeqProperties
<1> HIDE DEF n, e
<1>4. n - (k + 1) + 1 = n - k /\ (k + 1 > n => n - k = 0)
  BY <1>1
<1>5. \A j \in 1..(n - k) : (k + 1) + j - 1 = k + j /\ k + j \in 1..n
  BY <1>1
<1>6. Len(e) = n - k
  BY <1>1, <1>3, <1>4
<1>7. \A j \in 1..Len(e) : e[j] = s[k + j] /\ k + j \in 1..n
  BY <1>3, <1>4, <1>5, <1>6
<1> QED
  BY <1>1, <1>6, <1>7 DEF n, e

\* Nothing is in order.
LEMMA EmptySorted == Sorted(<<>>)
  BY DEF Sorted, Ascending

\* What is in order stays so while more bytes are accepted.
LEMMA SortedLater ==
  ASSUME NEW s \in Seq(Nat), Sorted(s),
         Len(owner) \in Nat, Len(owner') \in Nat, Len(owner) <= Len(owner')
  PROVE  Ascending(s) /\ \A k \in 1..Len(s) : s[k] <= Len(owner')
  BY DEF Sorted

\* The bytes of a write go behind what is in order, and whatever follows the
\* whole parts of an upload is in order still.
LEMMA AppendSorted ==
  ASSUME TypeOK, NEW t \in Tasks, Accept(t), NEW s \in Seq(Nat), Sorted(s),
         NEW k \in 0..Len(s \o NewBytes(t))
  PROVE  LET d == s \o NewBytes(t)
             e == SubSeq(d, k + 1, Len(d))
         IN Ascending(e) /\ \A j \in 1..Len(e) : e[j] <= Len(owner')
<1> DEFINE r == NewBytes(t)
           d == s \o r
           e == SubSeq(d, k + 1, Len(d))
<1>1. /\ Len(owner) \in Nat /\ Len(owner') \in Nat /\ Len(owner) <= Len(owner')
      /\ Bytes(r) = (Len(owner) + 1)..Len(owner') /\ Ascending(r)
      /\ r \in Seq(Nat)
  BY AcceptFacts, NewBytesTyped
<1> HIDE DEF r
<1>2. /\ d \in Seq(Nat) /\ Len(d) = Len(s) + Len(r) /\ Len(s) \in Nat /\ Len(r) \in Nat
      /\ \A j \in 1..Len(d) : d[j] = IF j <= Len(s) THEN s[j] ELSE r[j - Len(s)]
  BY <1>1, ConcatProperties
<1>3. \A j \in 1..Len(r) : r[j] \in Nat /\ r[j] > Len(owner) /\ r[j] <= Len(owner')
  BY <1>1 DEF Bytes
<1>4. \A j \in 1..Len(s) : s[j] \in Nat /\ s[j] <= Len(owner)
  BY DEF Sorted
<1> HIDE DEF d
<1>5. /\ \A j \in 1..Len(s) : j \in 1..Len(d) /\ d[j] = s[j]
      /\ \A j \in 1..Len(d) : j \notin 1..Len(s) =>
           j - Len(s) \in 1..Len(r) /\ d[j] = r[j - Len(s)]
  <2>1. \A j \in 1..Len(s) : j \in 1..Len(d) /\ j <= Len(s)
    BY <1>2
  <2>2. \A j \in 1..Len(d) : j \notin 1..Len(s) => j - Len(s) \in 1..Len(r) /\ ~(j <= Len(s))
    BY <1>2
  <2> QED
    BY <1>2, <2>1, <2>2
<1>6. /\ \A j \in 1..Len(d) : d[j] <= Len(owner')
      /\ \A i, j \in 1..Len(d) : i < j => d[i] < d[j]
  <2>1. ASSUME NEW j \in 1..Len(d) PROVE d[j] <= Len(owner')
    <3>1. CASE j \in 1..Len(s)
      <4>1. d[j] = s[j] /\ s[j] \in Nat /\ s[j] <= Len(owner)
        BY <1>4, <1>5, <3>1
      <4> QED
        BY <1>1, <4>1
    <3>2. CASE j \notin 1..Len(s)
      BY <1>3, <1>5, <3>2
    <3> QED
      BY <3>1, <3>2
  <2>2. ASSUME NEW i \in 1..Len(d), NEW j \in 1..Len(d), i < j
        PROVE  d[i] < d[j]
    <3>1. CASE j \in 1..Len(s)
      <4>1. i \in 1..Len(s)
        BY <1>2, <2>2, <3>1
      <4>2. d[i] = s[i] /\ d[j] = s[j]
        BY <1>5, <3>1, <4>1
      <4> QED
        BY <2>2, <3>1, <4>1, <4>2 DEF Sorted, Ascending
    <3>2. CASE i \in 1..Len(s) /\ j \notin 1..Len(s)
      <4>1. d[i] = s[i] /\ s[i] \in Nat /\ s[i] <= Len(owner)
        BY <1>4, <1>5, <3>2
      <4>2. j - Len(s) \in 1..Len(r) /\ d[j] = r[j - Len(s)]
        BY <1>5, <3>2
      <4>3. r[j - Len(s)] \in Nat /\ r[j - Len(s)] > Len(owner)
        BY <1>3, <4>2
      <4> QED
        BY <1>1, <4>1, <4>2, <4>3
    <3>3. CASE i \notin 1..Len(s)
      <4>1. j \notin 1..Len(s)
        BY <1>2, <2>2, <3>3
      <4>2. /\ i - Len(s) \in 1..Len(r) /\ d[i] = r[i - Len(s)]
            /\ j - Len(s) \in 1..Len(r) /\ d[j] = r[j - Len(s)]
        BY <1>5, <3>3, <4>1
      <4>3. i - Len(s) < j - Len(s)
        BY <1>2, <2>2
      <4> QED
        BY <1>1, <4>2, <4>3 DEF Ascending
    <3> QED
      BY <3>1, <3>2, <3>3
  <2> QED
    BY <2>1, <2>2
<1>7. /\ Len(e) = Len(d) - k /\ Len(d) \in Nat /\ k \in 0..Len(d)
      /\ \A j \in 1..Len(e) : e[j] = d[k + j] /\ k + j \in 1..Len(d)
  <2>1. k \in 0..Len(d)
    BY DEF d, r
  <2> QED
    BY <1>2, <2>1, DropFacts
<1> HIDE DEF e
<1>8. Ascending(e)
  <2> SUFFICES ASSUME NEW i \in 1..Len(e), NEW j \in 1..Len(e), i < j
               PROVE  e[i] < e[j]
    BY DEF Ascending
  <2>1. k + i < k + j
    BY <1>7
  <2> QED
    BY <1>6, <1>7, <2>1
<1>9. \A j \in 1..Len(e) : e[j] <= Len(owner')
  BY <1>6, <1>7
<1> QED
  BY <1>8, <1>9 DEF e, d, r

\* Where the sequences of a step under the Mutex come from.
LEMMA LockedSources ==
  ASSUME BufferInv, NEW t \in Tasks, LockedStep(t)
  PROVE  LET a == req[t].arc
             b == buf[a].data
             new == b \o NewBytes(t)
         IN /\ \/ buf'[a].data \in {b, <<>>}
               \/ /\ Accept(t)
                  /\ \E k \in 0..Len(new) : buf'[a].data = SubSeq(new, k + 1, Len(new))
            /\ req'[t].data \in {req[t].data, b, <<>>}
            /\ req'[t].own \in {req[t].own, <<>>} \/ (Accept(t) /\ req'[t].own = NewBytes(t))
            /\ \/ UNCHANGED store
               \/ /\ store' = [store EXCEPT ![Path(t)] = req[t].data] /\ pc[t] = "put"
               \/ /\ store' = [store EXCEPT ![Path(t)] = req[t].own] /\ pc[t] = "direct"
               \/ store' = [store EXCEPT ![Path(t)] = <<>>]
            /\ UNCHANGED owner \/ Accept(t)
<1> DEFINE a == req[t].arc
           b == buf[a].data
           new == b \o NewBytes(t)
<1>1. pc[t] \in LockedLabels /\ TypeOK
  BY LockedShape DEF Shape, BufferInv
<1>2. /\ a \in Arcs /\ req[t] \in Requests /\ buf[a] \in Buffer /\ buf \in [Arcs -> Buffer]
      /\ req \in [Tasks -> Requests] /\ pc \in [Tasks -> Labels]
  BY <1>1, Working DEF TypeOK, SharedTypeOK, TaskTypeOK
<1>3. CASE WriteDirect(t)
  <2>1. pc[t] = "body" /\ Accept(t) /\ UNCHANGED store
    BY <1>3 DEF WriteDirect
  <2>2. buf'[a].data = b
    BY <1>2, <1>3, <2>1, AppendFacts DEF WriteDirect
  <2>3. req'[t].data = req[t].data /\ req'[t].own = NewBytes(t)
    BY <1>2, <1>3 DEF WriteDirect, Requests
  <2> QED
    BY <2>1, <2>2, <2>3
<1>4. CASE WriteAppend(t)
  <2>1. /\ Accept(t) /\ UNCHANGED store /\ buf'[a] = WithoutParts(Appended(t))
        /\ req'[t] = req[t] \/ req'[t] = NoRequest
    BY <1>2, <1>4 DEF WriteAppend, Return
  <2>2. Appended(t) \in Buffer /\ Appended(t).data = new
    BY <1>1, <1>2, AppendTyped DEF Appended, Buffer
  <2>3. /\ Parted(Appended(t)) \in 0..Len(new)
        /\ WithoutParts(Appended(t)).data =
             SubSeq(new, Parted(Appended(t)) + 1, Len(new))
    BY <2>2, PartsFacts DEF WithoutParts, Buffer
  <2> HIDE DEF new
  <2> QED
    BY <2>1, <2>3, NothingCarried DEF new
<1>5. CASE TruncateBuffer(t)
  <2>1. /\ UNCHANGED <<store, owner>> /\ buf'[a].data = <<>>
        /\ req'[t] = req[t] \/ req'[t] = NoRequest
    BY <1>2, <1>5 DEF TruncateBuffer, Return, Buffer
  <2> QED
    BY <2>1, NothingCarried
<1>6. CASE FlushNothing(t) \/ FlushMultipart(t) \/ Put(t)
  <2>1. req'[t] = req[t] \/ req'[t] = NoRequest
    BY <1>1, <1>6, GoOnShape DEF FlushNothing, FlushMultipart, Put
  <2>2. buf'[a].data \in {b, <<>>} /\ UNCHANGED owner
    <3>1. CASE FlushNothing(t)
      BY <3>1 DEF FlushNothing
    <3>2. CASE FlushMultipart(t)
      BY <1>2, <3>2 DEF FlushMultipart, Completed, Buffer
    <3>3. CASE Put(t)
      <4>1. buf'[a] = [buf[a] EXCEPT !.dirty = FALSE, !.original_size = buf[a].size]
        BY <1>2, <3>3 DEF Put
      <4> QED
        BY <1>2, <3>3, <4>1 DEF Put, Buffer
    <3> QED
      BY <1>6, <3>1, <3>2, <3>3
  <2>3. \/ UNCHANGED store
        \/ store' = [store EXCEPT ![Path(t)] = req[t].data] /\ pc[t] = "put"
    BY <1>6 DEF FlushNothing, FlushMultipart, Put
  <2> QED
    BY <2>1, <2>2, <2>3, NothingCarried
<1>7. CASE FlushTake(t)
  BY <1>2, <1>7 DEF FlushTake, Requests, Buffer, history
<1>8. CASE DirectPut(t) \/ EmptyPut(t) \/ PutFails(t)
  <2>1. req'[t] = NoRequest
    BY <1>2, <1>8 DEF DirectPut, EmptyPut, PutFails, Return
  <2>2. buf'[a].data = b /\ UNCHANGED owner
    BY <1>2, <1>8 DEF DirectPut, EmptyPut, PutFails, Buffer
  <2>3. \/ UNCHANGED store
        \/ store' = [store EXCEPT ![Path(t)] = req[t].data] /\ pc[t] = "put"
        \/ store' = [store EXCEPT ![Path(t)] = req[t].own] /\ pc[t] = "direct"
        \/ store' = [store EXCEPT ![Path(t)] = <<>>]
    BY <1>8 DEF DirectPut, EmptyPut, PutFails, Payload
  <2> QED
    BY <2>1, <2>2, <2>3, NothingCarried
<1> QED
  BY <1>3, <1>4, <1>5, <1>6, <1>7, <1>8 DEF LockedStep

\* A step under the Mutex keeps the order.
LEMMA LockedOrder ==
  ASSUME OrderInv, NEW t \in Tasks, LockedStep(t)
  PROVE  /\ \A a \in Arcs : Sorted(buf[a].data)'
         /\ \A u \in Tasks : Sorted(req[u].data)' /\ Sorted(req[u].own)'
         /\ ObjectsInOrder => ObjectsInOrder'
<1> DEFINE a == req[t].arc
           b == buf[a].data
           new == b \o NewBytes(t)
<1>1. BufferInv /\ TypeOK /\ Shape(t) /\ pc[t] \in LockedLabels
  BY LockedShape DEF OrderInv, BufferInv, Shape
<1>2. /\ a \in Arcs /\ b \in Seq(Nat) /\ NewBytes(t) \in Seq(Nat)
      /\ \A u \in Tasks : req[u].data \in Seq(Nat) /\ req[u].own \in Seq(Nat)
      /\ \A c \in Arcs : buf[c].data \in Seq(Nat)
  BY <1>1, Working, NewBytesTyped
     DEF TypeOK, SharedTypeOK, TaskTypeOK, Requests, Buffer
<1>3. /\ \/ buf'[a].data \in {b, <<>>}
         \/ /\ Accept(t)
            /\ \E k \in 0..Len(new) : buf'[a].data = SubSeq(new, k + 1, Len(new))
      /\ req'[t].data \in {req[t].data, b, <<>>}
      /\ req'[t].own \in {req[t].own, <<>>} \/ (Accept(t) /\ req'[t].own = NewBytes(t))
      /\ UNCHANGED store \/ \E s \in {req[t].data, req[t].own, <<>>} :
                               store' = [store EXCEPT ![Path(t)] = s]
      /\ UNCHANGED owner \/ Accept(t)
  BY <1>1, LockedSources
<1>4. Len(owner) \in Nat /\ Len(owner') \in Nat /\ Len(owner) <= Len(owner')
  BY <1>1, <1>3, AcceptFacts, NoneAccepted
<1> DEFINE Later(s) == Ascending(s) /\ \A k \in 1..Len(s) : s[k] <= Len(owner')
<1>5. /\ \A c \in Arcs : Later(buf[c].data)
      /\ \A u \in Tasks : Later(req[u].data) /\ Later(req[u].own)
      /\ Later(<<>>)
  <2>1. Later(<<>>)
    BY DEF Ascending
  <2>2. \A c \in Arcs : Later(buf[c].data)
    BY <1>2, <1>4, SortedLater DEF OrderInv
  <2>3. \A u \in Tasks : Later(req[u].data) /\ Later(req[u].own)
    BY <1>2, <1>4, SortedLater DEF OrderInv
  <2> QED
    BY <2>1, <2>2, <2>3
<1>6. Later(buf'[a].data)
  <2>1. CASE buf'[a].data \in {b, <<>>}
    BY <1>2, <1>5, <2>1
  <2>2. CASE /\ Accept(t)
             /\ \E k \in 0..Len(new) : buf'[a].data = SubSeq(new, k + 1, Len(new))
    BY <1>1, <1>2, <2>2, AppendSorted DEF OrderInv
  <2> QED
    BY <1>3, <2>1, <2>2
<1>7. Later(req'[t].data)
  BY <1>2, <1>3, <1>5
<1>8. Later(req'[t].own)
  <2>1. CASE Accept(t) /\ req'[t].own = NewBytes(t)
    <3>1. Ascending(NewBytes(t)) /\ Bytes(NewBytes(t)) = (Len(owner) + 1)..Len(owner')
      BY <1>1, <2>1, AcceptFacts
    <3>2. \A k \in 1..Len(NewBytes(t)) : NewBytes(t)[k] <= Len(owner')
      BY <1>4, <3>1 DEF Bytes
    <3> QED
      BY <2>1, <3>1, <3>2
  <2> QED
    BY <1>3, <1>5, <2>1
<1>9. ASSUME ObjectsInOrder PROVE ObjectsInOrder'
  <2>1. store \in [Paths -> Seq(Nat)] /\ \A p \in Paths : Ascending(store[p])
    BY <1>1, <1>9 DEF TypeOK, SharedTypeOK, ObjectsInOrder
  <2>2. \A s \in {req[t].data, req[t].own, <<>>} : Ascending(s)
    BY <1>5
  <2>3. ASSUME NEW p \in Paths PROVE Ascending(store'[p])
    BY <1>3, <2>1, <2>2
  <2> QED
    BY <2>3 DEF ObjectsInOrder
<1> HIDE DEF Later
<1>10. \A c \in Arcs : Later(buf'[c].data)
  BY <1>1, <1>5, <1>6 DEF Shape
<1>11. \A u \in Tasks : Later(req'[u].data) /\ Later(req'[u].own)
  BY <1>1, <1>5, <1>7, <1>8 DEF Shape, OthersStay
<1> QED
  BY <1>9, <1>10, <1>11 DEF Sorted, Later

\* The other steps move no bytes at all.
LEMMA OutsideOrder ==
  ASSUME OrderInv, NEW t \in Tasks, Arrival(t) \/ Creation(t) \/ Reaching(t)
  PROVE  /\ \A a \in Arcs : Sorted(buf[a].data)'
         /\ \A u \in Tasks : Sorted(req[u].data)' /\ Sorted(req[u].own)'
         /\ ObjectsInOrder => ObjectsInOrder'
<1>1. Outside(t) /\ UNCHANGED <<owner, store>>
  BY DEF Arrival, Creation, Reaching, Outside
<1>2. ASSUME NEW a \in Arcs PROVE Sorted(buf[a].data)'
  <2>1. CASE buf'[a].data = <<>>
    BY <2>1 DEF Sorted, Ascending
  <2>2. CASE buf'[a] = buf[a]
    BY <1>1, <2>2 DEF OrderInv, Sorted
  <2>3. Creation(t) => (UNCHANGED buf \/ \A c \in Arcs : c # req[t].id => buf'[c] = buf[c])
    BY DEF Creation
  <2>4. Creation(t) => (UNCHANGED buf \/ buf'[req[t].id].data = <<>>)
    BY DEF Creation
  <2> QED
    BY <2>1, <2>2, <2>3, <2>4 DEF Arrival, Reaching
<1>3. ASSUME NEW u \in Tasks PROVE Sorted(req[u].data)' /\ Sorted(req[u].own)'
  <2>1. /\ req'[u].data = req[u].data \/ req'[u].data = <<>>
        /\ req'[u].own = req[u].own \/ req'[u].own = <<>>
    BY <1>1 DEF Outside, OthersStay
  <2>2. Sorted(req[u].data)'
    <3>1. CASE req'[u].data = <<>>
      BY <3>1 DEF Sorted, Ascending
    <3>2. CASE req'[u].data = req[u].data
      BY <1>1, <3>2 DEF OrderInv, Sorted
    <3> QED
      BY <2>1, <3>1, <3>2
  <2>3. Sorted(req[u].own)'
    <3>1. CASE req'[u].own = <<>>
      BY <3>1 DEF Sorted, Ascending
    <3>2. CASE req'[u].own = req[u].own
      BY <1>1, <3>2 DEF OrderInv, Sorted
    <3> QED
      BY <2>1, <3>1, <3>2
  <2> QED
    BY <2>2, <2>3
<1> QED
  BY <1>1, <1>2, <1>3 DEF ObjectsInOrder

\* The initial state.
LEMMA InitOrder == Init => OrderInv
<1> SUFFICES ASSUME Init PROVE OrderInv
  OBVIOUS
<1>1. \A a \in Arcs : Sorted(buf[a].data)
  BY EmptySorted DEF Init, NewBuffer
<1>2. \A t \in Tasks : Sorted(req[t].data) /\ Sorted(req[t].own)
  BY EmptySorted, NothingCarried DEF Init
<1> QED
  BY <1>1, <1>2, InitBuffer DEF OrderInv

\* Every step keeps the order.
LEMMA StepOrder ==
  AccountInv /\ OrderInv /\ [Next]_vars => OrderInv' /\ (ObjectsInOrder => ObjectsInOrder')
<1> SUFFICES ASSUME AccountInv, OrderInv, [Next]_vars
             PROVE  OrderInv' /\ (ObjectsInOrder => ObjectsInOrder')
  OBVIOUS
<1>1. BufferInv /\ RequestsCarry /\ BufferInv'
  BY StepBuffer DEF AccountInv
<1>2. CASE UNCHANGED vars
  BY <1>1, <1>2 DEF vars, OrderInv, Sorted, ObjectsInOrder
<1> QED
  BY <1>1, <1>2, StepKinds, LockedOrder, OutsideOrder DEF OrderInv

\* What buffers and requests hold is in order, in every behaviour.
THEOREM OrderInvariant == Spec => []OrderInv
  BY InitOrder, StepOrder, AccountInvariant, PTL DEF Spec

\* Buffers, and the objects that PUTs leave in the store, hold bytes in the
\* order in which writes were accepted, if the objects did before: appending,
\* splitting into parts and flushing never swap bytes (write_buffer.rs:197-276).
THEOREM OrderKept ==
  ASSUME Ascending(Before)
  PROVE  Spec => []AcceptanceOrder
<1>1. OrderInv /\ ObjectsInOrder => AcceptanceOrder
  BY DEF OrderInv, ObjectsInOrder, Sorted, AcceptanceOrder
<1>2. Init => ObjectsInOrder
  BY DEF Init, ObjectsInOrder
<1> QED
  BY <1>1, <1>2, StepOrder, AccountInvariant, OrderInvariant, PTL DEF Spec

-----------------------------------------------------------------------------
(* Files that are not closed.  release takes the buffer out of the map before   *)
(* it locks it, so that a write or fsync beside it may miss bytes: the rest is  *)
(* about programs that have not closed a file yet.                              *)

NoRelease == "release" \notin Ops

\* No request is a release, and each has seen only bytes accepted before it.
OpenRequests ==
  \A t \in Tasks :
    /\ pc[t] # "remove" /\ req[t].op # "release" /\ req[t].mark <= Len(owner)
    /\ pc[t] = "next" => req[t].op = "flush_all"

\* A buffer in the map is the buffer of one inode, and a task at work on a
\* buffer finds it in the map.
OneBufferEach ==
  /\ \A i, j \in DOMAIN buffers : buffers[i] = buffers[j] => i = j
  /\ \A t \in Tasks : pc[t] \in AtWork =>
       req[t].inode \in DOMAIN buffers /\ buffers[req[t].inode] = req[t].arc

\* The byte is in the inode's buffer, or with the task that works on it.
Underway(n, i) ==
  /\ i \in DOMAIN buffers
  /\ \/ n \in Bytes(buf[buffers[i]].data)
     \/ \E t \in Tasks :
          pc[t] \in LockedLabels /\ req[t].arc = buffers[i] /\ n \in Carried(t)

\* No byte is stranded: a flush of its inode finds it.
NoneStranded == \A n \in 1..Len(owner) : n \in Left \/ Underway(n, owner[n])

\* What a flush that returned Ok vouches for has left.
SyncedLeft ==
  /\ synced \in [Inodes -> Nat]
  /\ \A i \in Inodes :
       /\ synced[i] <= Len(owner)
       /\ \A n \in 1..synced[i] : owner[n] = i => n \in Left

OpenInv == AccountInv /\ OpenRequests /\ OneBufferEach /\ NoneStranded /\ SyncedLeft

\* Requests that are open stay so.
LEMMA OpenRequestsStep ==
  ASSUME NoRelease, OpenInv, NEW t \in Tasks,
         Arrival(t) \/ Creation(t) \/ Reaching(t) \/ LockedStep(t)
  PROVE  OpenRequests'
<1>1. BufferInv /\ RequestsCarry
  BY DEF OpenInv, AccountInv
<1>2. Len(owner) \in Nat /\ Len(owner') \in Nat /\ Len(owner) <= Len(owner')
  <2>1. CASE LockedStep(t)
    BY <1>1, <2>1, LockedFlow DEF Flow
  <2>2. CASE UNCHANGED owner
    BY <1>1, <2>2, NoneAccepted DEF BufferInv
  <2> QED
    BY <2>1, <2>2 DEF Arrival, Creation, Reaching, Outside
<1>3. OthersStay(t)
  BY <1>1, LockedShape DEF Shape, Arrival, Creation, Reaching, Outside
<1>4. \A u \in Tasks : req[u].mark \in Nat
  BY <1>1 DEF BufferInv, TypeOK, TaskTypeOK, Requests
<1>5. NoRequest.op = "none" /\ NoRequest.mark = 0
  BY DEF NoRequest, NewRequest
<1>6. /\ pc'[t] # "remove" /\ req'[t].op # "release" /\ req'[t].mark <= Len(owner')
      /\ pc'[t] = "next" => req'[t].op = "flush_all"
  <2>1. CASE Arrival(t)
    BY <1>2, <2>1 DEF Arrival, Outside, NoRelease
  <2>2. CASE Creation(t)
    BY <1>2, <1>4, <2>2 DEF Creation, Outside, OpenInv, OpenRequests
  <2>3. CASE Reaching(t)
    BY <1>2, <1>4, <1>5, <2>3 DEF Reaching, Outside, OpenInv, OpenRequests
  <2>4. CASE LockedStep(t)
    <3>1. Shape(t)
      BY <1>1, <2>4, LockedShape
    <3>2. pc'[t] # "remove" /\ (pc'[t] = "next" => req[t].op = "flush_all")
      BY <3>1 DEF Shape, LockedLabels
    <3>3. pc'[t] # "idle" => req'[t].op = req[t].op /\ req'[t].mark = req[t].mark
      BY <3>1 DEF Shape, SameRequest
    <3>4. pc'[t] = "idle" => req'[t].op = "none" /\ req'[t].mark = 0
      BY <1>5, <3>1 DEF Shape
    <3> QED
      BY <1>2, <1>4, <3>2, <3>3, <3>4 DEF OpenInv, OpenRequests
  <2> QED
    BY <2>1, <2>2, <2>3, <2>4
<1>7. ASSUME NEW u \in Tasks, u # t
      PROVE  /\ pc'[u] # "remove" /\ req'[u].op # "release" /\ req'[u].mark <= Len(owner')
             /\ pc'[u] = "next" => req'[u].op = "flush_all"
  BY <1>2, <1>3, <1>4, <1>7 DEF OthersStay, OpenInv, OpenRequests
<1> QED
  BY <1>6, <1>7 DEF OpenRequests

\* Each inode keeps its own buffer.
LEMMA OneBufferStep ==
  ASSUME OpenInv, NEW t \in Tasks,
         Arrival(t) \/ Creation(t) \/ Reaching(t) \/ LockedStep(t)
  PROVE  OneBufferEach'
<1>1. BufferInv /\ RequestsCarry /\ NumbersFresh /\ OneBufferEach
  BY DEF OpenInv, AccountInv
<1>2. CASE Creation(t)
  <2> DEFINE i == req[t].inode
             a == req[t].id
  <2>1. Unused(a) /\ a \in Arcs
    BY <1>2 DEF Creation, Unused
  <2>2. \A j \in DOMAIN buffers : buffers[j] # a
    BY <1>1, <2>1 DEF NumbersFresh
  <2>3. /\ DOMAIN buffers \subseteq DOMAIN buffers'
        /\ \A j \in DOMAIN buffers : buffers'[j] = buffers[j]
        /\ i \in DOMAIN buffers' /\ buffers'[i] = req'[t].arc /\ req'[t].inode = i
        /\ \/ DOMAIN buffers' = DOMAIN buffers
           \/ i \notin DOMAIN buffers /\ DOMAIN buffers' = DOMAIN buffers \cup {i}
              /\ buffers'[i] = a
    BY <1>2 DEF Creation
  <2>4. \A j, k \in DOMAIN buffers' : buffers'[j] = buffers'[k] => j = k
    BY <1>1, <2>2, <2>3 DEF OneBufferEach
  <2>5. ASSUME NEW u \in Tasks, pc'[u] \in AtWork
        PROVE  req'[u].inode \in DOMAIN buffers' /\ buffers'[req'[u].inode] = req'[u].arc
    <3>1. CASE u = t
      BY <2>3, <3>1
    <3>2. CASE u # t
      <4>1. pc'[u] = pc[u] /\ req'[u] = req[u]
        BY <1>2, <3>2 DEF Creation, Outside, OthersStay
      <4>2. req[u].inode \in DOMAIN buffers /\ buffers[req[u].inode] = req[u].arc
        BY <1>1, <2>5, <4>1 DEF OneBufferEach
      <4> QED
        BY <2>3, <4>1, <4>2
    <3> QED
      BY <3>1, <3>2
  <2> QED
    BY <2>4, <2>5 DEF OneBufferEach
<1>3. CASE Arrival(t) \/ Reaching(t) \/ LockedStep(t)
  <2>1. UNCHANGED buffers /\ OthersStay(t)
    BY <1>1, <1>3, LockedShape
       DEF Shape, Arrival, Reaching, Outside, OpenInv, OpenRequests
  <2>2. pc'[t] \in AtWork =>
          req'[t].inode \in DOMAIN buffers /\ buffers[req'[t].inode] = req'[t].arc
    <3>1. CASE Arrival(t)
      BY <3>1 DEF Arrival, AtWork, LockedLabels
    <3>2. CASE Reaching(t)
      <4>1. CASE pc'[t] = "lock"
        BY <3>2, <4>1 DEF Reaching
      <4>2. CASE pc'[t] \in {"body", "flush"}
        BY <1>1, <3>2, <4>2 DEF Reaching, OneBufferEach, AtWork
      <4> QED
        BY <3>2, <4>1, <4>2 DEF Reaching, AtWork, LockedLabels
    <3>3. CASE LockedStep(t)
      <4>1. Shape(t)
        BY <1>1, <3>3, LockedShape
      <4> QED
        BY <1>1, <4>1 DEF Shape, SameRequest, OneBufferEach, AtWork, LockedLabels
    <3> QED
      BY <1>3, <3>1, <3>2, <3>3
  <2>3. \A u \in Tasks : u # t => pc'[u] = pc[u] /\ req'[u] = req[u]
    BY <2>1 DEF OthersStay
  <2> QED
    BY <1>1, <2>1, <2>2, <2>3 DEF OneBufferEach
<1> QED
  BY <1>2, <1>3

\* A task that still carries bytes under way after its step is still at work.
LEMMA CarriersWork ==
  ASSUME NEW t \in Tasks, Flow(t)
  PROVE  pc'[t] \in LockedLabels \/ Carried(t)' \subseteq Left'
<1>1. CASE pc'[t] \in {"put", "flush", "direct"}
  BY <1>1 DEF LockedLabels
<1>2. CASE pc'[t] \notin {"put", "flush", "direct"}
  BY <1>2, NothingCarried DEF Flow, Carried
<1> QED
  BY <1>1, <1>2

\* No step strands a byte.
LEMMA StrandedStep ==
  ASSUME OpenInv, NEW t \in Tasks,
         Arrival(t) \/ Creation(t) \/ Reaching(t) \/ LockedStep(t)
  PROVE  NoneStranded'
<1>1. BufferInv /\ RequestsCarry /\ NumbersFresh /\ OneBufferEach /\ NoneStranded
  BY DEF OpenInv, AccountInv
<1>2. \A i \in DOMAIN buffers : buffers[i] \in Arcs
  BY <1>1 DEF BufferInv, TypeOK, SharedTypeOK
<1>3. SUFFICES ASSUME NEW n \in 1..Len(owner')
               PROVE  n \in Left' \/ \E j : owner'[n] = j /\ Underway(n, j)'
  BY DEF NoneStranded, Underway
<1>4. CASE LockedStep(t)
  <2> DEFINE a == req[t].arc
             i == req[t].inode
  <2>1. Shape(t) /\ Flow(t) /\ a \in Arcs
    BY <1>1, <1>4, LockedShape, LockedFlow, Working DEF Shape, BufferInv
  <2>2. UNCHANGED buffers /\ i \in DOMAIN buffers /\ buffers[i] = a
    BY <1>1, <2>1 DEF Shape, OneBufferEach, AtWork
  <2>3. pc'[t] \in LockedLabels => req'[t].arc = a
    BY <2>1 DEF Shape, SameRequest, LockedLabels
  <2>4. ASSUME NEW j \in DOMAIN buffers, buffers[j] = a,
               n \in Bytes(buf'[a].data) \cup Carried(t)' \cup Left'
        PROVE  n \in Left' \/ Underway(n, j)'
    BY <2>1, <2>2, <2>3, <2>4, CarriersWork DEF Underway
  <2>5. CASE n \notin 1..Len(owner)
    <3>1. owner'[n] = i /\ n \in Bytes(buf'[a].data) \cup Carried(t)' \cup Left'
      BY <2>1, <2>5 DEF Flow
    <3>2. PICK j \in DOMAIN buffers : j = i
      BY <2>2
    <3> QED
      BY <2>2, <2>4, <3>1, <3>2
  <2>6. CASE n \in 1..Len(owner)
    <3>1. PICK j : owner[n] = j /\ owner'[n] = j /\ (n \in Left \/ Underway(n, j))
      BY <1>1, <2>1, <2>6 DEF Flow, NoneStranded
    <3>2. CASE n \in Left
      BY <2>1, <3>2 DEF Flow
    <3>3. CASE Underway(n, j) /\ buffers[j] = a
      <4>1. j \in DOMAIN buffers
        BY <3>3 DEF Underway
      <4>2. n \in Bytes(buf[a].data) \/ n \in Carried(t)
        <5>1. \A u \in Tasks : pc[u] \in LockedLabels /\ req[u].arc = a => u = t
          BY <1>1, <2>1, Working DEF BufferInv, Shape
        <5> QED
          BY <3>3, <5>1 DEF Underway
      <4>3. n \in Bytes(buf'[a].data) \cup Carried(t)' \cup Left'
        BY <2>1, <4>2 DEF Flow
      <4> QED
        BY <2>4, <3>1, <3>3, <4>1, <4>3
    <3>4. CASE Underway(n, j) /\ buffers[j] # a
      <4>1. j \in DOMAIN buffers /\ buf'[buffers[j]] = buf[buffers[j]]
        BY <1>2, <2>1, <3>4 DEF Shape, Underway
      <4>2. \A u \in Tasks : req[u].arc = buffers[j] =>
              pc'[u] = pc[u] /\ req'[u] = req[u] /\ Carried(u)' = Carried(u)
        BY <2>1, <3>4 DEF Shape, OthersStay, Carried
      <4>3. Underway(n, j)'
        BY <2>2, <3>4, <4>1, <4>2 DEF Underway
      <4> QED
        BY <3>1, <4>3
    <3> QED
      BY <3>1, <3>2, <3>3, <3>4
  <2> QED
    BY <2>5, <2>6
<1>5. CASE Arrival(t) \/ Creation(t) \/ Reaching(t)
  <2>1. Outside(t)
    BY <1>5 DEF Arrival, Creation, Reaching
  <2>2. Left' = Left /\ owner' = owner
    BY <2>1 DEF Outside, Left
  <2>3. PICK j : owner[n] = j /\ (n \in Left \/ Underway(n, j))
    BY <1>1, <2>2 DEF NoneStranded
  <2>4. CASE Underway(n, j)
    <3>1. j \in DOMAIN buffers' /\ buffers'[j] = buffers[j] /\ j \in DOMAIN buffers
      BY <1>5, <2>4 DEF Underway, Arrival, Creation, Reaching, OpenInv, OpenRequests
    <3>2. buf'[buffers[j]] = buf[buffers[j]]
      <4>1. CASE Creation(t)
        <5>1. Unused(req[t].id)
          BY <4>1 DEF Creation, Unused
        <5>2. buffers[j] # req[t].id
          BY <1>1, <3>1, <4>1, <5>1 DEF NumbersFresh, Creation
        <5> QED
          BY <1>2, <3>1, <4>1, <5>2 DEF Creation
      <4> QED
        BY <1>5, <4>1 DEF Arrival, Reaching
    <3>3. \A u \in Tasks : pc[u] \in LockedLabels =>
            pc'[u] = pc[u] /\ req'[u] = req[u] /\ Carried(u)' = Carried(u)
      BY <2>1 DEF Outside, OthersStay, Carried
    <3>4. Underway(n, j)'
      <4>1. CASE n \in Bytes(buf[buffers[j]].data)
        BY <3>1, <3>2, <4>1 DEF Underway
      <4>2. CASE \E u \in Tasks :
                   pc[u] \in LockedLabels /\ req[u].arc = buffers[j] /\ n \in Carried(u)
        <5>1. PICK u \in Tasks :
                pc[u] \in LockedLabels /\ req[u].arc = buffers[j] /\ n \in Carried(u)
          BY <4>2
        <5>2. pc'[u] \in LockedLabels /\ req'[u].arc = buffers'[j] /\ n \in Carried(u)'
          BY <3>1, <3>3, <5>1
        <5> QED
          BY <3>1, <5>2 DEF Underway
      <4>3. \/ n \in Bytes(buf[buffers[j]].data)
            \/ \E u \in Tasks :
                 pc[u] \in LockedLabels /\ req[u].arc = buffers[j] /\ n \in Carried(u)
        BY <2>4 DEF Underway
      <4> QED
        BY <4>1, <4>2, <4>3
    <3> QED
      BY <2>2, <2>3, <3>4
  <2> QED
    BY <2>2, <2>3, <2>4
<1> QED
  BY <1>4, <1>5

\* What a step under the Mutex adds to what flushes vouch for has left.
LEMMA LockedSynced ==
  ASSUME BufferInv, RequestsCarry, NEW t \in Tasks, LockedStep(t), req[t].op # "release"
  PROVE  \/ UNCHANGED synced
         \/ /\ synced' = [synced EXCEPT ![req[t].inode] = Maximum(@, req[t].mark)]
            /\ Bytes(buf[req[t].arc].data) \cup Carried(t) \subseteq Left'
<1> DEFINE a == req[t].arc
<1>1. pc[t] \in LockedLabels /\ TypeOK /\ Flow(t)
  BY LockedShape, LockedFlow DEF Shape, BufferInv
<1>2. /\ a \in Arcs /\ buf[a] \in Buffer /\ buf \in [Arcs -> Buffer]
      /\ pc \in [Tasks -> Labels] /\ req \in [Tasks -> Requests]
  BY <1>1, Working DEF TypeOK, SharedTypeOK, TaskTypeOK
<1>3. CASE req[t].op # "flush"
  <2>1. \A ok : Return(t, ok) => UNCHANGED synced
    BY <1>3 DEF Return
  <2>2. GoOn(t) => UNCHANGED synced
    BY <2>1 DEF GoOn
  <2> QED
    BY <2>1, <2>2 DEF LockedStep, WriteDirect, WriteAppend, TruncateBuffer, FlushNothing,
       FlushMultipart, FlushTake, Put, DirectPut, EmptyPut, PutFails, history
<1>4. CASE req[t].op = "flush"
  <2>1. /\ ~WriteDirect(t) /\ ~WriteAppend(t) /\ ~TruncateBuffer(t)
        /\ ~DirectPut(t) /\ ~EmptyPut(t)
    BY <1>4 DEF WriteDirect, WriteAppend, TruncateBuffer, DirectPut, EmptyPut, RequestsCarry
  <2>2. CASE PutFails(t) \/ FlushTake(t)
    BY <2>2 DEF PutFails, FlushTake, Return, history
  <2>3. CASE FlushNothing(t) \/ FlushMultipart(t) \/ Put(t)
    <3>1. pc'[t] = "idle" /\ req'[t] = NoRequest
          /\ synced' = [synced EXCEPT ![req[t].inode] = Maximum(@, req[t].mark)]
      <4>1. GoOn(t) /\ req[t].own = <<>>
        BY <1>4, <2>3 DEF FlushNothing, FlushMultipart, Put, RequestsCarry
      <4>2. Return(t, TRUE)
        BY <1>4, <4>1 DEF GoOn
      <4> QED
        BY <1>2, <1>4, <4>2 DEF Return, Goto
    <3>2. Bytes(buf'[a].data) = {}
      <4>1. CASE FlushNothing(t)
        BY <1>2, <4>1, NothingCarried DEF FlushNothing, BufferInv, CleanEmpty
      <4>2. CASE FlushMultipart(t)
        BY <1>2, <4>2, NothingCarried DEF FlushMultipart, Completed, Buffer
      <4>3. CASE Put(t)
        <5>1. buf[a].data = <<>>
          BY <4>3 DEF Put, BufferInv, EmptyDuringPut
        <5>2. buf'[a] = [buf[a] EXCEPT !.dirty = FALSE, !.original_size = buf[a].size]
          BY <1>2, <4>3 DEF Put
        <5> QED
          BY <1>2, <5>1, <5>2, NothingCarried DEF Buffer
      <4> QED
        BY <2>3, <4>1, <4>2, <4>3
    <3>3. Carried(t)' = {}
      BY <3>1, NothingCarried DEF Carried
    <3> QED
      BY <1>1, <3>1, <3>2, <3>3 DEF Flow
  <2> QED
    BY <2>1, <2>2, <2>3 DEF LockedStep
<1> QED
  BY <1>3, <1>4

\* What a flush vouches for has left, whichever step it returned from.
LEMMA SyncedStep ==
  ASSUME OpenInv, NEW t \in Tasks,
         Arrival(t) \/ Creation(t) \/ Reaching(t) \/ LockedStep(t)
  PROVE  SyncedLeft'
<1>1. /\ BufferInv /\ RequestsCarry /\ OneBufferEach /\ NoneStranded
      /\ OpenRequests /\ SyncedLeft
  BY DEF OpenInv, AccountInv
<1>2. /\ Len(owner) \in Nat /\ Len(owner') \in Nat /\ Len(owner) <= Len(owner')
      /\ \A n \in 1..Len(owner) : owner'[n] = owner[n]
      /\ Left \subseteq Left'
  <2>1. CASE LockedStep(t)
    BY <1>1, <2>1, LockedFlow DEF Flow
  <2>2. CASE Outside(t)
    BY <1>1, <2>2, NoneAccepted DEF Outside, Left, BufferInv
  <2> QED
    BY <2>1, <2>2 DEF Arrival, Creation, Reaching
<1>3. req[t].mark \in Nat /\ req[t].mark <= Len(owner)
  BY <1>1 DEF BufferInv, TypeOK, TaskTypeOK, Requests, OpenRequests
<1>4. \/ UNCHANGED synced
      \/ /\ synced' = [synced EXCEPT ![req[t].inode] = Maximum(@, req[t].mark)]
         /\ \A n \in 1..Len(owner) : owner[n] = req[t].inode => n \in Left'
  <2>1. CASE LockedStep(t)
    <3>1. Shape(t) /\ pc[t] \in LockedLabels /\ req[t].op # "release"
      BY <1>1, <2>1, LockedShape DEF Shape, OpenRequests
    <3>2. \A u \in Tasks : pc[u] \in LockedLabels /\ req[u].arc = req[t].arc => u = t
      BY <1>1, <3>1, Working DEF BufferInv
    <3>3. buffers[req[t].inode] = req[t].arc
      BY <1>1, <3>1 DEF OneBufferEach, AtWork
    <3>4. ASSUME NEW n \in 1..Len(owner), owner[n] = req[t].inode
          PROVE  n \in Left \/ n \in Bytes(buf[req[t].arc].data) \/ n \in Carried(t)
      BY <1>1, <3>2, <3>3, <3>4 DEF NoneStranded, Underway
    <3> QED
      BY <1>1, <1>2, <2>1, <3>1, <3>4, LockedSynced
  <2>2. CASE Reaching(t)
    <3>1. \/ UNCHANGED synced
          \/ /\ req[t].inode \notin DOMAIN buffers
             /\ synced' = [synced EXCEPT ![req[t].inode] = Maximum(@, req[t].mark)]
      BY <1>1, <2>2 DEF Reaching, OpenRequests
    <3> QED
      BY <1>1, <1>2, <3>1 DEF NoneStranded, Underway
  <2>3. CASE Arrival(t) \/ Creation(t)
    BY <2>3 DEF Arrival, Creation
  <2> QED
    BY <2>1, <2>2, <2>3
<1>5. synced' \in [Inodes -> Nat]
  BY <1>1, <1>3, <1>4 DEF SyncedLeft, Maximum
<1>6. ASSUME NEW i \in Inodes
      PROVE  /\ synced'[i] <= Len(owner')
             /\ \A n \in 1..synced'[i] : owner'[n] = i => n \in Left'
  <2>1. synced[i] \in Nat /\ synced[i] <= Len(owner)
    BY <1>1 DEF SyncedLeft
  <2>2. CASE synced'[i] = synced[i]
    <3>1. ASSUME NEW n \in 1..synced'[i], owner'[n] = i PROVE n \in Left'
      <4>1. n \in 1..synced[i] /\ n \in 1..Len(owner)
        BY <1>2, <2>1, <2>2
      <4> QED
        BY <1>1, <1>2, <3>1, <4>1 DEF SyncedLeft
    <3> QED
      BY <1>2, <2>1, <2>2, <3>1
  <2>3. CASE /\ synced'[i] = Maximum(synced[i], req[t].mark)
             /\ \A n \in 1..Len(owner) : owner[n] = i => n \in Left'
    <3>1. synced'[i] \in Nat /\ synced'[i] <= Len(owner)
      BY <1>3, <2>1, <2>3 DEF Maximum
    <3>2. \A n \in 1..synced'[i] : n \in 1..Len(owner)
      BY <1>2, <3>1
    <3> QED
      BY <1>2, <2>3, <3>1, <3>2
  <2> QED
    BY <1>1, <1>4, <2>2, <2>3 DEF SyncedLeft
<1> QED
  BY <1>5, <1>6 DEF SyncedLeft

\* The initial state.
LEMMA InitOpen == Init => OpenInv
<1> SUFFICES ASSUME Init PROVE OpenInv
  OBVIOUS
<1>1. AccountInv
  BY InitAccount
<1>2. OpenRequests
  BY DEF Init, OpenRequests, NoRequest, NewRequest
<1>3. OneBufferEach
  BY DEF Init, OneBufferEach, AtWork, LockedLabels, EmptyMap
<1>4. NoneStranded /\ SyncedLeft
  BY DEF Init, NoneStranded, SyncedLeft
<1> QED
  BY <1>1, <1>2, <1>3, <1>4 DEF OpenInv

\* Every step keeps the invariant of open files.
LEMMA StepOpen == ASSUME NoRelease PROVE OpenInv /\ [Next]_vars => OpenInv'
<1> SUFFICES ASSUME OpenInv, [Next]_vars PROVE OpenInv'
  OBVIOUS
<1>1. BufferInv /\ RequestsCarry /\ AccountInv'
  BY StepAccount DEF OpenInv, AccountInv
<1>2. ASSUME NEW t \in Tasks, Arrival(t) \/ Creation(t) \/ Reaching(t) \/ LockedStep(t)
      PROVE  OpenInv'
  BY <1>1, <1>2, OpenRequestsStep, OneBufferStep, StrandedStep, SyncedStep DEF OpenInv
<1>3. CASE UNCHANGED vars
  <2>1. OpenRequests' /\ OneBufferEach' /\ SyncedLeft'
    BY <1>3 DEF vars, OpenInv, OpenRequests, OneBufferEach, SyncedLeft, Left
  <2>2. NoneStranded'
    BY <1>3 DEF vars, OpenInv, NoneStranded, Underway, Left, Carried
  <2> QED
    BY <1>1, <2>1, <2>2 DEF OpenInv
<1> QED
  BY <1>1, <1>2, <1>3, StepKinds

\* The invariant of open files, in every behaviour without a release.
THEOREM OpenInvariant == ASSUME NoRelease PROVE Spec => []OpenInv
  BY InitOpen, StepOpen, PTL DEF Spec

-----------------------------------------------------------------------------
(* A flush that returned Ok *)

\* A store that takes every PUT, truncations to 0 only, and no upload in parts.
SinglePuts ==
  /\ ~PutMayFail
  /\ TruncateSizes \subseteq {0}
  /\ \A len \in Lengths : BufferSize + len <= MultipartThreshold

\* No byte leaves a buffer but in a PUT or a truncation to 0.
OnlyStored ==
  /\ fate.failed = {} /\ fate.lost = {} /\ fate.parted = {}
  /\ \A a \in Arcs : ~buf[a].multipart
  /\ \A t \in Tasks :
       /\ req[t].op = "truncate" => req[t].size = 0
       /\ req[t].op = "write" => req[t].len \in Lengths

\* A write that cannot reach the multipart threshold takes nothing out of its
\* buffer.
LEMMA WriteStored ==
  ASSUME SinglePuts, BufferInv, RequestsCarry, OnlyStored, NEW t \in Tasks,
         WriteDirect(t) \/ WriteAppend(t)
  PROVE  /\ fate'.failed = {} /\ fate'.lost = {} /\ fate'.parted = {}
         /\ ~buf'[req[t].arc].multipart
<1> DEFINE a == req[t].arc
<1>1. pc[t] = "body" /\ pc[t] \in LockedLabels /\ req[t].op = "write" /\ TypeOK
  BY DEF WriteDirect, WriteAppend, LockedLabels, BufferInv
<1>2. a \in Arcs /\ buf[a] \in Buffer /\ buf \in [Arcs -> Buffer] /\ ~buf[a].multipart
  BY <1>1, Working DEF TypeOK, SharedTypeOK, OnlyStored
<1>3. CASE WriteDirect(t)
  <2>1. buf'[a] = Positioned(t) /\ UNCHANGED fate
    BY <1>2, <1>3 DEF WriteDirect, history
  <2> QED
    BY <1>1, <1>2, <2>1, AppendFacts DEF OnlyStored
<1>4. CASE WriteAppend(t)
  <2> DEFINE d == Appended(t)
             data == buf[a].data \o NewBytes(t)
  <2>1. Len(data) < MultipartThreshold /\ Len(data) \in Nat
    <3>1. Len(buf[a].data) < BufferSize /\ buf[a].data \in Seq(Nat)
      BY <1>1, <1>2, BodyWithin DEF Within, Buffer
    <3>2. /\ NewBytes(t) \in Seq(Nat) /\ Len(NewBytes(t)) = req[t].len
          /\ req[t].len \in Nat
      BY <1>1, NewBytesTyped
    <3>3. BufferSize + req[t].len <= MultipartThreshold
      BY <1>1 DEF OnlyStored, SinglePuts
    <3> DEFINE s == buf[a].data
               r == NewBytes(t)
    <3>4. s \in Seq(Nat) /\ r \in Seq(Nat) /\ Len(r) = req[t].len
      BY <3>1, <3>2
    <3> HIDE DEF s, r
    <3>5. Len(s \o r) = Len(s) + Len(r) /\ Len(s) \in Nat
      <4>1. Len(s) \in Nat
        BY <3>4
      <4> QED
        BY <3>4, <4>1, ConcatProperties
    <3>6. Len(s) < BufferSize
      BY <3>1 DEF s
    <3>7. Len(s \o r) < MultipartThreshold /\ Len(s \o r) \in Nat
      <4>1. Len(s \o r) = Len(s) + req[t].len
        BY <3>4, <3>5
      <4>2. req[t].len \in Nat
        BY <3>2
      <4>3. BufferSize \in Nat /\ MultipartThreshold \in Nat
        BY SizesAssumption
      <4> DEFINE n == req[t].len
                 m == Len(s)
      <4>4. n \in Nat /\ m \in Nat /\ m < BufferSize /\ BufferSize + n <= MultipartThreshold
        BY <3>3, <3>5, <3>6, <4>2
      <4>5. Len(s \o r) = m + n
        BY <4>1
      <4> HIDE DEF n, m, data, d
      <4> QED
        BY <4>3, <4>4, <4>5
    <3> QED
      BY <3>7 DEF s, r
  <2>2. d \in Buffer /\ ~d.multipart /\ d.data = data
    <3> HIDE DEF data
    <3>1. ~(Len(data) >= MultipartThreshold)
      BY <2>1, SizesAssumption
    <3>2. Positioned(t) \in Buffer /\ ~Positioned(t).multipart /\ d \in Buffer
      BY <1>1, <1>2, AppendTyped, AppendFacts
    <3> QED
      BY <3>1, <3>2 DEF Appended, Buffer, data
  <2> HIDE DEF d
  <2>3. Parted(d) = 0 /\ ~WithoutParts(d).multipart
    BY <2>2, PartsFacts DEF Parted
  <2>4. Bytes(SubSeq(d.data, 1, Parted(d))) = {}
    <3>1. SubSeq(d.data, 1, 0) = <<>>
      BY SubSeqEmpty
    <3> QED
      BY <2>3, <3>1, NothingCarried
  <2>5. /\ fate' = [fate EXCEPT !.parted = @ \cup Bytes(SubSeq(d.data, 1, Parted(d)))]
        /\ buf'[a] = WithoutParts(d)
    BY <1>2, <1>4 DEF WriteAppend, d
  <2>6. /\ fate'.parted = fate.parted /\ fate'.failed = fate.failed
        /\ fate'.lost = fate.lost
    BY <2>4, <2>5 DEF RequestsCarry, Fates
  <2> QED
    BY <2>3, <2>5, <2>6 DEF OnlyStored
<1> QED
  BY <1>3, <1>4

\* Nor does any other step under the Mutex, but for PUTs and cuts.
LEMMA LockedStored ==
  ASSUME SinglePuts, BufferInv, RequestsCarry, OnlyStored, NEW t \in Tasks, LockedStep(t)
  PROVE  /\ fate'.failed = {} /\ fate'.lost = {} /\ fate'.parted = {}
         /\ ~buf'[req[t].arc].multipart
<1> DEFINE a == req[t].arc
<1>1. pc[t] \in LockedLabels /\ TypeOK
  BY LockedShape DEF Shape, BufferInv
<1>2. /\ a \in Arcs /\ buf[a] \in Buffer /\ buf \in [Arcs -> Buffer] /\ ~buf[a].multipart
      /\ DOMAIN fate = Fates /\ fate.failed = {} /\ fate.lost = {} /\ fate.parted = {}
  BY <1>1, Working DEF TypeOK, SharedTypeOK, OnlyStored, RequestsCarry
<1>3. CASE TruncateBuffer(t)
  <2>1. req[t].size = 0
    BY <1>3 DEF TruncateBuffer, OnlyStored
  <2> QED
    BY <1>2, <1>3, <2>1 DEF TruncateBuffer, Fates, Buffer
<1>4. CASE FlushNothing(t) \/ FlushTake(t) \/ EmptyPut(t)
  BY <1>2, <1>4 DEF FlushNothing, FlushTake, EmptyPut, Buffer, history
<1>5. CASE Put(t)
  <2>1. buf'[a] = [buf[a] EXCEPT !.dirty = FALSE, !.original_size = buf[a].size]
    BY <1>2, <1>5 DEF Put
  <2>2. ~buf'[a].multipart
    BY <1>2, <2>1 DEF Buffer
  <2> QED
    BY <1>2, <1>5, <2>2 DEF Put, Fates
<1>6. CASE DirectPut(t)
  <2>1. ~buf'[a].multipart
    BY <1>2, <1>6 DEF DirectPut, Buffer
  <2> QED
    BY <1>2, <1>6, <2>1 DEF DirectPut, Fates
<1>7. ~FlushMultipart(t) /\ ~PutFails(t)
  BY <1>2 DEF FlushMultipart, PutFails, SinglePuts
<1> QED
  BY <1>3, <1>4, <1>5, <1>6, <1>7, WriteStored DEF LockedStep

\* Every step keeps to PUTs and cuts.
LEMMA StepStored ==
  ASSUME SinglePuts
  PROVE  AccountInv /\ OnlyStored /\ [Next]_vars => OnlyStored'
<1> SUFFICES ASSUME AccountInv, OnlyStored, [Next]_vars PROVE OnlyStored'
  OBVIOUS
<1>1. BufferInv /\ RequestsCarry
  BY DEF AccountInv
<1>2. NoRequest.op = "none"
  BY DEF NoRequest, NewRequest
<1>3. ASSUME NEW t \in Tasks, LockedStep(t) PROVE OnlyStored'
  <2>1. Shape(t) /\ /\ fate'.failed = {} /\ fate'.lost = {} /\ fate'.parted = {}
                   /\ ~buf'[req[t].arc].multipart
    BY <1>1, <1>3, LockedShape, LockedStored
  <2>2. \A a \in Arcs : ~buf'[a].multipart
    BY <2>1 DEF Shape, OnlyStored
  <2>3. ASSUME NEW u \in Tasks
        PROVE  /\ req'[u].op = "truncate" => req'[u].size = 0
               /\ req'[u].op = "write" => req'[u].len \in Lengths
    BY <1>2, <2>1 DEF Shape, OthersStay, SameRequest, OnlyStored
  <2> QED
    BY <2>1, <2>2, <2>3 DEF OnlyStored
<1>4. ASSUME NEW t \in Tasks, Arrival(t) \/ Creation(t) \/ Reaching(t) PROVE OnlyStored'
  <2>1. Outside(t) /\ UNCHANGED fate
    BY <1>4 DEF Arrival, Creation, Reaching, Outside
  <2>2. ASSUME NEW a \in Arcs PROVE ~buf'[a].multipart
    <3>1. CASE Creation(t)
      <4>1. CASE a = req[t].id
        BY <3>1, <4>1 DEF Creation, OnlyStored
      <4>2. CASE a # req[t].id
        BY <3>1, <4>2 DEF Creation, OnlyStored
      <4> QED
        BY <4>1, <4>2
    <3>2. CASE UNCHANGED buf
      BY <3>2 DEF OnlyStored
    <3> QED
      BY <1>4, <3>1, <3>2 DEF Arrival, Reaching
  <2>3. /\ req'[t].op = "truncate" => req'[t].size = 0
        /\ req'[t].op = "write" => req'[t].len \in Lengths
    <3>1. CASE Arrival(t)
      BY <3>1 DEF Arrival, SinglePuts
    <3>2. CASE Creation(t)
      BY <3>2 DEF Creation, OnlyStored
    <3>3. CASE Reaching(t)
      BY <1>2, <3>3 DEF Reaching, OnlyStored
    <3> QED
      BY <1>4, <3>1, <3>2, <3>3
  <2>4. \A u \in Tasks : u # t => req'[u] = req[u]
    BY <2>1 DEF Outside, OthersStay
  <2> QED
    BY <2>1, <2>2, <2>3, <2>4 DEF OnlyStored
<1>5. CASE UNCHANGED vars
  BY <1>5 DEF vars, OnlyStored
<1> QED
  BY <1>1, <1>3, <1>4, <1>5, StepKinds

\* Bytes accepted before a flush or fsync that returned Ok have been in a PUT the
\* store acknowledged, or their file was truncated to 0 meanwhile: for every
\* interleaving of writes, truncations and flushes, as long as no file is
\* closed, no PUT fails and no file grows into an upload in parts
\* (write_buffer.rs:230-276).
THEOREM SyncedStored ==
  ASSUME NoRelease, SinglePuts
  PROVE  Spec => []SyncedBytesWereStored
<1>1. Init => OnlyStored
  BY DEF Init, OnlyStored, NewBuffer, NoRequest, NewRequest
<1>2. OpenInv /\ OnlyStored => SyncedBytesWereStored
  BY DEF OpenInv, SyncedLeft, OnlyStored, Left, SyncedBytesWereStored
<1> QED
  BY <1>1, <1>2, StepStored, AccountInvariant, OpenInvariant, PTL DEF Spec

-----------------------------------------------------------------------------
(* Later writes win *)

\* Each file has an object of its own, and what objects were before is older
\* than every accepted byte.
OwnPaths == \A i, j \in Inodes : PathOf[i] = PathOf[j] => i = j
OldObjects == \A k \in 1..Len(Before) : Before[k] = 0

\* The bytes of one sequence were accepted before those of the other.
Precedes(s, r) == \A x \in Bytes(s), y \in Bytes(r) : x < y

\* What a task at work holds follows its object, and goes there in turn: the
\* payload of its PUT, the buffer, the bytes it writes directly.
TaskInLine(t) ==
  /\ Precedes(store[Path(t)], req[t].own)
  /\ Precedes(buf[req[t].arc].data, req[t].own)
  /\ pc[t] = "put" => Precedes(store[Path(t)], req[t].data) /\ Precedes(req[t].data, req[t].own)

InLine ==
  /\ \A p \in Paths : \A x \in Bytes(store[p]) : x <= Len(owner)
  /\ \A i \in DOMAIN buffers : Precedes(store[PathOf[i]], buf[buffers[i]].data)
  /\ \A t \in Tasks : pc[t] \in LockedLabels => TaskInLine(t)

LineInv == OpenInv /\ OrderInv /\ InLine

\* A later write, or nothing, replaces the object.
Replaces(p) == store'[p] = store[p] \/ Precedes(store[p], store'[p])

\* What a step under the Mutex makes of the task's own line.
LineStep(t) ==
  LET a == req[t].arc IN
  /\ Replaces(Path(t))
  /\ \A p \in Paths : p # Path(t) => store'[p] = store[p]
  /\ \A x \in Bytes(store'[Path(t)]) : x <= Len(owner')
  /\ Precedes(store'[Path(t)], buf'[a].data)
  /\ pc'[t] \in LockedLabels =>
       /\ Precedes(store'[Path(t)], req'[t].own)
       /\ Precedes(buf'[a].data, req'[t].own)
       /\ pc'[t] = "put" =>
            Precedes(store'[Path(t)], req'[t].data) /\ Precedes(req'[t].data, req'[t].own)

\* Nothing precedes and follows everything.
LEMMA EmptyPrecedes ==
  ASSUME NEW s PROVE Precedes(<<>>, s) /\ Precedes(s, <<>>)
  BY NothingCarried DEF Precedes

\* What is old enough precedes the bytes of a write.
LEMMA NewFollow ==
  ASSUME TypeOK, NEW t \in Tasks, Accept(t), NEW s \in Seq(Nat),
         \A x \in Bytes(s) : x <= Len(owner)
  PROVE  Precedes(s, NewBytes(t)) /\ \A x \in Bytes(s) : x <= Len(owner')
<1>1. /\ Len(owner) \in Nat /\ Len(owner') \in Nat /\ Len(owner) <= Len(owner')
      /\ Bytes(NewBytes(t)) = (Len(owner) + 1)..Len(owner')
  BY AcceptFacts
<1>2. Bytes(s) \subseteq Nat
  BY DEF Bytes
<1>3. ASSUME NEW x \in Bytes(s), NEW y \in Bytes(NewBytes(t)) PROVE x < y
  BY <1>1, <1>2
<1>4. ASSUME NEW x \in Bytes(s) PROVE x <= Len(owner')
  BY <1>1, <1>2
<1> QED
  BY <1>3, <1>4 DEF Precedes

\* What a task at work starts from.
LEMMA LineFacts ==
  ASSUME LineInv, NEW t \in Tasks, pc[t] \in LockedLabels
  PROVE  LET a == req[t].arc
             S == store[Path(t)]
         IN /\ TypeOK /\ BufferInv /\ RequestsCarry /\ Path(t) \in Paths /\ a \in Arcs
            /\ req[t].inode \in Inodes /\ req[t] \in Requests
            /\ buf \in [Arcs -> Buffer] /\ buf[a] \in Buffer /\ buf[a].data \in Seq(Nat)
            /\ req \in [Tasks -> Requests] /\ pc \in [Tasks -> Labels]
            /\ store \in [Paths -> Seq(Nat)] /\ S \in Seq(Nat)
            /\ req[t].own \in Seq(Nat) /\ req[t].data \in Seq(Nat)
            /\ req[t].inode \in DOMAIN buffers /\ buffers[req[t].inode] = a
            /\ \A x \in Bytes(S) : x <= Len(owner)
            /\ \A x \in Bytes(buf[a].data) : x <= Len(owner)
            /\ \A x \in Bytes(req[t].own) : x <= Len(owner)
            /\ \A x \in Bytes(req[t].data) : x <= Len(owner)
            /\ Precedes(S, buf[a].data) /\ TaskInLine(t)
<1>1. TypeOK /\ BufferInv /\ RequestsCarry
  BY DEF LineInv, OpenInv, AccountInv, BufferInv
<1>2. /\ req[t].arc \in Arcs /\ req[t].inode \in Inodes /\ req[t] \in Requests
      /\ buf \in [Arcs -> Buffer] /\ req \in [Tasks -> Requests] /\ pc \in [Tasks -> Labels]
      /\ store \in [Paths -> Seq(Nat)]
  BY <1>1, Working DEF TypeOK, SharedTypeOK, TaskTypeOK, LockedLabels
<1>3. Path(t) \in Paths
  BY <1>2 DEF Path, Paths
<1>4. req[t].inode \in DOMAIN buffers /\ buffers[req[t].inode] = req[t].arc
  BY DEF LineInv, OpenInv, OneBufferEach, AtWork
<1>5. /\ \A x \in Bytes(buf[req[t].arc].data) : x <= Len(owner)
      /\ \A x \in Bytes(req[t].own) : x <= Len(owner)
      /\ \A x \in Bytes(req[t].data) : x <= Len(owner)
  BY <1>2 DEF LineInv, OrderInv, Sorted, Bytes
<1>6. Precedes(store[Path(t)], buf[req[t].arc].data)
  BY <1>4 DEF LineInv, InLine, Path
<1>7. TaskInLine(t) /\ \A x \in Bytes(store[Path(t)]) : x <= Len(owner)
  BY <1>3 DEF LineInv, InLine
<1>8. /\ buf[req[t].arc] \in Buffer /\ buf[req[t].arc].data \in Seq(Nat)
      /\ store[Path(t)] \in Seq(Nat) /\ req[t].own \in Seq(Nat) /\ req[t].data \in Seq(Nat)
  BY <1>2, <1>3 DEF Buffer, Requests
<1> QED
  BY <1>1, <1>2, <1>3, <1>4, <1>5, <1>6, <1>7, <1>8

\* Writes add bytes behind all others, and truncations take some away.
LEMMA BodyLine ==
  ASSUME LineInv, NEW t \in Tasks, WriteDirect(t) \/ WriteAppend(t) \/ TruncateBuffer(t)
  PROVE  LineStep(t)
<1> DEFINE a == req[t].arc
           b == buf[a].data
           S == store[Path(t)]
<1>1. /\ pc[t] = "body" /\ pc[t] \in LockedLabels /\ UNCHANGED store
      /\ pc'[t] \in {"flush", "empty", "idle"}
  <2>1. pc[t] = "body" /\ UNCHANGED store
    BY DEF WriteDirect, WriteAppend, TruncateBuffer
  <2>2. pc \in [Tasks -> Labels]
    BY DEF LineInv, OrderInv, BufferInv, TypeOK, TaskTypeOK
  <2>3. pc'[t] \in {"flush", "empty", "idle"}
    BY <2>2 DEF WriteDirect, WriteAppend, TruncateBuffer, Return, Goto
  <2> QED
    BY <2>1, <2>3 DEF LockedLabels
<1>2. /\ TypeOK /\ BufferInv /\ RequestsCarry /\ a \in Arcs /\ req[t] \in Requests
      /\ buf \in [Arcs -> Buffer] /\ buf[a] \in Buffer /\ b \in Seq(Nat)
      /\ req \in [Tasks -> Requests] /\ S \in Seq(Nat)
      /\ \A x \in Bytes(S) : x <= Len(owner)
      /\ \A x \in Bytes(b) : x <= Len(owner)
      /\ Precedes(S, b)
  BY <1>1, LineFacts
<1>3. req[t].own = <<>>
  BY <1>1, <1>2 DEF RequestsCarry
<1>4. CASE WriteDirect(t)
  <2>1. buf'[a].data = b /\ req'[t].own = NewBytes(t) /\ Accept(t)
    <3>1. buf'[a] = Positioned(t)
      BY <1>2, <1>4 DEF WriteDirect
    <3>2. buf'[a].data = b
      BY <1>1, <1>2, <3>1, AppendFacts
    <3> QED
      BY <1>2, <1>4, <3>2 DEF WriteDirect, Requests
  <2>2. Precedes(S, NewBytes(t)) /\ Precedes(b, NewBytes(t))
        /\ \A x \in Bytes(S) : x <= Len(owner')
    BY <1>2, <2>1, NewFollow
  <2> QED
    BY <1>1, <1>2, <2>1, <2>2 DEF LineStep, Replaces
<1>5. CASE WriteAppend(t)
  <2> DEFINE new == b \o NewBytes(t)
  <2>1. /\ Accept(t) /\ buf'[a] = WithoutParts(Appended(t))
        /\ req'[t] = req[t] \/ req'[t] = NoRequest
    BY <1>2, <1>5 DEF WriteAppend, Return
  <2>2. Appended(t) \in Buffer /\ Appended(t).data = new
    <3>1. Positioned(t) \in Buffer /\ Appended(t) \in Buffer
      BY <1>1, <1>2, AppendTyped, AppendFacts
    <3> QED
      BY <3>1 DEF Appended, Buffer
  <2>3. /\ Parted(Appended(t)) \in 0..Len(new)
        /\ WithoutParts(Appended(t)).data = SubSeq(new, Parted(Appended(t)) + 1, Len(new))
    BY <2>2, PartsFacts DEF WithoutParts, Buffer
  <2>4. NewBytes(t) \in Seq(Nat) /\ new \in Seq(Nat)
    BY <1>2, <2>2, NewBytesTyped DEF Buffer
  <2>5. Bytes(new) = Bytes(b) \cup Bytes(NewBytes(t))
    BY <1>2, <2>4, BytesFacts
  <2>6. Bytes(buf'[a].data) \subseteq Bytes(b) \cup Bytes(NewBytes(t))
    <3> HIDE DEF new
    <3> QED
      BY <2>1, <2>3, <2>4, <2>5, BytesFacts
  <2>7. Precedes(S, NewBytes(t)) /\ \A x \in Bytes(S) : x <= Len(owner')
    BY <1>2, <2>1, NewFollow
  <2>8. Precedes(S, buf'[a].data)
    BY <1>2, <2>6, <2>7 DEF Precedes
  <2>9. req'[t].own = <<>>
    BY <1>3, <2>1, NothingCarried
  <2> QED
    BY <1>1, <2>7, <2>8, <2>9, EmptyPrecedes DEF LineStep, Replaces
<1>6. CASE TruncateBuffer(t)
  <2>1. /\ UNCHANGED owner /\ buf'[a].data = <<>>
        /\ req'[t] = req[t] \/ req'[t] = NoRequest
    BY <1>2, <1>6 DEF TruncateBuffer, Return, Buffer
  <2>2. req'[t].own = <<>>
    BY <1>3, <2>1, NothingCarried
  <2> QED
    BY <1>1, <1>2, <2>1, <2>2, EmptyPrecedes DEF LineStep, Replaces
<1> QED
  BY <1>4, <1>5, <1>6

\* A flush takes the buffer's bytes on their way to the object, or out of it.
LEMMA FlushLine ==
  ASSUME LineInv, NEW t \in Tasks, FlushNothing(t) \/ FlushMultipart(t) \/ FlushTake(t)
  PROVE  LineStep(t)
<1> DEFINE a == req[t].arc
           b == buf[a].data
           S == store[Path(t)]
<1>1. pc[t] = "flush" /\ pc[t] \in LockedLabels /\ UNCHANGED <<store, owner>>
  BY DEF FlushNothing, FlushMultipart, FlushTake, LockedLabels, history
<1>2. /\ TypeOK /\ a \in Arcs /\ req[t] \in Requests
      /\ buf \in [Arcs -> Buffer] /\ buf[a] \in Buffer
      /\ req \in [Tasks -> Requests] /\ pc \in [Tasks -> Labels]
      /\ \A x \in Bytes(S) : x <= Len(owner)
      /\ Precedes(S, b) /\ TaskInLine(t)
  BY <1>1, LineFacts
<1>3. Precedes(S, req[t].own) /\ Precedes(b, req[t].own)
  BY <1>2 DEF TaskInLine
<1>4. CASE FlushTake(t)
  <2>1. /\ req'[t].data = b /\ req'[t].own = req[t].own /\ buf'[a].data = <<>>
    BY <1>2, <1>4 DEF FlushTake, Requests, Buffer
  <2> QED
    BY <1>1, <1>2, <1>3, <2>1, EmptyPrecedes DEF LineStep, Replaces
<1>5. CASE FlushNothing(t) \/ FlushMultipart(t)
  <2>1. /\ pc'[t] \in {"direct", "next", "idle"}
        /\ pc'[t] = "direct" => req' = req
    BY <1>2, <1>5, GoOnShape DEF FlushNothing, FlushMultipart
  <2>2. buf'[a].data = b \/ buf'[a].data = <<>>
    BY <1>2, <1>5 DEF FlushNothing, FlushMultipart, Completed, Buffer
  <2>3. Precedes(S, buf'[a].data) /\ Precedes(buf'[a].data, req[t].own)
    BY <1>2, <1>3, <2>2, EmptyPrecedes
  <2> QED
    BY <1>1, <1>2, <1>3, <2>1, <2>3 DEF LineStep, Replaces, LockedLabels
<1> QED
  BY <1>4, <1>5

\* A PUT replaces the object by what follows it, while the buffer is empty.
LEMMA PutLine ==
  ASSUME LineInv, NEW t \in Tasks, Put(t) \/ DirectPut(t) \/ EmptyPut(t) \/ PutFails(t)
  PROVE  LineStep(t)
<1> DEFINE a == req[t].arc
           S == store[Path(t)]
<1>1. /\ pc[t] \in {"put", "direct", "empty"} /\ pc[t] \in LockedLabels
      /\ UNCHANGED owner
  BY DEF Put, DirectPut, EmptyPut, PutFails, LockedLabels
<1>2. /\ TypeOK /\ BufferInv /\ a \in Arcs /\ req[t] \in Requests /\ Path(t) \in Paths
      /\ buf \in [Arcs -> Buffer] /\ buf[a] \in Buffer
      /\ req \in [Tasks -> Requests] /\ pc \in [Tasks -> Labels]
      /\ store \in [Paths -> Seq(Nat)]
      /\ \A x \in Bytes(S) : x <= Len(owner)
      /\ \A x \in Bytes(req[t].own) : x <= Len(owner)
      /\ \A x \in Bytes(req[t].data) : x <= Len(owner)
      /\ TaskInLine(t)
  BY <1>1, LineFacts
<1>3. buf[a].data = <<>>
  BY <1>1, <1>2 DEF BufferInv, EmptyDuringPut
<1>4. buf'[a].data = <<>>
  <2>1. CASE Put(t)
    <3>1. buf'[a] = [buf[a] EXCEPT !.dirty = FALSE, !.original_size = buf[a].size]
      BY <1>2, <2>1 DEF Put
    <3> QED
      BY <1>2, <1>3, <3>1 DEF Buffer
  <2>2. CASE DirectPut(t) \/ EmptyPut(t) \/ PutFails(t)
    BY <1>2, <1>3, <2>2 DEF DirectPut, EmptyPut, PutFails, Buffer
  <2> QED
    BY <2>1, <2>2
<1>5. \A s : Precedes(s, buf'[a].data) /\ Precedes(buf'[a].data, s)
  BY <1>4, EmptyPrecedes
<1>6. \/ UNCHANGED store
      \/ /\ pc[t] = "put" /\ store' = [store EXCEPT ![Path(t)] = req[t].data]
      \/ /\ pc[t] = "direct" /\ store' = [store EXCEPT ![Path(t)] = req[t].own]
      \/ store' = [store EXCEPT ![Path(t)] = <<>>]
  BY DEF Put, DirectPut, EmptyPut, PutFails, Payload
<1>7. /\ \A p \in Paths : p # Path(t) => store'[p] = store[p]
      /\ Replaces(Path(t)) /\ \A x \in Bytes(store'[Path(t)]) : x <= Len(owner')
  <2>1. CASE UNCHANGED store
    BY <1>1, <1>2, <2>1 DEF Replaces
  <2>2. CASE pc[t] = "put" /\ store' = [store EXCEPT ![Path(t)] = req[t].data]
    BY <1>1, <1>2, <2>2 DEF Replaces, TaskInLine
  <2>3. CASE pc[t] = "direct" /\ store' = [store EXCEPT ![Path(t)] = req[t].own]
    BY <1>1, <1>2, <2>3 DEF Replaces, TaskInLine
  <2>4. CASE store' = [store EXCEPT ![Path(t)] = <<>>]
    BY <1>1, <1>2, <2>4, EmptyPrecedes, NothingCarried DEF Replaces
  <2> QED
    BY <1>6, <2>1, <2>2, <2>3, <2>4
<1>8. CASE Put(t)
  <2>1. /\ pc[t] = "put" /\ store'[Path(t)] = req[t].data
        /\ pc'[t] \in {"direct", "next", "idle"}
        /\ pc'[t] = "direct" => req' = req
    BY <1>2, <1>8, GoOnShape DEF Put
  <2>2. pc'[t] = "direct" => Precedes(store'[Path(t)], req'[t].own)
    BY <1>2, <2>1 DEF TaskInLine
  <2> QED
    BY <1>5, <1>7, <2>1, <2>2 DEF LineStep, LockedLabels
<1>9. CASE DirectPut(t) \/ EmptyPut(t) \/ PutFails(t)
  <2>1. pc'[t] = "idle"
    BY <1>2, <1>9 DEF DirectPut, EmptyPut, PutFails, Return, Goto
  <2> QED
    BY <1>5, <1>7, <2>1 DEF LineStep, LockedLabels
<1> QED
  BY <1>8, <1>9

\* A step under the Mutex keeps every file in line: tasks at work on other
\* buffers work on other objects.
LEMMA LockedLine ==
  ASSUME OwnPaths, LineInv, NEW t \in Tasks, LockedStep(t)
  PROVE  InLine' /\ \A p \in Paths : Replaces(p)
<1>1. LineStep(t)
  BY BodyLine, FlushLine, PutLine DEF LockedStep
<1>2. BufferInv /\ TypeOK /\ OneBufferEach /\ Shape(t)
  BY LockedShape DEF LineInv, OpenInv, AccountInv, BufferInv
<1>3. pc[t] \in LockedLabels
  BY <1>2 DEF Shape
<1>4. /\ req[t].inode \in DOMAIN buffers /\ buffers[req[t].inode] = req[t].arc
      /\ req[t].inode \in Inodes /\ Path(t) \in Paths /\ store \in [Paths -> Seq(Nat)]
      /\ DOMAIN buffers \subseteq Inodes /\ \A i \in DOMAIN buffers : buffers[i] \in Arcs
  BY <1>2, <1>3, LineFacts DEF TypeOK, SharedTypeOK
<1>5. Len(owner) \in Nat /\ Len(owner') \in Nat /\ Len(owner) <= Len(owner')
  BY <1>2, LockedSources, AcceptFacts, NoneAccepted
<1>6. ASSUME NEW p \in Paths
      PROVE  Replaces(p) /\ \A x \in Bytes(store'[p]) : x <= Len(owner')
  <2>1. CASE p = Path(t)
    BY <1>1, <2>1 DEF LineStep
  <2>2. CASE p # Path(t)
    <3>1. store'[p] = store[p] /\ store[p] \in Seq(Nat)
      BY <1>1, <1>4, <2>2 DEF LineStep
    <3>2. \A x \in Bytes(store[p]) : x <= Len(owner) /\ x \in Nat
      BY <3>1 DEF LineInv, InLine, Bytes
    <3>3. \A x \in Bytes(store[p]) : x <= Len(owner')
      BY <1>5, <3>2
    <3> QED
      BY <3>1, <3>3 DEF Replaces
  <2> QED
    BY <2>1, <2>2
<1>7. ASSUME NEW i \in DOMAIN buffers'
      PROVE  Precedes(store'[PathOf[i]], buf'[buffers'[i]].data)
  <2>1. i \in DOMAIN buffers /\ buffers'[i] = buffers[i] /\ buffers[i] \in Arcs
    BY <1>2, <1>4 DEF Shape
  <2>2. CASE i = req[t].inode
    BY <1>1, <1>4, <2>1, <2>2 DEF LineStep, Path
  <2>3. CASE i # req[t].inode
    <3>1. buffers[i] # req[t].arc
      BY <1>2, <1>4, <2>1, <2>3 DEF OneBufferEach
    <3>2. PathOf[i] # Path(t) /\ PathOf[i] \in Paths
      BY <1>4, <2>1, <2>3 DEF OwnPaths, Path, Paths
    <3>3. store'[PathOf[i]] = store[PathOf[i]] /\ buf'[buffers'[i]] = buf[buffers[i]]
      BY <1>1, <1>2, <2>1, <3>1, <3>2 DEF LineStep, Shape
    <3> QED
      BY <2>1, <3>3 DEF LineInv, InLine
  <2> QED
    BY <2>2, <2>3
<1>8. ASSUME NEW u \in Tasks, pc'[u] \in LockedLabels
      PROVE  TaskInLine(u)'
  <2>1. CASE u = t
    <3>1. req'[t].arc = req[t].arc /\ req'[t].inode = req[t].inode
      BY <1>2, <1>8, <2>1 DEF Shape, SameRequest, LockedLabels
    <3> QED
      BY <1>1, <1>8, <2>1, <3>1 DEF LineStep, TaskInLine, Path
  <2>2. CASE u # t
    <3>1. pc'[u] = pc[u] /\ req'[u] = req[u]
      BY <1>2, <2>2 DEF Shape, OthersStay
    <3>2. /\ req[u].arc # req[t].arc /\ req[u].arc \in Arcs
          /\ req[u].inode \in Inodes /\ req[u].inode # req[t].inode
      <4>1. req[u].arc # req[t].arc /\ req[u].arc \in Arcs
        BY <1>2, <1>3, <1>8, <2>2, <3>1 DEF TypeOK, TaskTypeOK, MutexTypeOK
      <4>2. req[u].inode \in Inodes /\ buffers[req[u].inode] = req[u].arc
        BY <1>8, <3>1, LineFacts
      <4> QED
        BY <1>4, <4>1, <4>2
    <3>3. Path(u) # Path(t) /\ Path(u) \in Paths
      BY <1>4, <3>2 DEF OwnPaths, Path, Paths
    <3>4. store'[Path(u)] = store[Path(u)] /\ buf'[req[u].arc] = buf[req[u].arc]
      BY <1>1, <1>2, <3>2, <3>3 DEF LineStep, Shape
    <3>5. TaskInLine(u)
      BY <1>8, <3>1 DEF LineInv, InLine
    <3> QED
      BY <3>1, <3>4, <3>5 DEF TaskInLine, Path
  <2> QED
    BY <2>1, <2>2
<1> QED
  BY <1>6, <1>7, <1>8 DEF InLine

\* The other steps move nothing but fresh, empty buffers.
LEMMA OutsideLine ==
  ASSUME LineInv, NEW t \in Tasks, Arrival(t) \/ Creation(t) \/ Reaching(t)
  PROVE  InLine' /\ \A p \in Paths : Replaces(p)
<1>1. Outside(t) /\ UNCHANGED <<store, owner>> /\ BufferInv
  BY DEF Arrival, Creation, Reaching, Outside, LineInv, OrderInv
<1>2. \A a \in Arcs : buf'[a] = buf[a] \/ buf'[a].data = <<>>
  BY DEF Arrival, Creation, Reaching
<1>3. /\ \A i \in DOMAIN buffers : buffers[i] \in Arcs
      /\ pc \in [Tasks -> Labels] /\ req \in [Tasks -> Requests]
  BY <1>1 DEF BufferInv, TypeOK, SharedTypeOK, TaskTypeOK
<1>4. ASSUME NEW i \in DOMAIN buffers'
      PROVE  Precedes(store'[PathOf[i]], buf'[buffers'[i]].data)
  <2>1. CASE i \in DOMAIN buffers /\ buffers'[i] = buffers[i]
    BY <1>1, <1>2, <1>3, <2>1, EmptyPrecedes DEF LineInv, InLine
  <2>2. CASE buf'[buffers'[i]].data = <<>>
    BY <2>2, EmptyPrecedes
  <2>3. CASE Creation(t) /\ i \notin DOMAIN buffers
    BY <2>2, <2>3 DEF Creation
  <2>4. CASE Creation(t) /\ i \in DOMAIN buffers
    BY <2>1, <2>4 DEF Creation
  <2> QED
    BY <2>1, <2>3, <2>4 DEF Arrival, Reaching
<1>5. ASSUME NEW u \in Tasks, pc'[u] \in LockedLabels
      PROVE  TaskInLine(u)'
  <2>1. CASE u = t
    BY <1>1, <2>1, EmptyPrecedes DEF TaskInLine, Outside
  <2>2. CASE u # t
    <3>1. pc'[u] = pc[u] /\ req'[u] = req[u] /\ TaskInLine(u) /\ req[u].arc \in Arcs
      BY <1>1, <1>5, <2>2, Working DEF Outside, OthersStay, LineInv, InLine, BufferInv
    <3>2. CASE buf'[req[u].arc] = buf[req[u].arc]
      BY <1>1, <3>1, <3>2 DEF TaskInLine, Path
    <3>3. CASE buf'[req[u].arc].data = <<>>
      BY <1>1, <3>1, <3>3, EmptyPrecedes DEF TaskInLine, Path
    <3> QED
      BY <1>2, <3>1, <3>2, <3>3
  <2> QED
    BY <2>1, <2>2
<1> QED
  BY <1>1, <1>4, <1>5 DEF InLine, LineInv, Replaces

\* The initial state.
LEMMA InitLine == ASSUME OldObjects PROVE Init => InLine
<1> SUFFICES ASSUME Init PROVE InLine
  OBVIOUS
<1>1. ASSUME NEW p \in Paths, NEW x \in Bytes(store[p]) PROVE x <= Len(owner)
  <2>1. store[p] = Before /\ Len(owner) = 0
    BY DEF Init
  <2>2. x = 0
    BY <2>1 DEF OldObjects, Bytes
  <2> QED
    BY <2>1, <2>2
<1>2. DOMAIN buffers = {} /\ \A t \in Tasks : pc[t] \notin LockedLabels
  BY DEF Init, EmptyMap, LockedLabels
<1> QED
  BY <1>1, <1>2 DEF InLine

\* Every step keeps files in line.
LEMMA StepLine ==
  ASSUME OwnPaths
  PROVE  LineInv /\ [Next]_vars => InLine' /\ \A p \in Paths : Replaces(p)
<1> SUFFICES ASSUME LineInv, [Next]_vars PROVE InLine' /\ \A p \in Paths : Replaces(p)
  OBVIOUS
<1>1. BufferInv /\ RequestsCarry
  BY DEF LineInv, OpenInv, AccountInv
<1>2. CASE UNCHANGED vars
  BY <1>2 DEF vars, LineInv, InLine, TaskInLine, Path, Replaces
<1> QED
  BY <1>1, <1>2, StepKinds, LockedLine, OutsideLine

\* What follows nonempty bytes has the later last byte.
LEMMA LastFollows ==
  ASSUME NEW s \in Seq(Nat), NEW r \in Seq(Nat), Precedes(s, r), s # <<>>, r # <<>>
  PROVE  r[Len(r)] > s[Len(s)]
<1>1. Len(s) \in 1..Len(s) /\ Len(r) \in 1..Len(r)
  OBVIOUS
<1>2. s[Len(s)] \in Bytes(s) /\ r[Len(r)] \in Bytes(r) /\ s[Len(s)] \in Nat /\ r[Len(r)] \in Nat
  BY <1>1 DEF Bytes
<1>3. s[Len(s)] < r[Len(r)]
  BY <1>2 DEF Precedes
<1> QED
  BY <1>2, <1>3

\* A PUT never replaces an object by one whose bytes were all accepted earlier:
\* the later write wins, for every interleaving of the requests on a file and
\* every failure of its PUTs, as long as no file is closed and each inode has
\* a path of its own (write_buffer.rs:197-276).
THEOREM LaterWins ==
  ASSUME NoRelease, OwnPaths, OldObjects
  PROVE  Spec => LaterWriteWins
<1>1. OpenInv /\ OrderInv /\ InLine <=> LineInv
  BY DEF LineInv
<1>2. ASSUME LineInv, [Next]_vars
      PROVE  [\A p \in Paths :
                store[p] # store'[p] /\ store[p] # <<>> /\ store'[p] # <<>> =>
                  store'[p][Len(store'[p])] > store[p][Len(store[p])]]_vars
  <2>1. \A p \in Paths : Replaces(p)
    BY <1>2, StepLine
  <2>2. store \in [Paths -> Seq(Nat)] /\ store' \in [Paths -> Seq(Nat)]
    BY <1>2, StepBuffer DEF LineInv, OrderInv, BufferInv, TypeOK, SharedTypeOK
  <2>3. ASSUME NEW p \in Paths, store[p] # store'[p], store[p] # <<>>, store'[p] # <<>>
        PROVE  store'[p][Len(store'[p])] > store[p][Len(store[p])]
    <3>1. PICK s : s = store'[p]
      OBVIOUS
    <3>2. Precedes(store[p], s) /\ s \in Seq(Nat) /\ store[p] \in Seq(Nat)
      BY <2>1, <2>2, <2>3, <3>1 DEF Replaces
    <3>3. s[Len(s)] > store[p][Len(store[p])]
      BY <2>3, <3>1, <3>2, LastFollows
    <3> QED
      BY <3>1, <3>3
  <2> QED
    BY <2>3
<1> QED
  BY <1>1, <1>2, InitLine, StepLine, OpenInvariant, OrderInvariant, PTL DEF Spec, LaterWriteWins
==============================================================================
