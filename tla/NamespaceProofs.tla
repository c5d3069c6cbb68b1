---------------------------- MODULE NamespaceProofs ----------------------------
(***************************************************************************)
(* What Namespace guarantees for every tree of paths, every set of tasks   *)
(* and every failure of the store: the state keeps its type, readdir's     *)
(* entries stay within the tree but for a directory's own marker, and a    *)
(* rename that fails between its copy and its delete loses no contents.    *)
(* While one request follows another, the caches agree with the store and  *)
(* answers are true.                                                       *)
(***************************************************************************)
EXTENDS Namespace, SequenceTheorems, TLAPS

CallNames == {"create_inode", "put_attr", "put_negative", "remove_negative", "find_inode",
              "invalidate_attr", "remove_inode", "rename_inode"}

\* The calls a handler makes after the store's last answer: only a lookup enters
\* a path into the negative cache.
CallsOf(op) ==
  {c \in [do : CallNames, path : TablePaths, kind : Kinds \cup {""}] :
     /\ c.do = "put_attr" => c.kind \in Kinds
     /\ c.do = "put_negative" => op = "lookup" /\ c.path \in Paths}

Requests ==
  [op : OpNames \cup {"none"}, id : Nat, path : TablePaths, new : TablePaths, inode : Nat,
   todo : SUBSET Paths, script : Seq(CallsOf("lookup")), result : Results]

\* A request and its locals: what a listing returned can be entered below the
\* listed directory, and names to change are in the tree.
LocalsOK(r) ==
  /\ r \in Requests /\ r.script \in Seq(CallsOf(r.op))
  /\ r.op \notin {"none", "getattr", "readdir"} => r.path \in Paths /\ r.new \in Paths
  /\ r.op = "readdir" => r.path \in Paths \cup {Root}
  /\ r.op = "rename" => r.path # r.new
  /\ \A q \in r.todo : Child(r.path, q) \in TablePaths

\* The labels of each handler.
StageOK(l, op) ==
  /\ l \in Labels
  /\ l = "idle" <=> op = "none"
  /\ l \in {"stat", "stat_dir", "list", "listed"} => op = "lookup"
  /\ l = "stat_attr" => op = "getattr"
  /\ l \in {"list_dir", "listed_dir"} => op = "readdir"
  /\ l = "put" => op = "create"
  /\ l = "put_marker" => op = "mkdir"
  /\ l = "delete" => op = "unlink"
  /\ l \in {"list_rmdir", "listed_rmdir", "delete_marker"} => op = "rmdir"
  /\ l \in {"copy", "delete_old"} => op = "rename"

HandlerOK(l, r) == StageOK(l, r.op) /\ LocalsOK(r)

StoreOK == DOMAIN files \subseteq Paths /\ markers \subseteq Paths

TableOK ==
  /\ DOMAIN paths \subseteq TablePaths /\ \A p \in DOMAIN paths : paths[p] \in Nat
  /\ DOMAIN entries \subseteq Nat /\ \A i \in DOMAIN entries : entries[i] \in TablePaths
  /\ next_inode \in Nat

CachesOK ==
  /\ DOMAIN attrs \subseteq Nat /\ \A i \in DOMAIN attrs : attrs[i] \in Kinds
  /\ negatives \subseteq Paths

HandlersOK ==
  /\ calls \in Nat /\ answer \in Requests
  /\ pc \in [Tasks -> Labels] /\ req \in [Tasks -> Requests]
  /\ \A t \in Tasks : HandlerOK(pc[t], req[t])

\* The inductive invariant of the types.
TypeInv == StoreOK /\ TableOK /\ CachesOK /\ HandlersOK

-----------------------------------------------------------------------------
(* The tree *)

\* What the table may hold.
LEMMA TreeFacts ==
  /\ Root \in TablePaths /\ Paths \subseteq TablePaths
  /\ \A p \in Paths : Child(p, p) \in TablePaths
  /\ \A p \in Paths \cup {Root} : p \in Seq(Names)
<1>1. Root \in TablePaths /\ Paths \subseteq TablePaths
      /\ \A p \in Paths : Child(p, p) \in TablePaths
  BY DEF TablePaths
<1>2. ASSUME NEW p \in Paths \cup {Root} PROVE p \in Seq(Names)
  <2>1. CASE p \in Paths
    BY <2>1, TreeAssumption
  <2>2. CASE p = Root
    BY <2>2, EmptySeq DEF Root
  <2> QED
    BY <2>1, <2>2
<1> QED
  BY <1>1, <1>2

\* What a listing returns is in the tree, and below the listed directory it is
\* entered under its own path, the directory's marker as a child of its name.
LEMMA ListedInTree ==
  ASSUME StoreOK, NEW p \in Paths \cup {Root}, NEW q \in Listed(p)
  PROVE  q \in Paths /\ Child(p, q) \in TablePaths
<1>1. CASE q \in {p} \cap markers
  BY <1>1, TreeFacts DEF StoreOK
<1>2. CASE q \in {SubSeq(r, 1, Len(p) + 1) : r \in Below(p)}
  <2> DEFINE n == Len(p)
  <2>1. PICK r \in Below(p) : q = SubSeq(r, 1, n + 1)
    BY <1>2
  <2>2. r \in Paths /\ Seqs!IsStrictPrefix(p, r)
    BY DEF Below, StoreOK
  <2>3. n <= Len(r) /\ SubSeq(p, 1, n) = SubSeq(r, 1, n) /\ p # r
    BY <2>2 DEF Seqs!IsStrictPrefix, Seqs!IsPrefix
  <2>4. p \in Seq(Names) /\ r \in Seq(Names) /\ n \in Nat /\ Len(r) \in Nat
    BY <2>2, TreeFacts
  <2>5. n + 1 \in 1..Len(r)
    <3>1. n # Len(r)
      BY <2>3, <2>4, SubSeqFull
    <3> QED
      BY <2>3, <2>4, <3>1
  <2>6. q \in Paths /\ q \in Seq(Names)
    BY <2>1, <2>2, <2>5, TreeAssumption
  <2>7. Len(q) = n + 1 /\ \A i \in 1..(n + 1) : q[i] = r[i]
    <3>1. \A i \in 1..(n + 1) : r[i] \in Names
      BY <2>4, <2>5
    <3> HIDE DEF n
    <3>2. /\ Len(SubSeq(r, 1, n + 1)) = IF 1 <= n + 1 THEN (n + 1) - 1 + 1 ELSE 0
          /\ \A i \in 1..((n + 1) - 1 + 1) : SubSeq(r, 1, n + 1)[i] = r[1 + i - 1]
      BY <2>4, <3>1, SubSeqProperties
    <3>3. 1 <= n + 1 /\ (n + 1) - 1 + 1 = n + 1 /\ \A i \in 1..(n + 1) : 1 + i - 1 = i
      BY <2>4
    <3> QED
      BY <2>1, <3>2, <3>3
  <2>8. \A i \in 1..n : p[i] = r[i]
    <3>1. (\A i \in 1..n : p[i] \in Names) /\ (\A i \in 1..n : r[i] \in Names)
      BY <2>4, <2>5
    <3> HIDE DEF n
    <3>2. /\ \A i \in 1..(n - 1 + 1) : SubSeq(p, 1, n)[i] = p[1 + i - 1]
          /\ \A i \in 1..(n - 1 + 1) : SubSeq(r, 1, n)[i] = r[1 + i - 1]
      BY <2>4, <3>1, SubSeqProperties
    <3>3. n - 1 + 1 = n /\ \A i \in 1..n : 1 + i - 1 = i
      BY <2>4
    <3> QED
      BY <2>3, <3>2, <3>3
  <2>9. Child(p, q) = q
    <3> DEFINE e == q[n + 1]
               c == Append(p, e)
    <3>1. e \in Names
      BY <2>4, <2>6, <2>7
    <3> HIDE DEF e
    <3>2. /\ c \in Seq(Names) /\ Len(c) = n + 1
          /\ \A i \in 1..n : c[i] = p[i]
          /\ c[n + 1] = e
      BY <2>4, <3>1, AppendProperties
    <3> HIDE DEF c
    <3>3. \A i \in 1..(n + 1) : c[i] = q[i]
      <4>1. \A i \in 1..(n + 1) : i \in 1..n \/ i = n + 1
        BY <2>4
      <4>2. \A i \in 1..n : i \in 1..(n + 1)
        BY <2>4
      <4> QED
        BY <2>7, <2>8, <3>2, <4>1, <4>2 DEF e
    <3>4. c = q
      <4> HIDE DEF n
      <4> QED
        BY <2>6, <2>7, <3>2, <3>3, SeqEqual
    <3> QED
      BY <2>7, <3>4 DEF Child, c, e
  <2> QED
    BY <2>6, <2>9, TreeFacts
<1> QED
  BY <1>1, <1>2 DEF Listed

-----------------------------------------------------------------------------
(* Handlers *)

\* Sequences of calls.
LEMMA ShortSeqs ==
  ASSUME NEW C, NEW a \in C, NEW b \in C, NEW c \in C
  PROVE  /\ <<a>> \in Seq(C) /\ <<a, b>> \in Seq(C) /\ <<a, b, c>> \in Seq(C)
         /\ Append(<<a, b>>, c) \in Seq(C)
  OBVIOUS

\* The scripts.
LEMMA Scripts ==
  ASSUME NEW op, NEW p \in TablePaths, NEW q \in TablePaths, NEW kind \in Kinds
  PROVE  /\ Enter(p, kind) \in Seq(CallsOf(op)) /\ Created(p, kind) \in Seq(CallsOf(op))
         /\ Forget(p) \in Seq(CallsOf(op)) /\ Renamed(p, q) \in Seq(CallsOf(op))
         /\ <<>> \in Seq(CallsOf(op))
         /\ p \in Paths => NotFound(p) \in Seq(CallsOf("lookup"))
<1> DEFINE C == CallsOf(op)
<1>1. /\ Call("create_inode", p, kind) \in C /\ Call("put_attr", p, kind) \in C
      /\ Call("remove_negative", p, "") \in C /\ Call("find_inode", p, "") \in C
      /\ Call("invalidate_attr", p, "") \in C /\ Call("remove_inode", p, "") \in C
      /\ Call("rename_inode", p, "") \in C /\ Call("find_inode", q, "") \in C
      /\ Call("invalidate_attr", q, "") \in C
  BY DEF Call, CallsOf, CallNames
<1>2. p \in Paths => Call("put_negative", p, "") \in CallsOf("lookup")
  BY DEF Call, CallsOf, CallNames
<1> HIDE DEF C
<1>3. Enter(p, kind) \in Seq(C)
  BY <1>1, ShortSeqs DEF Enter
<1>4. Created(p, kind) \in Seq(C)
  BY <1>1, ShortSeqs DEF Created, Enter
<1>5. Forget(p) \in Seq(C) /\ Renamed(p, q) \in Seq(C) /\ <<>> \in Seq(C)
  <2>1. Forget(p) \in Seq(C)
    BY <1>1, ShortSeqs DEF Forget
  <2>2. Renamed(p, q) \in Seq(C)
    BY <1>1, ShortSeqs DEF Renamed
  <2> QED
    BY <2>1, <2>2, EmptySeq
<1>6. p \in Paths => NotFound(p) \in Seq(CallsOf("lookup"))
  BY <1>2, ShortSeqs DEF NotFound
<1> QED
  BY <1>3, <1>4, <1>5, <1>6 DEF C

\* A request that is over, and one that begins.
LEMMA NewRequests ==
  /\ HandlerOK("idle", NoRequest) /\ Locks(NoRequest) = {} /\ NoRequest.op = "none"
  /\ \A op \in OpNames, id \in Nat, p, q \in TablePaths, i \in Nat :
       LET r == NewRequest(op, id, p, q, i) IN
       /\ r \in Requests /\ r.script = <<>> /\ r.todo = {} /\ r.result = "ok"
       /\ r.op = op /\ r.path = p /\ r.new = q /\ r.inode = i
<1>1. \A op \in OpNames \cup {"none"}, id \in Nat, p, q \in TablePaths, i \in Nat :
        NewRequest(op, id, p, q, i) \in Requests
  <2>1. <<>> \in Seq(CallsOf("lookup"))
    OBVIOUS
  <2> QED
    BY <2>1 DEF NewRequest, Requests, Results
<1>2. NoRequest \in Requests
  BY <1>1, TreeFacts DEF NoRequest, NoInode
<1>3. /\ NoRequest.op = "none" /\ NoRequest.script = <<>> /\ NoRequest.todo = {}
  BY DEF NoRequest, NewRequest
<1>4. <<>> \in Seq(CallsOf("none"))
  OBVIOUS
<1>5. HandlerOK("idle", NoRequest) /\ Locks(NoRequest) = {}
  BY <1>2, <1>3, <1>4 DEF HandlerOK, StageOK, LocalsOK, Labels, Locks
<1> QED
  BY <1>1, <1>3, <1>5 DEF NewRequest

\* Where a step takes the task's handler.
Moves(t, l, r) ==
  /\ HandlerOK(l, r)
  /\ pc' = [pc EXCEPT ![t] = l] /\ req' = [req EXCEPT ![t] = r]
  /\ answer' \in Requests

\* A request arrives: the kernel keeps others away from the directories it
\* changes, and creates no name it has seen.
Arrival(t) ==
  /\ pc[t] = "idle" /\ calls' = calls + 1 /\ UNCHANGED <<store, table, caches, meant>>
  /\ \E l \in Labels \ {"delete_old"}, r \in Requests :
       /\ Moves(t, l, r) /\ r.op \in Ops \cup {"none"}
       /\ \A u \in Tasks : Locks(r) \cap Locks(req[u]) = {}
       /\ l = "put" => Unknown(r.path)

\* A handler goes on, with the same request, or ends.
Onward(t) ==
  /\ pc[t] # "idle" /\ UNCHANGED calls
  /\ \E l \in Labels \ {"put"}, r \in Requests :
       /\ Moves(t, l, r)
       /\ \/ r = NoRequest
          \/ r.op = req[t].op /\ r.path = req[t].path /\ r.new = req[t].new

\* A request is answered at once, or a handler ends.
LEMMA Replies ==
  ASSUME NEW t \in Tasks, NEW r \in Requests, NEW result \in Results, Reply(t, r, result)
  PROVE  Moves(t, "idle", NoRequest) /\ NoRequest \in Requests
<1>1. [r EXCEPT !.result = result, !.id = 0] \in Requests
  BY DEF Requests
<1> QED
  BY <1>1, NewRequests DEF Reply, Moves, Goto, HandlerOK, LocalsOK

\* A request arrives that awaits the store.
LEMMA Begins ==
  ASSUME HandlersOK, NEW t \in Tasks, NEW l \in Labels \ {"delete_old"}, NEW op \in OpNames,
         NEW p \in TablePaths, NEW q \in TablePaths, NEW i \in Nat,
         Begin(t, l, op, p, q, i), StageOK(l, op),
         op \notin {"getattr", "readdir"} => p \in Paths /\ q \in Paths,
         op = "readdir" => p \in Paths \cup {Root}, op = "rename" => p # q,
         l = "put" => Unknown(p)
  PROVE  Arrival(t)
<1> DEFINE r == NewRequest(op, calls + 1, p, q, i)
<1>1. calls + 1 \in Nat /\ answer \in Requests
  BY DEF HandlersOK
<1>2. /\ r \in Requests /\ r.script = <<>> /\ r.todo = {}
      /\ r.op = op /\ r.path = p /\ r.new = q
  BY <1>1, NewRequests
<1>3. /\ pc[t] = "idle" /\ calls' = calls + 1 /\ op \in Ops
      /\ \A u \in Tasks : Locks(r) \cap Locks(req[u]) = {}
      /\ pc' = [pc EXCEPT ![t] = l] /\ req' = [req EXCEPT ![t] = r]
      /\ UNCHANGED <<store, table, caches, answer, meant>>
  BY DEF Begin, Request, Goto
<1> HIDE DEF r
<1>4. HandlerOK(l, r)
  BY <1>2, EmptySeq DEF HandlerOK, LocalsOK, OpNames
<1> QED
  BY <1>1, <1>2, <1>3, <1>4 DEF Arrival, Moves

\* Each way a request arrives.
LEMMA ArrivalShape ==
  ASSUME TypeInv, NEW t \in Tasks, Arrive(t)
  PROVE  Arrival(t)
<1>1. HandlersOK /\ TableOK /\ NoInode \in Nat
  BY DEF TypeInv, NoInode
<1>2. ASSUME NEW p \in Paths, Create(t, p) PROVE Arrival(t)
  BY <1>1, <1>2, Begins, TreeFacts DEF Create, StageOK, Labels, OpNames
<1>3. ASSUME NEW p \in Paths, Mkdir(t, p) \/ Unlink(t, p) \/ Rmdir(t, p) PROVE Arrival(t)
  <2>1. CASE Mkdir(t, p)
    BY <1>1, <2>1, Begins, TreeFacts DEF Mkdir, StageOK, Labels, OpNames
  <2>2. CASE Unlink(t, p)
    BY <1>1, <2>2, Begins, TreeFacts DEF Unlink, StageOK, Labels, OpNames
  <2>3. CASE Rmdir(t, p)
    BY <1>1, <2>3, Begins, TreeFacts DEF Rmdir, StageOK, Labels, OpNames
  <2> QED
    BY <1>3, <2>1, <2>2, <2>3
<1>4. ASSUME NEW p \in Paths, NEW q \in Paths, Rename(t, p, q) PROVE Arrival(t)
  BY <1>1, <1>4, Begins, TreeFacts DEF Rename, StageOK, Labels, OpNames
<1>5. ASSUME NEW p \in Paths \cup {Root}, Readdir(t, p) PROVE Arrival(t)
  <2>1. p \in TablePaths /\ paths[p] \in Nat
    BY <1>1, <1>5, TreeFacts DEF TableOK, Readdir
  <2> QED
    BY <1>1, <1>5, <2>1, Begins DEF Readdir, StageOK, Labels, OpNames
<1>6. ASSUME NEW op \in {"lookup", "getattr"}, NEW p \in TablePaths, NEW i \in Nat,
             op = "lookup" => p \in Paths,
             Request(t, op, p, p, i), UNCHANGED <<store, table, caches, meant>>,
             \/ \E result \in Results : Reply(t, NewRequest(op, calls + 1, p, p, i), result)
             \/ /\ Goto(t, IF op = "lookup" THEN "stat" ELSE "stat_attr")
                /\ req' = [req EXCEPT ![t] = NewRequest(op, calls + 1, p, p, i)]
                /\ UNCHANGED answer
      PROVE  Arrival(t)
  <2> DEFINE r == NewRequest(op, calls + 1, p, p, i)
             l == IF op = "lookup" THEN "stat" ELSE "stat_attr"
  <2>1. calls + 1 \in Nat /\ answer \in Requests /\ op \in OpNames
    BY <1>1 DEF HandlersOK, OpNames
  <2>2. /\ r \in Requests /\ r.script = <<>> /\ r.todo = {}
        /\ r.op = op /\ r.path = p /\ r.new = p
    BY <2>1, NewRequests
  <2>3. /\ pc[t] = "idle" /\ calls' = calls + 1 /\ op \in Ops
        /\ \A u \in Tasks : Locks(r) \cap Locks(req[u]) = {}
    BY <1>6 DEF Request
  <2> HIDE DEF r
  <2>4. HandlerOK(l, r)
    BY <1>6, <2>2, EmptySeq DEF HandlerOK, LocalsOK, StageOK, Labels
  <2>5. CASE \E result \in Results : Reply(t, r, result)
    <3>1. Moves(t, "idle", NoRequest) /\ NoRequest \in Requests
      BY <2>2, <2>5, Replies
    <3> QED
      BY <1>6, <2>3, <3>1, NewRequests DEF Arrival, Labels
  <2>6. CASE Goto(t, l) /\ req' = [req EXCEPT ![t] = r] /\ UNCHANGED answer
    <3>1. Moves(t, l, r) /\ l \in Labels \ {"delete_old"} /\ l # "put"
      BY <2>1, <2>4, <2>6 DEF Moves, Goto, Labels
    <3> QED
      BY <1>6, <2>2, <2>3, <3>1 DEF Arrival
  <2> QED
    BY <1>6, <2>5, <2>6 DEF r, l
<1>7. ASSUME NEW p \in Paths, Lookup(t, p) PROVE Arrival(t)
  BY <1>1, <1>6, <1>7, TreeFacts DEF Lookup, Results
<1>8. ASSUME NEW i \in DOMAIN entries, GetAttr(t, i) PROVE Arrival(t)
  <2>1. i \in Nat /\ entries[i] \in TablePaths
    BY <1>1 DEF TableOK
  <2> QED
    BY <1>6, <1>8, <2>1 DEF GetAttr, Results
<1> QED
  BY <1>2, <1>3, <1>4, <1>5, <1>7, <1>8 DEF Arrive

\* A handler with other locals.
LEMMA GoesOn ==
  ASSUME HandlersOK, NEW t \in Tasks, pc[t] # "idle",
         NEW l \in Labels \ {"put"}, StageOK(l, req[t].op),
         NEW r \in Requests, r.op = req[t].op, r.path = req[t].path, r.new = req[t].new,
         r.script \in Seq(CallsOf(req[t].op)),
         \A q \in r.todo : Child(req[t].path, q) \in TablePaths,
         pc' = [pc EXCEPT ![t] = l], req' = [req EXCEPT ![t] = r],
         answer' \in Requests, UNCHANGED calls
  PROVE  Onward(t)
<1>1. HandlerOK(l, r)
  BY DEF HandlersOK, HandlerOK, LocalsOK
<1> QED
  BY <1>1 DEF Onward, Moves

\* A handler asks the store again.
LEMMA Awaits ==
  ASSUME HandlersOK, NEW t \in Tasks, pc[t] # "idle",
         NEW l \in Labels \ {"put"}, StageOK(l, req[t].op), Await(t, l), UNCHANGED calls
  PROVE  Onward(t)
<1>1. req[t] \in Requests /\ LocalsOK(req[t]) /\ req' = [req EXCEPT ![t] = req[t]]
  BY DEF HandlersOK, HandlerOK, Await
<1> QED
  BY <1>1, GoesOn DEF Await, Goto, HandlersOK, LocalsOK

\* A handler has the store's last answer.
LEMMA Continues ==
  ASSUME HandlersOK, NEW t \in Tasks, pc[t] # "idle", NEW script, NEW result \in Results,
         script \in Seq(CallsOf(req[t].op)), Continue(t, script, result), UNCHANGED calls
  PROVE  Onward(t)
<1> DEFINE r == [req[t] EXCEPT !.script = script, !.result = result]
<1>1. req[t] \in Requests /\ HandlerOK(pc[t], req[t])
  BY DEF HandlersOK
<1>2. script \in Seq(CallsOf("lookup"))
  <2>1. CallsOf(req[t].op) \subseteq CallsOf("lookup")
    BY DEF CallsOf
  <2> QED
    BY <2>1, SeqMonotonic
<1>3. /\ r \in Requests /\ r.op = req[t].op /\ r.path = req[t].path /\ r.new = req[t].new
      /\ r.script = script /\ r.todo = req[t].todo
  BY <1>1, <1>2 DEF Requests
<1>4. pc' = [pc EXCEPT ![t] = "script"] /\ req' = [req EXCEPT ![t] = r] /\ answer' \in Requests
  BY <1>1 DEF Continue, Goto, HandlersOK
<1> HIDE DEF r
<1>5. StageOK("script", req[t].op) /\ "script" \in Labels \ {"put"}
  BY <1>1 DEF HandlerOK, StageOK, Labels
<1>6. \A q \in r.todo : Child(req[t].path, q) \in TablePaths
  BY <1>1, <1>3 DEF HandlerOK, LocalsOK
<1> QED
  BY <1>3, <1>4, <1>5, <1>6, GoesOn

\* A handler ends.
LEMMA Ends ==
  ASSUME HandlersOK, NEW t \in Tasks, pc[t] # "idle", NEW result \in Results,
         Reply(t, req[t], result), UNCHANGED calls
  PROVE  Onward(t)
<1>1. Moves(t, "idle", NoRequest) /\ NoRequest \in Requests
  BY Replies DEF HandlersOK
<1> QED
  BY <1>1 DEF Onward, Labels

\* Each step of a handler that awaits the store.
LEMMA StoreShape ==
  ASSUME TypeInv, NEW t \in Tasks,
         \/ StatFile(t) \/ StatDir(t) \/ List(t) \/ LookupListed(t) \/ StatAttr(t)
         \/ ReaddirListed(t) \/ CreatePut(t) \/ MkdirPut(t)
         \/ UnlinkDelete(t) \/ RmdirListed(t) \/ RmdirDelete(t)
         \/ RenameCopy(t) \/ RenameDelete(t)
  PROVE  Onward(t)
<1> DEFINE op == req[t].op
           p == req[t].path
<1>1. /\ HandlersOK /\ StoreOK /\ req[t] \in Requests /\ answer \in Requests
      /\ pc \in [Tasks -> Labels] /\ req \in [Tasks -> Requests]
      /\ StageOK(pc[t], op) /\ LocalsOK(req[t]) /\ p \in TablePaths /\ req[t].new \in TablePaths
  BY DEF TypeInv, HandlersOK, HandlerOK, Requests
<1>2. /\ "file" \in Kinds /\ "dir" \in Kinds /\ {"ok", "EIO", "ENOENT", "ENOTEMPTY"} \subseteq Results
  BY DEF Kinds, Results
<1>3. \A kind \in Kinds :
        /\ Enter(p, kind) \in Seq(CallsOf(op)) /\ Created(p, kind) \in Seq(CallsOf(op))
        /\ Forget(p) \in Seq(CallsOf(op)) /\ Renamed(p, req[t].new) \in Seq(CallsOf(op))
        /\ <<>> \in Seq(CallsOf(op))
        /\ p \in Paths => NotFound(p) \in Seq(CallsOf("lookup"))
  BY <1>1, Scripts
<1>4. CASE StatFile(t)
  <2>1. pc[t] # "idle" /\ UNCHANGED calls /\ StageOK("stat_dir", op)
        /\ "stat_dir" \in Labels \ {"put"}
    BY <1>1, <1>4 DEF StatFile, StageOK, Labels
  <2> QED
    BY <1>1, <1>2, <1>3, <1>4, <2>1, Awaits, Continues DEF StatFile
<1>5. CASE StatDir(t)
  <2>1. pc[t] # "idle" /\ UNCHANGED calls /\ StageOK("list", op)
        /\ "list" \in Labels \ {"put"}
    BY <1>1, <1>5 DEF StatDir, StageOK, Labels
  <2> QED
    BY <1>1, <1>2, <1>3, <1>5, <2>1, Awaits, Continues DEF StatDir
<1>6. CASE List(t)
  <2> DEFINE l == CASE pc[t] = "list" -> "listed"
                    [] pc[t] = "list_rmdir" -> "listed_rmdir"
                    [] OTHER -> "listed_dir"
             r == [req[t] EXCEPT !.todo = Listed(p)]
  <2>1. /\ pc[t] \in {"list", "list_rmdir", "list_dir"} /\ UNCHANGED calls
        /\ pc' = [pc EXCEPT ![t] = l] /\ req' = [req EXCEPT ![t] = r]
        /\ answer' \in Requests
    BY <1>1, <1>6 DEF List, Goto
  <2>2. l \in Labels \ {"put"} /\ StageOK(l, op)
    BY <1>1, <2>1 DEF StageOK, Labels
  <2>3. p \in Paths \cup {Root}
    BY <1>1, <2>1 DEF StageOK, LocalsOK
  <2>4. Listed(p) \subseteq Paths /\ \A q \in Listed(p) : Child(p, q) \in TablePaths
    BY <1>1, <2>3, ListedInTree
  <2>5. /\ r \in Requests /\ r.op = op /\ r.path = p /\ r.new = req[t].new
        /\ r.script = req[t].script /\ r.todo = Listed(p)
    BY <1>1, <2>4 DEF Requests
  <2> HIDE DEF r, l
  <2> QED
    BY <1>1, <2>1, <2>2, <2>4, <2>5, GoesOn DEF LocalsOK
<1>7. CASE LookupListed(t)
  <2>1. /\ pc[t] = "listed" /\ UNCHANGED <<calls, answer>> /\ op = "lookup" /\ p \in Paths
        /\ pc' = [pc EXCEPT ![t] = "script"]
    BY <1>1, <1>7 DEF LookupListed, Goto, StageOK, LocalsOK
  <2>2. PICK script \in {Enter(p, "dir"), NotFound(p)}, result \in Results :
          req' = [req EXCEPT ![t] =
                    [req[t] EXCEPT !.script = script, !.todo = {}, !.result = result]]
    <3>1. CASE req' = [req EXCEPT ![t].script = Enter(p, "dir"), ![t].todo = {}]
      <4>1. req[t].result \in Results
        BY <1>1 DEF Requests
      <4>2. [req[t] EXCEPT !.script = Enter(p, "dir"), !.todo = {}]
              = [req[t] EXCEPT !.script = Enter(p, "dir"), !.todo = {}, !.result = req[t].result]
        BY <1>1 DEF Requests
      <4>3. req' = [req EXCEPT ![t] = [req[t] EXCEPT !.script = Enter(p, "dir"), !.todo = {}]]
        BY <1>1, <3>1
      <4> QED
        BY <4>1, <4>2, <4>3
    <3>2. CASE req' = [req EXCEPT ![t].script = NotFound(p), ![t].todo = {},
                                  ![t].result = "ENOENT"]
      <4>1. req' = [req EXCEPT ![t] =
                      [req[t] EXCEPT !.script = NotFound(p), !.todo = {}, !.result = "ENOENT"]]
        BY <1>1, <3>2
      <4> QED
        BY <1>2, <4>1
    <3> QED
      BY <1>7, <3>1, <3>2 DEF LookupListed
  <2> DEFINE r == [req[t] EXCEPT !.script = script, !.todo = {}, !.result = result]
  <2>3. script \in Seq(CallsOf("lookup"))
    BY <1>2, <1>3, <2>1
  <2>4. /\ r \in Requests /\ r.op = op /\ r.path = p /\ r.new = req[t].new
        /\ r.script = script /\ r.todo = {}
    BY <1>1, <2>3 DEF Requests
  <2>5. "script" \in Labels \ {"put"} /\ StageOK("script", op)
    BY <2>1 DEF StageOK, Labels
  <2> HIDE DEF r
  <2> QED
    BY <1>1, <2>1, <2>2, <2>3, <2>4, <2>5, GoesOn DEF r
<1>8. CASE StatAttr(t)
  <2>1. pc[t] # "idle" /\ UNCHANGED calls
    BY <1>8 DEF StatAttr
  <2>2. \A kind \in Kinds : <<Call("put_attr", p, kind)>> \in Seq(CallsOf(op))
    <3>1. \A kind \in Kinds : Call("put_attr", p, kind) \in CallsOf(op)
      BY <1>1 DEF Call, CallsOf, CallNames
    <3> QED
      BY <3>1, ShortSeqs
  <2> QED
    BY <1>1, <1>2, <1>8, <2>1, <2>2, Continues, Ends DEF StatAttr
<1>9. CASE ReaddirListed(t)
  <2>1. pc[t] # "idle" /\ UNCHANGED calls
    BY <1>9 DEF ReaddirListed
  <2> QED
    BY <1>1, <1>2, <1>3, <1>9, <2>1, Continues, Ends DEF ReaddirListed
<1>10. CASE CreatePut(t)
  <2>1. pc[t] # "idle" /\ UNCHANGED calls
    BY <1>10 DEF CreatePut
  <2> QED
    BY <1>1, <1>2, <1>3, <1>10, <2>1, Continues, Ends DEF CreatePut
<1>11. CASE MkdirPut(t)
  <2>1. pc[t] # "idle" /\ UNCHANGED calls
    BY <1>11 DEF MkdirPut
  <2> QED
    BY <1>1, <1>2, <1>3, <1>11, <2>1, Continues, Ends DEF MkdirPut
<1>12. CASE UnlinkDelete(t)
  <2>1. pc[t] # "idle" /\ UNCHANGED calls
    BY <1>12 DEF UnlinkDelete
  <2> QED
    BY <1>1, <1>2, <1>3, <1>12, <2>1, Continues, Ends DEF UnlinkDelete
<1>13. CASE RmdirListed(t)
  <2>1. pc[t] = "listed_rmdir" /\ UNCHANGED calls
    BY <1>13 DEF RmdirListed
  <2>2. CASE \E result \in Results : Reply(t, req[t], result)
    BY <1>1, <2>1, <2>2, Ends
  <2>3. CASE /\ req' = [req EXCEPT ![t].todo = {}]
             /\ Goto(t, "delete_marker") /\ UNCHANGED answer
    <3> DEFINE r == [req[t] EXCEPT !.todo = {}]
    <3>1. /\ r \in Requests /\ r.op = op /\ r.path = p /\ r.new = req[t].new
          /\ r.script = req[t].script /\ r.todo = {}
          /\ req' = [req EXCEPT ![t] = r]
      BY <1>1, <2>3 DEF Requests
    <3>2. "delete_marker" \in Labels \ {"put"} /\ StageOK("delete_marker", op)
      BY <1>1, <2>1 DEF StageOK, Labels
    <3> HIDE DEF r
    <3> QED
      BY <1>1, <2>1, <2>3, <3>1, <3>2, GoesOn DEF Goto, LocalsOK
  <2> QED
    BY <1>2, <1>13, <2>2, <2>3 DEF RmdirListed
<1>14. CASE RmdirDelete(t)
  <2>1. pc[t] # "idle" /\ UNCHANGED calls
    BY <1>14 DEF RmdirDelete
  <2> QED
    BY <1>1, <1>2, <1>3, <1>14, <2>1, Continues DEF RmdirDelete
<1>15. CASE RenameCopy(t)
  <2>1. /\ pc[t] # "idle" /\ UNCHANGED calls /\ StageOK("delete_old", op)
        /\ "delete_old" \in Labels \ {"put"}
    BY <1>1, <1>15 DEF RenameCopy, StageOK, Labels
  <2> QED
    BY <1>1, <1>2, <1>15, <2>1, Awaits, Ends DEF RenameCopy
<1>16. CASE RenameDelete(t)
  <2>1. pc[t] # "idle" /\ UNCHANGED calls
    BY <1>16 DEF RenameDelete
  <2> QED
    BY <1>1, <1>2, <1>3, <1>16, <2>1, Continues, Ends DEF RenameDelete
<1> QED
  BY <1>4, <1>5, <1>6, <1>7, <1>8, <1>9, <1>10, <1>11, <1>12, <1>13, <1>14, <1>15, <1>16

CallsOut(t) ==
  \/ CreateInode(t) \/ PutAttr(t) \/ PutNegative(t) \/ RemoveNegative(t) \/ FindInode(t)
  \/ InvalidateAttr(t) \/ RemoveInode(t) \/ RenameInode(t)

\* The call at the head of a script, and what one call leaves of it.
LEMMA ScriptFacts ==
  ASSUME HandlersOK, NEW t \in Tasks, req[t].script # <<>>
  PROVE  /\ Called(t) \in CallsOf(req[t].op) /\ Called(t).path \in TablePaths
         /\ Called(t).do = "put_attr" => Called(t).kind \in Kinds
         /\ Called(t).do = "put_negative" => req[t].op = "lookup" /\ Called(t).path \in Paths
         /\ Tail(req[t].script) \in Seq(CallsOf(req[t].op))
         /\ Tail(req[t].script) \in Seq(CallsOf("lookup"))
<1>1. /\ req[t].script \in Seq(CallsOf(req[t].op))
      /\ req[t].script \in Seq(CallsOf("lookup"))
  BY DEF HandlersOK, HandlerOK, LocalsOK, Requests
<1>2. /\ Called(t) \in CallsOf(req[t].op)
      /\ Tail(req[t].script) \in Seq(CallsOf(req[t].op))
      /\ Tail(req[t].script) \in Seq(CallsOf("lookup"))
  BY <1>1, HeadTailProperties DEF Called
<1> QED
  BY <1>2 DEF CallsOf

\* A call of the script returns.
LEMMA Goes ==
  ASSUME HandlersOK, NEW t \in Tasks, pc[t] = "script", req[t].script # <<>>,
         NEW i \in Nat, Go(t, i)
  PROVE  Onward(t) /\ UNCHANGED <<store, meant>>
<1> DEFINE r == [req[t] EXCEPT !.script = Tail(req[t].script), !.inode = i]
<1>1. /\ req[t] \in Requests /\ LocalsOK(req[t]) /\ StageOK("script", req[t].op)
      /\ pc \in [Tasks -> Labels] /\ req \in [Tasks -> Requests] /\ answer \in Requests
  BY DEF HandlersOK, HandlerOK
<1>2. /\ r \in Requests /\ r.op = req[t].op /\ r.path = req[t].path /\ r.new = req[t].new
      /\ r.script = Tail(req[t].script) /\ r.todo = req[t].todo
  BY <1>1, ScriptFacts DEF Requests
<1>3. /\ req' = [req EXCEPT ![t] = r] /\ pc' = [pc EXCEPT ![t] = "script"]
      /\ UNCHANGED <<calls, answer, store, meant>>
  BY <1>1 DEF Go
<1>4. "script" \in Labels \ {"put"}
  BY DEF Labels
<1> HIDE DEF r
<1> QED
  BY <1>1, <1>2, <1>3, <1>4, ScriptFacts, GoesOn DEF LocalsOK

\* Each call of a script.
LEMMA CallShape ==
  ASSUME TypeInv, NEW t \in Tasks, CallsOut(t)
  PROVE  Onward(t) /\ UNCHANGED <<store, meant>>
<1>1. HandlersOK /\ TableOK
  BY DEF TypeInv
<1>2. pc[t] = "script" /\ req[t].script # <<>>
  BY DEF CallsOut, Calling, CreateInode, PutAttr, PutNegative, RemoveNegative, FindInode,
         InvalidateAttr, RemoveInode, RenameInode
<1>3. /\ req[t].inode \in Nat /\ NoInode \in Nat /\ next_inode \in Nat
      /\ \A p \in DOMAIN paths : paths[p] \in Nat
      /\ Get(paths, Called(t).path, NoInode) \in Nat
  BY <1>1 DEF HandlersOK, Requests, TableOK, NoInode, Get
<1>4. \E i \in Nat : Go(t, i)
  BY <1>3 DEF CallsOut, CreateInode, PutAttr, PutNegative, RemoveNegative, FindInode,
              InvalidateAttr, RemoveInode, RenameInode
<1> QED
  BY <1>1, <1>2, <1>4, Goes

\* The other steps of a script.
LEMMA ScriptShape ==
  ASSUME TypeInv, NEW t \in Tasks, NextEntry(t) \/ Finish(t)
  PROVE  Onward(t) /\ UNCHANGED <<store, table, caches, meant>>
<1>1. /\ HandlersOK /\ req[t] \in Requests /\ pc[t] = "script"
      /\ pc \in [Tasks -> Labels] /\ req \in [Tasks -> Requests] /\ answer \in Requests
      /\ StageOK(pc[t], req[t].op) /\ LocalsOK(req[t])
  BY DEF TypeInv, HandlersOK, HandlerOK, NextEntry, Finish
<1>2. CASE NextEntry(t)
  <2>1. PICK q \in req[t].todo :
          req' = [req EXCEPT ![t].todo = @ \ {q},
                             ![t].script = Enter(Child(req[t].path, q), Kind(q))]
    BY <1>2 DEF NextEntry
  <2> DEFINE s == Enter(Child(req[t].path, q), Kind(q))
             r == [req[t] EXCEPT !.todo = @ \ {q}, !.script = s]
  <2>2. Child(req[t].path, q) \in TablePaths /\ Kind(q) \in Kinds
    BY <1>1 DEF LocalsOK, Kind, Kinds
  <2>3. s \in Seq(CallsOf(req[t].op)) /\ s \in Seq(CallsOf("lookup"))
    BY <2>2, Scripts
  <2> HIDE DEF s
  <2>4. /\ r \in Requests /\ r.op = req[t].op /\ r.path = req[t].path /\ r.new = req[t].new
        /\ r.script = s /\ r.todo = req[t].todo \ {q}
    BY <1>1, <2>3 DEF Requests
  <2>5. /\ req' = [req EXCEPT ![t] = r] /\ pc' = [pc EXCEPT ![t] = "script"]
        /\ UNCHANGED <<calls, answer, store, table, caches, meant>>
    BY <1>1, <1>2, <2>1 DEF NextEntry, s
  <2>6. "script" \in Labels \ {"put"}
    BY DEF Labels
  <2> HIDE DEF r
  <2> QED
    BY <1>1, <2>3, <2>4, <2>5, <2>6, GoesOn DEF LocalsOK
<1>3. CASE Finish(t)
  BY <1>1, <1>3, Ends DEF Finish, Requests
<1> QED
  BY <1>2, <1>3

-----------------------------------------------------------------------------
(* Types *)

\* Every step of the specification is of one of these kinds.
LEMMA StepKinds ==
  ASSUME TypeInv, [Next]_vars
  PROVE  \/ \E t \in Tasks : Arrival(t)
         \/ \E t \in Tasks : Advance(t) /\ Onward(t)
         \/ \E i \in DOMAIN attrs : ExpireAttr(i)
         \/ \E p \in negatives : ExpireNegative(p)
         \/ UNCHANGED vars
<1>1. ASSUME NEW t \in Tasks, Advance(t) PROVE Onward(t)
  BY <1>1, StoreShape, CallShape, ScriptShape DEF Advance, CallsOut
<1> QED
  BY <1>1, ArrivalShape DEF Next, Exhausted

\* A step of a handler leaves the others alone.
LEMMA HandlersStep ==
  ASSUME HandlersOK, NEW t \in Tasks, Arrival(t) \/ Onward(t)
  PROVE  HandlersOK'
<1>1. PICK l \in Labels, r \in Requests : Moves(t, l, r)
  BY DEF Arrival, Onward
<1>2. calls' \in Nat
  BY DEF Arrival, Onward, HandlersOK
<1>3. /\ pc' \in [Tasks -> Labels] /\ req' \in [Tasks -> Requests] /\ answer' \in Requests
      /\ \A u \in Tasks : HandlerOK(pc'[u], req'[u])
  BY <1>1 DEF Moves, HandlersOK
<1> QED
  BY <1>2, <1>3 DEF HandlersOK

\* Every step keeps the types.
LEMMA StepType == TypeInv /\ [Next]_vars => TypeInv'
<1> SUFFICES ASSUME TypeInv, [Next]_vars PROVE TypeInv'
  OBVIOUS
<1>1. StoreOK /\ TableOK /\ CachesOK /\ HandlersOK
  BY DEF TypeInv
<1>2. ASSUME NEW t \in Tasks, Arrival(t) PROVE TypeInv'
  BY <1>1, <1>2, HandlersStep DEF TypeInv, Arrival, store, table, caches, StoreOK, TableOK, CachesOK
<1>3. ASSUME NEW t \in Tasks, Advance(t), Onward(t) PROVE TypeInv'
  <2>1. HandlersOK'
    BY <1>1, <1>3, HandlersStep
  <2>2. LocalsOK(req[t]) /\ StageOK(pc[t], req[t].op) /\ req[t] \in Requests
    BY <1>1 DEF HandlersOK, HandlerOK
  <2>3. CASE CreatePut(t) \/ MkdirPut(t) \/ RenameCopy(t)
    <3>1. req[t].path \in Paths /\ req[t].new \in Paths
      BY <2>2, <2>3 DEF CreatePut, MkdirPut, RenameCopy, StageOK, LocalsOK
    <3>2. StoreOK' /\ UNCHANGED <<table, caches>>
      BY <1>1, <2>3, <3>1 DEF CreatePut, MkdirPut, RenameCopy, StoreOK, Insert
    <3> QED
      BY <1>1, <2>1, <3>2 DEF TypeInv, table, caches, TableOK, CachesOK
  <2>4. CASE UnlinkDelete(t) \/ RmdirDelete(t) \/ RenameDelete(t)
    <3>1. StoreOK' /\ UNCHANGED <<table, caches>>
      BY <1>1, <2>4 DEF UnlinkDelete, RmdirDelete, RenameDelete, StoreOK, Remove
    <3> QED
      BY <1>1, <2>1, <3>1 DEF TypeInv, table, caches, TableOK, CachesOK
  <2>5. CASE \/ StatFile(t) \/ StatDir(t) \/ List(t) \/ LookupListed(t) \/ StatAttr(t)
             \/ ReaddirListed(t) \/ RmdirListed(t) \/ NextEntry(t) \/ Finish(t)
    <3>1. UNCHANGED <<store, table, caches>>
      BY <2>5 DEF StatFile, StatDir, List, LookupListed, StatAttr, ReaddirListed, RmdirListed,
                  NextEntry, Finish
    <3> QED
      BY <1>1, <2>1, <3>1 DEF TypeInv, store, table, caches, StoreOK, TableOK, CachesOK
  <2>6. CASE CallsOut(t)
    <3>1. req[t].script # <<>> /\ UNCHANGED store
      BY <2>6, CallShape DEF CallsOut, Calling, CreateInode, PutAttr, PutNegative,
         RemoveNegative, FindInode, InvalidateAttr, RemoveInode, RenameInode
    <3>2. /\ Called(t).path \in TablePaths /\ req[t].inode \in Nat
          /\ req[t].path \in TablePaths /\ req[t].new \in TablePaths
          /\ Called(t).do = "put_attr" => Called(t).kind \in Kinds
          /\ Called(t).do = "put_negative" => Called(t).path \in Paths
      BY <1>1, <2>2, <3>1, ScriptFacts DEF Requests
    <3>3. TableOK'
      <4>1. CASE UNCHANGED table
        BY <1>1, <4>1 DEF TableOK, table
      <4>2. CASE CreateInode(t)
        BY <1>1, <3>2, <4>1, <4>2 DEF CreateInode, TableOK, Insert
      <4>3. CASE RemoveInode(t)
        BY <1>1, <4>3 DEF RemoveInode, TableOK, Remove
      <4>4. CASE RenameInode(t)
        <5> DEFINE old == req[t].path
                   new == req[t].new
        <5>1. CASE UNCHANGED <<paths, entries>>
          BY <1>1, <4>4, <5>1 DEF RenameInode, TableOK
        <5>2. CASE /\ old \in DOMAIN paths
                   /\ paths' = Insert(Remove(paths, old), new, paths[old])
                   /\ entries' = IF paths[old] \in DOMAIN entries
                                 THEN Insert(entries, paths[old], new) ELSE entries
          <6>1. paths[old] \in Nat /\ new \in TablePaths
            BY <1>1, <3>2, <5>2 DEF TableOK
          <6> HIDE DEF old, new
          <6>2. /\ DOMAIN paths' \subseteq TablePaths
                /\ \A q \in DOMAIN paths' : paths'[q] \in Nat
            BY <1>1, <5>2, <6>1 DEF TableOK, Insert, Remove
          <6>3. /\ DOMAIN entries' \subseteq Nat
                /\ \A i \in DOMAIN entries' : entries'[i] \in TablePaths
            BY <1>1, <5>2, <6>1 DEF TableOK, Insert
          <6>4. next_inode' = next_inode
            BY <4>4 DEF RenameInode
          <6> QED
            BY <1>1, <6>2, <6>3, <6>4 DEF TableOK
        <5> QED
          BY <4>4, <5>1, <5>2 DEF RenameInode
      <4> QED
        BY <2>6, <4>1, <4>2, <4>3, <4>4
           DEF CallsOut, PutAttr, PutNegative, RemoveNegative, FindInode, InvalidateAttr
    <3>4. CachesOK'
      <4>1. CASE UNCHANGED caches
        BY <1>1, <4>1 DEF CachesOK, caches
      <4>2. CASE PutAttr(t)
        BY <1>1, <3>2, <4>2 DEF PutAttr, Calling, Called, CachesOK, Insert
      <4>3. CASE PutNegative(t)
        BY <1>1, <3>2, <4>3 DEF PutNegative, Calling, Called, CachesOK
      <4>4. CASE RemoveNegative(t) \/ InvalidateAttr(t)
        BY <1>1, <4>4 DEF RemoveNegative, InvalidateAttr, CachesOK, Remove
      <4> QED
        BY <2>6, <4>1, <4>2, <4>3, <4>4
           DEF CallsOut, CreateInode, FindInode, RemoveInode, RenameInode, caches
    <3>5. StoreOK'
      BY <1>1, <3>1 DEF StoreOK, store
    <3> QED
      BY <2>1, <3>3, <3>4, <3>5 DEF TypeInv
  <2> QED
    BY <1>3, <2>3, <2>4, <2>5, <2>6 DEF Advance, CallsOut
<1>4. ASSUME NEW i \in DOMAIN attrs, ExpireAttr(i) PROVE TypeInv'
  <2>1. CachesOK' /\ UNCHANGED <<store, table, pc, req, calls, answer>>
    BY <1>1, <1>4 DEF ExpireAttr, CachesOK, Remove
  <2> QED
    BY <1>1, <2>1 DEF TypeInv, store, table, StoreOK, TableOK, HandlersOK
<1>5. ASSUME NEW p \in negatives, ExpireNegative(p) PROVE TypeInv'
  <2>1. CachesOK' /\ UNCHANGED <<store, table, pc, req, calls, answer>>
    BY <1>1, <1>5 DEF ExpireNegative, CachesOK
  <2> QED
    BY <1>1, <2>1 DEF TypeInv, store, table, StoreOK, TableOK, HandlersOK
<1>6. CASE UNCHANGED vars
  BY <1>1, <1>6 DEF vars, store, table, caches, TypeInv, StoreOK, TableOK, CachesOK, HandlersOK
<1> QED
  BY <1>2, <1>3, <1>4, <1>5, <1>6, StepKinds

\* The initial state.
LEMMA InitType == Init => TypeInv
<1> SUFFICES ASSUME Init PROVE TypeInv
  OBVIOUS
<1>1. StoreOK
  BY InitAssumption DEF Init, StoreOK
<1>2. TableOK
  BY TreeFacts DEF Init, TableOK, ROOT_INODE
<1>3. CachesOK
  BY DEF Init, CachesOK, EmptyMap
<1>4. HandlersOK
  BY NewRequests DEF Init, HandlersOK, HandlerOK, LocalsOK, Labels
<1> QED
  BY <1>1, <1>2, <1>3, <1>4 DEF TypeInv

\* The invariant holds in every behaviour.
THEOREM TypeInvariant == Spec => []TypeInv
  BY InitType, StepType, PTL DEF Spec

\* The state of the name space keeps its type: every path in the table is a path
\* of the tree, or a directory's marker that readdir entered as its own child
\* (core.rs:223-297).
THEOREM TypeCorrect == Spec => []TypeOK
<1>1. TypeInv => TypeOK
  BY DEF TypeInv, StoreOK, TableOK, CachesOK, HandlersOK, TypeOK, Requests
<1> QED
  BY <1>1, TypeInvariant, PTL
-----------------------------------------------------------------------------
(* What files hold *)

\* Without lookups no name gets into the negative cache, so that the kernel
\* creates only where nothing exists.  The directories of a change stay locked
\* until it ends: what a create found absent stays so, and what a rename has
\* copied is what it deletes.
KeptInv ==
  /\ TypeInv
  /\ negatives = {}
  /\ \A t \in Tasks :
       /\ req[t].op # "lookup"
       /\ pc[t] = "put" => req[t].path \notin DOMAIN files
       /\ pc[t] = "delete_old" =>
            /\ req[t].new \in DOMAIN files
            /\ req[t].path \in DOMAIN files => files[req[t].new] = files[req[t].path]
  /\ \A t, u \in Tasks : t # u => Locks(req[t]) \cap Locks(req[u]) = {}

\* The file of q, if any, stays as it is.
Untouched(q) ==
  /\ q \in DOMAIN files' <=> q \in DOMAIN files
  /\ q \in DOMAIN files => files'[q] = files[q]

\* The locks of a handler depend on its request alone.
LEMMA SameLocks ==
  ASSUME NEW r, NEW s, r.op = s.op, r.path = s.path, r.new = s.new
  PROVE  Locks(r) = Locks(s)
  BY DEF Locks

\* The paths of a change are in the tree, their directories locked.
LEMMA ChangesLock ==
  ASSUME HandlersOK, NEW t \in Tasks
  PROVE  LET r == req[t] IN
         /\ pc[t] \in {"put", "delete"} => Parent(r.path) \in Locks(r)
         /\ pc[t] \in {"copy", "delete_old"} =>
              /\ Parent(r.path) \in Locks(r) /\ Parent(r.new) \in Locks(r)
              /\ r.path # r.new
<1>1. StageOK(pc[t], req[t].op) /\ LocalsOK(req[t])
  BY DEF HandlersOK, HandlerOK
<1> QED
  BY <1>1 DEF StageOK, LocalsOK, Locks

\* A handler changes files of the directories it keeps locked.
LEMMA OwnChanges ==
  ASSUME TypeInv, NEW t \in Tasks, Advance(t), NEW q, Parent(q) \notin Locks(req[t])
  PROVE  Untouched(q)
<1>1. HandlersOK
  BY DEF TypeInv
<1>2. CASE CreatePut(t)
  <2>1. q # req[t].path
    BY <1>1, <1>2, ChangesLock DEF CreatePut
  <2> QED
    BY <1>2, <2>1 DEF CreatePut, Insert, Untouched
<1>3. CASE UnlinkDelete(t)
  <2>1. q # req[t].path
    BY <1>1, <1>3, ChangesLock DEF UnlinkDelete
  <2> QED
    BY <1>3, <2>1 DEF UnlinkDelete, Remove, Untouched
<1>4. CASE RenameCopy(t)
  <2>1. q # req[t].new
    BY <1>1, <1>4, ChangesLock DEF RenameCopy
  <2> QED
    BY <1>4, <2>1 DEF RenameCopy, Insert, Untouched
<1>5. CASE RenameDelete(t)
  <2>1. q # req[t].path
    BY <1>1, <1>5, ChangesLock DEF RenameDelete
  <2> QED
    BY <1>5, <2>1 DEF RenameDelete, Remove, Untouched
<1>6. CASE CallsOut(t)
  BY <1>6, CallShape DEF Untouched, store
<1>7. CASE \/ StatFile(t) \/ StatDir(t) \/ List(t) \/ LookupListed(t) \/ StatAttr(t)
           \/ ReaddirListed(t) \/ RmdirListed(t) \/ NextEntry(t) \/ Finish(t)
           \/ MkdirPut(t) \/ RmdirDelete(t)
  BY <1>7 DEF StatFile, StatDir, List, LookupListed, StatAttr, ReaddirListed, RmdirListed,
              NextEntry, Finish, MkdirPut, RmdirDelete, Untouched, store
<1> QED
  BY <1>2, <1>3, <1>4, <1>5, <1>6, <1>7 DEF Advance, CallsOut

\* Only a copy that worked leads to the delete.
LEMMA OnlyCopied ==
  ASSUME TypeInv, NEW t \in Tasks, Advance(t), pc'[t] = "delete_old"
  PROVE  /\ pc[t] = "copy" /\ req' = req /\ IsFile(req[t].path)
         /\ files' = Insert(files, req[t].new, files[req[t].path])
<1>1. pc \in [Tasks -> Labels]
  BY DEF TypeInv, HandlersOK
<1>2. CASE RenameCopy(t)
  BY <1>1, <1>2 DEF RenameCopy, Reply, Await, Goto
<1>3. CASE \/ CreatePut(t) \/ UnlinkDelete(t) \/ RenameDelete(t) \/ MkdirPut(t) \/ RmdirDelete(t)
  BY <1>1, <1>3 DEF CreatePut, UnlinkDelete, RenameDelete, MkdirPut, RmdirDelete,
                    Reply, Continue, Goto
<1>4. CASE CallsOut(t)
  BY <1>1, <1>4 DEF CallsOut, Calling, CreateInode, PutAttr, PutNegative, RemoveNegative,
                    FindInode, InvalidateAttr, RemoveInode, RenameInode, Go
<1>5. CASE \/ StatFile(t) \/ StatDir(t) \/ LookupListed(t) \/ StatAttr(t)
           \/ ReaddirListed(t) \/ RmdirListed(t) \/ NextEntry(t) \/ Finish(t)
  BY <1>1, <1>5 DEF StatFile, StatDir, LookupListed, StatAttr, ReaddirListed, RmdirListed,
                    NextEntry, Finish, Reply, Continue, Await, Goto
<1>6. CASE List(t)
  BY <1>1, <1>6 DEF List, Goto
<1> QED
  BY <1>2, <1>3, <1>4, <1>5, <1>6 DEF Advance, CallsOut

\* No handler enters a name into the negative cache but a lookup's.
LEMMA NoNegatives ==
  ASSUME KeptInv, NEW t \in Tasks, Advance(t)
  PROVE  negatives' = {}
<1>1. negatives = {} /\ req[t].op # "lookup" /\ HandlersOK
  BY DEF KeptInv, TypeInv
<1>2. CASE PutNegative(t)
  BY <1>1, <1>2, ScriptFacts DEF PutNegative, Calling, Called
<1>3. CASE RemoveNegative(t)
  BY <1>1, <1>3 DEF RemoveNegative
<1>4. CASE \/ CreateInode(t) \/ PutAttr(t) \/ FindInode(t) \/ InvalidateAttr(t)
           \/ RemoveInode(t) \/ RenameInode(t)
  BY <1>1, <1>4 DEF CreateInode, PutAttr, FindInode, InvalidateAttr, RemoveInode, RenameInode,
                    caches
<1>5. CASE \/ StatFile(t) \/ StatDir(t) \/ List(t) \/ LookupListed(t) \/ StatAttr(t)
           \/ ReaddirListed(t) \/ RmdirListed(t) \/ NextEntry(t) \/ Finish(t)
           \/ CreatePut(t) \/ MkdirPut(t) \/ UnlinkDelete(t) \/ RmdirDelete(t)
           \/ RenameCopy(t) \/ RenameDelete(t)
  <2>1. UNCHANGED caches
    BY <1>5 DEF StatFile, StatDir, List, LookupListed, StatAttr, ReaddirListed, RmdirListed,
                NextEntry, Finish, CreatePut, MkdirPut, UnlinkDelete, RmdirDelete, RenameCopy,
                RenameDelete
  <2> QED
    BY <1>1, <2>1 DEF caches
<1> QED
  BY <1>2, <1>3, <1>4, <1>5 DEF Advance

\* A request arrives where no other holds a lock it needs.
LEMMA KeptArrival ==
  ASSUME KeptInv, TypeInv', NEW t \in Tasks, Arrival(t), "lookup" \notin Ops
  PROVE  KeptInv'
<1>1. PICK l \in Labels \ {"delete_old"}, r \in Requests :
        /\ Moves(t, l, r) /\ r.op \in Ops \cup {"none"}
        /\ \A u \in Tasks : Locks(r) \cap Locks(req[u]) = {}
        /\ l = "put" => Unknown(r.path)
  BY DEF Arrival
<1>2. /\ pc \in [Tasks -> Labels] /\ req \in [Tasks -> Requests]
      /\ pc' = [pc EXCEPT ![t] = l] /\ req' = [req EXCEPT ![t] = r]
      /\ files' = files /\ negatives' = negatives
  BY <1>1 DEF KeptInv, TypeInv, HandlersOK, Moves, Arrival, store, caches
<1>3. l = "put" => r.path \notin DOMAIN files
  BY <1>1 DEF Unknown, Exists, IsFile, KeptInv
<1>4. ASSUME NEW u \in Tasks
      PROVE  /\ req'[u].op # "lookup"
             /\ pc'[u] = "put" => req'[u].path \notin DOMAIN files
             /\ pc'[u] = "delete_old" =>
                  /\ req'[u].new \in DOMAIN files
                  /\ req'[u].path \in DOMAIN files =>
                       files[req'[u].new] = files[req'[u].path]
  <2>1. CASE u = t
    BY <1>1, <1>2, <1>3, <2>1
  <2>2. CASE u # t
    BY <1>2, <2>2 DEF KeptInv
  <2> QED
    BY <2>1, <2>2
<1>5. ASSUME NEW u \in Tasks, NEW v \in Tasks, u # v
      PROVE  Locks(req'[u]) \cap Locks(req'[v]) = {}
  <2>1. CASE u = t
    BY <1>1, <1>2, <1>5, <2>1
  <2>2. CASE v = t
    BY <1>1, <1>2, <1>5, <2>2
  <2>3. CASE u # t /\ v # t
    BY <1>2, <1>5, <2>3 DEF KeptInv
  <2> QED
    BY <2>1, <2>2, <2>3
<1>6. \A u \in Tasks : Locks(req[u])' = Locks(req'[u])
  BY DEF Locks, Parent
<1> QED
  BY <1>2, <1>4, <1>5, <1>6 DEF KeptInv

\* A handler goes on while the others hold their locks.
LEMMA KeptOnward ==
  ASSUME KeptInv, TypeInv', NEW t \in Tasks, Advance(t), Onward(t)
  PROVE  KeptInv'
<1>1. PICK l \in Labels \ {"put"}, r \in Requests :
        /\ Moves(t, l, r)
        /\ r = NoRequest \/ (r.op = req[t].op /\ r.path = req[t].path /\ r.new = req[t].new)
  BY DEF Onward
<1>2. /\ TypeInv /\ HandlersOK /\ pc \in [Tasks -> Labels] /\ req \in [Tasks -> Requests]
      /\ pc' = [pc EXCEPT ![t] = l] /\ req' = [req EXCEPT ![t] = r]
  BY <1>1 DEF KeptInv, TypeInv, HandlersOK, Moves
<1>3. negatives' = {}
  BY NoNegatives
<1>4. Locks(r) \subseteq Locks(req[t]) /\ r.op # "lookup"
  <2>1. CASE r = NoRequest
    BY <2>1, NewRequests
  <2>2. CASE r.op = req[t].op /\ r.path = req[t].path /\ r.new = req[t].new
    BY <2>2, SameLocks DEF KeptInv
  <2> QED
    BY <1>1, <2>1, <2>2
<1>5. ASSUME NEW u \in Tasks
      PROVE  /\ req'[u].op # "lookup"
             /\ pc'[u] = "put" => req'[u].path \notin DOMAIN files'
             /\ pc'[u] = "delete_old" =>
                  /\ req'[u].new \in DOMAIN files'
                  /\ req'[u].path \in DOMAIN files' =>
                       files'[req'[u].new] = files'[req'[u].path]
  <2>1. CASE u = t
    <3>1. req'[u].op # "lookup" /\ pc'[u] # "put"
      BY <1>1, <1>2, <1>4, <2>1
    <3>2. ASSUME pc'[u] = "delete_old"
          PROVE  /\ req'[u].new \in DOMAIN files'
                 /\ req'[u].path \in DOMAIN files' =>
                      files'[req'[u].new] = files'[req'[u].path]
      <4>1. /\ req' = req
            /\ files' = Insert(files, req[t].new, files[req[t].path])
        BY <1>2, <2>1, <3>2, OnlyCopied
      <4> QED
        BY <2>1, <4>1 DEF Insert
    <3> QED
      BY <3>1, <3>2
  <2>2. CASE u # t
    <3>1. pc'[u] = pc[u] /\ req'[u] = req[u] /\ Locks(req[u]) \cap Locks(req[t]) = {}
      BY <1>2, <2>2 DEF KeptInv
    <3>2. \A q : Parent(q) \in Locks(req[u]) => Untouched(q)
      BY <1>2, <3>1, OwnChanges
    <3>3. pc[u] = "put" => req[u].path \notin DOMAIN files'
      <4>1. pc[u] = "put" => Untouched(req[u].path)
        BY <1>2, <3>2, ChangesLock
      <4> QED
        BY <4>1 DEF KeptInv, Untouched
    <3>4. pc[u] = "delete_old" =>
            /\ req[u].new \in DOMAIN files'
            /\ req[u].path \in DOMAIN files' => files'[req[u].new] = files'[req[u].path]
      <4>1. pc[u] = "delete_old" => Untouched(req[u].path) /\ Untouched(req[u].new)
        BY <1>2, <3>2, ChangesLock
      <4> QED
        BY <4>1 DEF KeptInv, Untouched
    <3> QED
      BY <3>1, <3>3, <3>4 DEF KeptInv
  <2> QED
    BY <2>1, <2>2
<1>6. ASSUME NEW u \in Tasks, NEW v \in Tasks, u # v
      PROVE  Locks(req'[u]) \cap Locks(req'[v]) = {}
  <2>1. \A w \in Tasks : Locks(req'[w]) \subseteq Locks(req[w])
    BY <1>2, <1>4
  <2> QED
    BY <1>6, <2>1 DEF KeptInv
<1>7. \A u \in Tasks : Locks(req[u])' = Locks(req'[u])
  BY DEF Locks, Parent
<1> QED
  BY <1>3, <1>5, <1>6, <1>7 DEF KeptInv

\* Steps of no task's handler.
LEMMA KeptElse ==
  ASSUME KeptInv, TypeInv',
         \/ \E i \in DOMAIN attrs : ExpireAttr(i)
         \/ \E p \in negatives : ExpireNegative(p)
         \/ UNCHANGED vars
  PROVE  KeptInv'
<1>1. /\ pc' = pc /\ req' = req /\ files' = files /\ negatives' = {}
  BY DEF KeptInv, ExpireAttr, ExpireNegative, vars, store
<1> QED
  BY <1>1 DEF KeptInv, Locks

\* Every step keeps the invariant.
LEMMA KeptStep ==
  ASSUME "lookup" \notin Ops
  PROVE  KeptInv /\ [Next]_vars => KeptInv'
<1> SUFFICES ASSUME KeptInv, [Next]_vars PROVE KeptInv'
  OBVIOUS
<1>1. TypeInv /\ TypeInv'
  BY StepType DEF KeptInv
<1> QED
  BY <1>1, StepKinds, KeptArrival, KeptOnward, KeptElse

\* The initial state.
LEMMA KeptInit == Init => KeptInv
<1> SUFFICES ASSUME Init PROVE KeptInv
  OBVIOUS
<1>1. \A t \in Tasks : req[t] = NoRequest /\ pc[t] = "idle"
  BY DEF Init
<1> QED
  BY <1>1, InitType, NewRequests DEF KeptInv, Init

\* What a step does to the contents of files.
LEMMA StepKeeps ==
  ASSUME KeptInv, [Next]_vars, NEW c \in Contents
  PROVE  c \in Contents' \cup meant'
<1>1. TypeInv /\ HandlersOK
  BY DEF KeptInv, TypeInv
<1>2. PICK q \in DOMAIN files : c = files[q]
  BY DEF Contents
<1>3. CASE files' = files
  BY <1>2, <1>3 DEF Contents
<1>4. ASSUME NEW p \in DOMAIN files', files'[p] = c PROVE c \in Contents'
  BY <1>4 DEF Contents
<1>5. ASSUME NEW t \in Tasks, CreatePut(t) PROVE c \in Contents'
  <2>1. q # req[t].path
    BY <1>2, <1>5 DEF CreatePut, KeptInv
  <2>2. q \in DOMAIN files' /\ files'[q] = c
    BY <1>2, <1>5, <2>1 DEF CreatePut, Insert
  <2> QED
    BY <1>4, <2>2
<1>6. ASSUME NEW t \in Tasks, UnlinkDelete(t) PROVE c \in Contents' \cup meant'
  <2>1. CASE q = req[t].path
    BY <1>2, <1>6, <2>1 DEF UnlinkDelete, ContentsOf
  <2>2. CASE q # req[t].path
    <3>1. q \in DOMAIN files' /\ files'[q] = c
      BY <1>2, <1>6, <2>2 DEF UnlinkDelete, Remove
    <3> QED
      BY <1>4, <3>1
  <2> QED
    BY <2>1, <2>2
<1>7. ASSUME NEW t \in Tasks, RenameCopy(t) PROVE c \in Contents' \cup meant'
  <2>1. CASE q = req[t].new
    BY <1>2, <1>7, <2>1 DEF RenameCopy, ContentsOf
  <2>2. CASE q # req[t].new
    <3>1. q \in DOMAIN files' /\ files'[q] = c
      BY <1>2, <1>7, <2>2 DEF RenameCopy, Insert
    <3> QED
      BY <1>4, <3>1
  <2> QED
    BY <2>1, <2>2
<1>8. ASSUME NEW t \in Tasks, RenameDelete(t) PROVE c \in Contents'
  <2>1. /\ pc[t] = "delete_old" /\ req[t].path # req[t].new
        /\ files' = files \/ files' = Remove(files, req[t].path)
    BY <1>1, <1>8, ChangesLock DEF RenameDelete
  <2>2. /\ req[t].new \in DOMAIN files
        /\ req[t].path \in DOMAIN files => files[req[t].new] = files[req[t].path]
    BY <2>1 DEF KeptInv
  <2>3. CASE q = req[t].path
    <3>1. req[t].new \in DOMAIN files' /\ files'[req[t].new] = c
      BY <1>2, <2>1, <2>2, <2>3 DEF Remove
    <3> QED
      BY <1>4, <3>1
  <2>4. CASE q # req[t].path
    <3>1. q \in DOMAIN files' /\ files'[q] = c
      BY <1>2, <2>1, <2>4 DEF Remove
    <3> QED
      BY <1>4, <3>1
  <2> QED
    BY <2>3, <2>4
<1>9. ASSUME NEW t \in Tasks, Advance(t), Onward(t) PROVE c \in Contents' \cup meant'
  <2>1. CASE CallsOut(t)
    BY <1>1, <1>3, <2>1, CallShape DEF store
  <2>2. CASE \/ StatFile(t) \/ StatDir(t) \/ List(t) \/ LookupListed(t) \/ StatAttr(t)
             \/ ReaddirListed(t) \/ RmdirListed(t) \/ NextEntry(t) \/ Finish(t)
             \/ MkdirPut(t) \/ RmdirDelete(t)
    BY <1>3, <2>2 DEF StatFile, StatDir, List, LookupListed, StatAttr, ReaddirListed,
                      RmdirListed, NextEntry, Finish, MkdirPut, RmdirDelete, store
  <2> QED
    BY <1>5, <1>6, <1>7, <1>8, <1>9, <2>1, <2>2 DEF Advance, CallsOut
<1>10. CASE \/ \E t \in Tasks : Arrival(t)
            \/ \E i \in DOMAIN attrs : ExpireAttr(i)
            \/ \E p \in negatives : ExpireNegative(p)
            \/ UNCHANGED vars
  <2>1. files' = files
    BY <1>10 DEF Arrival, ExpireAttr, ExpireNegative, vars, store
  <2> QED
    BY <1>3, <2>1
<1> QED
  BY <1>1, <1>9, <1>10, StepKinds

\* Whatever fails between rename's copy and its delete, and however requests that
\* change the name space interleave, what a file held is in the store until a
\* request removes or replaces that file (core.rs:555-592).  Lookups are left out:
\* a stale negative entry that one puts makes the kernel create, with an empty
\* object, a name whose file exists (core.rs:162-220).
THEOREM NoContentsLost ==
  ASSUME "lookup" \notin Ops
  PROVE  Spec => ContentsKept
<1>1. Init => KeptInv
  BY KeptInit
<1>2. KeptInv /\ [Next]_vars => KeptInv'
  BY KeptStep
<1>3. KeptInv /\ [Next]_vars => [\A c \in Contents : c \in Contents' \cup meant']_vars
  BY StepKeeps
<1> QED
  BY <1>1, <1>2, <1>3, PTL DEF Spec, ContentsKept
-----------------------------------------------------------------------------
(* One request at a time *)

\* A single task over a store that answers, without the two requests that break
\* the caches by themselves: rename never removes its target from the negative
\* cache, and readdir enters a directory's marker below that directory.
SerialNoRenameReaddir ==
  /\ \A t, u \in Tasks : t = u
  /\ ~StoreMayFail
  /\ Ops \cap {"rename", "readdir"} = {}

\* The bucket at the mount: no name is a file's and a directory's, and every
\* directory with something in it has its marker.
MarkedTree ==
  /\ InitFiles \cap InitMarkers = {}
  /\ \A p \in Paths, q \in InitFiles \cup InitMarkers :
       Seqs!IsStrictPrefix(p, q) => p \in InitMarkers

There(p) == p = Root \/ IsFile(p) \/ p \in markers

\* It stays so.
TreeKept ==
  /\ DOMAIN files \cap markers = {}
  /\ \A p \in Paths, q \in DOMAIN files \cup markers :
       Seqs!IsStrictPrefix(p, q) => p \in markers

\* The two maps of the inode table are each other's inverse.
TableKept ==
  /\ \A p \in DOMAIN paths : paths[p] \in DOMAIN entries /\ entries[paths[p]] = p
  /\ \A i \in DOMAIN entries :
       entries[i] \in DOMAIN paths /\ paths[entries[i]] = i /\ i < next_inode
  /\ \A i \in DOMAIN attrs : i < next_inode

\* The path a request has removed from the store, or put there, while calls remain.
GoingOf(ops, l, r) == IF r.op \in ops /\ l = "script" /\ r.script # <<>> THEN {r.path} ELSE {}
Leaving == UNION {GoingOf({"unlink", "rmdir"}, pc[t], req[t]) : t \in Tasks}
Coming == UNION {GoingOf({"create", "mkdir"}, pc[t], req[t]) : t \in Tasks}

\* Names in the table are names in the store, with attributes that tell their kind;
\* what the negative cache holds is not there.
NamesKept ==
  /\ \A p \in DOMAIN paths \ Leaving :
       There(p) /\ (paths[p] \in DOMAIN attrs => attrs[paths[p]] = Kind(p))
  /\ \A p \in negatives \ Coming : ~There(p)

\* The number in the handler's hands is that of its path.
Holds(r) == r.path \in DOMAIN paths /\ paths[r.path] = r.inode

\* The calls that remain, and what they rely on.
LookupRests(r) ==
  LET p == r.path
      k == Kind(p)
  IN \/ r.script = Enter(p, k) /\ r.result = "ok" /\ There(p)
     \/ r.script = <<Call("put_attr", p, k)>> /\ r.result = "ok" /\ There(p) /\ Holds(r)
     \/ r.script = NotFound(p) /\ r.result = "ENOENT" /\ ~There(p)
     \/ r.script = <<>> /\ r.result \in {"ok", "ENOENT"} /\ (r.result = "ok" <=> There(p))

GetAttrRests(r) ==
  LET k == Kind(r.path) IN
  /\ r.result = "ok" /\ There(r.path)
  /\ \/ r.script = <<Call("put_attr", r.path, k)>> /\ Holds(r)
     \/ r.script = <<>>

EnterRests(r) ==
  LET p == r.path
      k == Kind(p)
  IN /\ r.result = "ok" /\ There(p)
     /\ \/ r.script = Created(p, k)
        \/ r.script = <<Call("put_attr", p, k), Call("remove_negative", p, "")>> /\ Holds(r)
        \/ r.script = <<Call("remove_negative", p, "")>>
        \/ r.script = <<>>

ForgetRests(r) ==
  LET p == r.path IN
  /\ r.result = "ok" /\ ~There(p) /\ (r.op = "rmdir" => Below(p) = {})
  /\ \/ r.script = Forget(p) /\ p \in DOMAIN paths
     \/ /\ r.script = <<Call("invalidate_attr", p, ""), Call("remove_inode", p, "")>>
        /\ Holds(r)
     \/ r.script = <<Call("remove_inode", p, "")>> /\ Holds(r) /\ r.inode \notin DOMAIN attrs
     \/ r.script = <<>>

\* What a handler has learned by each step still holds.
StageKept(l, r) ==
  LET p == r.path IN
  /\ r.op \notin {"rename", "readdir"}
  /\ l \notin {"listed", "listed_rmdir"} => r.todo = {}
  /\ l = "stat_dir" => ~IsFile(p)
  /\ l = "list" => ~There(p)
  /\ l = "listed" => ~There(p) /\ r.todo = {}
  /\ l = "stat_attr" => Holds(r) /\ r.result = "ok"
  /\ l \in {"put", "put_marker"} => ~There(p) /\ Parent(p) \in markers \cup {Root}
  /\ l = "delete" => IsFile(p) /\ p \in DOMAIN paths
  /\ l \in {"list_rmdir", "listed_rmdir", "delete_marker"} =>
       p \in markers /\ p \in DOMAIN paths
  /\ l = "listed_rmdir" => r.todo = Listed(p)
  /\ l = "delete_marker" => Below(p) = {}
  /\ l \notin {"idle", "script"} => r.result = "ok"
  /\ l = "script" =>
       /\ r.op = "lookup" => LookupRests(r)
       /\ r.op = "getattr" => GetAttrRests(r)
       /\ r.op \in {"create", "mkdir"} => EnterRests(r)
       /\ r.op \in {"unlink", "rmdir"} => ForgetRests(r)

SerialInv ==
  /\ TypeInv
  /\ TreeKept /\ TableKept /\ NamesKept
  /\ \A t \in Tasks : StageKept(pc[t], req[t])
  /\ AnswersAreTrue

-----------------------------------------------------------------------------
(* The tree while one request follows another *)

\* Strict prefixes are shorter, and are prefixes up to their own length.
LEMMA Prefixes ==
  ASSUME NEW p \in Seq(Names), NEW q \in Seq(Names)
  PROVE  /\ Seqs!IsStrictPrefix(p, q) => Len(p) < Len(q)
         /\ \A n \in 0..(Len(q) - 1) : Seqs!IsStrictPrefix(SubSeq(q, 1, n), q)
         /\ \A n \in 0..(Len(q) - 1) :
              SubSeq(q, 1, n) \in Seq(Names) /\ Len(SubSeq(q, 1, n)) = n
<1>1. Len(p) \in Nat /\ Len(q) \in Nat
  OBVIOUS
<1>2. Seqs!IsStrictPrefix(p, q) => Len(p) < Len(q)
  <2> SUFFICES ASSUME Seqs!IsStrictPrefix(p, q) PROVE Len(p) < Len(q)
    OBVIOUS
  <2>1. Len(p) <= Len(q) /\ SubSeq(p, 1, Len(p)) = SubSeq(q, 1, Len(p)) /\ p # q
    BY DEF Seqs!IsStrictPrefix, Seqs!IsPrefix
  <2>2. Len(p) # Len(q)
    BY <2>1, SubSeqFull
  <2> QED
    BY <1>1, <2>1, <2>2
<1>3. ASSUME NEW n \in 0..(Len(q) - 1)
      PROVE  /\ SubSeq(q, 1, n) \in Seq(Names) /\ Len(SubSeq(q, 1, n)) = n
             /\ Seqs!IsStrictPrefix(SubSeq(q, 1, n), q)
  <2> DEFINE s == SubSeq(q, 1, n)
  <2>1. \A i \in 1..n : q[i] \in Names
    BY <1>1
  <2>2. /\ s \in Seq(Names) /\ Len(s) = IF 1 <= n THEN n - 1 + 1 ELSE 0
    BY <1>1, <2>1, SubSeqProperties
  <2>3. Len(s) = n
    BY <1>1, <2>2
  <2>4. SubSeq(s, 1, n) = s
    BY <2>2, <2>3, SubSeqFull
  <2> HIDE DEF s
  <2>5. s # q /\ n <= Len(q)
    BY <1>1, <2>3
  <2>6. SubSeq(s, 1, Len(s)) = SubSeq(q, 1, Len(s))
    BY <2>3, <2>4 DEF s
  <2> QED
    BY <2>2, <2>3, <2>5, <2>6 DEF Seqs!IsStrictPrefix, Seqs!IsPrefix, s
<1> QED
  BY <1>2, <1>3

\* The directories above a path are its parent and those above the parent.
LEMMA AboveParent ==
  ASSUME NEW p \in Paths, NEW q \in Paths, Seqs!IsStrictPrefix(p, q)
  PROVE  Parent(q) # Root /\ (p = Parent(q) \/ Seqs!IsStrictPrefix(p, Parent(q)))
<1> DEFINE m == Len(p)
           n == Len(q) - 1
           s == SubSeq(q, 1, n)
<1>1. p \in Seq(Names) /\ q \in Seq(Names) /\ p # Root
  BY TreeFacts, TreeAssumption DEF Root
<1>2. m \in Nat /\ Len(q) \in Nat /\ m > 0 /\ m <= n /\ n \in 0..(Len(q) - 1)
  BY <1>1, Prefixes, EmptySeq DEF Root
<1>3. s \in Seq(Names) /\ Len(s) = n /\ s = Parent(q)
  BY <1>1, <1>2, Prefixes DEF Parent
<1>4. SubSeq(p, 1, m) = SubSeq(q, 1, m)
  BY DEF Seqs!IsStrictPrefix, Seqs!IsPrefix
<1>5. SubSeq(s, 1, m) = SubSeq(q, 1, m)
  <2> DEFINE a == SubSeq(s, 1, m)
             b == SubSeq(q, 1, m)
  <2>1. (\A i \in 1..m : s[i] \in Names) /\ (\A i \in 1..m : q[i] \in Names)
        /\ (\A i \in 1..n : q[i] \in Names)
    BY <1>1, <1>2, <1>3
  <2> HIDE DEF m, n
  <2>2. /\ a \in Seq(Names) /\ Len(a) = IF 1 <= m THEN m - 1 + 1 ELSE 0
        /\ \A i \in 1..(m - 1 + 1) : a[i] = s[1 + i - 1]
    BY <1>1, <1>2, <1>3, <2>1, SubSeqProperties
  <2>3. /\ b \in Seq(Names) /\ Len(b) = IF 1 <= m THEN m - 1 + 1 ELSE 0
        /\ \A i \in 1..(m - 1 + 1) : b[i] = q[1 + i - 1]
    BY <1>1, <1>2, <2>1, SubSeqProperties
  <2>4. \A i \in 1..(n - 1 + 1) : s[i] = q[1 + i - 1]
    BY <1>1, <1>2, <2>1, SubSeqProperties
  <2> HIDE DEF a, b, s
  <2>5. \A i \in 1..m : a[i] = s[i] /\ b[i] = q[i] /\ s[i] = q[i]
    <3>1. m - 1 + 1 = m /\ n - 1 + 1 = n /\ \A i \in 1..m : 1 + i - 1 = i /\ i \in 1..n
      BY <1>2
    <3> QED
      BY <2>2, <2>3, <2>4, <3>1
  <2>6. Len(a) = m /\ Len(b) = m
    BY <1>2, <2>2, <2>3
  <2>7. a = b
    BY <2>2, <2>3, <2>5, <2>6, SeqEqual
  <2> QED
    BY <2>7 DEF a, b
<1>6. s # Root
  <2> HIDE DEF s, n
  <2>1. n > 0
    BY <1>2
  <2> QED
    BY <1>2, <1>3, <2>1, EmptySeq DEF Root
<1>7. p = s \/ Seqs!IsStrictPrefix(p, s)
  BY <1>2, <1>3, <1>4, <1>5 DEF Seqs!IsStrictPrefix, Seqs!IsPrefix
<1> QED
  BY <1>3, <1>6, <1>7

\* Where directories have markers, a path exists when it is an object's or a
\* marker's.
LEMMA ExistsThere ==
  ASSUME StoreOK, TreeKept
  PROVE  /\ \A p \in Paths \cup {Root} : Exists(p) <=> There(p)
         /\ \A p \in Paths : IsDir(p) <=> p \in markers
         /\ \A p \in Paths : Below(p) # {} => p \in markers
         /\ Root \notin Paths /\ ~IsFile(Root)
<1>1. Root \notin Paths
  BY TreeAssumption DEF Root
<1>2. \A p \in Paths : Below(p) # {} => p \in markers
  BY DEF Below, TreeKept
<1> QED
  BY <1>1, <1>2 DEF Exists, There, IsDir, IsFile, StoreOK

\* There, a listing finds what it names, and just the marker of an empty directory.
LEMMA ListedKept ==
  ASSUME StoreOK, TreeKept, NEW p \in Paths
  PROVE  /\ \A q \in Listed(p) : Statable(q)
         /\ p \notin markers => Listed(p) = {}
         /\ Listed(p) \subseteq {p} <=> Below(p) = {}
<1>1. p \in Seq(Names) /\ Len(p) \in Nat
  BY TreeFacts
<1>2. ASSUME NEW r \in Below(p)
      PROVE  LET q == SubSeq(r, 1, Len(p) + 1) IN q # p /\ Statable(q)
  <2> DEFINE n == Len(p) + 1
             q == SubSeq(r, 1, n)
  <2>1. r \in Paths /\ r \in DOMAIN files \cup markers /\ Seqs!IsStrictPrefix(p, r)
    BY DEF Below, StoreOK
  <2>2. r \in Seq(Names) /\ Len(r) \in Nat /\ n \in 1..Len(r)
    BY <1>1, <2>1, Prefixes, TreeFacts
  <2>3. q \in Paths
    BY <2>1, <2>2, TreeAssumption
  <2>4. CASE n = Len(r)
    <3>1. q = r
      BY <2>2, <2>4, SubSeqFull
    <3>2. p # r /\ Statable(r)
      BY <2>1 DEF Seqs!IsStrictPrefix, Statable, IsFile
    <3> QED
      BY <3>1, <3>2
  <2>5. CASE n # Len(r)
    <3>1. n \in 0..(Len(r) - 1)
      BY <1>1, <2>2, <2>5
    <3>2. Len(q) = n /\ Seqs!IsStrictPrefix(q, r)
      BY <1>1, <2>2, <3>1, Prefixes
    <3>3. q \in markers
      BY <2>1, <2>3, <3>2 DEF TreeKept
    <3>4. q # p
      BY <1>1, <3>2
    <3> QED
      BY <3>3, <3>4 DEF Statable
  <2> QED
    BY <2>4, <2>5
<1>3. Below(p) # {} => p \in markers
  BY ExistsThere
<1>4. \A q \in Listed(p) : Statable(q)
  BY <1>2 DEF Listed, Statable
<1>5. p \notin markers => Listed(p) = {}
  BY <1>3 DEF Listed
<1>6. Listed(p) \subseteq {p} <=> Below(p) = {}
  BY <1>2 DEF Listed
<1> QED
  BY <1>4, <1>5, <1>6

-----------------------------------------------------------------------------
(* Steps of the only task *)

\* The only task's handler is the one with calls that remain.
LEMMA Alone ==
  ASSUME SerialNoRenameReaddir, NEW t \in Tasks
  PROVE  /\ Tasks = {t}
         /\ Leaving = GoingOf({"unlink", "rmdir"}, pc[t], req[t])
         /\ Coming = GoingOf({"create", "mkdir"}, pc[t], req[t])
         /\ Leaving' = GoingOf({"unlink", "rmdir"}, pc'[t], req'[t])
         /\ Coming' = GoingOf({"create", "mkdir"}, pc'[t], req'[t])
         /\ Quiescent <=> pc[t] = "idle"
         /\ Quiescent' <=> pc'[t] = "idle"
<1>1. Tasks = {t}
  BY DEF SerialNoRenameReaddir
<1> QED
  BY <1>1 DEF Leaving, Coming, Quiescent, GoingOf

\* What a handler's step leaves it with.
LEMMA AfterReply ==
  ASSUME HandlersOK, NEW t \in Tasks, NEW r \in Requests, NEW result, Reply(t, r, result)
  PROVE  /\ pc'[t] = "idle" /\ req'[t] = NoRequest
         /\ answer'.op = r.op /\ answer'.path = r.path /\ answer'.result = result
<1>1. pc \in [Tasks -> Labels] /\ req \in [Tasks -> Requests]
  BY DEF HandlersOK
<1>2. answer' = [r EXCEPT !.result = result, !.id = 0]
  BY DEF Reply
<1> QED
  BY <1>1, <1>2 DEF Reply, Goto, Requests

LEMMA AfterContinue ==
  ASSUME HandlersOK, NEW t \in Tasks, NEW script, NEW result, Continue(t, script, result)
  PROVE  /\ pc'[t] = "script" /\ req'[t].script = script /\ req'[t].result = result
         /\ req'[t].op = req[t].op /\ req'[t].path = req[t].path
         /\ req'[t].todo = req[t].todo /\ req'[t].inode = req[t].inode
<1>1. pc \in [Tasks -> Labels] /\ req \in [Tasks -> Requests]
  BY DEF HandlersOK
<1> QED
  BY <1>1 DEF Continue, Goto, Requests

LEMMA AfterGo ==
  ASSUME HandlersOK, NEW t \in Tasks, NEW i, Go(t, i)
  PROVE  /\ pc'[t] = pc[t] /\ req'[t].script = Tail(req[t].script)
         /\ req'[t].inode = i /\ req'[t].result = req[t].result
         /\ req'[t].op = req[t].op /\ req'[t].path = req[t].path
         /\ req'[t].todo = req[t].todo /\ UNCHANGED <<store, answer>>
<1>1. pc \in [Tasks -> Labels] /\ req \in [Tasks -> Requests]
  BY DEF HandlersOK
<1> QED
  BY <1>1 DEF Go, Requests

\* The invariant after a step of the only task.
LEMMA SerialMove ==
  ASSUME SerialNoRenameReaddir, TypeInv', NEW t \in Tasks, TreeKept', TableKept', NamesKept',
         StageKept(pc[t], req[t])', pc'[t] = "idle" => AnswersAreTrue'
  PROVE  SerialInv'
<1>1. Tasks = {t} /\ (Quiescent' <=> pc'[t] = "idle")
  BY Alone
<1>2. AnswersAreTrue'
  BY <1>1 DEF AnswersAreTrue
<1> QED
  BY <1>1, <1>2 DEF SerialInv

\* A step that changes neither store nor table nor caches.
LEMMA Quiet ==
  ASSUME SerialInv, UNCHANGED <<store, table, caches>>, Leaving' = Leaving, Coming' = Coming
  PROVE  TreeKept' /\ TableKept' /\ NamesKept'
<1>1. /\ files' = files /\ markers' = markers /\ paths' = paths /\ entries' = entries
      /\ next_inode' = next_inode /\ attrs' = attrs /\ negatives' = negatives
  BY DEF store, table, caches
<1>2. TreeKept' /\ TableKept'
  BY <1>1 DEF SerialInv, TreeKept, TableKept
<1>3. NamesKept'
  BY <1>1 DEF SerialInv, NamesKept, There, IsFile, Kind
<1> QED
  BY <1>2, <1>3

\* What is true of an answer, told by the store as a lookup sees it.
TrueAnswer(op, p, result) ==
  CASE op = "lookup" -> result = "ok" <=> There(p)
    [] op = "getattr" -> result = "ENOENT" => ~IsFile(p)
    [] op = "unlink" -> result = "ok" => ~IsFile(p)
    [] op = "rmdir" ->
         IF result = "ok" THEN p \notin markers /\ Below(p) = {} /\ p # Root ELSE Below(p) # {}
    [] OTHER -> op # "none" => result = "ok" /\ There(p)

LEMMA TrueAnswers ==
  ASSUME StoreOK, TreeKept, UNCHANGED store, answer'.path \in Paths \cup {Root},
         TrueAnswer(answer'.op, answer'.path, answer'.result)
  PROVE  AnswersAreTrue'
<1> DEFINE p == answer'.path
<1>1. files' = files /\ markers' = markers
  BY DEF store
<1>2. /\ Exists(answer.path)' <=> Exists(p)
      /\ IsFile(answer.path)' <=> IsFile(p)
      /\ IsDir(answer.path)' <=> IsDir(p)
      /\ Below(answer.path)' = Below(p)
  BY <1>1 DEF Exists, IsFile, IsDir, Below
<1>3. /\ Exists(p) <=> There(p)
      /\ IsDir(p) <=> p = Root \/ p \in markers \/ Below(p) # {}
  BY ExistsThere DEF IsDir
<1> QED
  BY <1>2, <1>3 DEF AnswersAreTrue, TrueAnswer

\* A step that ends a request.
LEMMA SerialReply ==
  ASSUME SerialNoRenameReaddir, SerialInv, TypeInv', NEW t \in Tasks, NEW r \in Requests, NEW result,
         Reply(t, r, result), UNCHANGED <<store, table, caches>>,
         r.path \in Paths \cup {Root}, TrueAnswer(r.op, r.path, result),
         Leaving = {}, Coming = {}
  PROVE  SerialInv'
<1>1. /\ pc'[t] = "idle" /\ req'[t] = NoRequest
      /\ answer'.op = r.op /\ answer'.path = r.path /\ answer'.result = result
  BY AfterReply DEF SerialInv, TypeInv
<1>2. Leaving' = {} /\ Coming' = {}
  BY <1>1, Alone DEF GoingOf
<1>3. TreeKept' /\ TableKept' /\ NamesKept'
  BY <1>2, Quiet
<1>4. StageKept(pc[t], req[t])'
  <2>1. NoRequest.op = "none" /\ NoRequest.todo = {}
    BY NewRequests DEF NoRequest, NewRequest
  <2> QED
    BY <1>1, <2>1 DEF StageKept
<1>5. AnswersAreTrue'
  BY <1>1, TrueAnswers DEF SerialInv, TypeInv, store
<1> QED
  BY <1>3, <1>4, <1>5, SerialMove

\* A step after which the handler awaits the store.
LEMMA SerialAwait ==
  ASSUME SerialNoRenameReaddir, SerialInv, TypeInv', NEW t \in Tasks, UNCHANGED <<store, table, caches>>,
         Leaving = {}, Coming = {}, pc'[t] \notin {"idle", "script"}, StageKept(pc[t], req[t])'
  PROVE  SerialInv'
<1>1. Leaving' = {} /\ Coming' = {}
  BY Alone DEF GoingOf
<1> QED
  BY <1>1, Quiet, SerialMove

\* Between requests, what is known of the table and the negative cache.
LEMMA AtRest ==
  ASSUME SerialNoRenameReaddir, SerialInv, NEW t \in Tasks, pc[t] = "idle"
  PROVE  /\ Leaving = {} /\ Coming = {}
         /\ \A p \in DOMAIN paths :
              /\ p \in Paths \cup {Root} /\ There(p)
              /\ paths[p] \in DOMAIN attrs => attrs[paths[p]] = Kind(p)
         /\ \A p \in negatives : p \in Paths /\ ~There(p)
<1>1. Leaving = {} /\ Coming = {}
  BY Alone DEF GoingOf
<1> QED
  BY <1>1 DEF SerialInv, NamesKept, TypeInv, CachesOK, StoreOK, There, IsFile

\* A request arrives and awaits the store.
LEMMA SerialBegin ==
  ASSUME SerialNoRenameReaddir, SerialInv, TypeInv', NEW t \in Tasks,
         NEW l \in {"stat", "stat_attr", "put", "put_marker", "delete", "list_rmdir"},
         NEW op, NEW p, NEW q, NEW i,
         pc[t] = "idle", pc' = [pc EXCEPT ![t] = l],
         req' = [req EXCEPT ![t] = NewRequest(op, calls + 1, p, q, i)],
         UNCHANGED <<store, table, caches>>,
         op \notin {"rename", "readdir"},
         l = "stat_attr" => p \in DOMAIN paths /\ paths[p] = i,
         l \in {"put", "put_marker"} => ~There(p) /\ Parent(p) \in markers \cup {Root},
         l = "delete" => IsFile(p) /\ p \in DOMAIN paths,
         l = "list_rmdir" => p \in markers /\ p \in DOMAIN paths
  PROVE  SerialInv'
<1>1. pc'[t] = l /\ req'[t] = NewRequest(op, calls + 1, p, q, i)
  BY DEF SerialInv, TypeInv, HandlersOK
<1>2. /\ req'[t].op = op /\ req'[t].path = p /\ req'[t].inode = i
      /\ req'[t].todo = {} /\ req'[t].result = "ok"
  BY <1>1 DEF NewRequest
<1>3. StageKept(pc[t], req[t])'
  <2>1. files' = files /\ markers' = markers /\ paths' = paths
    BY DEF store, table
  <2> QED
    BY <1>1, <1>2, <2>1 DEF StageKept, Holds, There, IsFile, Parent
<1> QED
  BY <1>1, <1>3, AtRest, SerialAwait

\* A request arrives.
LEMMA SerialArrive ==
  ASSUME SerialNoRenameReaddir, SerialInv, TypeInv', NEW t \in Tasks, Arrive(t)
  PROVE  SerialInv'
<1>1. /\ TypeInv /\ HandlersOK /\ StoreOK /\ TreeKept /\ TableKept
      /\ calls + 1 \in Nat /\ NoInode \in Nat
  BY DEF SerialInv, TypeInv, HandlersOK, NoInode
<1>2. ASSUME NEW op, NEW p, NEW q, NEW i, Request(t, op, p, q, i)
      PROVE  /\ pc[t] = "idle" /\ op \notin {"rename", "readdir"}
             /\ Parent(p) \in DOMAIN paths \ DOMAIN files
  BY <1>2 DEF Request, SerialNoRenameReaddir
<1>3. \A p \in Paths : Unknown(p) /\ pc[t] = "idle" => ~There(p)
  BY <1>1, AtRest, ExistsThere DEF Unknown
<1>4. \A p \in DOMAIN paths \ DOMAIN files : pc[t] = "idle" => p \in markers \cup {Root}
  BY AtRest DEF There, IsFile
<1>5. ASSUME NEW p \in Paths, Create(t, p) PROVE SerialInv'
  BY <1>2, <1>3, <1>4, <1>5, SerialBegin DEF Create, Begin, Goto
<1>6. ASSUME NEW p \in Paths, Mkdir(t, p) PROVE SerialInv'
  BY <1>2, <1>3, <1>4, <1>6, SerialBegin DEF Mkdir, Begin, Goto
<1>7. ASSUME NEW p \in Paths, Unlink(t, p) PROVE SerialInv'
  BY <1>2, <1>7, SerialBegin DEF Unlink, Begin, Goto
<1>8. ASSUME NEW p \in Paths, Rmdir(t, p) PROVE SerialInv'
  BY <1>1, <1>2, <1>8, SerialBegin, ExistsThere DEF Rmdir, Begin, Goto
<1>9. ASSUME NEW p \in Paths, Lookup(t, p) PROVE SerialInv'
  <2> DEFINE r == NewRequest("lookup", calls + 1, p, p, NoInode)
  <2>1. /\ pc[t] = "idle" /\ UNCHANGED <<store, table, caches>>
    BY <1>2, <1>9 DEF Lookup
  <2>2. r \in Requests /\ r.op = "lookup" /\ r.path = p
    <3>1. "lookup" \in OpNames /\ p \in TablePaths
      BY TreeFacts DEF OpNames
    <3> QED
      BY <1>1, <3>1, NewRequests
  <2>3. CASE p \in negatives /\ Reply(t, r, "ENOENT")
    <3>1. TrueAnswer("lookup", p, "ENOENT")
      BY <2>1, <2>3, AtRest DEF TrueAnswer
    <3> QED
      BY <2>1, <2>2, <2>3, <3>1, AtRest, SerialReply
  <2>4. CASE p \in DOMAIN paths /\ Reply(t, r, "ok")
    <3>1. TrueAnswer("lookup", p, "ok")
      BY <2>1, <2>4, AtRest DEF TrueAnswer
    <3> QED
      BY <2>1, <2>2, <2>4, <3>1, AtRest, SerialReply
  <2>5. CASE Goto(t, "stat") /\ req' = [req EXCEPT ![t] = r]
    BY <2>1, <2>5, SerialBegin DEF Goto
  <2> QED
    BY <1>9, <2>3, <2>4, <2>5 DEF Lookup
<1>10. ASSUME NEW i \in DOMAIN entries, GetAttr(t, i) PROVE SerialInv'
  <2> DEFINE p == entries[i]
             r == NewRequest("getattr", calls + 1, p, p, i)
  <2>1. /\ pc[t] = "idle" /\ UNCHANGED <<store, table, caches>>
    BY <1>2, <1>10 DEF GetAttr
  <2>2. p \in DOMAIN paths /\ paths[p] = i /\ i \in Nat /\ p \in TablePaths
    BY <1>1 DEF TableKept, TypeInv, TableOK
  <2>3. r \in Requests /\ r.op = "getattr" /\ r.path = p
    BY <1>1, <2>2, NewRequests DEF OpNames
  <2>4. CASE Reply(t, r, "ok")
    <3>1. TrueAnswer("getattr", p, "ok")
      BY DEF TrueAnswer
    <3>2. p \in Paths \cup {Root}
      BY <2>1, <2>2, AtRest
    <3> QED
      BY <2>1, <2>3, <2>4, <3>1, <3>2, AtRest, SerialReply
  <2>5. CASE Goto(t, "stat_attr") /\ req' = [req EXCEPT ![t] = r]
    <3>1. pc' = [pc EXCEPT ![t] = "stat_attr"] /\ p \in DOMAIN paths /\ paths[p] = i
      BY <2>2, <2>5 DEF Goto
    <3>2. "getattr" \notin {"rename", "readdir"}
          /\ "stat_attr" \notin {"put", "put_marker", "delete", "list_rmdir"}
      OBVIOUS
    <3>3. req' = [req EXCEPT ![t] = NewRequest("getattr", calls + 1, p, p, i)]
      BY <2>5
    <3> HIDE DEF p, r
    <3> QED
      BY <2>1, <3>1, <3>2, <3>3, SerialBegin
  <2> QED
    BY <1>10, <2>4, <2>5 DEF GetAttr
<1>11. ASSUME NEW p, NEW q, Rename(t, p, q) \/ Readdir(t, p) PROVE FALSE
  BY <1>2, <1>11 DEF Rename, Readdir, Begin
<1> QED
  BY <1>5, <1>6, <1>7, <1>8, <1>9, <1>10, <1>11 DEF Arrive

\* The handler of the only task.
LEMMA Busy ==
  ASSUME SerialInv, NEW t \in Tasks
  PROVE  /\ TypeInv /\ HandlersOK /\ StoreOK /\ TreeKept /\ TableKept
         /\ req[t] \in Requests /\ req[t].path \in TablePaths
         /\ StageOK(pc[t], req[t].op) /\ StageKept(pc[t], req[t])
         /\ req[t].op \notin {"none", "getattr", "readdir"} => req[t].path \in Paths
         /\ req[t].op \notin {"rename", "readdir"}
<1>1. /\ HandlersOK /\ req[t] \in Requests /\ StageOK(pc[t], req[t].op)
      /\ LocalsOK(req[t]) /\ StageKept(pc[t], req[t])
  BY DEF SerialInv, TypeInv, HandlersOK, HandlerOK
<1> QED
  BY <1>1 DEF SerialInv, TypeInv, LocalsOK, Requests, StageKept

\* A lookup or getattr has the store's last answer.
LEMMA SerialLearns ==
  ASSUME SerialNoRenameReaddir, SerialInv, TypeInv', NEW t \in Tasks, UNCHANGED <<store, table, caches>>,
         req[t].op \in {"lookup", "getattr"}, pc'[t] = "script", req'[t].op = req[t].op,
         StageKept(pc[t], req[t])'
  PROVE  SerialInv'
<1>1. Leaving = {} /\ Coming = {} /\ Leaving' = {} /\ Coming' = {}
  BY Alone DEF GoingOf
<1> QED
  BY <1>1, Quiet, SerialMove

\* The steps of a lookup up to its last answer.
LEMMA SerialLookup ==
  ASSUME SerialNoRenameReaddir, SerialInv, TypeInv', NEW t \in Tasks,
         \/ StatFile(t) \/ StatDir(t) \/ LookupListed(t)
         \/ List(t) /\ pc[t] = "list"
  PROVE  SerialInv'
<1> DEFINE p == req[t].path
<1>1. /\ TypeInv /\ HandlersOK /\ StoreOK /\ TreeKept /\ StageKept(pc[t], req[t])
      /\ req[t] \in Requests /\ pc \in [Tasks -> Labels] /\ req \in [Tasks -> Requests]
      /\ pc[t] \in {"stat", "stat_dir", "list", "listed"}
      /\ req[t].op = "lookup" /\ p \in Paths
  BY Busy DEF StatFile, StatDir, LookupListed, StageOK, HandlersOK
<1>2. /\ UNCHANGED <<store, table, caches>>
      /\ files' = files /\ markers' = markers /\ paths' = paths /\ attrs' = attrs
  BY DEF StatFile, StatDir, LookupListed, List, store, table, caches
<1>3. Leaving = {} /\ Coming = {} /\ ~StoreMayFail /\ p # Root
  BY <1>1, Alone, ExistsThere DEF GoingOf, SerialNoRenameReaddir
<1>4. CASE StatFile(t)
  <2>1. CASE IsFile(p) /\ Continue(t, Enter(p, "file"), "ok")
    <3>1. /\ pc'[t] = "script" /\ req'[t].script = Enter(p, "file") /\ req'[t].result = "ok"
          /\ req'[t].op = "lookup" /\ req'[t].path = p /\ req'[t].todo = {}
      BY <1>1, <1>4, <2>1, AfterContinue DEF StatFile, StageKept
    <3>2. StageKept(pc[t], req[t])'
      BY <1>2, <2>1, <3>1 DEF StageKept, LookupRests, Kind, There, IsFile
    <3> QED
      BY <1>1, <1>2, <3>1, <3>2, SerialLearns
  <2>2. CASE ~IsFile(p) /\ Await(t, "stat_dir")
    <3>1. pc'[t] = "stat_dir" /\ req'[t] = req[t] /\ pc[t] = "stat"
      BY <1>1, <1>4, <2>2 DEF Await, Goto, StatFile
    <3>2. StageKept(pc[t], req[t])'
      BY <1>1, <1>2, <2>2, <3>1 DEF StageKept, IsFile
    <3> QED
      BY <1>2, <1>3, <3>1, <3>2, SerialAwait
  <2> QED
    BY <1>3, <1>4, <2>1, <2>2 DEF StatFile
<1>5. CASE StatDir(t)
  <2>0. pc[t] = "stat_dir" /\ ~IsFile(p) /\ req[t].todo = {} /\ req[t].result = "ok"
    BY <1>1, <1>5 DEF StatDir, StageKept
  <2>1. CASE p \in markers /\ Continue(t, Enter(p, "dir"), "ok")
    <3>1. /\ pc'[t] = "script" /\ req'[t].script = Enter(p, "dir") /\ req'[t].result = "ok"
          /\ req'[t].op = "lookup" /\ req'[t].path = p /\ req'[t].todo = {}
      BY <1>1, <2>0, <2>1, AfterContinue
    <3>2. StageKept(pc[t], req[t])'
      BY <1>2, <2>0, <2>1, <3>1 DEF StageKept, LookupRests, Kind, There, IsFile
    <3> QED
      BY <1>1, <1>2, <3>1, <3>2, SerialLearns
  <2>2. CASE p \notin markers /\ Await(t, "list")
    <3>1. pc'[t] = "list" /\ req'[t] = req[t]
      BY <1>1, <2>2 DEF Await, Goto
    <3>2. StageKept(pc[t], req[t])'
      BY <1>1, <1>2, <1>3, <2>0, <2>2, <3>1 DEF StageKept, IsFile, There
    <3> QED
      BY <1>2, <1>3, <3>1, <3>2, SerialAwait
  <2> QED
    BY <1>3, <1>5, <2>1, <2>2 DEF StatDir
<1>6. CASE List(t) /\ pc[t] = "list"
  <2>1. /\ pc'[t] = "listed" /\ req'[t].todo = Listed(p) /\ req'[t].path = p
        /\ req'[t].op = "lookup" /\ req'[t].result = req[t].result
    BY <1>1, <1>6 DEF List, Goto, Requests
  <2>2. ~There(p) /\ Listed(p) = {} /\ req[t].result = "ok"
    BY <1>1, <1>6, ListedKept DEF StageKept, There
  <2>3. StageKept(pc[t], req[t])'
    BY <1>2, <2>1, <2>2 DEF StageKept, There, IsFile
  <2> QED
    BY <1>2, <1>3, <2>1, <2>3, SerialAwait
<1>7. CASE LookupListed(t)
  <2>1. ~There(p) /\ req[t].todo = {} /\ pc[t] = "listed"
    BY <1>1, <1>7 DEF LookupListed, StageKept
  <2>2. /\ pc'[t] = "script" /\ req'[t].script = NotFound(p) /\ req'[t].result = "ENOENT"
        /\ req'[t].todo = {} /\ req'[t].op = "lookup" /\ req'[t].path = p
    BY <1>1, <1>3, <1>7, <2>1 DEF LookupListed, Goto, ListingFails, Requests
  <2>3. StageKept(pc[t], req[t])'
    BY <1>2, <2>1, <2>2 DEF StageKept, LookupRests, There, IsFile
  <2> QED
    BY <1>1, <1>2, <2>2, <2>3, SerialLearns
<1> QED
  BY <1>4, <1>5, <1>6, <1>7

\* A getattr has the store's answer.
LEMMA SerialStatAttr ==
  ASSUME SerialNoRenameReaddir, SerialInv, TypeInv', NEW t \in Tasks, StatAttr(t)
  PROVE  SerialInv'
<1> DEFINE p == req[t].path
<1>1. /\ TypeInv /\ HandlersOK /\ StoreOK /\ TreeKept /\ StageKept(pc[t], req[t])
      /\ req[t] \in Requests /\ pc[t] = "stat_attr" /\ req[t].op = "getattr"
  BY Busy DEF StatAttr, StageOK
<1>2. /\ UNCHANGED <<store, table, caches>>
      /\ files' = files /\ markers' = markers /\ paths' = paths
  BY DEF StatAttr, store, table
<1>3. /\ Leaving = {} /\ Coming = {} /\ ~StoreMayFail /\ Holds(req[t]) /\ req[t].todo = {}
  BY <1>1, Alone DEF GoingOf, SerialNoRenameReaddir, StageKept
<1>4. p \in Paths \cup {Root} /\ There(p)
  BY <1>1, <1>3 DEF SerialInv, NamesKept, Holds, There, IsFile, StoreOK
<1>5. CASE \E k \in Kinds : k = Kind(p) /\ Continue(t, <<Call("put_attr", p, k)>>, "ok")
  <2>1. /\ pc'[t] = "script" /\ req'[t].script = <<Call("put_attr", p, Kind(p))>>
        /\ req'[t].result = "ok" /\ req'[t].op = "getattr" /\ req'[t].path = p
        /\ req'[t].todo = {} /\ req'[t].inode = req[t].inode
    BY <1>1, <1>3, <1>5, AfterContinue
  <2>2. StageKept(pc[t], req[t])'
    BY <1>2, <1>3, <1>4, <2>1 DEF StageKept, GetAttrRests, Kind, There, IsFile, Holds
  <2> QED
    BY <1>1, <1>2, <2>1, <2>2, SerialLearns
<1>6. CASE ~IsFile(p) /\ Reply(t, req[t], "ENOENT")
  <2>1. TrueAnswer(req[t].op, p, "ENOENT")
    BY <1>1, <1>6 DEF TrueAnswer
  <2> QED
    BY <1>1, <1>2, <1>3, <1>4, <1>6, <2>1, SerialReply
<1>7. (IsFile(p) => Kind(p) = "file") /\ (p = Root => Kind(p) = "dir")
  BY <1>1, ExistsThere DEF Kind, IsFile
<1> QED
  BY <1>3, <1>5, <1>6, <1>7 DEF StatAttr, Kinds

\* A rmdir lists the directory and looks at what the listing returned.
LEMMA SerialRmdirList ==
  ASSUME SerialNoRenameReaddir, SerialInv, TypeInv', NEW t \in Tasks,
         RmdirListed(t) \/ (List(t) /\ pc[t] = "list_rmdir")
  PROVE  SerialInv'
<1> DEFINE p == req[t].path
<1>1. /\ TypeInv /\ HandlersOK /\ StoreOK /\ TreeKept /\ StageKept(pc[t], req[t])
      /\ req[t] \in Requests /\ pc \in [Tasks -> Labels] /\ req \in [Tasks -> Requests]
      /\ pc[t] \in {"list_rmdir", "listed_rmdir"} /\ req[t].op = "rmdir" /\ p \in Paths
  BY Busy DEF RmdirListed, StageOK, HandlersOK
<1>2. /\ UNCHANGED <<store, table, caches>>
      /\ files' = files /\ markers' = markers /\ paths' = paths
  BY DEF RmdirListed, List, store, table
<1>3. /\ Leaving = {} /\ Coming = {} /\ ~StoreMayFail
      /\ p \in markers /\ p \in DOMAIN paths /\ req[t].result = "ok"
  BY <1>1, Alone DEF GoingOf, SerialNoRenameReaddir, StageKept
<1>4. CASE List(t) /\ pc[t] = "list_rmdir"
  <2>1. /\ pc'[t] = "listed_rmdir" /\ req'[t].todo = Listed(p) /\ req'[t].path = p
        /\ req'[t].op = "rmdir" /\ req'[t].result = "ok"
    BY <1>1, <1>3, <1>4 DEF List, Goto, Requests
  <2>2. Listed(req[t].path)' = Listed(p)
    BY <1>2, <2>1 DEF Listed, Below
  <2>3. StageKept(pc[t], req[t])'
    BY <1>2, <1>3, <2>1, <2>2 DEF StageKept
  <2> QED
    BY <1>2, <1>3, <2>1, <2>3, SerialAwait
<1>5. CASE RmdirListed(t)
  <2>1. req[t].todo = Listed(p) /\ pc[t] = "listed_rmdir" /\ ~ListingFails(t)
    BY <1>1, <1>3, <1>5, ListedKept DEF RmdirListed, StageKept, ListingFails
  <2>2. CASE req[t].todo \ {p} # {} /\ Reply(t, req[t], "ENOTEMPTY")
    <3>1. Below(p) # {}
      BY <1>1, <2>1, <2>2, ListedKept
    <3>2. TrueAnswer(req[t].op, p, "ENOTEMPTY")
      BY <1>1, <3>1 DEF TrueAnswer
    <3> QED
      BY <1>1, <1>2, <1>3, <2>2, <3>2, SerialReply
  <2>3. CASE /\ req[t].todo \ {p} = {} /\ req' = [req EXCEPT ![t].todo = {}]
             /\ Goto(t, "delete_marker")
    <3>1. /\ pc'[t] = "delete_marker" /\ req'[t].todo = {} /\ req'[t].path = p
          /\ req'[t].op = "rmdir" /\ req'[t].result = "ok"
      BY <1>1, <1>3, <2>3 DEF Goto, Requests
    <3>2. Below(p) = {}
      BY <1>1, <2>1, <2>3, ListedKept
    <3>3. Below(req[t].path)' = Below(p)
      BY <1>2, <3>1 DEF Below
    <3>4. StageKept(pc[t], req[t])'
      BY <1>2, <1>3, <3>1, <3>2, <3>3 DEF StageKept
    <3> QED
      BY <1>2, <1>3, <3>1, <3>4, SerialAwait
  <2> QED
    BY <1>5, <2>1, <2>2, <2>3 DEF RmdirListed
<1> QED
  BY <1>4, <1>5

\* Sequences of up to three calls.
LEMMA ShortScripts ==
  ASSUME NEW a, NEW b, NEW c
  PROVE  /\ <<a>> # <<>> /\ Head(<<a>>) = a /\ Tail(<<a>>) = <<>>
         /\ <<a, b>> # <<>> /\ Head(<<a, b>>) = a /\ Tail(<<a, b>>) = <<b>>
         /\ <<a, b, c>> # <<>> /\ Head(<<a, b, c>>) = a /\ Tail(<<a, b, c>>) = <<b, c>>
  OBVIOUS

LEMMA OneMore ==
  ASSUME NEW a, NEW b, NEW c
  PROVE  Append(<<a, b>>, c) = <<a, b, c>>
<1> DEFINE S == {a, b, c}
           s == Append(<<a, b>>, c)
<1>1. <<a, b>> \in Seq(S) /\ <<a, b, c>> \in Seq(S) /\ c \in S /\ Len(<<a, b>>) = 2
  OBVIOUS
<1>2. s \in Seq(S) /\ Len(s) = 3 /\ s[1] = a /\ s[2] = b /\ s[3] = c
  OBVIOUS
<1> HIDE DEF s
<1>3. \A i \in 1..3 : s[i] = <<a, b, c>>[i]
  BY <1>2
<1> QED
  BY <1>1, <1>2, <1>3, SeqEqual DEF s

\* What the handlers' scripts begin with.
LEMMA ScriptsLong ==
  ASSUME NEW p, NEW k
  PROVE  /\ Enter(p, k) # <<>> /\ Head(Enter(p, k)).do = "create_inode"
         /\ NotFound(p) # <<>> /\ Head(NotFound(p)).do = "put_negative"
         /\ Created(p, k) # <<>> /\ Head(Created(p, k)).do = "create_inode"
         /\ Forget(p) # <<>> /\ Head(Forget(p)).do = "find_inode"
         /\ Created(p, k) = <<Call("create_inode", p, k), Call("put_attr", p, k),
                              Call("remove_negative", p, "")>>
<1> DEFINE a == Call("create_inode", p, k)
           b == Call("put_attr", p, k)
           c == Call("remove_negative", p, "")
           n == Call("put_negative", p, "")
           f == Call("find_inode", p, "")
<1>0. a.do = "create_inode" /\ n.do = "put_negative" /\ f.do = "find_inode"
  BY DEF Call
<1>1. Created(p, k) = <<a, b, c>>
  <2>1. Created(p, k) = Append(<<a, b>>, c)
    BY DEF Created, Enter
  <2> HIDE DEF a, b, c
  <2> QED
    BY <2>1, OneMore, Zenon
<1>2. Created(p, k) # <<>> /\ Head(Created(p, k)) = a
  <2> HIDE DEF a, b, c
  <2> QED
    BY <1>1, ShortScripts
<1>3. Enter(p, k) # <<>> /\ Head(Enter(p, k)) = a
  BY ShortScripts DEF Enter
<1>4. NotFound(p) # <<>> /\ Head(NotFound(p)) = n
  BY ShortScripts DEF NotFound
<1>5. Forget(p) # <<>> /\ Head(Forget(p)) = f
  BY ShortScripts DEF Forget
<1> QED
  BY <1>0, <1>1, <1>2, <1>3, <1>4, <1>5

\* A new file or marker stands in a directory that has one.
LEMMA SerialPut ==
  ASSUME SerialNoRenameReaddir, SerialInv, TypeInv', NEW t \in Tasks, CreatePut(t) \/ MkdirPut(t)
  PROVE  SerialInv'
<1> DEFINE p == req[t].path
           k == IF CreatePut(t) THEN "file" ELSE "dir"
<1>1. /\ TypeInv /\ HandlersOK /\ StoreOK /\ TreeKept /\ TableKept /\ StageKept(pc[t], req[t])
      /\ req[t] \in Requests /\ pc[t] \in {"put", "put_marker"}
      /\ req[t].op \in {"create", "mkdir"} /\ p \in Paths
  BY Busy DEF CreatePut, MkdirPut, StageOK
<1>2. /\ ~There(p) /\ Parent(p) \in markers \cup {Root} /\ req[t].todo = {}
      /\ Leaving = {} /\ Coming = {} /\ ~StoreMayFail
  BY <1>1, Alone DEF GoingOf, SerialNoRenameReaddir, StageKept
<1>3. /\ Continue(t, Created(p, k), "ok") /\ UNCHANGED <<table, caches>>
      /\ \/ k = "file" /\ DOMAIN files' = DOMAIN files \cup {p} /\ markers' = markers
         \/ k = "dir" /\ files' = files /\ markers' = markers \cup {p}
  BY <1>2 DEF CreatePut, MkdirPut, Insert
<1> HIDE DEF k
<1>4. /\ pc'[t] = "script" /\ req'[t].script = Created(p, k) /\ req'[t].result = "ok"
      /\ req'[t].op = req[t].op /\ req'[t].path = p /\ req'[t].todo = {}
  BY <1>1, <1>2, <1>3, AfterContinue
<1>5. /\ paths' = paths /\ entries' = entries /\ next_inode' = next_inode
      /\ attrs' = attrs /\ negatives' = negatives
  BY <1>3 DEF table, caches
<1>6. p # Root /\ p \notin DOMAIN files /\ p \notin markers
  BY <1>2 DEF There, IsFile
<1>7. TreeKept'
  <2>1. DOMAIN files' \cap markers' = {}
    BY <1>1, <1>3, <1>6 DEF TreeKept
  <2>2. ASSUME NEW q \in Paths, NEW r \in DOMAIN files' \cup markers',
               Seqs!IsStrictPrefix(q, r)
        PROVE  q \in markers'
    <3>1. CASE r # p
      BY <1>1, <1>3, <2>2, <3>1 DEF TreeKept
    <3>2. CASE r = p
      <4>1. Parent(p) # Root /\ (q = Parent(p) \/ Seqs!IsStrictPrefix(q, Parent(p)))
        BY <1>1, <2>2, <3>2, AboveParent
      <4>2. q \in markers
        BY <1>1, <1>2, <4>1 DEF TreeKept
      <4> QED
        BY <1>3, <4>2
    <3> QED
      BY <3>1, <3>2
  <2> QED
    BY <2>1, <2>2 DEF TreeKept
<1>8. TableKept'
  BY <1>1, <1>5 DEF TableKept
<1>10. ASSUME NEW q, q # p PROVE (There(q)' <=> There(q)) /\ Kind(q)' = Kind(q)
  BY <1>3, <1>10 DEF There, Kind, IsFile
<1>11. NamesKept'
  <2>1. Leaving' = {} /\ Coming' = {p}
    <3>1. req'[t].script # <<>>
      <4>1. Created(p, k) # <<>>
        BY ScriptsLong
      <4> QED
        BY <1>4, <4>1
    <3>2. req'[t].op \notin {"unlink", "rmdir"} /\ req'[t].op \in {"create", "mkdir"}
      BY <1>1, <1>4
    <3> QED
      BY <1>4, <3>1, <3>2, Alone DEF GoingOf
  <2>2. p \notin DOMAIN paths
    BY <1>2 DEF SerialInv, NamesKept
  <2>3. ASSUME NEW q \in DOMAIN paths
        PROVE  There(q)' /\ (paths[q] \in DOMAIN attrs => attrs[paths[q]] = Kind(q)')
    BY <1>2, <1>10, <2>2 DEF SerialInv, NamesKept
  <2>4. ASSUME NEW q \in negatives, q # p PROVE ~There(q)'
    BY <1>2, <1>10, <2>4 DEF SerialInv, NamesKept
  <2> QED
    BY <1>5, <2>1, <2>3, <2>4 DEF NamesKept
<1>12. StageKept(pc[t], req[t])'
  <2>1. There(req[t].path)' /\ Kind(req[t].path)' = k
    BY <1>3, <1>4, <1>6 DEF There, Kind, IsFile
  <2> QED
    BY <1>1, <1>4, <2>1 DEF StageKept, EnterRests
<1> QED
  BY <1>4, <1>7, <1>8, <1>11, <1>12, SerialMove

\* A file goes, or the marker of an empty directory.
LEMMA SerialDelete ==
  ASSUME SerialNoRenameReaddir, SerialInv, TypeInv', NEW t \in Tasks, UnlinkDelete(t) \/ RmdirDelete(t)
  PROVE  SerialInv'
<1> DEFINE p == req[t].path
<1>1. /\ TypeInv /\ HandlersOK /\ StoreOK /\ TreeKept /\ TableKept /\ StageKept(pc[t], req[t])
      /\ req[t] \in Requests /\ pc[t] \in {"delete", "delete_marker"}
      /\ pc[t] = "delete" <=> req[t].op = "unlink"
      /\ req[t].op \in {"unlink", "rmdir"} /\ p \in Paths
  BY Busy DEF UnlinkDelete, RmdirDelete, StageOK
<1>2. /\ p \in DOMAIN paths /\ req[t].todo = {}
      /\ req[t].op = "rmdir" => Below(p) = {}
      /\ Leaving = {} /\ Coming = {} /\ ~StoreMayFail
  BY <1>1, Alone DEF GoingOf, SerialNoRenameReaddir, StageKept
<1>3. /\ Continue(t, Forget(p), "ok") /\ UNCHANGED <<table, caches>>
      /\ \/ /\ req[t].op = "unlink" /\ p \in DOMAIN files
            /\ DOMAIN files' = DOMAIN files \ {p} /\ markers' = markers
         \/ /\ req[t].op = "rmdir" /\ p \in markers
            /\ files' = files /\ markers' = markers \ {p}
  BY <1>1, <1>2 DEF UnlinkDelete, RmdirDelete, Remove, StageKept, IsFile
<1>4. /\ pc'[t] = "script" /\ req'[t].script = Forget(p) /\ req'[t].result = "ok"
      /\ req'[t].op = req[t].op /\ req'[t].path = p /\ req'[t].todo = {}
  BY <1>1, <1>2, <1>3, AfterContinue
<1>5. /\ paths' = paths /\ entries' = entries /\ next_inode' = next_inode
      /\ attrs' = attrs /\ negatives' = negatives
  BY <1>3 DEF table, caches
<1>6. p # Root /\ p \notin DOMAIN files' /\ p \notin markers'
  BY <1>1, <1>3, ExistsThere DEF TreeKept
<1>7. TreeKept'
  <2>1. DOMAIN files' \cap markers' = {}
    BY <1>1, <1>3 DEF TreeKept
  <2>2. ASSUME NEW q \in Paths, NEW r \in DOMAIN files' \cup markers',
               Seqs!IsStrictPrefix(q, r)
        PROVE  q \in markers'
    <3>1. r \in DOMAIN files \cup markers /\ q \in markers
      BY <1>1, <1>3, <2>2 DEF TreeKept
    <3>2. req[t].op = "rmdir" => q # p
      BY <1>2, <2>2, <3>1 DEF Below
    <3> QED
      BY <1>3, <3>1, <3>2
  <2> QED
    BY <2>1, <2>2 DEF TreeKept
<1>8. TableKept'
  BY <1>1, <1>5 DEF TableKept
<1>10. ASSUME NEW q, q # p PROVE (There(q)' <=> There(q)) /\ Kind(q)' = Kind(q)
  BY <1>3, <1>10 DEF There, Kind, IsFile
<1>11. NamesKept'
  <2>1. Leaving' = {p} /\ Coming' = {}
    BY <1>1, <1>4, Alone, ScriptsLong DEF GoingOf
  <2>3. ASSUME NEW q \in DOMAIN paths, q # p
        PROVE  There(q)' /\ (paths[q] \in DOMAIN attrs => attrs[paths[q]] = Kind(q)')
    BY <1>2, <1>10, <2>3 DEF SerialInv, NamesKept
  <2>4. ASSUME NEW q \in negatives PROVE ~There(q)'
    BY <1>2, <1>3, <1>10, <1>6, <2>4 DEF SerialInv, NamesKept, There, IsFile
  <2> QED
    BY <1>5, <2>1, <2>3, <2>4 DEF NamesKept
<1>12. StageKept(pc[t], req[t])'
  <2>1. ~There(req[t].path)'
    BY <1>4, <1>6 DEF There, IsFile
  <2>2. req[t].op = "rmdir" => Below(req[t].path)' = {}
    BY <1>2, <1>3, <1>4 DEF Below
  <2> QED
    BY <1>1, <1>2, <1>4, <1>5, <2>1, <2>2 DEF StageKept, ForgetRests
<1> QED
  BY <1>4, <1>7, <1>8, <1>11, <1>12, SerialMove

\* A handler is done.
LEMMA SerialFinish ==
  ASSUME SerialNoRenameReaddir, SerialInv, TypeInv', NEW t \in Tasks, Finish(t)
  PROVE  SerialInv'
<1> DEFINE p == req[t].path
           r == req[t]
<1>1. /\ TypeInv /\ HandlersOK /\ StoreOK /\ TreeKept /\ TableKept /\ StageKept(pc[t], r)
      /\ r \in Requests /\ pc[t] = "script" /\ r.script = <<>> /\ StageOK(pc[t], r.op)
      /\ UNCHANGED <<store, table, caches>> /\ Reply(t, r, r.result)
      /\ r.op \notin {"none", "getattr", "readdir"} => p \in Paths
  BY Busy DEF Finish
<1>2. Leaving = {} /\ Coming = {}
  BY <1>1, Alone DEF GoingOf
<1>3. r.op \in {"lookup", "getattr", "create", "mkdir", "unlink", "rmdir"}
  BY <1>1 DEF StageOK, StageKept, Requests, OpNames
<1>4. p \in Paths \cup {Root} /\ TrueAnswer(r.op, p, r.result)
  <2>1. CASE r.op = "lookup"
    <3>1. /\ Enter(p, Kind(p)) # <<>> /\ NotFound(p) # <<>>
          /\ <<Call("put_attr", p, Kind(p))>> # <<>>
      BY ShortScripts DEF Enter, NotFound
    <3> QED
      BY <1>1, <2>1, <3>1 DEF StageKept, LookupRests, TrueAnswer
  <2>2. CASE r.op = "getattr"
    <3>1. r.result = "ok" /\ There(p)
      BY <1>1, <2>2 DEF StageKept, GetAttrRests
    <3> QED
      BY <1>1, <2>2, <3>1 DEF There, IsFile, StoreOK, TrueAnswer
  <2>3. CASE r.op \in {"create", "mkdir"}
    BY <1>1, <2>3 DEF StageKept, EnterRests, TrueAnswer
  <2>4. CASE r.op \in {"unlink", "rmdir"}
    BY <1>1, <2>4 DEF StageKept, ForgetRests, TrueAnswer, There
  <2> QED
    BY <1>3, <2>1, <2>2, <2>3, <2>4
<1> HIDE DEF r, p
<1>5. r.path = p
  BY DEF r, p
<1> QED
  BY <1>1, <1>2, <1>4, <1>5, SerialReply

\* Steps of readdir and rename, which nobody asks for.
LEMMA SerialNever ==
  ASSUME SerialInv, NEW t \in Tasks
  PROVE  /\ ~ReaddirListed(t) /\ ~RenameCopy(t) /\ ~RenameDelete(t) /\ ~RenameInode(t)
         /\ ~NextEntry(t) /\ (List(t) => pc[t] \in {"list", "list_rmdir"})
<1>1. /\ StageOK(pc[t], req[t].op) /\ StageKept(pc[t], req[t])
      /\ req[t].op \notin {"rename", "readdir"}
  BY Busy
<1>2. ~ReaddirListed(t) /\ ~RenameCopy(t) /\ ~RenameDelete(t)
  BY <1>1 DEF ReaddirListed, RenameCopy, RenameDelete, StageOK
<1>3. List(t) => pc[t] \in {"list", "list_rmdir"}
  BY <1>1 DEF List, StageOK
<1>4. ~NextEntry(t)
  BY <1>1 DEF NextEntry, StageKept
<1>5. ~RenameInode(t)
  <2> SUFFICES ASSUME RenameInode(t) PROVE FALSE
    OBVIOUS
  <2>1. pc[t] = "script" /\ req[t].script # <<>> /\ Head(req[t].script).do = "rename_inode"
    BY DEF RenameInode, Calling
  <2>2. req[t].op \in {"lookup", "getattr", "create", "mkdir", "unlink", "rmdir"}
    BY <1>1, <2>1, Busy DEF StageOK, Requests, OpNames
  <2> DEFINE r == req[t]
             p == r.path
             k == Kind(p)
             a == Call("put_attr", p, k)
             n == Call("remove_negative", p, "")
             i == Call("invalidate_attr", p, "")
             m == Call("remove_inode", p, "")
  <2>3. a.do = "put_attr" /\ n.do = "remove_negative" /\ i.do = "invalidate_attr"
        /\ m.do = "remove_inode"
    BY DEF Call
  <2>4. r.script \in {Enter(p, k), NotFound(p), Created(p, k), Forget(p),
                      <<a>>, <<a, n>>, <<n>>, <<i, m>>, <<m>>}
    <3>1. CASE r.op \in {"lookup", "getattr"}
      BY <1>1, <2>1, <3>1 DEF StageKept, LookupRests, GetAttrRests
    <3>2. CASE r.op \in {"create", "mkdir"}
      BY <1>1, <2>1, <3>2 DEF StageKept, EnterRests
    <3>3. CASE r.op \in {"unlink", "rmdir"}
      BY <1>1, <2>1, <3>3 DEF StageKept, ForgetRests
    <3> QED
      BY <2>2, <3>1, <3>2, <3>3
  <2> HIDE DEF a, n, i, m
  <2>5. Head(<<a>>) = a /\ Head(<<a, n>>) = a /\ Head(<<n>>) = n /\ Head(<<i, m>>) = i
        /\ Head(<<m>>) = m
    OBVIOUS
  <2> HIDE DEF r, p, k
  <2>6. Head(r.script).do # "rename_inode"
    BY <2>3, <2>4, <2>5, ScriptsLong
  <2> QED
    BY <2>1, <2>6 DEF r
<1> QED
  BY <1>2, <1>3, <1>4, <1>5

\* What a call relies on, and the calls that remain after it.
LEMMA Remaining ==
  ASSUME SerialInv, NEW t \in Tasks, pc[t] = "script", req[t].script # <<>>
  PROVE  LET r == req[t]
             p == r.path
             c == Called(t)
             rest == Tail(r.script)
         IN
         /\ c.path = p /\ r.todo = {}
         /\ c.do # "put_negative" => r.result = "ok"
         /\ c.do = "create_inode" =>
              /\ There(p)
              /\ \/ r.op = "lookup" /\ rest = <<Call("put_attr", p, Kind(p))>>
                 \/ /\ r.op \in {"create", "mkdir"}
                    /\ rest = <<Call("put_attr", p, Kind(p)), Call("remove_negative", p, "")>>
         /\ c.do = "put_attr" =>
              /\ There(p) /\ Holds(r) /\ c.kind = Kind(p)
              /\ \/ r.op \in {"lookup", "getattr"} /\ rest = <<>>
                 \/ r.op \in {"create", "mkdir"} /\ rest = <<Call("remove_negative", p, "")>>
         /\ c.do = "put_negative" =>
              r.op = "lookup" /\ ~There(p) /\ r.result = "ENOENT" /\ rest = <<>>
         /\ c.do = "remove_negative" =>
              r.op \in {"create", "mkdir"} /\ There(p) /\ rest = <<>>
         /\ c.do \in {"find_inode", "invalidate_attr", "remove_inode"} =>
              /\ r.op \in {"unlink", "rmdir"} /\ ~There(p)
              /\ r.op = "rmdir" => Below(p) = {}
         /\ c.do = "find_inode" =>
              /\ p \in DOMAIN paths
              /\ rest = <<Call("invalidate_attr", p, ""), Call("remove_inode", p, "")>>
         /\ c.do = "invalidate_attr" => Holds(r) /\ rest = <<Call("remove_inode", p, "")>>
         /\ c.do = "remove_inode" => Holds(r) /\ r.inode \notin DOMAIN attrs /\ rest = <<>>
<1> DEFINE r == req[t]
           p == r.path
           k == Kind(p)
           c == Called(t)
           e == Call("create_inode", p, k)
           a == Call("put_attr", p, k)
           g == Call("put_negative", p, "")
           n == Call("remove_negative", p, "")
           f == Call("find_inode", p, "")
           i == Call("invalidate_attr", p, "")
           m == Call("remove_inode", p, "")
           s == r.script
<1>1. /\ StageOK("script", r.op) /\ StageKept("script", r) /\ r.todo = {}
      /\ r.op \in {"lookup", "getattr", "create", "mkdir", "unlink", "rmdir"}
  BY Busy DEF StageOK, StageKept, Requests, OpNames
<1>2. /\ e.do = "create_inode" /\ a.do = "put_attr" /\ g.do = "put_negative"
      /\ n.do = "remove_negative" /\ f.do = "find_inode" /\ i.do = "invalidate_attr"
      /\ m.do = "remove_inode" /\ a.kind = k
      /\ \A x \in {e, a, g, n, f, i, m} : x.path = p
  BY DEF Call
<1>3. /\ Enter(p, k) = <<e, a>> /\ Created(p, k) = <<e, a, n>>
      /\ NotFound(p) = <<g>> /\ Forget(p) = <<f, i, m>>
  BY ScriptsLong DEF Enter, NotFound, Forget
<1>4. s # <<>> /\ c = Head(s)
  BY DEF Called
<1>5. CASE r.op = "lookup"
  <2>1. \/ s = <<e, a>> /\ r.result = "ok" /\ There(p)
        \/ s = <<a>> /\ r.result = "ok" /\ There(p) /\ Holds(r)
        \/ s = <<g>> /\ r.result = "ENOENT" /\ ~There(p)
    BY <1>1, <1>3, <1>4, <1>5 DEF StageKept, LookupRests
  <2> HIDE DEF e, a, g, n, f, i, m, s, c, k, p, r
  <2>2. /\ Head(<<e, a>>) = e /\ Tail(<<e, a>>) = <<a>>
        /\ Head(<<a>>) = a /\ Tail(<<a>>) = <<>> /\ Head(<<g>>) = g /\ Tail(<<g>>) = <<>>
    OBVIOUS
  <2>3. \/ c = e /\ Tail(s) = <<a>> /\ r.result = "ok" /\ There(p)
        \/ c = a /\ Tail(s) = <<>> /\ r.result = "ok" /\ There(p) /\ Holds(r)
        \/ c = g /\ Tail(s) = <<>> /\ r.result = "ENOENT" /\ ~There(p)
    BY <1>4, <2>1, <2>2
  <2> QED
    BY <1>1, <1>2, <1>5, <2>3 DEF e, a, g, n, f, i, m, s, c, k, p, r
<1>6. CASE r.op = "getattr"
  <2>1. s = <<a>> /\ r.result = "ok" /\ There(p) /\ Holds(r)
    BY <1>1, <1>4, <1>6 DEF StageKept, GetAttrRests
  <2> HIDE DEF e, a, g, n, f, i, m, s, c, k, p, r
  <2>2. Head(<<a>>) = a /\ Tail(<<a>>) = <<>>
    OBVIOUS
  <2>3. c = a /\ Tail(s) = <<>>
    BY <1>4, <2>1, <2>2
  <2> QED
    BY <1>1, <1>2, <1>6, <2>1, <2>3 DEF e, a, g, n, f, i, m, s, c, k, p, r
<1>7. CASE r.op \in {"create", "mkdir"}
  <2>1. /\ r.result = "ok" /\ There(p)
        /\ s = <<e, a, n>> \/ (s = <<a, n>> /\ Holds(r)) \/ s = <<n>>
    BY <1>1, <1>3, <1>4, <1>7 DEF StageKept, EnterRests
  <2> HIDE DEF e, a, g, n, f, i, m, s, c, k, p, r
  <2>2. /\ Head(<<e, a, n>>) = e /\ Tail(<<e, a, n>>) = <<a, n>>
        /\ Head(<<a, n>>) = a /\ Tail(<<a, n>>) = <<n>> /\ Head(<<n>>) = n /\ Tail(<<n>>) = <<>>
    OBVIOUS
  <2>3. \/ c = e /\ Tail(s) = <<a, n>>
        \/ c = a /\ Tail(s) = <<n>> /\ Holds(r)
        \/ c = n /\ Tail(s) = <<>>
    BY <1>4, <2>1, <2>2
  <2> QED
    BY <1>1, <1>2, <1>7, <2>1, <2>3 DEF e, a, g, n, f, i, m, s, c, k, p, r
<1>8. CASE r.op \in {"unlink", "rmdir"}
  <2>1. /\ r.result = "ok" /\ ~There(p) /\ (r.op = "rmdir" => Below(p) = {})
        /\ \/ s = <<f, i, m>> /\ p \in DOMAIN paths
           \/ s = <<i, m>> /\ Holds(r)
           \/ s = <<m>> /\ Holds(r) /\ r.inode \notin DOMAIN attrs
    BY <1>1, <1>3, <1>4, <1>8 DEF StageKept, ForgetRests
  <2> HIDE DEF e, a, g, n, f, i, m, s, c, k, p, r
  <2>2. /\ Head(<<f, i, m>>) = f /\ Tail(<<f, i, m>>) = <<i, m>>
        /\ Head(<<i, m>>) = i /\ Tail(<<i, m>>) = <<m>> /\ Head(<<m>>) = m /\ Tail(<<m>>) = <<>>
    OBVIOUS
  <2>3. \/ c = f /\ Tail(s) = <<i, m>> /\ p \in DOMAIN paths
        \/ c = i /\ Tail(s) = <<m>> /\ Holds(r)
        \/ c = m /\ Tail(s) = <<>> /\ Holds(r) /\ r.inode \notin DOMAIN attrs
    BY <1>4, <2>1, <2>2
  <2> QED
    BY <1>1, <1>2, <1>8, <2>1, <2>3 DEF e, a, g, n, f, i, m, s, c, k, p, r
<1> QED
  BY <1>1, <1>5, <1>6, <1>7, <1>8

\* A call of the script: what it leaves, whatever it does to table and caches.
LEMMA CallFacts ==
  ASSUME SerialNoRenameReaddir, SerialInv, NEW t \in Tasks, NEW i, Go(t, i),
         pc[t] = "script", req[t].script # <<>>
  PROVE  /\ pc'[t] = "script" /\ req'[t].script = Tail(req[t].script) /\ req'[t].inode = i
         /\ req'[t].op = req[t].op /\ req'[t].path = req[t].path
         /\ req'[t].result = req[t].result /\ req'[t].todo = {}
         /\ \A q : (There(q)' <=> There(q)) /\ Kind(q)' = Kind(q) /\ Below(q)' = Below(q)
         /\ TreeKept'
         /\ Leaving = IF req[t].op \in {"unlink", "rmdir"} THEN {req[t].path} ELSE {}
         /\ Coming = IF req[t].op \in {"create", "mkdir"} THEN {req[t].path} ELSE {}
         /\ Leaving' = IF Tail(req[t].script) # <<>> THEN Leaving ELSE {}
         /\ Coming' = IF Tail(req[t].script) # <<>> THEN Coming ELSE {}
<1>1. /\ pc'[t] = "script" /\ req'[t].script = Tail(req[t].script) /\ req'[t].inode = i
      /\ req'[t].op = req[t].op /\ req'[t].path = req[t].path
      /\ req'[t].result = req[t].result /\ req'[t].todo = req[t].todo
      /\ files' = files /\ markers' = markers
  BY Busy, AfterGo DEF store
<1>2. req[t].todo = {} /\ TreeKept
  BY Busy DEF StageKept
<1>3. TreeKept'
  BY <1>1, <1>2 DEF TreeKept
<1>4. \A q : (There(q)' <=> There(q)) /\ Kind(q)' = Kind(q) /\ Below(q)' = Below(q)
  BY <1>1 DEF There, Kind, IsFile, Below
<1>5. /\ Leaving = IF req[t].op \in {"unlink", "rmdir"} THEN {req[t].path} ELSE {}
      /\ Coming = IF req[t].op \in {"create", "mkdir"} THEN {req[t].path} ELSE {}
  BY Alone DEF GoingOf
<1>6. /\ Leaving' = IF Tail(req[t].script) # <<>> THEN Leaving ELSE {}
      /\ Coming' = IF Tail(req[t].script) # <<>> THEN Coming ELSE {}
  <2>1. /\ Leaving' = GoingOf({"unlink", "rmdir"}, pc'[t], req'[t])
        /\ Coming' = GoingOf({"create", "mkdir"}, pc'[t], req'[t])
    BY Alone
  <2> QED
    BY <1>1, <1>5, <2>1 DEF GoingOf
<1> QED
  BY <1>1, <1>2, <1>3, <1>4, <1>5, <1>6

\* get_or_create_inode numbers a path that is in the store.
LEMMA SerialCreateInode ==
  ASSUME SerialNoRenameReaddir, SerialInv, TypeInv', NEW t \in Tasks, CreateInode(t)
  PROVE  SerialInv'
<1> DEFINE r == req[t]
           p == r.path
           i == req'[t].inode
           rest == Tail(r.script)
<1>1. /\ pc[t] = "script" /\ r.script # <<>> /\ Called(t).do = "create_inode"
      /\ attrs' = attrs /\ negatives' = negatives
  BY DEF CreateInode, Calling, Called, caches
<1>2. /\ Called(t).path = p /\ r.result = "ok" /\ There(p)
      /\ \/ r.op = "lookup" /\ rest = <<Call("put_attr", p, Kind(p))>>
         \/ /\ r.op \in {"create", "mkdir"}
            /\ rest = <<Call("put_attr", p, Kind(p)), Call("remove_negative", p, "")>>
  BY <1>1, Remaining
<1>3. rest # <<>>
  <2> DEFINE a == Call("put_attr", p, Kind(p))
             n == Call("remove_negative", p, "")
  <2>1. rest = <<a>> \/ rest = <<a, n>>
    BY <1>2
  <2> HIDE DEF a, n, rest
  <2> QED
    BY <2>1
<1>4. /\ TableKept /\ NamesKept /\ next_inode \in Nat
      /\ DOMAIN entries \subseteq Nat /\ DOMAIN attrs \subseteq Nat
      /\ \/ /\ p \in DOMAIN paths /\ Go(t, paths[p])
            /\ paths' = paths /\ entries' = entries /\ next_inode' = next_inode
         \/ /\ p \notin DOMAIN paths /\ Go(t, next_inode)
            /\ paths' = Insert(paths, p, next_inode)
            /\ entries' = Insert(entries, next_inode, p) /\ next_inode' = next_inode + 1
  BY <1>2 DEF CreateInode, SerialInv, TypeInv, TableOK, CachesOK, table
<1>5. PICK n : Go(t, n)
  BY <1>4
<1>6. /\ pc'[t] = "script" /\ req'[t].script = rest
      /\ req'[t].op = r.op /\ req'[t].path = p /\ req'[t].result = "ok" /\ req'[t].todo = {}
      /\ \A q : (There(q)' <=> There(q)) /\ Kind(q)' = Kind(q)
      /\ TreeKept' /\ Leaving = {} /\ Leaving' = {} /\ Coming' = Coming
  BY <1>1, <1>2, <1>3, <1>5, CallFacts
<1>7. p \in DOMAIN paths' /\ paths'[p] = i
  BY <1>1, <1>4, CallFacts DEF Insert
<1> HIDE DEF p, rest, r, i
<1>8. TableKept'
  <2>1. CASE p \in DOMAIN paths
    BY <1>1, <1>4, <2>1 DEF TableKept
  <2>2. CASE p \notin DOMAIN paths
    <3>1. \A q \in DOMAIN paths' : paths'[q] \in DOMAIN entries' /\ entries'[paths'[q]] = q
      BY <1>4, <2>2 DEF TableKept, Insert
    <3>2. \A j \in DOMAIN entries' :
            entries'[j] \in DOMAIN paths' /\ paths'[entries'[j]] = j /\ j < next_inode'
      BY <1>4, <2>2 DEF TableKept, Insert
    <3>3. \A j \in DOMAIN attrs' : j < next_inode'
      BY <1>1, <1>4, <2>2 DEF TableKept
    <3> QED
      BY <3>1, <3>2, <3>3 DEF TableKept
  <2> QED
    BY <2>1, <2>2
<1>9. NamesKept'
  <2>1. ASSUME NEW q \in DOMAIN paths'
        PROVE  There(q) /\ (paths'[q] \in DOMAIN attrs => attrs[paths'[q]] = Kind(q))
    <3>1. CASE q \in DOMAIN paths /\ paths'[q] = paths[q]
      BY <1>4, <1>6, <3>1 DEF NamesKept
    <3>2. CASE q = p /\ paths'[q] = next_inode
      <4>1. next_inode \notin DOMAIN attrs
        BY <1>4 DEF TableKept
      <4> QED
        BY <1>2, <3>2, <4>1
    <3> QED
      BY <1>4, <2>1, <3>1, <3>2 DEF Insert
  <2>2. \A q \in negatives \ Coming : ~There(q)
    BY <1>4 DEF NamesKept
  <2> QED
    BY <1>1, <1>6, <2>1, <2>2 DEF NamesKept
<1>10. StageKept(pc[t], req[t])'
  <2>1. Holds(req[t])'
    BY <1>6, <1>7 DEF Holds, i
  <2>2. There(req[t].path)' /\ Kind(req[t].path)' = Kind(p)
    BY <1>2, <1>6
  <2> QED
    BY <1>2, <1>6, <2>1, <2>2 DEF StageKept, LookupRests, EnterRests
<1> QED
  BY <1>6, <1>8, <1>9, <1>10, SerialMove

\* Attributes of the handler's own number, with the kind its answer told.
LEMMA SerialPutAttr ==
  ASSUME SerialNoRenameReaddir, SerialInv, TypeInv', NEW t \in Tasks, PutAttr(t)
  PROVE  SerialInv'
<1> DEFINE r == req[t]
           p == r.path
           i == r.inode
           rest == Tail(r.script)
<1>1. /\ pc[t] = "script" /\ r.script # <<>> /\ Called(t).do = "put_attr" /\ Go(t, i)
      /\ paths' = paths /\ entries' = entries /\ next_inode' = next_inode
      /\ negatives' = negatives /\ attrs' = Insert(attrs, i, Called(t).kind)
  BY DEF PutAttr, Calling, Called, table
<1>2. /\ r.result = "ok" /\ There(p) /\ Holds(r) /\ Called(t).kind = Kind(p)
      /\ \/ r.op \in {"lookup", "getattr"} /\ rest = <<>>
         \/ r.op \in {"create", "mkdir"} /\ rest = <<Call("remove_negative", p, "")>>
  BY <1>1, Remaining
<1>3. r.op \in {"create", "mkdir"} => rest # <<>>
  BY <1>2, ShortScripts
<1>4. TableKept /\ NamesKept /\ p \in DOMAIN paths /\ paths[p] = i
  BY <1>2 DEF SerialInv, Holds
<1>5. /\ pc'[t] = "script" /\ req'[t].script = rest
      /\ req'[t].op = r.op /\ req'[t].path = p /\ req'[t].result = "ok" /\ req'[t].todo = {}
      /\ \A q : (There(q)' <=> There(q)) /\ Kind(q)' = Kind(q)
      /\ TreeKept' /\ Leaving = {} /\ Leaving' = {} /\ Coming' = Coming
  BY <1>1, <1>2, <1>3, CallFacts
<1> HIDE DEF p, rest, r, i
<1>6. TableKept'
  BY <1>1, <1>4 DEF TableKept, Insert
<1>7. NamesKept'
  <2>1. ASSUME NEW q \in DOMAIN paths
        PROVE  There(q) /\ (paths[q] \in DOMAIN attrs' => attrs'[paths[q]] = Kind(q))
    <3>1. There(q) /\ (paths[q] \in DOMAIN attrs => attrs[paths[q]] = Kind(q))
      BY <1>4, <1>5 DEF NamesKept
    <3>2. paths[q] = i => q = p
      BY <1>4 DEF TableKept
    <3> QED
      BY <1>1, <1>2, <3>1, <3>2 DEF Insert
  <2>2. \A q \in negatives \ Coming : ~There(q)
    BY <1>4 DEF NamesKept
  <2> QED
    BY <1>1, <1>5, <2>1, <2>2 DEF NamesKept
<1>8. StageKept(pc[t], req[t])'
  <2>1. There(req[t].path)'
    BY <1>2, <1>5
  <2> QED
    BY <1>2, <1>5, <2>1 DEF StageKept, LookupRests, GetAttrRests, EnterRests
<1> QED
  BY <1>5, <1>6, <1>7, <1>8, SerialMove

\* The negative cache learns of what a lookup did not find, and forgets what a
\* create or mkdir has put.
LEMMA SerialNegative ==
  ASSUME SerialNoRenameReaddir, SerialInv, TypeInv', NEW t \in Tasks, PutNegative(t) \/ RemoveNegative(t)
  PROVE  SerialInv'
<1> DEFINE r == req[t]
           p == r.path
           rest == Tail(r.script)
<1>1. /\ pc[t] = "script" /\ r.script # <<>> /\ Go(t, r.inode)
      /\ paths' = paths /\ entries' = entries /\ next_inode' = next_inode /\ attrs' = attrs
      /\ \/ Called(t).do = "put_negative" /\ negatives' = negatives \cup {Called(t).path}
         \/ Called(t).do = "remove_negative" /\ negatives' = negatives \ {Called(t).path}
  BY DEF PutNegative, RemoveNegative, Calling, Called, table
<1>2. /\ Called(t).path = p /\ rest = <<>>
      /\ \/ /\ r.op = "lookup" /\ ~There(p) /\ r.result = "ENOENT"
            /\ negatives' = negatives \cup {p}
         \/ /\ r.op \in {"create", "mkdir"} /\ There(p) /\ r.result = "ok"
            /\ negatives' = negatives \ {p}
  BY <1>1, Remaining
<1>3. /\ pc'[t] = "script" /\ req'[t].script = rest
      /\ req'[t].op = r.op /\ req'[t].path = p /\ req'[t].result = r.result
      /\ req'[t].todo = {}
      /\ \A q : (There(q)' <=> There(q)) /\ Kind(q)' = Kind(q)
      /\ TreeKept' /\ Leaving = {} /\ Leaving' = {} /\ Coming' = {}
      /\ Coming = IF r.op \in {"create", "mkdir"} THEN {p} ELSE {}
  BY <1>1, <1>2, CallFacts
<1>4. TableKept' /\ NamesKept
  BY <1>1 DEF SerialInv, TableKept
<1> HIDE DEF p, rest, r
<1>5. NamesKept'
  <2>1. \A q \in DOMAIN paths :
          There(q) /\ (paths[q] \in DOMAIN attrs => attrs[paths[q]] = Kind(q))
    BY <1>3, <1>4 DEF NamesKept
  <2>2. \A q \in negatives' : ~There(q)
    BY <1>2, <1>3, <1>4 DEF NamesKept
  <2> QED
    BY <1>1, <1>3, <2>1, <2>2 DEF NamesKept
<1>6. StageKept(pc[t], req[t])'
  <2>1. There(req[t].path)' <=> There(p)
    BY <1>3
  <2> QED
    BY <1>2, <1>3, <2>1 DEF StageKept, LookupRests, EnterRests
<1> QED
  BY <1>3, <1>4, <1>5, <1>6, SerialMove

\* The number and the attributes of what was removed go, one after the other.
LEMMA SerialForget ==
  ASSUME SerialNoRenameReaddir, SerialInv, TypeInv', NEW t \in Tasks,
         FindInode(t) \/ InvalidateAttr(t) \/ RemoveInode(t)
  PROVE  SerialInv'
<1> DEFINE r == req[t]
           p == r.path
           rest == Tail(r.script)
           do == Called(t).do
<1>1. /\ pc[t] = "script" /\ r.script # <<>>
      /\ do \in {"find_inode", "invalidate_attr", "remove_inode"} /\ negatives' = negatives
      /\ next_inode' = next_inode
  BY DEF FindInode, InvalidateAttr, RemoveInode, Calling, Called, table, caches
<1>2. /\ Called(t).path = p /\ r.result = "ok"
      /\ r.op \in {"unlink", "rmdir"} /\ ~There(p) /\ (r.op = "rmdir" => Below(p) = {})
      /\ do = "find_inode" =>
           /\ p \in DOMAIN paths
           /\ rest = <<Call("invalidate_attr", p, ""), Call("remove_inode", p, "")>>
      /\ do = "invalidate_attr" => Holds(r) /\ rest = <<Call("remove_inode", p, "")>>
      /\ do = "remove_inode" => Holds(r) /\ r.inode \notin DOMAIN attrs /\ rest = <<>>
  BY <1>1, Remaining
<1>3. do # "remove_inode" => rest # <<>>
  <2> DEFINE i == Call("invalidate_attr", p, "")
             m == Call("remove_inode", p, "")
  <2>1. do # "remove_inode" => rest = <<i, m>> \/ rest = <<m>>
    BY <1>1, <1>2
  <2> HIDE DEF i, m, rest, do
  <2> QED
    BY <2>1
<1>4. \/ /\ do = "find_inode" /\ Go(t, paths[p])
         /\ paths' = paths /\ entries' = entries /\ attrs' = attrs
      \/ /\ do = "invalidate_attr" /\ Go(t, r.inode)
         /\ paths' = paths /\ entries' = entries /\ attrs' = Remove(attrs, r.inode)
      \/ /\ do = "remove_inode" /\ Go(t, r.inode) /\ attrs' = attrs
         /\ entries' = Remove(entries, r.inode)
         /\ paths' = IF r.inode \in DOMAIN entries
                     THEN Remove(paths, entries[r.inode]) ELSE paths
  BY <1>2 DEF FindInode, InvalidateAttr, RemoveInode, Calling, Called, Get, table, caches
<1>5. PICK n : Go(t, n)
  BY <1>4
<1>6. /\ pc'[t] = "script" /\ req'[t].script = rest
      /\ req'[t].op = r.op /\ req'[t].path = p /\ req'[t].result = "ok" /\ req'[t].todo = {}
      /\ \A q : (There(q)' <=> There(q)) /\ Kind(q)' = Kind(q) /\ Below(q)' = Below(q)
      /\ TreeKept' /\ Leaving = {p} /\ Coming = {} /\ Coming' = {}
      /\ Leaving' = IF rest # <<>> THEN {p} ELSE {}
  BY <1>1, <1>2, <1>5, CallFacts
<1>7. TableKept /\ NamesKept
  BY DEF SerialInv
<1>8. /\ do = "find_inode" => req'[t].inode = paths[p]
      /\ do # "find_inode" =>
           /\ req'[t].inode = r.inode /\ p \in DOMAIN paths /\ paths[p] = r.inode
           /\ r.inode \in DOMAIN entries /\ entries[r.inode] = p
  <2>1. do = "find_inode" => req'[t].inode = paths[p]
    BY <1>1, <1>4, CallFacts
  <2>2. do # "find_inode" => req'[t].inode = r.inode
    BY <1>1, <1>4, CallFacts
  <2>3. do # "find_inode" => Holds(r)
    BY <1>1, <1>2
  <2>4. do # "find_inode" => p \in DOMAIN paths /\ paths[p] = r.inode
    BY <2>3 DEF Holds
  <2> QED
    BY <1>7, <2>1, <2>2, <2>4 DEF TableKept
<1> HIDE DEF p, rest, r, do
<1>9. TableKept'
  <2>1. CASE do # "remove_inode"
    BY <1>1, <1>4, <1>7, <2>1 DEF TableKept, Remove
  <2>2. CASE do = "remove_inode"
    <3>1. entries' = Remove(entries, r.inode) /\ paths' = Remove(paths, p) /\ attrs' = attrs
      BY <1>4, <1>8, <2>2
    <3> QED
      BY <1>1, <1>8, <1>7, <2>2, <3>1 DEF TableKept, Remove
  <2> QED
    BY <2>1, <2>2
<1>10. NamesKept'
  <2>1. ASSUME NEW q \in DOMAIN paths, q # p
        PROVE  There(q) /\ (paths[q] \in DOMAIN attrs => attrs[paths[q]] = Kind(q))
    BY <1>6, <1>7, <2>1 DEF NamesKept
  <2>2. \A q \in negatives : ~There(q)
    BY <1>6, <1>7 DEF NamesKept
  <2>3. /\ \A q \in DOMAIN paths' : q \in DOMAIN paths /\ paths'[q] = paths[q]
        /\ \A i \in DOMAIN attrs' : i \in DOMAIN attrs /\ attrs'[i] = attrs[i]
        /\ do = "remove_inode" => p \notin DOMAIN paths'
    BY <1>4, <1>8 DEF Remove
  <2>4. \A q \in DOMAIN paths' \ Leaving' : q # p
    BY <1>3, <1>6, <2>3
  <2> QED
    BY <1>1, <1>6, <2>1, <2>2, <2>3, <2>4 DEF NamesKept
<1>11. StageKept(pc[t], req[t])'
  <2>1. ~There(req[t].path)' /\ Below(req[t].path)' = Below(p)
    BY <1>2, <1>6
  <2>2. do # "remove_inode" => Holds(req[t])'
    BY <1>2, <1>4, <1>6, <1>8 DEF Holds
  <2>3. do = "invalidate_attr" => req'[t].inode \notin DOMAIN attrs'
    BY <1>4, <1>8 DEF Remove
  <2> QED
    BY <1>1, <1>2, <1>6, <2>1, <2>2, <2>3 DEF StageKept, ForgetRests
<1> QED
  BY <1>6, <1>9, <1>10, <1>11, SerialMove

\* An entry of a cache that expires takes nothing with it that a handler relies on.
LEMMA SerialExpire ==
  ASSUME SerialInv, TypeInv',
         \/ \E i \in DOMAIN attrs : ExpireAttr(i)
         \/ \E p \in negatives : ExpireNegative(p)
         \/ UNCHANGED vars
  PROVE  SerialInv'
<1>1. /\ files' = files /\ markers' = markers /\ paths' = paths /\ entries' = entries
      /\ next_inode' = next_inode /\ pc' = pc /\ req' = req /\ answer' = answer
      /\ negatives' \subseteq negatives
      /\ DOMAIN attrs' \subseteq DOMAIN attrs /\ \A i \in DOMAIN attrs' : attrs'[i] = attrs[i]
  BY DEF ExpireAttr, ExpireNegative, Remove, vars, store, table
<1>2. TreeKept' /\ TableKept'
  BY <1>1 DEF SerialInv, TreeKept, TableKept
<1>3. NamesKept'
  <2>1. Leaving' = Leaving /\ Coming' = Coming
    BY <1>1 DEF Leaving, Coming
  <2> QED
    BY <1>1, <2>1 DEF SerialInv, NamesKept, There, IsFile, Kind
<1>4. ASSUME NEW t \in Tasks PROVE StageKept(pc[t], req[t])'
  <2> DEFINE r == req[t]
  <2>1. /\ StageKept(pc[t], r) /\ pc'[t] = pc[t] /\ req'[t] = r
        /\ \A p : (There(p)' <=> There(p)) /\ (IsFile(p)' <=> IsFile(p))
        /\ \A p : Kind(p)' = Kind(p) /\ Below(p)' = Below(p) /\ Listed(p)' = Listed(p)
    BY <1>1 DEF SerialInv, There, IsFile, Kind, Below, Listed
  <2>2. /\ Holds(r)' <=> Holds(r)
        /\ LookupRests(r) => LookupRests(r)'
        /\ GetAttrRests(r) => GetAttrRests(r)'
        /\ EnterRests(r) => EnterRests(r)'
    BY <1>1, <2>1 DEF Holds, LookupRests, GetAttrRests, EnterRests
  <2>3. ForgetRests(r) => ForgetRests(r)'
    BY <1>1, <2>1 DEF Holds, ForgetRests
  <2> QED
    BY <1>1, <2>1, <2>2, <2>3 DEF StageKept
<1>5. AnswersAreTrue'
  BY <1>1 DEF SerialInv, AnswersAreTrue, Quiescent, Exists, IsFile, IsDir, Below
<1> QED
  BY <1>2, <1>3, <1>4, <1>5 DEF SerialInv

LEMMA SerialStep ==
  ASSUME SerialNoRenameReaddir
  PROVE  SerialInv /\ [Next]_vars => SerialInv'
<1> SUFFICES ASSUME SerialInv, [Next]_vars PROVE SerialInv'
  OBVIOUS
<1>1. TypeInv'
  BY StepType DEF SerialInv
<1>2. ASSUME NEW t \in Tasks, Arrive(t) PROVE SerialInv'
  BY <1>1, <1>2, SerialArrive
<1>3. ASSUME NEW t \in Tasks, Advance(t) PROVE SerialInv'
  <2>1. CASE StatFile(t) \/ StatDir(t) \/ LookupListed(t)
    BY <1>1, <2>1, SerialLookup
  <2>2. CASE List(t)
    BY <1>1, <2>2, SerialNever, SerialLookup, SerialRmdirList
  <2>3. CASE StatAttr(t)
    BY <1>1, <2>3, SerialStatAttr
  <2>4. CASE CreatePut(t) \/ MkdirPut(t)
    BY <1>1, <2>4, SerialPut
  <2>5. CASE UnlinkDelete(t) \/ RmdirDelete(t)
    BY <1>1, <2>5, SerialDelete
  <2>6. CASE RmdirListed(t)
    BY <1>1, <2>6, SerialRmdirList
  <2>7. CASE CreateInode(t)
    BY <1>1, <2>7, SerialCreateInode
  <2>8. CASE PutAttr(t)
    BY <1>1, <2>8, SerialPutAttr
  <2>9. CASE PutNegative(t) \/ RemoveNegative(t)
    BY <1>1, <2>9, SerialNegative
  <2>10. CASE FindInode(t) \/ InvalidateAttr(t) \/ RemoveInode(t)
    BY <1>1, <2>10, SerialForget
  <2>11. CASE Finish(t)
    BY <1>1, <2>11, SerialFinish
  <2> QED
    BY <1>3, <2>1, <2>2, <2>3, <2>4, <2>5, <2>6, <2>7, <2>8, <2>9, <2>10, <2>11, SerialNever
       DEF Advance
<1>4. CASE \/ \E i \in DOMAIN attrs : ExpireAttr(i)
           \/ \E p \in negatives : ExpireNegative(p)
           \/ UNCHANGED vars
  BY <1>1, <1>4, SerialExpire
<1> QED
  BY <1>2, <1>3, <1>4 DEF Next, Exhausted

LEMMA SerialInit ==
  ASSUME MarkedTree
  PROVE  Init => SerialInv
<1> SUFFICES ASSUME Init PROVE SerialInv
  OBVIOUS
<1>1. TypeInv
  BY InitType
<1>2. /\ DOMAIN files = InitFiles /\ markers = InitMarkers
      /\ DOMAIN paths = {Root} /\ paths[Root] = ROOT_INODE
      /\ DOMAIN entries = {ROOT_INODE} /\ entries[ROOT_INODE] = Root
      /\ next_inode = 2 /\ ROOT_INODE = 1 /\ DOMAIN attrs = {} /\ negatives = {}
      /\ \A t \in Tasks : pc[t] = "idle" /\ req[t] = NoRequest
      /\ answer = NoRequest
  BY DEF Init, ROOT_INODE, EmptyMap
<1>3. TreeKept
  BY <1>2 DEF TreeKept, MarkedTree
<1>4. TableKept
  BY <1>2 DEF TableKept
<1>5. NamesKept
  BY <1>2 DEF NamesKept, There
<1>6. NoRequest.op = "none" /\ NoRequest.todo = {}
  BY DEF NoRequest, NewRequest
<1>7. \A t \in Tasks : StageKept(pc[t], req[t])
  BY <1>2, <1>6 DEF StageKept
<1>8. AnswersAreTrue
  BY <1>2, <1>6 DEF AnswersAreTrue
<1> QED
  BY <1>1, <1>3, <1>4, <1>5, <1>7, <1>8 DEF SerialInv

\* The inductive invariant of the mount while one request follows another, no
\* rename and no readdir among them: what the inode table, the two caches and the
\* handler's remaining calls say of the store between any two steps
\* (core.rs:162-220, 300-325, 428-551).
THEOREM SerialInvariant ==
  ASSUME SerialNoRenameReaddir, MarkedTree
  PROVE  Spec => []SerialInv
<1>1. Init => SerialInv
  BY SerialInit
<1>2. SerialInv /\ [Next]_vars => SerialInv'
  BY SerialStep
<1> QED
  BY <1>1, <1>2, PTL DEF Spec

\* Between requests no handler has anything left to put or to forget.
LEMMA NothingPends == Quiescent => Leaving = {} /\ Coming = {}
  BY DEF Quiescent, Leaving, Coming, GoingOf

\* Between requests the negative cache holds no path that exists, however its
\* entries and those of the attributes expire: a create or mkdir takes the path it
\* has put from the cache, and a lookup puts there only what three attempts have
\* not found (core.rs:162-220, 428-486).  This is so of requests one at a time, for
\* a lookup under way puts back what a create has corrected; over a store that
\* answers, for an error counts as absence; without rename, which leaves its target
\* in the cache (core.rs:580), and without readdir, which numbers a directory's
\* marker as its child (core.rs:263); and of a tree whose directories have markers.
THEOREM NegativesAreAbsent ==
  ASSUME SerialNoRenameReaddir, MarkedTree
  PROVE  Spec => []NegativeIsAbsent
<1>1. SerialInv => NegativeIsAbsent
  BY NothingPends, ExistsThere DEF SerialInv, TypeInv, CachesOK, NamesKept, NegativeIsAbsent
<1> QED
  BY <1>1, SerialInvariant, PTL

\* Between requests the cached attributes of every numbered path have the kind
\* the store holds: an unlink or rmdir drops the attributes and the number of what
\* it removed, so that the next file or directory of that name gets both anew
\* (core.rs:488-551).  Requests one at a time over a store that answers, without
\* rename and without readdir, which gives a marker attributes and a number as a
\* child of its own directory (core.rs:263).  Directories with markers: one that its
\* files imply goes with the last of them, and its attributes stay.
THEOREM CachedKindsHold ==
  ASSUME SerialNoRenameReaddir, MarkedTree
  PROVE  Spec => []CachedKindsAgree
<1>1. ASSUME SerialInv, Quiescent, NEW p \in DOMAIN paths, paths[p] \in DOMAIN attrs
      PROVE  IF attrs[paths[p]] = "file" THEN IsFile(p) ELSE IsDir(p)
  BY <1>1, NothingPends DEF SerialInv, NamesKept, There, Kind, IsDir
<1>2. SerialInv => CachedKindsAgree
  BY <1>1 DEF CachedKindsAgree
<1> QED
  BY <1>2, SerialInvariant, PTL

\* The kernel is told the truth in what AnswersAreTrue judges: between requests the
\* last answer agrees with the store, from whichever cache or attempt it came.  A
\* lookup has found the name just when there is something of it, a file that exists
\* has attributes, a removed name is gone, and a directory that was not empty is not
\* (core.rs:162-220, 300-325, 428-551).  Not judged is getattr of a directory, which
\* is answered ENOENT once its attributes have expired (core.rs:312).  Requests one
\* at a time over a store that answers, without rename and readdir, in a tree whose
\* directories have markers.
THEOREM AnswersTrue ==
  ASSUME SerialNoRenameReaddir, MarkedTree
  PROVE  Spec => []AnswersAreTrue
<1>1. SerialInv => AnswersAreTrue
  BY DEF SerialInv
<1> QED
  BY <1>1, SerialInvariant, PTL
==============================================================================
