------------------------------ MODULE Namespace ------------------------------
(***************************************************************************)
(* The name space of the mount: the handlers of src/fs/core.rs that look   *)
(* up, list, create, remove and rename, over the object store, the inode   *)
(* table and the metadata cache (src/cache/metadata.rs).                   *)
(*                                                                         *)
(* Handlers of several request tasks interleave.  A handler awaits the     *)
(* answer of the store once or several times; an action per await is the   *)
(* store's answer and the decision taken on it.  What follows the last     *)
(* answer is a sequence of calls on the table and the caches, each atomic  *)
(* and none atomic with the next: the handler's script, run call by call.  *)
(* (Methods of the table interleave more finely still: InodeManager.)      *)
(*                                                                         *)
(* A path is the sequence of its names.  The store holds a file at its     *)
(* path and a directory's marker at the path followed by a slash; a        *)
(* directory without marker is implied by the objects below it.            *)
(***************************************************************************)
EXTENDS Naturals, Sequences, FiniteSets, DashMap

Seqs == INSTANCE SequencesExt

CONSTANTS
  Tasks,        \* request tasks
  Paths,        \* paths below the root
  Ops,          \* requests the kernel sends
  InitFiles,    \* files and markers the store holds at the mount
  InitMarkers,
  StoreMayFail, \* whether calls of the store may fail
  MaxCalls      \* bound on the requests of a behaviour

\* The paths form a tree: every path below the root comes with its directories.
Names == UNION {{p[n] : n \in DOMAIN p} : p \in Paths}
ASSUME TreeAssumption ==
  /\ Paths \subseteq Seq(Names)
  /\ \A p \in Paths : p # <<>> /\ \A n \in 1..Len(p) : SubSeq(p, 1, n) \in Paths
ASSUME InitAssumption == InitFiles \cup InitMarkers \subseteq Paths

Root == <<>>
ROOT_INODE == 1
NoInode == 0
Parent(p) == SubSeq(p, 1, Len(p) - 1)

VARIABLES
  files,      \* the store: contents of every file
  markers,    \* the store: paths with a directory marker
  paths,      \* path_to_inode of the inode table
  entries,    \* inode_to_entry, an entry being its path
  next_inode,
  attrs,      \* attr_cache of the metadata cache: inode to kind
  negatives,  \* negative_cache
  pc,         \* per task: where it is in its handler
  req,        \* per task: the request and its locals
  calls,      \* requests made so far
  answer,     \* the last answer sent to the kernel
  meant       \* history: contents that a request was to remove or replace

vars == <<files, markers, paths, entries, next_inode, attrs, negatives,
          pc, req, calls, answer, meant>>
store == <<files, markers>>
table == <<paths, entries, next_inode>>
caches == <<attrs, negatives>>

\* A request and its locals: `path' is what it is about and `new' the target of
\* a rename; `inode' is the number in the handler's hands, `todo' what a listing
\* returned and `script' the calls that remain, before `result' is sent.
NewRequest(op, id, p, new, i) ==
  [op |-> op, id |-> id, path |-> p, new |-> new, inode |-> i,
   todo |-> {}, script |-> <<>>, result |-> "ok"]
NoRequest == NewRequest("none", 0, Root, Root, NoInode)

Init ==
  /\ files = [p \in InitFiles |-> <<0, p>>]
  /\ markers = InitMarkers
  /\ paths = [p \in {Root} |-> ROOT_INODE]
  /\ entries = [i \in {ROOT_INODE} |-> Root]
  /\ next_inode = ROOT_INODE + 1
  /\ attrs = EmptyMap
  /\ negatives = {}
  /\ pc = [t \in Tasks |-> "idle"]
  /\ req = [t \in Tasks |-> NoRequest]
  /\ calls = 0
  /\ answer = NoRequest
  /\ meant = {}

-----------------------------------------------------------------------------
(* The object store *)

Below(p) == {q \in DOMAIN files \cup markers : Seqs!IsStrictPrefix(p, q)}
IsFile(p) == p \in DOMAIN files
IsDir(p) == p = Root \/ p \in markers \/ Below(p) # {}
Exists(p) == IsFile(p) \/ IsDir(p)

Kind(p) == IF IsFile(p) THEN "file" ELSE "dir"

\* What listing "p/" returns: the marker itself and, one level down, objects
\* and common prefixes.
Listed(p) ==
  ({p} \cap markers) \cup {SubSeq(q, 1, Len(p) + 1) : q \in Below(p)}

\* stat of a listed entry: of a prefix it finds the marker only.
Statable(p) == IsFile(p) \/ p \in markers

-----------------------------------------------------------------------------
(* Handlers: common steps *)

Goto(t, l) == pc' = [pc EXCEPT ![t] = l]

Reply(t, r, result) ==
  /\ Goto(t, "idle")
  /\ answer' = [r EXCEPT !.result = result, !.id = 0]
  /\ req' = [req EXCEPT ![t] = NoRequest]

Call(do, p, kind) == [do |-> do, path |-> p, kind |-> kind]

\* The store has answered for the last time; calls and a result remain.
Continue(t, script, result) ==
  /\ Goto(t, "script")
  /\ req' = [req EXCEPT ![t].script = script, ![t].result = result]
  /\ UNCHANGED answer

Await(t, l) == Goto(t, l) /\ UNCHANGED <<req, answer>>

\* The cached result of a get_or_create_inode followed by put_attr.
Enter(p, kind) == <<Call("create_inode", p, kind), Call("put_attr", p, kind)>>

\* Mutant: the handler returns as soon as the store has answered.
ForgetNothing(p) == <<>>

Forget(p) == <<Call("find_inode", p, ""), Call("invalidate_attr", p, ""),
               Call("remove_inode", p, "")>>

\* The directories a request keeps locked in the kernel: the parents of what
\* it adds or removes, and a directory it removes.
Locks(r) ==
  CASE r.op \in {"create", "mkdir", "unlink"} -> {Parent(r.path)}
    [] r.op = "rmdir" -> {Parent(r.path), r.path}
    [] r.op = "rename" -> {Parent(r.path), Parent(r.new)}
    [] r.op = "readdir" -> {r.path}
    [] OTHER -> {}

\* The kernel sends a request about a name in a directory it has looked up
\* (or takes for one: an implicit directory may have lost its last object),
\* unless another request holds a lock it needs.  Lookups that revalidate a
\* name take none.
Request(t, op, p, new, i) ==
  LET r == NewRequest(op, calls + 1, p, new, i) IN
  /\ op \in Ops /\ pc[t] = "idle" /\ calls < MaxCalls
  /\ {Parent(p), Parent(new)} \subseteq DOMAIN paths \ DOMAIN files
  /\ \A u \in Tasks : Locks(r) \cap Locks(req[u]) = {}
  /\ calls' = calls + 1

Begin(t, l, op, p, new, i) ==
  /\ Request(t, op, p, new, i)
  /\ Goto(t, l)
  /\ req' = [req EXCEPT ![t] = NewRequest(op, calls + 1, p, new, i)]
  /\ UNCHANGED <<store, table, caches, answer, meant>>

\* The kernel takes p for a name that does not exist: a lookup would say so.
Unknown(p) == p \in negatives \/ ~Exists(p)

-----------------------------------------------------------------------------
(* do_lookup *)

Lookup(t, p) ==
  /\ Request(t, "lookup", p, p, NoInode)
  /\ LET r == NewRequest("lookup", calls + 1, p, p, NoInode)
         cached == p \in DOMAIN paths /\ paths[p] \in DOMAIN attrs
     IN
     \/ p \in negatives /\ Reply(t, r, "ENOENT")
     \/ p \notin negatives /\ cached /\ Reply(t, r, "ok")
     \/ /\ p \notin negatives /\ ~cached
        /\ Goto(t, "stat")
        /\ req' = [req EXCEPT ![t] = r]
        /\ UNCHANGED answer
  /\ UNCHANGED <<store, table, caches, meant>>

\* Any error counts as "not there" in each of the three attempts.
StatFile(t) ==
  LET p == req[t].path IN
  /\ pc[t] = "stat"
  /\ \/ IsFile(p) /\ Continue(t, Enter(p, "file"), "ok")
     \/ (~IsFile(p) \/ StoreMayFail) /\ Await(t, "stat_dir")
  /\ UNCHANGED <<store, table, caches, calls, meant>>

StatDir(t) ==
  LET p == req[t].path IN
  /\ pc[t] = "stat_dir"
  /\ \/ p \in markers /\ Continue(t, Enter(p, "dir"), "ok")
     \/ (p \notin markers \/ StoreMayFail) /\ Await(t, "list")
  /\ UNCHANGED <<store, table, caches, calls, meant>>

\* A listing names entries and then asks for each one's metadata; it fails
\* when one has gone by then.
List(t) ==
  /\ pc[t] \in {"list", "list_rmdir", "list_dir"}
  /\ req' = [req EXCEPT ![t].todo = Listed(req[t].path)]
  /\ Goto(t, CASE pc[t] = "list" -> "listed"
               [] pc[t] = "list_rmdir" -> "listed_rmdir"
               [] OTHER -> "listed_dir")
  /\ UNCHANGED <<store, table, caches, calls, answer, meant>>

ListingFails(t) == StoreMayFail \/ \E q \in req[t].todo : ~Statable(q)
ListingWorks(t) == \A q \in req[t].todo : Statable(q)

NotFound(p) == <<Call("put_negative", p, "")>>

LookupListed(t) ==
  LET p == req[t].path IN
  /\ pc[t] = "listed"
  /\ Goto(t, "script")
  /\ \/ /\ ListingWorks(t) /\ req[t].todo # {}
        /\ req' = [req EXCEPT ![t].script = Enter(p, "dir"), ![t].todo = {}]
     \/ /\ req[t].todo = {} \/ ListingFails(t)
        /\ req' = [req EXCEPT ![t].script = NotFound(p), ![t].todo = {}, ![t].result = "ENOENT"]
  /\ UNCHANGED <<store, table, caches, calls, answer, meant>>

-----------------------------------------------------------------------------
(* do_getattr: the path is that of the number's entry, without a slash *)

GetAttr(t, i) ==
  /\ i \in DOMAIN entries
  /\ Request(t, "getattr", entries[i], entries[i], i)
  /\ LET r == NewRequest("getattr", calls + 1, entries[i], entries[i], i) IN
     \/ i \in DOMAIN attrs /\ Reply(t, r, "ok")
     \/ /\ i \notin DOMAIN attrs
        /\ Goto(t, "stat_attr")
        /\ req' = [req EXCEPT ![t] = r]
        /\ UNCHANGED answer
  /\ UNCHANGED <<store, table, caches, meant>>

StatAttr(t) ==
  LET p == req[t].path IN
  /\ pc[t] = "stat_attr"
  /\ \/ IsFile(p) /\ Continue(t, <<Call("put_attr", p, "file")>>, "ok")
     \/ p = Root /\ Continue(t, <<Call("put_attr", p, "dir")>>, "ok")
     \/ ~IsFile(p) /\ p # Root /\ Reply(t, req[t], "ENOENT")
     \/ StoreMayFail /\ Reply(t, req[t], "EIO")
  /\ UNCHANGED <<store, table, caches, calls, meant>>

-----------------------------------------------------------------------------
(* do_readdir *)

Readdir(t, p) == p \in DOMAIN paths /\ IsDir(p) /\ Begin(t, "list_dir", "readdir", p, p, paths[p])

ReaddirListed(t) ==
  /\ pc[t] = "listed_dir"
  /\ \/ ListingWorks(t) /\ Continue(t, <<>>, "ok")
     \/ ListingFails(t) /\ Reply(t, req[t], "EIO")
  /\ UNCHANGED <<store, table, caches, calls, meant>>

\* Mutant: the entry's whole path is joined to the directory's.
ChildOfWhole(p, q) == p \o q

\* The path an entry of the reply gets: its last name below the directory.
Child(p, q) == Append(p, q[Len(q)])

NextEntry(t) ==
  /\ pc[t] = "script" /\ req[t].script = <<>>
  /\ \E q \in req[t].todo :
       req' = [req EXCEPT ![t].todo = @ \ {q},
                          ![t].script = Enter(Child(req[t].path, q), Kind(q))]
  /\ UNCHANGED <<store, table, caches, pc, calls, answer, meant>>

-----------------------------------------------------------------------------
(* do_create and do_mkdir *)

Create(t, p) == Unknown(p) /\ Begin(t, "put", "create", p, p, NoInode)
Mkdir(t, p) == Unknown(p) /\ Begin(t, "put_marker", "mkdir", p, p, NoInode)

\* Mutant: the negative entry is not removed.
CreatedForgetful(p, kind) == Enter(p, kind)

Created(p, kind) == Append(Enter(p, kind), Call("remove_negative", p, ""))

\* An error may hide that the store did what it was asked to.
CreatePut(t) ==
  LET p == req[t].path
      stored == Insert(files, p, <<req[t].id, p>>)
  IN
  /\ pc[t] = "put"
  /\ \/ files' = stored /\ Continue(t, Created(p, "file"), "ok")
     \/ StoreMayFail /\ files' \in {files, stored} /\ Reply(t, req[t], "EIO")
  /\ UNCHANGED <<markers, table, caches, calls, meant>>

MkdirPut(t) ==
  LET p == req[t].path IN
  /\ pc[t] = "put_marker"
  /\ \/ markers' = markers \cup {p} /\ Continue(t, Created(p, "dir"), "ok")
     \/ StoreMayFail /\ markers' \in {markers, markers \cup {p}} /\ Reply(t, req[t], "EIO")
  /\ UNCHANGED <<files, table, caches, calls, meant>>

-----------------------------------------------------------------------------
(* do_unlink and do_rmdir *)

ContentsOf(p) == {files[q] : q \in {p} \cap DOMAIN files}

Unlink(t, p) ==
  p \in DOMAIN paths /\ IsFile(p) /\ Begin(t, "delete", "unlink", p, p, NoInode)

Rmdir(t, p) ==
  p \in DOMAIN paths /\ IsDir(p) /\ Begin(t, "list_rmdir", "rmdir", p, p, NoInode)

UnlinkDelete(t) ==
  LET p == req[t].path IN
  /\ pc[t] = "delete"
  /\ \/ files' = Remove(files, p) /\ Continue(t, Forget(p), "ok")
     \/ StoreMayFail /\ files' \in {files, Remove(files, p)} /\ Reply(t, req[t], "EIO")
  /\ meant' = meant \cup ContentsOf(p)
  /\ UNCHANGED <<markers, table, caches, calls>>

\* Mutant: the directory's own marker counts as an entry.
RmdirListedUnfiltered(t) ==
  /\ pc[t] = "listed_rmdir"
  /\ \/ ListingFails(t) /\ Reply(t, req[t], "EIO")
     \/ ListingWorks(t) /\ req[t].todo # {} /\ Reply(t, req[t], "ENOTEMPTY")
     \/ /\ ListingWorks(t) /\ req[t].todo = {}
        /\ Goto(t, "delete_marker")
        /\ UNCHANGED <<req, answer>>
  /\ UNCHANGED <<store, table, caches, calls, meant>>

RmdirListed(t) ==
  LET p == req[t].path IN
  /\ pc[t] = "listed_rmdir"
  /\ \/ ListingFails(t) /\ Reply(t, req[t], "EIO")
     \/ ListingWorks(t) /\ req[t].todo \ {p} # {} /\ Reply(t, req[t], "ENOTEMPTY")
     \/ /\ ListingWorks(t) /\ req[t].todo \ {p} = {}
        /\ req' = [req EXCEPT ![t].todo = {}]
        /\ Goto(t, "delete_marker")
        /\ UNCHANGED answer
  /\ UNCHANGED <<store, table, caches, calls, meant>>

\* An error of this delete is ignored.
RmdirDelete(t) ==
  LET p == req[t].path IN
  /\ pc[t] = "delete_marker"
  /\ \/ markers' = markers \ {p}
     \/ StoreMayFail /\ UNCHANGED markers
  /\ Continue(t, Forget(p), "ok")
  /\ UNCHANGED <<files, table, caches, calls, meant>>

-----------------------------------------------------------------------------
(* do_rename: copy, then delete *)

Rename(t, old, new) ==
  /\ old \in DOMAIN paths /\ Exists(old) /\ old # new /\ ~IsDir(new)
  /\ ~Seqs!IsStrictPrefix(old, new)
  /\ Begin(t, "copy", "rename", old, new, NoInode)

\* Mutant: a failed copy does not keep the old object from being deleted.
RenameCopyUnchecked(t) ==
  LET old == req[t].path
      new == req[t].new
      copied == Insert(files, new, files[old])
  IN
  /\ pc[t] = "copy"
  /\ \/ IsFile(old) /\ files' = copied
     \/ StoreMayFail /\ IsFile(old) /\ files' \in {files, copied}
  /\ Await(t, "delete_old")
  /\ meant' = meant \cup ContentsOf(new)
  /\ UNCHANGED <<markers, table, caches, calls>>

\* Copying a path that is not a file's fails.
RenameCopy(t) ==
  LET old == req[t].path
      new == req[t].new
      copied == Insert(files, new, files[old])
  IN
  /\ pc[t] = "copy"
  /\ \/ IsFile(old) /\ files' = copied /\ Await(t, "delete_old")
     \/ ~IsFile(old) /\ UNCHANGED files /\ Reply(t, req[t], "EIO")
     \/ /\ StoreMayFail /\ IsFile(old)
        /\ files' \in {files, copied}
        /\ Reply(t, req[t], "EIO")
  /\ meant' = meant \cup ContentsOf(new)
  /\ UNCHANGED <<markers, table, caches, calls>>

Renamed(old, new) == <<Call("rename_inode", old, ""), Call("find_inode", new, ""),
                       Call("invalidate_attr", new, "")>>

RenameDelete(t) ==
  LET old == req[t].path IN
  /\ pc[t] = "delete_old"
  /\ \/ files' = Remove(files, old) /\ Continue(t, Renamed(old, req[t].new), "ok")
     \/ StoreMayFail /\ files' \in {files, Remove(files, old)} /\ Reply(t, req[t], "EIO")
  /\ UNCHANGED <<markers, table, caches, calls, meant>>

-----------------------------------------------------------------------------
(* The script: calls on the inode table and the metadata cache *)

Calling(t, do) == pc[t] = "script" /\ req[t].script # <<>> /\ Head(req[t].script).do = do
Called(t) == Head(req[t].script)

\* The call returns, leaving the handler with the number i.
Go(t, i) ==
  /\ req' = [req EXCEPT ![t].script = Tail(@), ![t].inode = i]
  /\ UNCHANGED <<store, pc, calls, answer, meant>>

\* get_or_create_inode.
CreateInode(t) ==
  LET p == Called(t).path IN
  /\ Calling(t, "create_inode")
  /\ \/ p \in DOMAIN paths /\ Go(t, paths[p]) /\ UNCHANGED table
     \/ /\ p \notin DOMAIN paths
        /\ Go(t, next_inode)
        /\ paths' = Insert(paths, p, next_inode)
        /\ entries' = Insert(entries, next_inode, p)
        /\ next_inode' = next_inode + 1
  /\ UNCHANGED caches

PutAttr(t) ==
  /\ Calling(t, "put_attr") /\ Go(t, req[t].inode)
  /\ attrs' = Insert(attrs, req[t].inode, Called(t).kind)
  /\ UNCHANGED <<table, negatives>>

PutNegative(t) ==
  /\ Calling(t, "put_negative") /\ Go(t, req[t].inode)
  /\ negatives' = negatives \cup {Called(t).path}
  /\ UNCHANGED <<table, attrs>>

RemoveNegative(t) ==
  /\ Calling(t, "remove_negative") /\ Go(t, req[t].inode)
  /\ negatives' = negatives \ {Called(t).path}
  /\ UNCHANGED <<table, attrs>>

\* get_inode; the calls that follow do nothing without a number.
FindInode(t) ==
  /\ Calling(t, "find_inode") /\ Go(t, Get(paths, Called(t).path, NoInode))
  /\ UNCHANGED <<table, caches>>

InvalidateAttr(t) ==
  /\ Calling(t, "invalidate_attr") /\ Go(t, req[t].inode)
  /\ attrs' = Remove(attrs, req[t].inode)
  /\ UNCHANGED <<table, negatives>>

RemoveInode(t) ==
  LET i == req[t].inode IN
  /\ Calling(t, "remove_inode") /\ Go(t, i)
  /\ entries' = Remove(entries, i)
  /\ paths' = IF i \in DOMAIN entries THEN Remove(paths, entries[i]) ELSE paths
  /\ UNCHANGED <<next_inode, caches>>

\* rename of the table: the number follows the file to its new path.
RenameInode(t) ==
  LET old == req[t].path
      new == req[t].new
  IN
  /\ Calling(t, "rename_inode") /\ Go(t, NoInode)
  /\ \/ old \notin DOMAIN paths /\ UNCHANGED <<paths, entries>>
     \/ /\ old \in DOMAIN paths
        /\ paths' = Insert(Remove(paths, old), new, paths[old])
        /\ entries' = IF paths[old] \in DOMAIN entries
                      THEN Insert(entries, paths[old], new) ELSE entries
  /\ UNCHANGED <<next_inode, caches>>

Finish(t) ==
  /\ pc[t] = "script" /\ req[t].script = <<>> /\ req[t].todo = {}
  /\ Reply(t, req[t], req[t].result)
  /\ UNCHANGED <<store, table, caches, calls, meant>>

-----------------------------------------------------------------------------
(* Entries of the caches expire, or make room for others. *)

ExpireAttr(i) ==
  /\ i \in DOMAIN attrs
  /\ attrs' = Remove(attrs, i)
  /\ UNCHANGED <<store, table, negatives, pc, req, calls, answer, meant>>

ExpireNegative(p) ==
  /\ p \in negatives
  /\ negatives' = negatives \ {p}
  /\ UNCHANGED <<store, table, attrs, pc, req, calls, answer, meant>>

-----------------------------------------------------------------------------
Arrive(t) ==
  \/ \E p \in Paths : Lookup(t, p) \/ Create(t, p) \/ Mkdir(t, p) \/ Unlink(t, p) \/ Rmdir(t, p)
  \/ \E old, new \in Paths : Rename(t, old, new)
  \/ \E p \in Paths \cup {Root} : Readdir(t, p)
  \/ \E i \in DOMAIN entries : GetAttr(t, i)

Advance(t) ==
  \/ StatFile(t) \/ StatDir(t) \/ List(t) \/ LookupListed(t) \/ StatAttr(t)
  \/ ReaddirListed(t) \/ NextEntry(t) \/ CreatePut(t) \/ MkdirPut(t)
  \/ UnlinkDelete(t) \/ RmdirListed(t) \/ RmdirDelete(t) \/ RenameCopy(t) \/ RenameDelete(t)
  \/ CreateInode(t) \/ PutAttr(t) \/ PutNegative(t) \/ RemoveNegative(t) \/ FindInode(t)
  \/ InvalidateAttr(t) \/ RemoveInode(t) \/ RenameInode(t) \/ Finish(t)

Quiescent == \A t \in Tasks : pc[t] = "idle"

\* Every request of the bound has been made and answered.
Exhausted == calls = MaxCalls /\ Quiescent /\ UNCHANGED vars

Next ==
  \/ \E t \in Tasks : Arrive(t) \/ Advance(t)
  \/ \E i \in DOMAIN attrs : ExpireAttr(i)
  \/ \E p \in negatives : ExpireNegative(p)
  \/ Exhausted

Spec == Init /\ [][Next]_vars

-----------------------------------------------------------------------------
OpNames == {"lookup", "getattr", "readdir", "create", "mkdir", "unlink", "rmdir", "rename"}
Results == {"ok", "ENOENT", "EIO", "ENOTEMPTY"}
Kinds == {"file", "dir"}
Labels == {"idle", "stat", "stat_dir", "list", "listed", "stat_attr", "list_dir", "listed_dir",
           "put", "put_marker", "delete", "list_rmdir", "listed_rmdir", "delete_marker",
           "copy", "delete_old", "script"}

\* Paths the table may hold: those of the tree, and those readdir derives.
TablePaths == Paths \cup {Root} \cup {Child(p, p) : p \in Paths}

\* The type of the name space.
TypeOK ==
  /\ DOMAIN files \subseteq Paths /\ markers \subseteq Paths
  /\ DOMAIN paths \subseteq TablePaths /\ \A p \in DOMAIN paths : paths[p] \in Nat
  /\ DOMAIN entries \subseteq Nat /\ \A i \in DOMAIN entries : entries[i] \in TablePaths
  /\ next_inode \in Nat
  /\ DOMAIN attrs \subseteq Nat /\ \A i \in DOMAIN attrs : attrs[i] \in Kinds
  /\ negatives \subseteq Paths
  /\ pc \in [Tasks -> Labels]
  /\ \A t \in Tasks : req[t].op \in OpNames \cup {"none"} /\ req[t].result \in Results
  /\ answer.result \in Results

\* Nothing a file ever held is lost: the contents of every file created stay in
\* the store, under some path, until a request to remove or replace that file
\* is carried out, whatever fails between rename's copy and its delete and
\* however requests of other tasks come in between.
Contents == {files[p] : p \in DOMAIN files}
ContentsKept ==
  [][\A c \in Contents : c \in Contents' \cup meant']_vars

\* Between requests, the negative cache holds no path that exists
\* (doc/benchmark-design.md: a created file can be looked up at once).
NegativeIsAbsent == Quiescent => \A p \in negatives : ~Exists(p)

\* Between requests, cached attributes of a path agree with the store: what was
\* removed is not found any more, and what is found has the right kind.
CachedKindsAgree ==
  Quiescent =>
    \A p \in DOMAIN paths : paths[p] \in DOMAIN attrs =>
      IF attrs[paths[p]] = "file" THEN IsFile(p) ELSE IsDir(p)

\* The kernel is told the truth: between requests, the last answer agrees with
\* the store.  A lookup found the name just when there is something of that
\* name; a file that exists has attributes; a removed name is gone, and a
\* directory that was not empty is not.
AnswersAreTrue ==
  Quiescent =>
    LET p == answer.path IN
    CASE answer.op = "lookup" -> answer.result = "ok" <=> Exists(p)
      [] answer.op = "getattr" -> answer.result = "ENOENT" => ~IsFile(p)
      [] answer.op = "unlink" -> answer.result = "ok" => ~IsFile(p)
      [] answer.op = "rmdir" -> IF answer.result = "ok" THEN ~IsDir(p) ELSE Below(p) # {}
      [] OTHER -> answer.op # "none" => answer.result = "ok" /\ Exists(p)
==============================================================================
