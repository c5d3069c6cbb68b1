------------------------------ MODULE FrontEnds ------------------------------
(***************************************************************************)
(* What the two front ends, src/fs/fuse_impl.rs and src/fs/winfsp_impl.rs, *)
(* make of the kernel's requests: names, handles, buffered bytes and       *)
(* directory streams.  FUSE names files by inode number and directory      *)
(* positions by offset; WinFSP names files by path, gives each open file a *)
(* context, deletes in `cleanup', and continues a listing after the last   *)
(* name it delivered.                                                      *)
(*                                                                         *)
(* A request is atomic up to the calls of the store that change objects:   *)
(* a PUT is under way in `puts', a removal or rename in `pending', and a   *)
(* write or truncation that has its path and waits for the buffer in       *)
(* `changes'.  The kernel runs one change of the name space at a time.     *)
(* The metadata cache is left out, for it only decides which of the true   *)
(* and the refused answers a lookup gives; requests that are refused and   *)
(* change nothing are left out too.                                        *)
(***************************************************************************)
EXTENDS Naturals, Sequences, FiniteSets

Map == INSTANCE DashMap
Seqs == INSTANCE SequencesExt

CONSTANTS
  Files, Dirs,      \* paths below the root, a path being the sequence of its names
  Order,            \* all of them, in the order in which the store lists them
  InitObjects,      \* files and directory markers the store holds at the mount
  StoreMayFail,     \* whether calls of the store may fail
  PageSize,         \* most entries the kernel takes from one answer
  MaxInode, MaxHandles, MaxCalls  \* bounds on numbers handed out and on requests

Paths == Files \cup Dirs
Names == UNION {{p[n] : n \in DOMAIN p} : p \in Paths}
ASSUME NamesAssumption == Paths \subseteq Seq(Names) /\ <<>> \notin Paths
ASSUME OrderAssumption ==
  Order \in Seq(Paths) /\ Paths = Seqs!ToSet(Order) /\ InitObjects \subseteq Paths

VARIABLES
  platform,     \* which front end was built
  objects,      \* the store: files and directory markers
  table,        \* the inode table, as a record of its two maps and its counter
  buffers,      \* write buffer: per inode, its object and whether it holds bytes
  handles,      \* handle table: the open handles
  next_handle,
  contexts,     \* the kernel's open files: by handle, what it knows of each
  doomed,       \* the kernel's marks (WinFSP): inodes to delete at the last cleanup
  puts,         \* PUTs under way, with the handle to close after each (0: none)
  changes,      \* writes and truncations between get_path and the write buffer
  pending,      \* the removal or rename under way
  calls,        \* requests made so far that open, change or name files
  removed       \* history: removed names, and whether something of the file was left

files == <<buffers, puts, changes>>
kernel == <<handles, next_handle, contexts, doomed>>
vars == <<platform, objects, table, files, kernel, pending, calls, removed>>

Root == <<>>
Dot == <<".">>
DotDot == <<"..">>
Parent(p) == SubSeq(p, 1, Len(p) - 1)
None == [op |-> "none", path |-> Root, new |-> Root, fh |-> 0]

Init ==
  /\ platform \in {"fuse", "winfsp"}
  /\ objects = InitObjects
  /\ table = [paths |-> [p \in {Root} |-> 1], entries |-> [i \in {1} |-> Root], next |-> 2]
  /\ buffers = Map!EmptyMap /\ puts = {} /\ changes = {}
  /\ handles = {} /\ next_handle = 1 /\ contexts = Map!EmptyMap /\ doomed = {}
  /\ pending = None /\ calls = 0 /\ removed = Map!EmptyMap

Fuse == platform = "fuse" /\ UNCHANGED platform
WinFsp == platform = "winfsp" /\ UNCHANGED platform
Count == calls < MaxCalls /\ calls' = calls + 1
Free == pending = None

-----------------------------------------------------------------------------
(* The inode table, method by method (InodeManager has their interleavings) *)

Live(i) == i \in DOMAIN table.entries
Mapped(p) == p \in DOMAIN table.paths

GetOrCreate(tb, p) ==
  IF p \in DOMAIN tb.paths THEN tb
  ELSE [paths |-> Map!Insert(tb.paths, p, tb.next),
        entries |-> Map!Insert(tb.entries, tb.next, p),
        next |-> tb.next + 1]

\* Mutant: the inode of a removed name stays in the table.
ForgetNothing(tb, p) == tb

\* get_inode, then remove: the path that goes is the one in the entry.
Forget(tb, p) ==
  IF p \in DOMAIN tb.paths /\ tb.paths[p] \in DOMAIN tb.entries
  THEN [tb EXCEPT !.paths = Map!Remove(@, tb.entries[tb.paths[p]]),
                  !.entries = Map!Remove(@, tb.paths[p])]
  ELSE tb

\* A number that `new' had before keeps its entry.
Moved(tb, old, new) ==
  IF old \notin DOMAIN tb.paths THEN tb
  ELSE LET i == tb.paths[old] IN
       [tb EXCEPT !.paths = Map!Insert(Map!Remove(@, old), new, i),
                  !.entries = IF i \in DOMAIN @ THEN Map!Insert(@, i, new) ELSE @]

\* The numbers that the bound leaves.
Become(tb) == tb.next <= MaxInode + 1 /\ table' = tb

\* get_or_create_inode of several names, one after the other.
NumberAll(names) ==
  LET after[n \in 0..Len(names)] ==
        IF n = 0 THEN table ELSE GetOrCreate(after[n - 1], names[n])
  IN after[Len(names)]

\* do_lookup of every name on the way to p; it is there, or still cached.
Walk(p) == NumberAll([n \in 1..Len(p) |-> SubSeq(p, 1, n)])
Found(p) == p = Root \/ p \in objects \/ Mapped(p)

-----------------------------------------------------------------------------
(* Listing a directory *)

\* Names in the order in which the store lists them.
Sorted(names) ==
  LET upTo[n \in 0..Len(Order)] ==
        IF n = 0 THEN <<>>
        ELSE IF Order[n] \in names THEN Append(upTo[n - 1], Order[n])
        ELSE upTo[n - 1]
  IN upTo[Len(Order)]

\* The children as the store lists them: the directory's own marker, which is
\* taken for a child of the same name, and the objects one level down.
Children(p, objs) ==
  (IF p \in objs THEN <<Append(p, p[Len(p)])>> ELSE <<>>)
    \o Sorted({q \in objs : Parent(q) = p})

\* Mutant: entries are skipped while their offset is below the one asked for.
FromOffsetBefore(p, offset) ==
  LET c == Children(p, objects)
      skipped == IF offset <= 3 THEN 0 ELSE offset - 3
  IN (IF offset < 1 THEN <<Dot>> ELSE <<>>) \o (IF offset < 2 THEN <<DotDot>> ELSE <<>>)
       \o SubSeq(c, skipped + 1, Len(c))

\* do_readdir: the dots have offsets 1 and 2, the children go on from 3.
ChildrenFrom(p, offset) ==
  LET c == Children(p, objects)
      skipped == IF offset <= 2 THEN 0 ELSE offset - 2
  IN SubSeq(c, skipped + 1, Len(c))

FromOffset(p, offset) ==
  (IF offset < 1 THEN <<Dot>> ELSE <<>>) \o (IF offset < 2 THEN <<DotDot>> ELSE <<>>)
    \o ChildrenFrom(p, offset)

\* read_directory: what follows the marker in a listing made from its beginning.
AfterMarker(p, marker) ==
  LET all == FromOffset(p, 0)
      at == {n \in 1..Len(all) : all[n] = marker}
  IN IF marker = Root THEN all
     ELSE IF at = {} THEN <<>>
     ELSE SubSeq(all, (CHOOSE n \in at : \A m \in at : n <= m) + 1, Len(all))

\* do_readdir gives every child it returns a number.
Numbered(p, offset) == NumberAll(ChildrenFrom(p, offset))

\* How far a stream has come, and (history) what was there when it began and what
\* has gone or come since.
NoScan == [begun |-> FALSE, got |-> <<>>, first |-> {}, gone |-> {}, come |-> {}, done |-> FALSE]

Noted(c, objs) ==
  IF ~c.scan.begun \/ ~Live(c.inode) THEN c
  ELSE LET p == table.entries[c.inode]
           old == Seqs!ToSet(Children(p, objects))
           new == Seqs!ToSet(Children(p, objs))
       IN [c EXCEPT !.scan.gone = @ \cup (old \ new), !.scan.come = @ \cup (new \ old)]

Store(objs, ctx) ==
  /\ objects' = objs
  /\ contexts' = [fh \in DOMAIN ctx |-> Noted(ctx[fh], objs)]

-----------------------------------------------------------------------------
(* Opening *)

NewContext(i, dir) == [inode |-> i, dir |-> dir, cleaned |-> FALSE, scan |-> NoScan]

OpenHandle ==
  /\ next_handle <= MaxHandles /\ Count
  /\ next_handle' = next_handle + 1
  /\ handles' = handles \cup {next_handle}

Give(i, dir) == Map!Insert(contexts, next_handle, NewContext(i, dir))

\* LOOKUP: the kernel learns the number of a name.
Lookup(p) ==
  /\ Fuse /\ p \in objects /\ ~Mapped(p) /\ Mapped(Parent(p))
  /\ Become(GetOrCreate(table, p))
  /\ UNCHANGED <<objects, files, kernel, pending, calls, removed>>

\* OPEN and OPENDIR of a number the kernel was told, whatever has become of it.
OpenInode(i, dir) ==
  /\ Fuse /\ OpenHandle
  /\ Live(i) => (dir <=> table.entries[i] \notin Files)
  /\ contexts' = Give(i, dir)
  /\ UNCHANGED <<objects, table, files, doomed, pending, removed>>

\* get_security_by_name numbers every name on the way, a walk that fails further
\* down included.
GetSecurity(p) ==
  /\ WinFsp /\ Free /\ Found(p) /\ Found(Parent(p)) /\ ~Mapped(p) /\ Count
  /\ Become(Walk(p))
  /\ UNCHANGED <<objects, files, kernel, pending, removed>>

\* open, which walks the same way.  With delete-on-close the kernel marks the
\* file; nobody opens a marked one.
OpenPath(p, delete) ==
  LET tb == Walk(p) IN
  /\ WinFsp /\ Free /\ Found(p) /\ Found(Parent(p)) /\ OpenHandle /\ Become(tb)
  /\ tb.paths[p] \notin doomed
  /\ contexts' = Give(tb.paths[p], p \notin Files)
  /\ doomed' = IF delete /\ p # Root THEN doomed \cup {tb.paths[p]} ELSE doomed
  /\ UNCHANGED <<objects, files, pending, removed>>

\* do_create and do_mkdir: an empty object or a marker, and a number.
Made(p) ==
  /\ Free /\ Found(Parent(p))
  /\ removed' = Map!Remove(removed, p)
  /\ UNCHANGED <<files, doomed, pending>>

\* CREATE replies with a handle, and so does WinFSP's create of either kind.
Create(p) ==
  /\ UNCHANGED platform
  /\ platform = "fuse" => p \in Files
  /\ Made(p) /\ OpenHandle
  /\ LET tb == GetOrCreate(IF platform = "fuse" THEN table ELSE Walk(Parent(p)), p) IN
     /\ Become(tb) /\ tb.paths[p] \notin doomed
     /\ Store(objects \cup {p}, Give(tb.paths[p], p \in Dirs))

Mkdir(p) ==
  /\ Fuse /\ p \in Dirs /\ Count /\ Made(p)
  /\ Become(GetOrCreate(table, p))
  /\ Store(objects \cup {p}, contexts)
  /\ UNCHANGED <<handles, next_handle>>

-----------------------------------------------------------------------------
(* Files *)

OpenFiles == {fh \in DOMAIN contexts : ~contexts[fh].dir /\ ~contexts[fh].cleaned}

\* do_write and do_truncate take the path and go to wait for the write buffer.
\* SETATTR may come without a handle; a WRITE, set_file_size or overwrite has one.
Accept(op, i) ==
  /\ UNCHANGED platform
  /\ Count /\ Live(i) /\ changes = {}
  /\ \/ \E fh \in OpenFiles : contexts[fh].inode = i
     \/ platform = "fuse" /\ op # "write" /\ table.entries[i] \in Files
  /\ changes' = {[op |-> op, inode |-> i, path |-> table.entries[i]]}
  /\ UNCHANGED <<objects, table, buffers, puts, kernel, pending, removed>>

Put(p, fh) == [path |-> p, fh |-> fh]
NewBuffer(c) == Map!Get(buffers, c.inode, [path |-> c.path, full |-> FALSE])

\* The bytes stay in the buffer; or it is flushed; or it is flushed and the bytes
\* are PUT by themselves, under the path the request came with.
Written(c) ==
  LET buffer == NewBuffer(c)
      flushed == IF buffer.full THEN {Put(buffer.path, 0)} ELSE {}
      Leave(full) == buffers' = Map!Insert(buffers, c.inode, [buffer EXCEPT !.full = full])
  IN
  /\ c.op = "write"
  /\ \/ Leave(TRUE) /\ UNCHANGED puts
     \/ Leave(FALSE) /\ puts' = puts \cup {Put(buffer.path, 0)}
     \/ Leave(FALSE) /\ puts' = puts \cup flushed \cup {Put(c.path, 0)}

\* Buffered bytes go; to 0, an empty object is PUT as well.
Truncated(c) ==
  /\ c.op = "truncate"
  /\ buffers' = Map!Insert(buffers, c.inode, [NewBuffer(c) EXCEPT !.full = FALSE])
  /\ puts' \in {puts, puts \cup {Put(c.path, 0)}}

Apply(c) ==
  /\ UNCHANGED platform
  /\ Written(c) \/ Truncated(c)
  /\ changes' = changes \ {c}
  /\ UNCHANGED <<objects, table, kernel, pending, calls, removed>>

\* FLUSH, FSYNC and WinFSP's flush.
Flush(fh) ==
  LET i == contexts[fh].inode IN
  /\ UNCHANGED platform
  /\ fh \in OpenFiles /\ i \in DOMAIN buffers /\ buffers[i].full
  /\ puts' = puts \cup {Put(buffers[i].path, 0)}
  /\ buffers' = Map!Insert(buffers, i, [buffers[i] EXCEPT !.full = FALSE])
  /\ UNCHANGED <<objects, table, changes, kernel, pending, calls, removed>>

\* The store answers a PUT; after a failure do_release leaves its handle open.
PutDone(w) ==
  /\ UNCHANGED platform
  /\ puts' = puts \ {w}
  /\ \/ Store(objects \cup {w.path}, contexts) /\ handles' = handles \ {w.fh}
     \/ StoreMayFail /\ UNCHANGED <<objects, contexts, handles>>
  /\ UNCHANGED <<table, buffers, changes, next_handle, doomed, pending, calls, removed>>

\* Mutant: the handle is closed before the flush.
ReleaseAtOnce(fh) ==
  LET i == contexts[fh].inode
      full == i \in DOMAIN buffers /\ buffers[i].full
  IN
  /\ fh \in DOMAIN contexts /\ ~contexts[fh].dir
  /\ contexts' = Map!Remove(contexts, fh)
  /\ buffers' = Map!Remove(buffers, i)
  /\ puts' = IF full THEN puts \cup {Put(buffers[i].path, fh)} ELSE puts
  /\ handles' = handles \ {fh}
  /\ UNCHANGED <<changes, next_handle>>

\* RELEASE, and close of a file: the buffer goes, its bytes are PUT.
Release(fh) ==
  LET i == contexts[fh].inode
      full == i \in DOMAIN buffers /\ buffers[i].full
  IN
  /\ fh \in DOMAIN contexts /\ ~contexts[fh].dir
  /\ contexts' = Map!Remove(contexts, fh)
  /\ buffers' = Map!Remove(buffers, i)
  /\ puts' = IF full THEN puts \cup {Put(buffers[i].path, fh)} ELSE puts
  /\ handles' = IF full THEN handles ELSE handles \ {fh}
  /\ UNCHANGED <<changes, next_handle>>

\* RELEASEDIR, and close of a directory.
Releasedir(fh) ==
  /\ fh \in DOMAIN contexts /\ contexts[fh].dir
  /\ contexts' = Map!Remove(contexts, fh)
  /\ handles' = handles \ {fh}
  /\ UNCHANGED <<files, next_handle>>

\* WinFSP closes a context after its cleanup, and after the last one forgets the mark.
Close(fh) ==
  /\ UNCHANGED platform
  /\ Release(fh) \/ Releasedir(fh)
  /\ platform = "winfsp" => contexts[fh].cleaned /\ pending.fh # fh
  /\ doomed' = doomed \cap {contexts[g].inode : g \in DOMAIN contexts \ {fh}}
  /\ UNCHANGED <<objects, table, pending, calls, removed>>

-----------------------------------------------------------------------------
(* Removing and renaming: the store first, then the inode table *)

Start(op, p, q, fh) == pending' = [op |-> op, path |-> p, new |-> q, fh |-> fh]

\* do_rmdir finds nothing below the directory but its marker.
Removable(p) == p \in Dirs => \A q \in objects : Parent(q) # p

\* do_unlink and do_rmdir up to the store's answer to the delete; rmdir takes no
\* notice of an error.
Delete(p, ctx) ==
  /\ Removable(p)
  /\ \/ Store(objects \ {p}, ctx)
     \/ StoreMayFail /\ p \in Dirs /\ Store(objects, ctx)

\* UNLINK and RMDIR.
Remove(p) ==
  /\ Fuse /\ Free /\ Count /\ Mapped(Parent(p)) /\ p \in objects
  /\ Delete(p, contexts)
  /\ Start("remove", p, Root, 0)
  /\ UNCHANGED <<table, files, handles, next_handle, doomed, removed>>

\* The kernel asks before it marks a file: a directory must list nothing but the
\* dots.  (With delete-on-close it does not ask.)
CanDelete(fh) ==
  LET i == contexts[fh].inode
      children == IF contexts[fh].dir THEN ChildrenFrom(table.entries[i], 2) ELSE <<>>
  IN
  /\ WinFsp /\ fh \in DOMAIN contexts /\ ~contexts[fh].cleaned
  /\ i # 1 /\ (contexts[fh].dir => Live(i))
  /\ Become(NumberAll(children))
  /\ doomed' = IF children = <<>> THEN doomed \cup {i} ELSE doomed
  /\ UNCHANGED <<objects, files, handles, next_handle, contexts, pending, calls, removed>>

\* The kernel ends the use of a context; with the last one of a marked file it
\* asks for the deletion of what the inode is called by now.
Cleanup(fh) ==
  LET i == contexts[fh].inode
      last == \A g \in DOMAIN contexts \ {fh} : contexts[g].inode = i => contexts[g].cleaned
      deleting == last /\ i \in doomed /\ Live(i) /\ Mapped(Parent(table.entries[i]))
      ctx == [contexts EXCEPT ![fh].cleaned = TRUE]
  IN
  /\ WinFsp /\ Free /\ fh \in DOMAIN contexts /\ ~contexts[fh].cleaned
  /\ \/ /\ deleting
        /\ Delete(table.entries[i], ctx)
        /\ Start("remove", table.entries[i], Root, fh)
     \/ /\ deleting => StoreMayFail \/ ~Removable(table.entries[i])
        /\ contexts' = ctx
        /\ UNCHANGED <<objects, pending>>
  /\ UNCHANGED <<table, files, handles, next_handle, doomed, calls, removed>>

\* RENAME up to the answer to the copy.  The store has no object of a directory's
\* path without the slash, so that only files can be renamed.
Copy(p, q) ==
  /\ Free /\ Count /\ p # q /\ {p, q} \subseteq Files /\ p \in objects
  /\ {Parent(p), Parent(q)} \subseteq DOMAIN table.paths
  /\ Store(objects \cup {q}, contexts)
  /\ Start("rename", p, q, 0)
  /\ removed' = Map!Remove(removed, q)
  /\ UNCHANGED <<table, files, handles, next_handle, doomed>>

Rename(p, q) == Fuse /\ Copy(p, q)

\* WinFSP's rename starts from an open context and finds the old path itself.
RenameOpen(fh, q) ==
  /\ WinFsp /\ fh \in DOMAIN contexts /\ ~contexts[fh].cleaned
  /\ Live(contexts[fh].inode) /\ Copy(table.entries[contexts[fh].inode], q)

\* Something of the removed file is left that may bring its name back: bytes in a
\* buffer or on their way, a buffer under its name that belongs to another live
\* file, or a number it lost to a rename and that still goes by its name.
Haunted(p, buffered, named) ==
  \/ \E w \in puts : w.path = p
  \/ \E c \in changes : p \in {c.path, NewBuffer(c).path}
  \/ \E i \in DOMAIN buffers :
       buffers[i].path = p /\ (buffers[i].full \/ (Live(i) /\ i \notin buffered))
  \/ \E i \in DOMAIN table.entries \ named : table.entries[i] = p

\* The end of do_unlink and do_rmdir.
Removed ==
  LET p == pending.path
      own == IF Mapped(p) THEN {table.paths[p]} ELSE {}
  IN
  /\ pending.op = "remove"
  /\ table' = Forget(table, p)
  /\ removed' = Map!Insert(removed, p, Haunted(p, own, own) \/ p \in objects)
  /\ UNCHANGED <<objects, contexts>>

\* The answer to a rename's delete, and the end of do_rename.
Renamed ==
  LET p == pending.path
      own == IF Mapped(p) THEN {table.paths[p]} ELSE {}
  IN
  /\ pending.op = "rename"
  /\ \/ /\ Store(objects \ {p}, contexts)
        /\ table' = Moved(table, p, pending.new)
        /\ removed' = Map!Insert(removed, p, Haunted(p, {}, own))
     \/ StoreMayFail /\ UNCHANGED <<objects, contexts, table, removed>>

Finish ==
  /\ UNCHANGED platform
  /\ Removed \/ Renamed
  /\ pending' = None
  /\ UNCHANGED <<files, handles, next_handle, doomed, calls>>

-----------------------------------------------------------------------------
(* Directory streams *)

\* The kernel takes n of the entries offered, or all; none means the end.
Taken(fh, offered, n) ==
  LET c == contexts[fh]
      s == IF c.scan.begun THEN c.scan
           ELSE [c.scan EXCEPT !.begun = TRUE,
                               !.first = Seqs!ToSet(Children(table.entries[c.inode], objects))]
  IN
  /\ fh \in DOMAIN contexts /\ c.dir /\ ~c.scan.done
  /\ n <= Len(offered) /\ (n = 0 => offered = <<>>)
  /\ contexts' = [contexts EXCEPT ![fh].scan =
       [s EXCEPT !.got = @ \o SubSeq(offered, 1, n), !.done = (n = 0)]]
  /\ UNCHANGED <<objects, files, handles, next_handle, doomed, pending, calls, removed>>

\* READDIR goes on from the offset of the last entry taken.
Readdir(fh, n) ==
  LET i == contexts[fh].inode
      offered == FromOffset(table.entries[i], Len(contexts[fh].scan.got))
  IN
  /\ Fuse /\ Live(i)
  /\ Become(Numbered(table.entries[i], Len(contexts[fh].scan.got))) /\ Taken(fh, offered, n)

\* ReadDirectory goes on after the name of the last one.
ReadDirectory(fh, n) ==
  LET i == contexts[fh].inode
      got == contexts[fh].scan.got
      offered == AfterMarker(table.entries[i], IF got = <<>> THEN Root ELSE got[Len(got)])
  IN
  /\ WinFsp /\ Live(i) /\ ~contexts[fh].cleaned
  /\ Become(Numbered(table.entries[i], 0)) /\ Taken(fh, offered, n)

-----------------------------------------------------------------------------
Opening ==
  \/ \E p \in Paths : Lookup(p) \/ GetSecurity(p) \/ Create(p) \/ Mkdir(p)
  \/ \E i \in 1..(table.next - 1), dir \in BOOLEAN : OpenInode(i, dir)
  \/ \E p \in Paths \cup {Root}, delete \in BOOLEAN : OpenPath(p, delete)

Filing ==
  \/ \E op \in {"write", "truncate"}, i \in DOMAIN table.entries : Accept(op, i)
  \/ \E c \in changes : Apply(c)
  \/ \E w \in puts : PutDone(w)
  \/ \E fh \in DOMAIN contexts : Flush(fh) \/ Close(fh)

Naming ==
  \/ \E p \in Paths : Remove(p) \/ \E q \in Paths : Rename(p, q)
  \/ \E fh \in DOMAIN contexts :
       CanDelete(fh) \/ Cleanup(fh) \/ \E q \in Files : RenameOpen(fh, q)
  \/ Finish

Listing == \E fh \in DOMAIN contexts, n \in 0..PageSize : Readdir(fh, n) \/ ReadDirectory(fh, n)

\* Nobody has to make a request; what is under way has to end.
Quiescent == puts = {} /\ changes = {} /\ pending = None /\ UNCHANGED vars

Next == Opening \/ Filing \/ Naming \/ Listing \/ Quiescent

Spec == Init /\ [][Next]_vars

-----------------------------------------------------------------------------
\* The type of the state; every open file has a handle, and so has a release
\* whose PUT is under way.
TypeOK ==
  /\ objects \subseteq Paths
  /\ DOMAIN table.entries \subseteq 1..(table.next - 1)
  /\ \A p \in DOMAIN table.paths : table.paths[p] \in 1..(table.next - 1)
  /\ DOMAIN buffers \subseteq 1..(table.next - 1)
  /\ DOMAIN contexts \cup {w.fh : w \in puts} \subseteq handles \cup {0}
  /\ handles \subseteq 1..(next_handle - 1)
  /\ \A fh \in DOMAIN contexts : contexts[fh].scan.got # <<>> => contexts[fh].dir
  /\ pending.op \in {"none", "remove", "rename"}

\* A name that was removed (unlink, rmdir, cleanup) or renamed away stays absent
\* until somebody makes it again, whoever has the file open and goes on writing,
\* truncating, flushing and closing, unless bytes written before the removal were
\* still under way or another live file's buffer went by that name.
RemovalLasts == \A p \in DOMAIN removed : ~removed[p] => p \notin objects

\* A stream that has come to its end has delivered every entry exactly once that
\* was there all the time: over FUSE if the directory did not change meanwhile
\* (positions are counts), over WinFSP if no delivered entry was removed (the
\* last one is the position).
ListingExact ==
  \A fh \in DOMAIN contexts :
    LET s == contexts[fh].scan
        times(x) == Cardinality({n \in DOMAIN s.got : s.got[n] = x})
    IN /\ s.done
       /\ IF platform = "fuse" THEN s.gone \cup s.come = {}
          ELSE Seqs!ToSet(s.got) \cap s.gone = {}
       => /\ \A x \in (s.first \ s.gone) \cup {Dot, DotDot} : times(x) = 1
          /\ \A x \in Seqs!ToSet(s.got) : times(x) = 1
=============================================================================
