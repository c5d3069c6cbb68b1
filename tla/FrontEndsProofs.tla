-------------------------- MODULE FrontEndsProofs ---------------------------
(***************************************************************************)
(* What FrontEnds guarantees for any names, objects, handles and requests, *)
(* over FUSE as over WinFSP: the types of its state, that a removed name   *)
(* stays removed, and that a directory stream delivers each entry once.    *)
(* The numbering of several names and the sorting of a listing are         *)
(* recursive functions; what they compute is shown by induction over sets  *)
(* of numbers (Counting).                                                  *)
(***************************************************************************)
EXTENDS FrontEnds, SequenceTheorems, FiniteSetTheorems, WellFoundedInduction, TLAPS

-----------------------------------------------------------------------------
(* The inductive invariant of the types *)

\* Every mapped name has the entry of its number, numbers in use are below the
\* counter, and the root has the first for itself.
TableFits(tb) ==
  /\ tb = [paths |-> tb.paths, entries |-> tb.entries, next |-> tb.next]
  /\ tb.next \in Nat /\ tb.next > 1
  /\ DOMAIN tb.entries \subseteq 1..(tb.next - 1)
  /\ \A p \in DOMAIN tb.paths :
       tb.paths[p] \in DOMAIN tb.entries /\ tb.entries[tb.paths[p]] = p
  /\ Root \in DOMAIN tb.paths /\ tb.paths[Root] = 1
  /\ \A i \in DOMAIN tb.entries : tb.entries[i] = Root => i = 1

Known == 1..(table.next - 1)

\* Bytes are buffered, taken and put under the names of files.
BytesFit ==
  /\ puts \subseteq [path : Files, fh : Nat]
  /\ changes \subseteq [op : {"write", "truncate"}, inode : Known, path : Files]
  /\ DOMAIN buffers \subseteq Known
  /\ \A i \in DOMAIN buffers : buffers[i] \in [path : Files, full : BOOLEAN]

\* What a directory stream may deliver: names, the dots, and a directory's marker
\* as its own child.
Marker(p) == Append(p, p[Len(p)])
Entries == Paths \cup {Dot, DotDot} \cup {Marker(p) : p \in Paths}

IsScan(s) ==
  /\ s = [begun |-> s.begun, got |-> s.got, first |-> s.first, gone |-> s.gone,
          come |-> s.come, done |-> s.done]
  /\ s.got \in Seq(Entries)

IsContext(c) ==
  /\ c = [inode |-> c.inode, dir |-> c.dir, cleaned |-> c.cleaned, scan |-> c.scan]
  /\ IsScan(c.scan) /\ c.dir \in BOOLEAN /\ (c.scan.got # <<>> => c.dir)

\* Only a file is open as one; nobody asks for the root to be deleted.
ContextsFit ==
  /\ \A fh \in DOMAIN contexts :
       LET i == contexts[fh].inode IN
       /\ IsContext(contexts[fh]) /\ i \in Known
       /\ Live(i) /\ ~contexts[fh].dir => table.entries[i] \in Files
  /\ 1 \notin doomed

\* A handle is the kernel's, or that of one release.
HandlesFit ==
  /\ next_handle \in Nat \ {0} /\ handles \subseteq 1..(next_handle - 1)
  /\ DOMAIN contexts \subseteq handles
  /\ \A w \in puts : w.fh # 0 => w.fh \in handles \ DOMAIN contexts
  /\ \A v, w \in puts : v.fh = w.fh /\ v.fh # 0 => v = w

PendingFits ==
  /\ pending.op \in {"none", "remove", "rename"}
  /\ pending.op # "none" => pending.path # Root
  /\ pending.op = "rename" =>
       /\ pending.path \in Files /\ pending.new \in Files
       /\ pending.path # pending.new /\ pending.new \notin DOMAIN removed

TypeInv ==
  /\ objects \subseteq Paths
  /\ TableFits(table) /\ BytesFit /\ ContextsFit /\ HandlesFit /\ PendingFits

\* A set of numbers has a least one.
LEMMA LeastOf ==
  ASSUME NEW T, T \subseteq Nat, T # {}
  PROVE  \E n \in T : \A m \in T : n <= m
<1> DEFINE Less == OpToRel(<, Nat)
<1>1. IsWellFoundedOn(Less, Nat)
  BY NatLessThanWellFounded
<1>2. \A m, n \in Nat : <<m, n>> \in Less <=> m < n
  BY DEF OpToRel
<1> HIDE DEF Less
<1>3. PICK n \in T : \A m \in T : ~(<<m, n>> \in Less)
  BY <1>1, WFMin
<1>4. ASSUME NEW m \in T PROVE n <= m
  <2>1. n \in Nat /\ m \in Nat /\ ~(m < n)
    BY <1>2, <1>3
  <2> QED
    BY <2>1
<1> QED
  BY <1>4

\* What holds of 0 and goes from each number to the next holds of all.
LEMMA Counting ==
  ASSUME NEW T \in SUBSET Nat, 0 \in T, \A n \in T : n + 1 \in T
  PROVE  T = Nat
<1> DEFINE U == Nat \ T
<1> SUFFICES ASSUME U # {} PROVE FALSE
  OBVIOUS
<1>1. PICK n \in U : \A m \in U : n <= m
  BY LeastOf
<1>2. n \in Nat /\ n # 0 /\ n - 1 \in Nat /\ n - 1 < n /\ n - 1 + 1 = n
  BY <1>1
<1>3. n - 1 \in T
  BY <1>1, <1>2
<1> QED
  BY <1>1, <1>2, <1>3

\* The tables that get_or_create_inode leaves, name by name.
Steps(f, s, m) ==
  f = [n \in 0..m |-> IF n = 0 THEN table ELSE GetOrCreate(f[n - 1], s[n])]

LEMMA StepsExist ==
  ASSUME NEW s, NEW m \in Nat
  PROVE  \E f : Steps(f, s, m)
<1> DEFINE T == {k \in Nat : \E f : Steps(f, s, k)}
<1>1. 0 \in T
  <2> DEFINE f == [n \in 0..0 |-> table]
  <2>1. f = [n \in 0..0 |-> IF n = 0 THEN table ELSE GetOrCreate(f[n - 1], s[n])]
    OBVIOUS
  <2> QED
    BY <2>1 DEF Steps
<1>2. ASSUME NEW k \in T PROVE k + 1 \in T
  <2>1. PICK f : f = [n \in 0..k |-> IF n = 0 THEN table ELSE GetOrCreate(f[n - 1], s[n])]
    BY <1>2 DEF Steps
  <2> DEFINE g == [n \in 0..(k + 1) |-> IF n = k + 1 THEN GetOrCreate(f[k], s[n]) ELSE f[n]]
             h == [n \in 0..(k + 1) |-> IF n = 0 THEN table ELSE GetOrCreate(g[n - 1], s[n])]
  <2>2. k \in Nat
    OBVIOUS
  <2>3. ASSUME NEW n \in 0..(k + 1) PROVE g[n] = h[n]
    <3>1. CASE n = 0
      BY <2>1, <2>2, <3>1
    <3>2. CASE n \in 1..k
      <4>1. n - 1 \in 0..k /\ n \in 0..k /\ n - 1 # k + 1 /\ n # k + 1 /\ n # 0 /\ n - 1 \in 0..(k + 1)
        BY <2>2, <3>2
      <4>2. g[n - 1] = f[n - 1] /\ g[n] = f[n]
        BY <4>1
      <4>3. f[n] = GetOrCreate(f[n - 1], s[n])
        BY <2>1, <4>1
      <4> QED
        BY <4>1, <4>2, <4>3
    <3>3. CASE n = k + 1
      <4>1. n - 1 = k /\ n # 0 /\ k \in 0..(k + 1) /\ k # k + 1
        BY <2>2, <3>3
      <4>2. g[k] = f[k]
        BY <4>1
      <4> QED
        BY <3>3, <4>1, <4>2
    <3> QED
      BY <2>2, <3>1, <3>2, <3>3
  <2>4. g = h
    BY <2>3
  <2> HIDE DEF g
  <2>5. Steps(g, s, k + 1)
    BY <2>4 DEF Steps
  <2> QED
    BY <2>2, <2>5
<1>3. T = Nat
  BY <1>1, <1>2, Counting
<1> QED
  BY <1>3

LEMMA NumberSteps ==
  ASSUME NEW s, Len(s) \in Nat
  PROVE  \E f : Steps(f, s, Len(s)) /\ NumberAll(s) = f[Len(s)]
<1> DEFINE after[n \in 0..Len(s)] ==
             IF n = 0 THEN table ELSE GetOrCreate(after[n - 1], s[n])
<1>1. NumberAll(s) = after[Len(s)]
  BY DEF NumberAll
<1>2. after = CHOOSE f : f = [n \in 0..Len(s) |->
                                IF n = 0 THEN table ELSE GetOrCreate(f[n - 1], s[n])]
  OBVIOUS
<1>3. \E f : f = [n \in 0..Len(s) |-> IF n = 0 THEN table ELSE GetOrCreate(f[n - 1], s[n])]
  BY StepsExist DEF Steps
<1> HIDE DEF after
<1>4. after = [n \in 0..Len(s) |-> IF n = 0 THEN table ELSE GetOrCreate(after[n - 1], s[n])]
  BY <1>2, <1>3
<1> QED
  BY <1>1, <1>4 DEF Steps

\* The table after the next ones were numbered: what it held stays, and new entries
\* are those of names that had none.
Grown(tb, new, names) ==
  /\ new.next >= tb.next
  /\ \A i \in DOMAIN tb.entries : i \in DOMAIN new.entries /\ new.entries[i] = tb.entries[i]
  /\ \A i \in DOMAIN new.entries \ DOMAIN tb.entries :
       i >= tb.next /\ new.entries[i] \in names \ DOMAIN tb.paths
  /\ \A p \in DOMAIN tb.paths : p \in DOMAIN new.paths /\ new.paths[p] = tb.paths[p]

LEMMA CreateGrows ==
  ASSUME NEW tb, TableFits(tb), NEW p, p # Root
  PROVE  /\ TableFits(GetOrCreate(tb, p)) /\ Grown(tb, GetOrCreate(tb, p), {p})
         /\ p \in DOMAIN GetOrCreate(tb, p).paths
<1> DEFINE new == GetOrCreate(tb, p)
<1>1. CASE p \in DOMAIN tb.paths
  <2>1. new = tb
    BY <1>1 DEF GetOrCreate
  <2> QED
    BY <1>1, <2>1 DEF TableFits, Grown
<1>2. CASE p \notin DOMAIN tb.paths
  <2>1. /\ new.paths = Map!Insert(tb.paths, p, tb.next)
        /\ new.entries = Map!Insert(tb.entries, tb.next, p)
        /\ new.next = tb.next + 1
        /\ new = [paths |-> new.paths, entries |-> new.entries, next |-> new.next]
    BY <1>2 DEF GetOrCreate
  <2> HIDE DEF new
  <2>2. /\ DOMAIN new.paths = DOMAIN tb.paths \cup {p} /\ new.paths[p] = tb.next
        /\ \A q \in DOMAIN tb.paths : new.paths[q] = tb.paths[q]
        /\ DOMAIN new.entries = DOMAIN tb.entries \cup {tb.next} /\ new.entries[tb.next] = p
        /\ tb.next \notin DOMAIN tb.entries
        /\ \A i \in DOMAIN tb.entries : new.entries[i] = tb.entries[i]
    BY <1>2, <2>1 DEF TableFits, Map!Insert
  <2>3. TableFits(new)
    BY <2>1, <2>2 DEF TableFits
  <2>4. Grown(tb, new, {p})
    BY <1>2, <2>1, <2>2 DEF Grown, TableFits
  <2> QED
    BY <2>2, <2>3, <2>4 DEF new
<1> QED
  BY <1>1, <1>2

LEMMA GrowsOn ==
  ASSUME NEW a, NEW b, NEW c, NEW names, NEW p \in names,
         TableFits(a), TableFits(b), TableFits(c), Grown(a, b, names), Grown(b, c, {p})
  PROVE  Grown(a, c, names)
  BY DEF Grown, TableFits

\* All the names get a number, nothing else does.
LEMMA NumberGrows ==
  ASSUME TableFits(table), NEW names, Root \notin names, NEW s \in Seq(names)
  PROVE  /\ TableFits(NumberAll(s)) /\ Grown(table, NumberAll(s), names)
         /\ \A k \in 1..Len(s) : s[k] \in DOMAIN NumberAll(s).paths
<1> DEFINE m == Len(s)
<1>1. m \in Nat /\ \A k \in 1..m : s[k] \in names
  OBVIOUS
<1>2. PICK f : Steps(f, s, m) /\ NumberAll(s) = f[m]
  BY <1>1, NumberSteps
<1> HIDE DEF m
<1>3. /\ f[0] = table
      /\ \A n \in 1..m : f[n] = GetOrCreate(f[n - 1], s[n])
  BY <1>1, <1>2 DEF Steps
<1> DEFINE Good(n) == /\ TableFits(f[n]) /\ Grown(table, f[n], names)
                      /\ \A k \in 1..n : s[k] \in DOMAIN f[n].paths
           T == {n \in Nat : n <= m => Good(n)}
<1>4. 0 \in T
  <2>1. Grown(table, table, names)
    BY DEF Grown, TableFits
  <2> QED
    BY <1>3, <2>1
<1>5. ASSUME NEW n \in T PROVE n + 1 \in T
  <2> SUFFICES ASSUME n + 1 <= m PROVE Good(n + 1)
    OBVIOUS
  <2>1. n \in Nat /\ n <= m /\ Good(n) /\ n + 1 \in 1..m /\ n + 1 - 1 = n
    BY <1>1
  <2>2. f[n + 1] = GetOrCreate(f[n], s[n + 1]) /\ s[n + 1] \in names
    BY <1>1, <1>3, <2>1
  <2>3. /\ TableFits(f[n + 1]) /\ Grown(f[n], f[n + 1], {s[n + 1]})
        /\ s[n + 1] \in DOMAIN f[n + 1].paths
    BY <2>1, <2>2, CreateGrows
  <2>4. Grown(table, f[n + 1], names)
    BY <2>1, <2>2, <2>3, GrowsOn
  <2>5. ASSUME NEW k \in 1..(n + 1) PROVE s[k] \in DOMAIN f[n + 1].paths
    <3>1. k \in 1..n \/ k = n + 1
      BY <2>1
    <3> QED
      BY <2>1, <2>3, <3>1 DEF Grown
  <2> QED
    BY <2>3, <2>4, <2>5
<1> HIDE DEF Good
<1>6. T = Nat
  BY <1>4, <1>5, Counting
<1>7. Good(m)
  BY <1>1, <1>6
<1> QED
  BY <1>2, <1>7 DEF Good, m

\* The names on the way to a path.
Way(p) == {SubSeq(p, 1, n) : n \in 1..Len(p)}

LEMMA WalkGrows ==
  ASSUME TableFits(table), NEW p \in Seq(Names)
  PROVE  TableFits(Walk(p)) /\ Grown(table, Walk(p), Way(p)) /\ p \in DOMAIN Walk(p).paths
<1> DEFINE s == [n \in 1..Len(p) |-> SubSeq(p, 1, n)]
<1>1. p \in Seq(Names) /\ Len(p) \in Nat
  OBVIOUS
<1>2. s \in Seq(Way(p)) /\ Len(s) = Len(p)
  <2>1. \A n \in 1..Len(p) : SubSeq(p, 1, n) \in Way(p)
    BY DEF Way
  <2> QED
    BY <1>1, <2>1, IsASeq
<1>3. Root \notin Way(p)
  <2> SUFFICES ASSUME NEW n \in 1..Len(p) PROVE SubSeq(p, 1, n) # Root
    BY DEF Way
  <2>1. \A i \in 1..n : p[i] \in Names
    BY <1>1
  <2>2. Len(SubSeq(p, 1, n)) = IF 1 <= n THEN n - 1 + 1 ELSE 0
    BY <1>1, <2>1, SubSeqProperties
  <2>3. Len(Root) = 0
    BY DEF Root
  <2> QED
    BY <1>1, <2>2, <2>3
<1>4. Walk(p) = NumberAll(s)
  BY DEF Walk
<1>5. CASE p = Root
  <2>1. Root \in DOMAIN table.paths
    BY DEF TableFits
  <2> HIDE DEF s
  <2> QED
    BY <1>2, <1>3, <1>4, <1>5, <2>1, NumberGrows DEF Grown
<1>6. CASE p # Root
  <2>1. Len(p) \in 1..Len(p)
    BY <1>1, <1>6, EmptySeq DEF Root
  <2>2. s[Len(p)] = p
    BY <1>1, <2>1, SubSeqFull
  <2> HIDE DEF s
  <2> QED
    BY <1>2, <1>3, <1>4, <2>1, <2>2, NumberGrows
<1> QED
  BY <1>5, <1>6

-----------------------------------------------------------------------------
(* What a directory lists *)

\* The names picked up to each place of the order.
Picks(f, names, m) ==
  f = [n \in 0..m |->
         IF n = 0 THEN <<>>
         ELSE IF Order[n] \in names THEN Append(f[n - 1], Order[n])
         ELSE f[n - 1]]

LEMMA PicksExist ==
  ASSUME NEW names, NEW m \in Nat
  PROVE  \E f : Picks(f, names, m)
<1> DEFINE Pick(f, n) == IF n = 0 THEN <<>>
                         ELSE IF Order[n] \in names THEN Append(f[n - 1], Order[n])
                         ELSE f[n - 1]
           T == {k \in Nat : \E f : Picks(f, names, k)}
<1>0. \A f, k : Picks(f, names, k) <=> f = [n \in 0..k |-> Pick(f, n)]
  BY DEF Picks
<1>1. 0 \in T
  <2> DEFINE f == [n \in 0..0 |-> <<>>]
             g == [n \in 0..0 |-> Pick(f, n)]
  <2>1. \A n \in 0..0 : f[n] = g[n]
    OBVIOUS
  <2>2. f = g
    BY <2>1
  <2> HIDE DEF Pick
  <2>3. Picks(f, names, 0)
    BY <1>0, <2>2
  <2> QED
    BY <2>3
<1>2. ASSUME NEW k \in T PROVE k + 1 \in T
  <2> HIDE DEF Pick
  <2>1. PICK f : f = [n \in 0..k |-> Pick(f, n)]
    BY <1>0, <1>2
  <2> DEFINE g == [n \in 0..(k + 1) |-> IF n = k + 1 THEN Pick(f, n) ELSE f[n]]
             h == [n \in 0..(k + 1) |-> Pick(g, n)]
  <2>2. k \in Nat
    OBVIOUS
  <2>3. ASSUME NEW n \in 0..(k + 1) PROVE g[n] = h[n]
    <3>1. Pick(f, n) = Pick(g, n)
      <4>1. CASE n = 0
        BY <4>1 DEF Pick
      <4>2. CASE n # 0
        <5>1. n - 1 \in 0..(k + 1) /\ n - 1 # k + 1
          BY <2>2, <4>2
        <5>2. g[n - 1] = f[n - 1]
          BY <5>1
        <5> HIDE DEF g
        <5> QED
          BY <5>2 DEF Pick
      <4> QED
        BY <4>1, <4>2
    <3>2. n # k + 1 => n \in 0..k
      BY <2>2
    <3>3. n # k + 1 => f[n] = Pick(f, n)
      BY <2>1, <3>2
    <3> QED
      BY <3>1, <3>3
  <2>4. g = h
    BY <2>3
  <2> HIDE DEF g
  <2>5. Picks(g, names, k + 1)
    BY <1>0, <2>4
  <2> QED
    BY <2>2, <2>5
<1> HIDE DEF Pick
<1>3. T = Nat
  BY <1>1, <1>2, Counting
<1> QED
  BY <1>3

\* The names in order, up to each place.
LEMMA SortedPicks ==
  ASSUME NEW names
  PROVE  \E f : Picks(f, names, Len(Order)) /\ Sorted(names) = f[Len(Order)]
<1> DEFINE upTo[n \in 0..Len(Order)] ==
             IF n = 0 THEN <<>>
             ELSE IF Order[n] \in names THEN Append(upTo[n - 1], Order[n])
             ELSE upTo[n - 1]
<1>1. Sorted(names) = upTo[Len(Order)]
  BY DEF Sorted
<1>2. upTo = CHOOSE f : f =
        [n \in 0..Len(Order) |-> IF n = 0 THEN <<>>
                                 ELSE IF Order[n] \in names THEN Append(f[n - 1], Order[n])
                                 ELSE f[n - 1]]
  OBVIOUS
<1> HIDE DEF upTo
<1>3. Len(Order) \in Nat
  BY OrderAssumption
<1>4. \E g : g =
        [n \in 0..Len(Order) |-> IF n = 0 THEN <<>>
                                 ELSE IF Order[n] \in names THEN Append(g[n - 1], Order[n])
                                 ELSE g[n - 1]]
  <2>1. PICK f : Picks(f, names, Len(Order))
    BY <1>3, PicksExist
  <2> QED
    BY <2>1 DEF Picks
<1>5. Picks(upTo, names, Len(Order))
  BY <1>2, <1>4 DEF Picks
<1> QED
  BY <1>1, <1>5

LEMMA SortedNames ==
  ASSUME NEW names
  PROVE  Sorted(names) \in Seq(names)
<1> DEFINE m == Len(Order)
<1>1. PICK upTo : Picks(upTo, names, m) /\ Sorted(names) = upTo[m]
  BY SortedPicks
<1>2. m \in Nat
  BY OrderAssumption
<1> HIDE DEF m
<1>3. upTo[0] = <<>>
  BY <1>1, <1>2 DEF Picks
<1>4. ASSUME NEW n \in 1..m
      PROVE  \/ Order[n] \in names /\ upTo[n] = Append(upTo[n - 1], Order[n])
             \/ upTo[n] = upTo[n - 1]
  <2>1. n \in 0..m /\ n # 0
    BY <1>2
  <2>2. upTo[n] = IF n = 0 THEN <<>>
                  ELSE IF Order[n] \in names THEN Append(upTo[n - 1], Order[n])
                  ELSE upTo[n - 1]
    BY <1>1, <2>1 DEF Picks
  <2> QED
    BY <2>1, <2>2
<1> DEFINE T == {n \in Nat : n <= m => upTo[n] \in Seq(names)}
<1>5. 0 \in T
  <2>1. <<>> \in Seq(names)
    BY EmptySeq
  <2> QED
    BY <1>3, <2>1
<1>6. ASSUME NEW n \in T PROVE n + 1 \in T
  <2> SUFFICES ASSUME n + 1 <= m PROVE upTo[n + 1] \in Seq(names)
    OBVIOUS
  <2>1. n \in Nat /\ n <= m /\ n + 1 \in 1..m /\ n + 1 - 1 = n
    BY <1>2
  <2>2. upTo[n] \in Seq(names)
    BY <2>1
  <2>3. \/ Order[n + 1] \in names /\ upTo[n + 1] = Append(upTo[n], Order[n + 1])
        \/ upTo[n + 1] = upTo[n]
    BY <1>4, <2>1
  <2> QED
    BY <2>2, <2>3
<1>7. T = Nat
  BY <1>5, <1>6, Counting
<1> QED
  BY <1>1, <1>2, <1>7

\* What a directory lists: objects one level down, and its marker.
Below(p) == {q \in objects : Parent(q) = p} \cup (IF p \in objects THEN {Marker(p)} ELSE {})

LEMMA ChildrenBelow ==
  ASSUME objects \subseteq Paths, NEW p, NEW offset \in Nat
  PROVE  /\ ChildrenFrom(p, offset) \in Seq(Below(p))
         /\ Root \notin Below(p) /\ Below(p) \subseteq Entries
<1> DEFINE names == {q \in objects : Parent(q) = p}
           c == Children(p, objects)
<1>1. Sorted(names) \in Seq(Below(p))
  <2>1. Sorted(names) \in Seq(names) /\ names \subseteq Below(p)
    BY SortedNames DEF Below
  <2> HIDE DEF names
  <2> QED
    BY <2>1, SeqMonotonic
<1>2. c \in Seq(Below(p))
  <2> DEFINE first == IF p \in objects THEN <<Append(p, p[Len(p)])>> ELSE <<>>
  <2>1. first \in Seq(Below(p))
    <3>1. <<>> \in Seq(Below(p))
      BY EmptySeq
    <3>2. CASE p \in objects
      <4>1. Marker(p) \in Below(p) /\ first = <<Marker(p)>>
        BY <3>2 DEF Below, Marker
      <4> HIDE DEF first
      <4> QED
        BY <4>1
    <3> QED
      BY <3>1, <3>2
  <2>2. c = first \o Sorted(names)
    BY DEF Children
  <2> HIDE DEF first, names, c
  <2> QED
    BY <1>1, <2>1, <2>2, ConcatProperties
<1> HIDE DEF c
<1>3. ChildrenFrom(p, offset) \in Seq(Below(p))
  <2> DEFINE skipped == IF offset <= 2 THEN 0 ELSE offset - 2
  <2>1. ChildrenFrom(p, offset) = SubSeq(c, skipped + 1, Len(c))
    BY DEF ChildrenFrom, c
  <2>2. skipped \in Nat /\ Len(c) \in Nat
    BY <1>2
  <2> HIDE DEF skipped
  <2>3. \A i \in (skipped + 1)..Len(c) : c[i] \in Below(p)
    BY <1>2, <2>2
  <2> QED
    BY <2>1, <2>2, <2>3, SubSeqProperties
<1>4. Root \notin Below(p)
  <2>1. p \in objects => Marker(p) # Root
    <3> SUFFICES ASSUME p \in objects PROVE Marker(p) # Root
      OBVIOUS
    <3>1. p \in Seq(Names) /\ Len(p) \in Nat /\ p # <<>>
      BY NamesAssumption
    <3>2. Len(p) \in 1..Len(p)
      BY <3>1, EmptySeq
    <3>3. p[Len(p)] \in Names
      BY <3>1, <3>2
    <3>4. Len(Marker(p)) = Len(p) + 1
      BY <3>1, <3>3 DEF Marker
    <3> QED
      BY <3>1, <3>4, EmptySeq DEF Root
  <2> QED
    BY <2>1, NamesAssumption DEF Below, Root
<1>5. Below(p) \subseteq Entries
  BY DEF Below, Entries
<1> QED
  BY <1>3, <1>4, <1>5

LEMMA OffersEntries ==
  ASSUME objects \subseteq Paths, NEW p
  PROVE  /\ \A offset \in Nat : FromOffset(p, offset) \in Seq(Entries)
         /\ \A marker : AfterMarker(p, marker) \in Seq(Entries)
<1>1. ASSUME NEW offset \in Nat PROVE FromOffset(p, offset) \in Seq(Entries)
  <2> DEFINE a == IF offset < 1 THEN <<Dot>> ELSE <<>>
             b == IF offset < 2 THEN <<DotDot>> ELSE <<>>
             c == ChildrenFrom(p, offset)
  <2>1. a \in Seq(Entries) /\ b \in Seq(Entries)
    <3>1. <<Dot>> \in Seq(Entries) /\ <<DotDot>> \in Seq(Entries) /\ <<>> \in Seq(Entries)
      BY DEF Entries
    <3> QED
      BY <3>1
  <2>2. c \in Seq(Entries)
    BY ChildrenBelow, SeqMonotonic
  <2>3. FromOffset(p, offset) = a \o b \o c
    BY DEF FromOffset
  <2> HIDE DEF a, b, c
  <2>4. a \o b \in Seq(Entries)
    BY <2>1, ConcatProperties
  <2> QED
    BY <2>2, <2>3, <2>4, ConcatProperties
<1>2. ASSUME NEW marker PROVE AfterMarker(p, marker) \in Seq(Entries)
  <2> DEFINE all == FromOffset(p, 0)
             at == {n \in 1..Len(all) : all[n] = marker}
             k == CHOOSE n \in at : \A m \in at : n <= m
  <2>1. all \in Seq(Entries) /\ <<>> \in Seq(Entries)
    BY <1>1, EmptySeq
  <2>2. Len(all) \in Nat /\ \A i \in 1..Len(all) : all[i] \in Entries
    BY <2>1
  <2>3. \/ AfterMarker(p, marker) = all
        \/ AfterMarker(p, marker) = <<>>
        \/ at # {} /\ AfterMarker(p, marker) = SubSeq(all, k + 1, Len(all))
    BY DEF AfterMarker
  <2> HIDE DEF all
  <2>4. at # {} => k \in Nat
    <3>1. at \subseteq Nat
      BY <2>2
    <3>2. at # {} => \E n \in at : \A m \in at : n <= m
      BY <3>1, LeastOf
    <3> QED
      BY <3>1, <3>2
  <2> HIDE DEF at, k
  <2>5. at # {} => SubSeq(all, k + 1, Len(all)) \in Seq(Entries)
    <3>1. ASSUME at # {} PROVE \A i \in (k + 1)..Len(all) : all[i] \in Entries
      BY <2>2, <2>4, <3>1
    <3> QED
      BY <2>2, <2>4, <3>1, SubSeqProperties
  <2> QED
    BY <2>1, <2>3, <2>5
<1> QED
  BY <1>1, <1>2

-----------------------------------------------------------------------------
(* Steps of the inode table *)

\* What a request does to the table when it numbers names.
Numbers(names) == TableFits(table') /\ Grown(table, table', names)

LEMMA PathSeqs ==
  /\ Root \in Seq(Names)
  /\ \A p \in Paths : p \in Seq(Names) /\ Parent(p) \in Seq(Names) /\ p # Root
<1>1. Root \in Seq(Names)
  BY EmptySeq DEF Root
<1>2. ASSUME NEW p \in Paths PROVE Parent(p) \in Seq(Names)
  <2>1. p \in Seq(Names) /\ Len(p) \in Nat
    BY NamesAssumption
  <2>2. \A i \in 1..(Len(p) - 1) : p[i] \in Names
    BY <2>1
  <2> QED
    BY <2>1, <2>2, SubSeqProperties DEF Parent
<1> QED
  BY <1>1, <1>2, NamesAssumption DEF Root

\* do_lookup of p, and of the names on the way.
LEMMA OpeningNumbers ==
  ASSUME TypeInv
  PROVE  /\ \A p \in Paths : Lookup(p) => Numbers({p})
         /\ \A p \in Paths : GetSecurity(p) => Numbers(Way(p))
         /\ \A p \in Paths \cup {Root}, delete \in BOOLEAN : OpenPath(p, delete) =>
              Numbers(Way(p)) /\ table' = Walk(p) /\ p \in DOMAIN table'.paths
         /\ \A p \in Paths : Create(p) \/ Mkdir(p) =>
              Numbers(Way(Parent(p)) \cup {p}) /\ p \in DOMAIN table'.paths
<1>1. TableFits(table)
  BY DEF TypeInv
<1>2. ASSUME NEW p \in Paths, Lookup(p) PROVE Numbers({p})
  BY <1>1, <1>2, CreateGrows, PathSeqs DEF Lookup, Become, Numbers
<1>3. ASSUME NEW p \in Paths, GetSecurity(p) PROVE Numbers(Way(p))
  BY <1>1, <1>3, WalkGrows, PathSeqs DEF GetSecurity, Become, Numbers
<1>4. ASSUME NEW p \in Paths \cup {Root}, NEW delete \in BOOLEAN, OpenPath(p, delete)
      PROVE  Numbers(Way(p)) /\ table' = Walk(p) /\ p \in DOMAIN table'.paths
  <2>1. table' = Walk(p)
    BY <1>4 DEF OpenPath, Become
  <2> QED
    BY <1>1, <2>1, WalkGrows, PathSeqs DEF Numbers
<1>5. ASSUME NEW p \in Paths, Create(p) \/ Mkdir(p)
      PROVE  Numbers(Way(Parent(p)) \cup {p}) /\ p \in DOMAIN table'.paths
  <2>1. PICK tb \in {table, Walk(Parent(p))} : table' = GetOrCreate(tb, p)
    BY <1>5 DEF Create, Mkdir, Become
  <2>2. TableFits(tb) /\ Grown(table, tb, Way(Parent(p)) \cup {p})
    <3>1. CASE tb = table
      BY <1>1, <3>1 DEF Grown, TableFits
    <3>2. CASE tb = Walk(Parent(p))
      <4>1. TableFits(tb) /\ Grown(table, tb, Way(Parent(p)))
        BY <1>1, <3>2, WalkGrows, PathSeqs
      <4> QED
        BY <4>1 DEF Grown
    <3> QED
      BY <2>1, <3>1, <3>2
  <2>3. TableFits(table') /\ Grown(tb, table', {p}) /\ p \in DOMAIN table'.paths
    BY <2>1, <2>2, CreateGrows, PathSeqs
  <2> QED
    BY <1>1, <2>2, <2>3, GrowsOn DEF Numbers
<1> QED
  BY <1>2, <1>3, <1>4, <1>5

\* do_readdir numbers what it lists.
LEMMA ListingNumbers ==
  ASSUME TypeInv, NEW fh \in DOMAIN contexts
  PROVE  LET p == table.entries[contexts[fh].inode] IN
         /\ CanDelete(fh) => \E names \in {{}, Below(p)} : Numbers(names)
         /\ \A n \in 0..PageSize : Readdir(fh, n) \/ ReadDirectory(fh, n) => Numbers(Below(p))
<1> DEFINE p == table.entries[contexts[fh].inode]
<1>1. TableFits(table) /\ objects \subseteq Paths
  BY DEF TypeInv
<1>2. Len(contexts[fh].scan.got) \in Nat
  BY DEF TypeInv, ContextsFit, IsContext, IsScan
<1> HIDE DEF p
<1>3. ASSUME NEW names, Root \notin names, NEW s \in Seq(names), table' = NumberAll(s)
      PROVE  Numbers(names)
  BY <1>1, <1>3, NumberGrows DEF Numbers
<1>4. ASSUME NEW offset \in Nat, table' = NumberAll(ChildrenFrom(p, offset))
      PROVE  Numbers(Below(p))
  BY <1>1, <1>3, <1>4, ChildrenBelow
<1>5. ASSUME CanDelete(fh) PROVE \E names \in {{}, Below(p)} : Numbers(names)
  <2>1. \/ table' = NumberAll(ChildrenFrom(p, 2))
        \/ table' = NumberAll(<<>>)
    BY <1>5 DEF CanDelete, Become, p
  <2>2. <<>> \in Seq({})
    BY EmptySeq
  <2> QED
    BY <1>3, <1>4, <2>1, <2>2
<1>6. ASSUME NEW n \in 0..PageSize, Readdir(fh, n) \/ ReadDirectory(fh, n)
      PROVE  Numbers(Below(p))
  <2>1. \E offset \in Nat : table' = NumberAll(ChildrenFrom(p, offset))
    BY <1>2, <1>6 DEF Readdir, ReadDirectory, Become, Numbered, p
  <2> QED
    BY <1>4, <2>1
<1> QED
  BY <1>5, <1>6 DEF p

\* Removing a name and moving it.
LEMMA ForgetFits ==
  ASSUME NEW tb, TableFits(tb), NEW p, p # Root
  PROVE  LET new == Forget(tb, p) IN
         /\ TableFits(new) /\ new.next = tb.next
         /\ \A i \in DOMAIN new.entries :
              /\ i \in DOMAIN tb.entries /\ new.entries[i] = tb.entries[i]
              /\ p \in DOMAIN tb.paths => i # tb.paths[p]
<1> DEFINE new == Forget(tb, p)
<1>1. CASE p \notin DOMAIN tb.paths
  BY <1>1 DEF Forget
<1>2. CASE p \in DOMAIN tb.paths
  <2>1. tb.paths[p] \in DOMAIN tb.entries /\ tb.entries[tb.paths[p]] = p
    BY <1>2 DEF TableFits
  <2>2. /\ new.paths = Map!Remove(tb.paths, p)
        /\ new.entries = Map!Remove(tb.entries, tb.paths[p])
        /\ new.next = tb.next
        /\ new = [paths |-> new.paths, entries |-> new.entries, next |-> new.next]
    BY <1>2, <2>1 DEF Forget, TableFits
  <2> HIDE DEF new
  <2>3. /\ DOMAIN new.paths = DOMAIN tb.paths \ {p}
        /\ \A q \in DOMAIN new.paths : new.paths[q] = tb.paths[q]
        /\ DOMAIN new.entries = DOMAIN tb.entries \ {tb.paths[p]}
        /\ \A i \in DOMAIN new.entries : new.entries[i] = tb.entries[i]
    BY <2>2 DEF Map!Remove
  <2>4. TableFits(new)
    BY <2>1, <2>2, <2>3 DEF TableFits
  <2> QED
    BY <1>2, <2>2, <2>3, <2>4 DEF new
<1> QED
  BY <1>1, <1>2

LEMMA MovedFits ==
  ASSUME NEW tb, TableFits(tb), NEW p, NEW q, p # Root, q # Root, p # q
  PROVE  LET new == Moved(tb, p, q) IN
         /\ TableFits(new) /\ new.next = tb.next
         /\ \A i \in DOMAIN new.entries :
              /\ i \in DOMAIN tb.entries
              /\ \/ new.entries[i] = tb.entries[i] /\ (p \in DOMAIN tb.paths => i # tb.paths[p])
                 \/ new.entries[i] = q /\ tb.entries[i] = p
<1> DEFINE new == Moved(tb, p, q)
           j == tb.paths[p]
<1>1. CASE p \notin DOMAIN tb.paths
  BY <1>1 DEF Moved
<1>2. CASE p \in DOMAIN tb.paths
  <2>1. j \in DOMAIN tb.entries /\ tb.entries[j] = p
    BY <1>2 DEF TableFits
  <2>2. /\ new.paths = Map!Insert(Map!Remove(tb.paths, p), q, j)
        /\ new.entries = Map!Insert(tb.entries, j, q)
        /\ new.next = tb.next
        /\ new = [paths |-> new.paths, entries |-> new.entries, next |-> new.next]
    BY <1>2, <2>1 DEF Moved, TableFits
  <2> HIDE DEF new, j
  <2>3. /\ DOMAIN new.paths = (DOMAIN tb.paths \ {p}) \cup {q} /\ new.paths[q] = j
        /\ \A r \in DOMAIN new.paths : r # q => new.paths[r] = tb.paths[r]
        /\ DOMAIN new.entries = DOMAIN tb.entries /\ new.entries[j] = q
        /\ \A i \in DOMAIN new.entries : i # j => new.entries[i] = tb.entries[i]
    BY <2>1, <2>2 DEF Map!Remove, Map!Insert
  <2>4. TableFits(new)
    <3>1. ASSUME NEW r \in DOMAIN new.paths
          PROVE  new.paths[r] \in DOMAIN new.entries /\ new.entries[new.paths[r]] = r
      <4>1. CASE r = q
        BY <2>1, <2>3, <4>1
      <4>2. CASE r # q
        <5>1. r \in DOMAIN tb.paths /\ r # p /\ new.paths[r] = tb.paths[r]
          BY <2>3, <4>2
        <5>2. tb.entries[tb.paths[r]] = r /\ tb.paths[r] \in DOMAIN tb.entries
          BY <5>1 DEF TableFits
        <5> QED
          BY <2>1, <2>3, <5>1, <5>2
      <4> QED
        BY <4>1, <4>2
    <3>2. Root \in DOMAIN new.paths /\ new.paths[Root] = 1
      BY <2>3 DEF TableFits
    <3> QED
      BY <2>2, <2>3, <3>1, <3>2 DEF TableFits
  <2> QED
    BY <1>2, <2>1, <2>2, <2>3, <2>4 DEF new, j
<1> QED
  BY <1>1, <1>2

\* Whatever happens, a number stays the number of what it was, or of the file its
\* name was moved to.
Later ==
  /\ table'.next >= table.next
  /\ \A i \in DOMAIN table'.entries : i \in Known =>
       /\ i \in DOMAIN table.entries
       /\ \/ table'.entries[i] = table.entries[i]
          \/ table.entries[i] \in Files /\ table'.entries[i] \in Files

LEMMA NumbersLater ==
  ASSUME TypeInv, NEW names, Numbers(names)
  PROVE  TableFits(table') /\ Later
<1>1. TableFits(table) /\ TableFits(table') /\ Grown(table, table', names)
  BY DEF TypeInv, Numbers
<1>2. ASSUME NEW i \in DOMAIN table'.entries, i \in Known
      PROVE  i \in DOMAIN table.entries /\ table'.entries[i] = table.entries[i]
  BY <1>1, <1>2 DEF Grown, Known, TableFits
<1> QED
  BY <1>1, <1>2 DEF Grown, Later

LEMMA FinishLater ==
  ASSUME TypeInv, Finish
  PROVE  TableFits(table') /\ Later
<1>1. TableFits(table) /\ pending.op \in {"remove", "rename"} /\ pending.path # Root
  BY DEF Finish, Removed, Renamed, TypeInv, PendingFits
<1>2. CASE table' = table
  BY <1>1, <1>2 DEF Later, TableFits
<1>3. CASE table' = Forget(table, pending.path)
  BY <1>1, <1>3, ForgetFits DEF Later, TableFits
<1>4. CASE pending.op = "rename" /\ table' = Moved(table, pending.path, pending.new)
  <2>1. {pending.path, pending.new} \subseteq Files /\ pending.new # Root /\ pending.path # pending.new
    BY <1>4, PathSeqs DEF TypeInv, PendingFits, Paths
  <2> QED
    BY <1>1, <1>4, <2>1, MovedFits DEF Later, TableFits
<1> QED
  BY <1>2, <1>3, <1>4 DEF Finish, Removed, Renamed

LEMMA TableStep ==
  ASSUME TypeInv, [Next]_vars
  PROVE  TableFits(table') /\ Later
<1>1. ASSUME table' = table PROVE TableFits(table') /\ Later
  BY <1>1 DEF TypeInv, Later, TableFits
<1>2. CASE Opening
  <2>1. ASSUME NEW i, NEW dir, OpenInode(i, dir) PROVE table' = table
    BY <2>1 DEF OpenInode
  <2> QED
    BY <1>1, <1>2, <2>1, OpeningNumbers, NumbersLater DEF Opening
<1>3. CASE Filing
  BY <1>1, <1>3 DEF Filing, Accept, Apply, PutDone, Flush, Close
<1>4. CASE Naming
  <2>1. ASSUME NEW p, NEW q, NEW fh,
               Remove(p) \/ Rename(p, q) \/ Cleanup(fh) \/ RenameOpen(fh, q)
        PROVE  table' = table
    BY <2>1 DEF Remove, Rename, Cleanup, RenameOpen, Copy
  <2>2. ASSUME NEW fh \in DOMAIN contexts, CanDelete(fh) PROVE TableFits(table') /\ Later
    BY <2>2, ListingNumbers, NumbersLater
  <2> QED
    BY <1>1, <1>4, <2>1, <2>2, FinishLater DEF Naming
<1>5. CASE Listing
  BY <1>5, ListingNumbers, NumbersLater DEF Listing
<1>6. CASE UNCHANGED vars
  BY <1>1, <1>6 DEF vars
<1> QED
  BY <1>2, <1>3, <1>4, <1>5, <1>6 DEF Next, Quiescent

-----------------------------------------------------------------------------
(* Steps of buffered bytes *)

LEMMA BufferFits ==
  ASSUME TypeInv, NEW c \in changes
  PROVE  NewBuffer(c) \in [path : Files, full : BOOLEAN] /\ c.path \in Files /\ c.inode \in Known
  BY DEF TypeInv, BytesFit, NewBuffer, Map!Get

\* A write or truncation is of a file.
LEMMA AcceptedFile ==
  ASSUME TypeInv, NEW op, NEW i \in DOMAIN table.entries, Accept(op, i)
  PROVE  table.entries[i] \in Files /\ i \in Known
<1>1. i \in Known
  BY DEF TypeInv, TableFits, Known
<1>2. CASE \E fh \in OpenFiles : contexts[fh].inode = i
  BY <1>2 DEF OpenFiles, TypeInv, ContextsFit, Live
<1> QED
  BY <1>1, <1>2 DEF Accept

LEMMA BytesStep ==
  ASSUME TypeInv, [Next]_vars
  PROVE  BytesFit'
<1>1. BytesFit /\ Known \subseteq Known'
  BY TableStep DEF TypeInv, Later, TableFits, Known
<1>2. CASE UNCHANGED files
  BY <1>1, <1>2 DEF BytesFit, files
<1>3. ASSUME NEW op \in {"write", "truncate"}, NEW i \in DOMAIN table.entries, Accept(op, i)
      PROVE  BytesFit'
  BY <1>1, <1>3, AcceptedFile DEF BytesFit, Accept
<1>4. ASSUME NEW c \in changes, Apply(c) PROVE BytesFit'
  <2> DEFINE b == NewBuffer(c)
  <2>1. b \in [path : Files, full : BOOLEAN] /\ c.path \in Files /\ c.inode \in Known
    BY BufferFits
  <2>2. /\ changes' \subseteq changes /\ table' = table
        /\ \A w \in puts' : w \in puts \/ w = Put(b.path, 0) \/ w = Put(c.path, 0)
        /\ \E full \in BOOLEAN : buffers' = Map!Insert(buffers, c.inode, [b EXCEPT !.full = full])
    BY <1>4 DEF Apply, Written, Truncated
  <2> HIDE DEF b
  <2>3. puts' \subseteq [path : Files, fh : Nat]
    BY <1>1, <2>1, <2>2 DEF BytesFit, Put
  <2>4. /\ DOMAIN buffers' \subseteq Known
        /\ \A i \in DOMAIN buffers' : buffers'[i] \in [path : Files, full : BOOLEAN]
    BY <1>1, <2>1, <2>2 DEF BytesFit, Map!Insert
  <2> QED
    BY <1>1, <2>2, <2>3, <2>4 DEF BytesFit
<1>5. ASSUME NEW w \in puts, PutDone(w) PROVE BytesFit'
  BY <1>1, <1>5 DEF BytesFit, PutDone
<1>6. ASSUME NEW fh \in DOMAIN contexts, Flush(fh) PROVE BytesFit'
  <2> DEFINE i == contexts[fh].inode
  <2>1. /\ i \in DOMAIN buffers /\ puts' = puts \cup {Put(buffers[i].path, 0)}
        /\ buffers' = Map!Insert(buffers, i, [buffers[i] EXCEPT !.full = FALSE])
        /\ changes' = changes
    BY <1>6 DEF Flush
  <2> HIDE DEF i
  <2>2. buffers[i] \in [path : Files, full : BOOLEAN] /\ i \in Known
    BY <1>1, <2>1 DEF BytesFit
  <2>3. puts' \subseteq [path : Files, fh : Nat]
    BY <1>1, <2>1, <2>2 DEF BytesFit, Put
  <2>4. [buffers[i] EXCEPT !.full = FALSE] \in [path : Files, full : BOOLEAN]
    BY <2>2
  <2>5. /\ DOMAIN buffers' \subseteq Known
        /\ \A j \in DOMAIN buffers' : buffers'[j] \in [path : Files, full : BOOLEAN]
    BY <1>1, <2>1, <2>2, <2>4 DEF BytesFit, Map!Insert
  <2> QED
    BY <1>1, <2>1, <2>3, <2>5 DEF BytesFit
<1>7. ASSUME NEW fh \in DOMAIN contexts, Close(fh) PROVE BytesFit'
  <2>1. CASE Releasedir(fh)
    BY <1>2, <2>1 DEF Releasedir
  <2>2. CASE Release(fh)
    <3> DEFINE i == contexts[fh].inode
    <3>1. fh \in Nat
      <4>1. next_handle \in Nat /\ fh \in 1..(next_handle - 1)
        BY DEF TypeInv, HandlesFit
      <4> QED
        BY <4>1
    <3>2. /\ buffers' = Map!Remove(buffers, i) /\ changes' = changes
          /\ \/ puts' = puts
             \/ i \in DOMAIN buffers /\ puts' = puts \cup {Put(buffers[i].path, fh)}
      BY <2>2 DEF Release
    <3> HIDE DEF i
    <3> QED
      BY <1>1, <3>1, <3>2 DEF BytesFit, Put, Map!Remove
  <2> QED
    BY <1>7, <2>1, <2>2 DEF Close
<1>8. CASE Opening
  BY <1>2, <1>8 DEF Opening, Lookup, GetSecurity, Create, Mkdir, Made, OpenInode, OpenPath
<1>9. CASE Naming
  BY <1>2, <1>9 DEF Naming, Remove, Rename, Copy, CanDelete, Cleanup, RenameOpen, Finish
<1>10. CASE Listing
  BY <1>2, <1>10 DEF Listing, Readdir, ReadDirectory, Taken
<1>11. CASE UNCHANGED vars
  BY <1>2, <1>11 DEF vars
<1> QED
  BY <1>3, <1>4, <1>5, <1>6, <1>7, <1>8, <1>9, <1>10, <1>11 DEF Next, Filing, Quiescent

-----------------------------------------------------------------------------
(* Steps of the kernel's open files *)

Context(i, dir, cleaned, scan) ==
  [inode |-> i, dir |-> dir, cleaned |-> cleaned, scan |-> scan]
Scan(begun, got, first, gone, come, done) ==
  [begun |-> begun, got |-> got, first |-> first, gone |-> gone, come |-> come, done |-> done]

\* The note of a change, field by field.
Note(c, gone, come) == [c EXCEPT !.scan.gone = gone, !.scan.come = come]

LEMMA NotedFields ==
  ASSUME NEW c, NEW s, NEW g, NEW k, c = Context(c.inode, c.dir, c.cleaned, s),
         s = Scan(s.begun, s.got, s.first, s.gone, s.come, s.done)
  PROVE  Note(c, g, k)
           = Context(c.inode, c.dir, c.cleaned, Scan(s.begun, s.got, s.first, g, k, s.done))
<1> SUFFICES ASSUME NEW begun, NEW got, NEW first, NEW gone, NEW come, NEW done,
                    begun = s.begun, got = s.got, first = s.first, gone = s.gone,
                    come = s.come, done = s.done,
                    NEW i, NEW dir, NEW cleaned,
                    i = c.inode, dir = c.dir, cleaned = c.cleaned
             PROVE  Note(c, g, k)
                      = Context(i, dir, cleaned, Scan(begun, got, first, g, k, done))
  OBVIOUS
<1>0. s = Scan(begun, got, first, gone, come, done) /\ c = Context(i, dir, cleaned, s)
  OBVIOUS
<1> DEFINE t == [s EXCEPT !.gone = g]
<1>1. [c EXCEPT !.scan.gone = g] = Context(i, dir, cleaned, t)
  BY <1>0 DEF Context
<1>2. t = Scan(begun, got, first, g, come, done)
  BY <1>0 DEF Scan
<1>3. [Scan(begun, got, first, g, come, done) EXCEPT !.come = k]
        = Scan(begun, got, first, g, k, done)
  BY DEF Scan
<1> HIDE DEF t
<1>4. [Context(i, dir, cleaned, t) EXCEPT !.scan.come = k]
        = Context(i, dir, cleaned, [t EXCEPT !.come = k])
  BY <1>0 DEF Context
<1>5. [c EXCEPT !.scan.gone = g, !.scan.come = k]
        = [[c EXCEPT !.scan.gone = g] EXCEPT !.scan.come = k]
  OBVIOUS
<1> QED
  BY <1>1, <1>2, <1>3, <1>4, <1>5 DEF Note

\* What a change of the store notes in a stream is no part of what it delivered.
LEMMA NotedContext ==
  ASSUME NEW c, IsContext(c), NEW objs
  PROVE  LET d == Noted(c, objs) IN IsContext(d) /\ d.inode = c.inode /\ d.dir = c.dir
<1> DEFINE d == Noted(c, objs)
           s == c.scan
<1>1. CASE d = c
  BY <1>1
<1>2. CASE \E gone, come : d = Note(c, gone, come)
  <2>1. PICK gone, come : d = Note(c, gone, come)
    BY <1>2
  <2> DEFINE e == Scan(s.begun, s.got, s.first, gone, come, s.done)
  <2>2. /\ c = Context(c.inode, c.dir, c.cleaned, s)
        /\ s = Scan(s.begun, s.got, s.first, s.gone, s.come, s.done)
    BY DEF IsContext, IsScan, Context, Scan
  <2>3. d = Context(c.inode, c.dir, c.cleaned, e)
    <3> HIDE DEF d, s
    <3> QED
      BY ONLY <2>1, <2>2, NotedFields DEF e
  <2>4. IsScan(e) /\ e.got = s.got
    BY DEF IsContext, IsScan, Scan
  <2> HIDE DEF d, e
  <2>5. d.inode = c.inode /\ d.dir = c.dir /\ d.cleaned = c.cleaned /\ d.scan = e
    BY <2>3 DEF Context
  <2>6. IsContext(c) /\ IsScan(e) /\ e.got = c.scan.got
    BY <2>4
  <2>7. d = Context(d.inode, d.dir, d.cleaned, d.scan)
    BY <2>3, <2>5
  <2>8. IsContext(d)
    BY <2>5, <2>6, <2>7 DEF IsContext, Context
  <2> QED
    BY <2>5, <2>8 DEF d
<1> QED
  BY <1>1, <1>2 DEF Noted, Note

LEMMA StoredContexts ==
  ASSUME NEW objs, NEW ctx, Store(objs, ctx), \A fh \in DOMAIN ctx : IsContext(ctx[fh])
  PROVE  /\ objects' = objs /\ DOMAIN contexts' = DOMAIN ctx
         /\ \A fh \in DOMAIN ctx :
              /\ IsContext(contexts'[fh])
              /\ contexts'[fh].inode = ctx[fh].inode /\ contexts'[fh].dir = ctx[fh].dir
<1>1. /\ objects' = objs
      /\ contexts' = [fh \in DOMAIN ctx |-> Noted(ctx[fh], objs)]
  BY DEF Store
<1>2. ASSUME NEW fh \in DOMAIN ctx
      PROVE  /\ IsContext(contexts'[fh])
             /\ contexts'[fh].inode = ctx[fh].inode /\ contexts'[fh].dir = ctx[fh].dir
  <2>1. contexts'[fh] = Noted(ctx[fh], objs)
    BY <1>1
  <2> QED
    BY <2>1, NotedContext
<1> QED
  BY <1>1, <1>2

\* What the kernel notes when it takes entries.
Begin(s, first) == [s EXCEPT !.begun = TRUE, !.first = first]
Take(s, taken, done) == [s EXCEPT !.got = @ \o taken, !.done = done]

LEMMA ScanFields ==
  ASSUME NEW s, NEW x, NEW y, s = Scan(s.begun, s.got, s.first, s.gone, s.come, s.done)
  PROVE  /\ Begin(s, x) = Scan(TRUE, s.got, x, s.gone, s.come, s.done)
         /\ Take(s, x, y) = Scan(s.begun, s.got \o x, s.first, s.gone, s.come, y)
<1> SUFFICES ASSUME NEW begun, NEW got, NEW first, NEW gone, NEW come, NEW done,
                    begun = s.begun, got = s.got, first = s.first, gone = s.gone,
                    come = s.come, done = s.done
             PROVE  /\ Begin(s, x) = Scan(TRUE, got, x, gone, come, done)
                    /\ Take(s, x, y) = Scan(begun, got \o x, first, gone, come, y)
  OBVIOUS
<1>0. s = Scan(begun, got, first, gone, come, done)
  OBVIOUS
<1>1. Begin(s, x) = Scan(TRUE, got, x, gone, come, done)
  <2> DEFINE yes == TRUE
             t == [s EXCEPT !.begun = yes]
  <2>0. Begin(s, x) = [t EXCEPT !.first = x]
    BY DEF Begin
  <2> HIDE DEF yes
  <2>1. t = Scan(yes, got, first, gone, come, done)
    BY <1>0 DEF Scan
  <2> HIDE DEF t
  <2>2. [t EXCEPT !.first = x] = Scan(yes, got, x, gone, come, done)
    BY <2>1 DEF Scan
  <2> QED
    BY <2>0, <2>2 DEF yes
<1>2. Take(s, x, y) = Scan(begun, got \o x, first, gone, come, y)
  <2> DEFINE more == got \o x
             t == [s EXCEPT !.got = more]
  <2> HIDE DEF more
  <2>1. t = Scan(begun, more, first, gone, come, done)
    BY <1>0 DEF Scan
  <2>2. s.got = got
    OBVIOUS
  <2>3. Take(s, x, y) = [t EXCEPT !.done = y]
    BY <2>2 DEF Take, more
  <2> HIDE DEF t
  <2>4. [t EXCEPT !.done = y] = Scan(begun, more, first, gone, come, y)
    BY <2>1 DEF Scan
  <2> QED
    BY <2>3, <2>4 DEF more
<1> QED
  BY <1>1, <1>2

\* What ContextsFit asks of a context after the step.
Fits(c) ==
  /\ IsContext(c) /\ c.inode \in Known'
  /\ c.inode \in DOMAIN table'.entries /\ ~c.dir => table'.entries[c.inode] \in Files

LEMMA ContextsKept ==
  ASSUME TypeInv, [Next]_vars, NEW fh \in DOMAIN contexts
  PROVE  Fits(contexts[fh])
<1> DEFINE c == contexts[fh]
<1>1. /\ IsContext(c) /\ c.inode \in Known
      /\ c.inode \in DOMAIN table.entries /\ ~c.dir => table.entries[c.inode] \in Files
  BY DEF TypeInv, ContextsFit, Live
<1>2. TableFits(table) /\ TableFits(table') /\ Later
  BY TableStep DEF TypeInv
<1> HIDE DEF c
<1>3. c.inode \in Known'
  BY <1>1, <1>2 DEF TableFits, Later, Known
<1>4. c.inode \in DOMAIN table'.entries /\ ~c.dir => table'.entries[c.inode] \in Files
  BY <1>1, <1>2 DEF Later
<1> QED
  BY <1>1, <1>3, <1>4 DEF Fits, c

LEMMA ContextsFrom ==
  ASSUME NEW ctx, \A fh \in DOMAIN ctx : Fits(ctx[fh]), 1 \notin doomed',
         contexts' = ctx \/ \E objs : Store(objs, ctx)
  PROVE  ContextsFit'
<1>1. \A fh \in DOMAIN ctx : IsContext(ctx[fh])
  BY DEF Fits
<1>2. /\ DOMAIN contexts' = DOMAIN ctx
      /\ \A fh \in DOMAIN ctx :
           /\ IsContext(contexts'[fh])
           /\ contexts'[fh].inode = ctx[fh].inode /\ contexts'[fh].dir = ctx[fh].dir
  <2>1. CASE contexts' = ctx
    BY <1>1, <2>1
  <2>2. CASE \E objs : Store(objs, ctx)
    BY <1>1, <2>2, StoredContexts
  <2> QED
    BY <2>1, <2>2
<1>3. ASSUME NEW fh \in DOMAIN contexts'
      PROVE  /\ IsContext(contexts'[fh]) /\ contexts'[fh].inode \in Known'
             /\ contexts'[fh].inode \in DOMAIN table'.entries /\ ~contexts'[fh].dir =>
                  table'.entries[contexts'[fh].inode] \in Files
  BY <1>2, <1>3 DEF Fits
<1> QED
  BY <1>3 DEF ContextsFit, Live

LEMMA GivenFits ==
  ASSUME TypeInv, [Next]_vars, NEW i, NEW dir \in BOOLEAN, i \in Known',
         i \in DOMAIN table'.entries /\ ~dir => table'.entries[i] \in Files
  PROVE  \A fh \in DOMAIN Give(i, dir) : Fits(Give(i, dir)[fh])
<1>1. Fits(NewContext(i, dir))
  <2>1. <<>> \in Seq(Entries)
    BY EmptySeq
  <2>2. IsScan(NoScan) /\ NoScan.got = <<>>
    BY <2>1 DEF NoScan, IsScan
  <2>3. NewContext(i, dir) = Context(i, dir, FALSE, NoScan)
    BY DEF NewContext, Context
  <2> DEFINE c == NewContext(i, dir)
  <2> HIDE DEF c
  <2>4. c = Context(i, dir, FALSE, NoScan) => Fits(c)
    BY <2>2 DEF Fits, IsContext, Context
  <2> QED
    BY <2>3, <2>4 DEF c
<1>2. ASSUME NEW fh \in DOMAIN Give(i, dir)
      PROVE  \/ Give(i, dir)[fh] = NewContext(i, dir)
             \/ fh \in DOMAIN contexts /\ Give(i, dir)[fh] = contexts[fh]
  BY <1>2 DEF Give, Map!Insert
<1> QED
  BY <1>1, <1>2, ContextsKept

\* The root is never marked.
LEMMA DoomedStep ==
  ASSUME TypeInv, [Next]_vars
  PROVE  1 \notin doomed'
<1>1. 1 \notin doomed /\ TableFits(table')
  BY TableStep DEF TypeInv, ContextsFit
<1>2. CASE doomed' \subseteq doomed
  BY <1>1, <1>2
<1>3. ASSUME NEW p \in Paths \cup {Root}, NEW delete \in BOOLEAN, OpenPath(p, delete)
      PROVE  1 \notin doomed'
  <2>1. table' = Walk(p) /\ p \in DOMAIN table'.paths
    BY <1>3, OpeningNumbers
  <2>2. doomed' \subseteq doomed \/ (p # Root /\ doomed' = doomed \cup {table'.paths[p]})
    BY <1>3, <2>1 DEF OpenPath
  <2>3. p # Root => table'.paths[p] # 1
    BY <1>1, <2>1 DEF TableFits
  <2> QED
    BY <1>1, <2>2, <2>3
<1>4. ASSUME NEW fh, CanDelete(fh) PROVE 1 \notin doomed'
  BY <1>1, <1>4 DEF CanDelete
<1>5. CASE Opening
  BY <1>2, <1>3, <1>5 DEF Opening, Lookup, GetSecurity, Create, Mkdir, Made, OpenInode, kernel
<1>6. CASE Filing
  BY <1>2, <1>6 DEF Filing, Accept, Apply, PutDone, Flush, Close, kernel
<1>7. CASE Naming
  BY <1>2, <1>4, <1>7 DEF Naming, Remove, Rename, Copy, Cleanup, RenameOpen, Finish
<1>8. CASE Listing
  BY <1>2, <1>8 DEF Listing, Readdir, ReadDirectory, Taken
<1>9. CASE UNCHANGED vars
  BY <1>2, <1>9 DEF vars, kernel
<1> QED
  BY <1>5, <1>6, <1>7, <1>8, <1>9 DEF Next, Quiescent

LEMMA OpeningContexts ==
  ASSUME TypeInv, [Next]_vars, Opening
  PROVE  ContextsFit'
<1>1. TableFits(table) /\ TableFits(table') /\ Later /\ 1 \notin doomed'
  BY TableStep, DoomedStep DEF TypeInv
<1>2. CASE contexts' = contexts \/ \E objs : Store(objs, contexts)
  BY <1>1, <1>2, ContextsKept, ContextsFrom
<1>3. ASSUME NEW i \in Known', NEW dir \in BOOLEAN,
             contexts' = Give(i, dir) \/ \E objs : Store(objs, Give(i, dir)),
             i \in DOMAIN table'.entries /\ ~dir => table'.entries[i] \in Files
      PROVE  ContextsFit'
  BY <1>1, <1>3, GivenFits, ContextsFrom
<1>4. ASSUME NEW p \in DOMAIN table'.paths
      PROVE  table'.paths[p] \in Known' /\ table'.entries[table'.paths[p]] = p
  BY <1>1 DEF TableFits, Known
<1>5. ASSUME NEW i \in 1..(table.next - 1), NEW dir \in BOOLEAN, OpenInode(i, dir)
      PROVE  ContextsFit'
  <2>1. table' = table /\ contexts' = Give(i, dir) /\ (Live(i) => (dir <=> table.entries[i] \notin Files))
    BY <1>5 DEF OpenInode
  <2>2. i \in Known'
    BY <2>1 DEF Known
  <2> QED
    BY <1>3, <2>1, <2>2 DEF Live
<1>6. ASSUME NEW p \in Paths \cup {Root}, NEW delete \in BOOLEAN, OpenPath(p, delete)
      PROVE  ContextsFit'
  <2>1. p \in DOMAIN table'.paths /\ contexts' = Give(table'.paths[p], p \notin Files)
    BY <1>6, OpeningNumbers DEF OpenPath
  <2> DEFINE i == table'.paths[p]
             dir == p \notin Files
  <2>2. i \in Known' /\ dir \in BOOLEAN /\ (~dir => table'.entries[i] \in Files)
    BY <1>4, <2>1
  <2>3. contexts' = Give(i, dir)
    BY <2>1
  <2> HIDE DEF i, dir
  <2> QED
    BY <1>3, <2>2, <2>3
<1>7. ASSUME NEW p \in Paths, Create(p) PROVE ContextsFit'
  <2>1. /\ p \in DOMAIN table'.paths
        /\ Store(objects \cup {p}, Give(table'.paths[p], p \in Dirs))
    BY <1>7, OpeningNumbers DEF Create, Become
  <2> DEFINE i == table'.paths[p]
             dir == p \in Dirs
  <2>2. i \in Known' /\ dir \in BOOLEAN /\ (~dir => table'.entries[i] \in Files)
    BY <1>4, <2>1 DEF Paths
  <2>3. Store(objects \cup {p}, Give(i, dir))
    BY <2>1
  <2> HIDE DEF i, dir
  <2> QED
    BY <1>3, <2>2, <2>3
<1>8. ASSUME NEW p \in Paths, Lookup(p) \/ GetSecurity(p) \/ Mkdir(p) PROVE ContextsFit'
  BY <1>2, <1>8 DEF Lookup, GetSecurity, Mkdir, kernel
<1> QED
  BY <1>5, <1>6, <1>7, <1>8 DEF Opening

\* Entries that the kernel takes are added to what the stream delivered.
LEMMA TakenFits ==
  ASSUME TypeInv, [Next]_vars, NEW fh \in DOMAIN contexts, NEW n \in Nat,
         NEW offered \in Seq(Entries), Taken(fh, offered, n)
  PROVE  ContextsFit'
<1> DEFINE c == contexts[fh]
           first == Seqs!ToSet(Children(table.entries[c.inode], objects))
           s == IF c.scan.begun THEN c.scan ELSE Begin(c.scan, first)
           taken == SubSeq(offered, 1, n)
           end == n = 0
           t == Take(s, taken, end)
           d == [c EXCEPT !.scan = t]
<1>1. contexts' = [contexts EXCEPT ![fh] = d] /\ c.dir /\ n <= Len(offered) /\ UNCHANGED doomed
  BY DEF Taken, Begin, Take
<1>2. Fits(c) /\ IsContext(c) /\ IsScan(c.scan)
  BY ContextsKept DEF Fits, IsContext
<1>3. 1 \notin doomed'
  BY DoomedStep
<1> HIDE DEF c, first
<1>4. IsScan(s)
  <2>1. c.scan = Scan(c.scan.begun, c.scan.got, c.scan.first, c.scan.gone, c.scan.come, c.scan.done)
    BY <1>2 DEF IsScan, Scan
  <2>2. Begin(c.scan, first) = Scan(TRUE, c.scan.got, first, c.scan.gone, c.scan.come, c.scan.done)
    BY <2>1, ScanFields
  <2>3. IsScan(Scan(TRUE, c.scan.got, first, c.scan.gone, c.scan.come, c.scan.done))
    BY <1>2 DEF IsScan, Scan
  <2> QED
    BY <1>2, <2>2, <2>3
<1>5. taken \in Seq(Entries)
  <2>1. Len(offered) \in Nat /\ \A i \in 1..n : offered[i] \in Entries
    BY <1>1
  <2> QED
    BY <2>1, SubSeqProperties
<1> HIDE DEF s, taken, end
<1>6. IsScan(t)
  <2>1. s = Scan(s.begun, s.got, s.first, s.gone, s.come, s.done)
    BY <1>4 DEF IsScan, Scan
  <2> DEFINE got == s.got \o taken
  <2>2. t = Scan(s.begun, got, s.first, s.gone, s.come, end)
    BY <2>1, ScanFields
  <2>3. got \in Seq(Entries)
    BY <1>4, <1>5, ConcatProperties DEF IsScan
  <2>4. IsScan(Scan(s.begun, got, s.first, s.gone, s.come, end))
    BY <2>3 DEF IsScan, Scan
  <2> HIDE DEF got, t
  <2> QED
    BY <2>2, <2>4
<1> HIDE DEF t
<1>7. Fits(d)
  <2>1. c = Context(c.inode, c.dir, c.cleaned, c.scan)
    BY <1>2 DEF IsContext, Context
  <2>2. d = Context(c.inode, c.dir, c.cleaned, t)
    BY <2>1 DEF Context
  <2> HIDE DEF d
  <2>3. /\ d.inode = c.inode /\ d.dir = c.dir /\ d.cleaned = c.cleaned /\ d.scan = t
    BY <2>2 DEF Context
  <2>4. IsContext(d)
    BY <1>1, <1>2, <1>6, <2>2, <2>3 DEF IsContext, Context
  <2> QED
    BY <1>2, <2>3, <2>4 DEF Fits
<1> HIDE DEF d
<1>8. \A g \in DOMAIN contexts' : Fits(contexts'[g])
  BY <1>1, <1>7, ContextsKept
<1> QED
  BY <1>3, <1>8, ContextsFrom

LEMMA ContextsStep ==
  ASSUME TypeInv, [Next]_vars
  PROVE  ContextsFit'
<1>1. 1 \notin doomed' /\ \A fh \in DOMAIN contexts : Fits(contexts[fh])
  BY DoomedStep, ContextsKept
<1>2. CASE contexts' = contexts \/ \E objs : Store(objs, contexts)
  BY <1>1, <1>2, ContextsFrom
<1>3. CASE Opening
  BY <1>3, OpeningContexts
<1>4. CASE Filing
  <2>1. ASSUME NEW fh \in DOMAIN contexts, Close(fh) PROVE ContextsFit'
    <3>1. contexts' = Map!Remove(contexts, fh)
      BY <2>1 DEF Close, Release, Releasedir
    <3>2. \A g \in DOMAIN contexts' : Fits(contexts'[g])
      BY <1>1, <3>1 DEF Map!Remove
    <3> QED
      BY <1>1, <3>2, ContextsFrom
  <2> QED
    BY <1>2, <1>4, <2>1 DEF Filing, Accept, Apply, PutDone, Flush, kernel
<1>5. CASE Naming
  <2>1. ASSUME NEW fh \in DOMAIN contexts, Cleanup(fh) PROVE ContextsFit'
    <3> DEFINE ctx == [contexts EXCEPT ![fh].cleaned = TRUE]
               c == contexts[fh]
               d == [c EXCEPT !.cleaned = TRUE]
    <3>1. contexts' = ctx \/ \E objs : Store(objs, ctx)
      BY <2>1 DEF Cleanup, Delete
    <3>2. Fits(c)
      BY <1>1
    <3>3. Fits(d)
      <4> HIDE DEF c
      <4>1. c = Context(c.inode, c.dir, c.cleaned, c.scan)
        BY <3>2 DEF Fits, IsContext, Context
      <4> DEFINE yes == TRUE
      <4>2. d = [c EXCEPT !.cleaned = yes]
        OBVIOUS
      <4> HIDE DEF yes, d
      <4>3. d = Context(c.inode, c.dir, yes, c.scan)
        BY <4>1, <4>2 DEF Context
      <4>4. d.inode = c.inode /\ d.dir = c.dir /\ d.cleaned = yes /\ d.scan = c.scan
        BY <4>3 DEF Context
      <4>5. IsContext(d)
        BY <3>2, <4>3, <4>4 DEF Fits, IsContext, Context
      <4> QED
        BY <3>2, <4>4, <4>5 DEF Fits
    <3>4. ctx = [contexts EXCEPT ![fh] = d]
      OBVIOUS
    <3> HIDE DEF ctx, d
    <3>5. \A g \in DOMAIN ctx : Fits(ctx[g])
      BY <1>1, <3>3, <3>4
    <3> QED
      BY <1>1, <3>1, <3>5, ContextsFrom
  <2>2. ASSUME NEW p, NEW q, NEW fh,
               Remove(p) \/ Rename(p, q) \/ RenameOpen(fh, q) \/ CanDelete(fh) \/ Finish
        PROVE  ContextsFit'
    BY <1>2, <2>2 DEF Remove, Delete, Rename, RenameOpen, Copy, CanDelete, Finish, Removed, Renamed
  <2> QED
    BY <1>5, <2>1, <2>2 DEF Naming
<1>6. CASE Listing
  <2>1. PICK fh \in DOMAIN contexts, n \in 0..PageSize : Readdir(fh, n) \/ ReadDirectory(fh, n)
    BY <1>6 DEF Listing
  <2>2. n \in Nat /\ objects \subseteq Paths /\ Len(contexts[fh].scan.got) \in Nat
    BY DEF TypeInv, ContextsFit, IsContext, IsScan
  <2>3. \E offered \in Seq(Entries) : Taken(fh, offered, n)
    BY <2>1, <2>2, OffersEntries DEF Readdir, ReadDirectory
  <2> QED
    BY <2>2, <2>3, TakenFits
<1>7. CASE UNCHANGED vars
  BY <1>2, <1>7 DEF vars, kernel
<1> QED
  BY <1>2, <1>3, <1>4, <1>5, <1>6, <1>7 DEF Next, Quiescent

-----------------------------------------------------------------------------
(* Steps of the handle table *)

\* What becomes of the handles.
LEMMA HandlesStep ==
  ASSUME TypeInv, [Next]_vars
  PROVE  HandlesFit'
<1>1. HandlesFit /\ puts \subseteq [path : Files, fh : Nat]
  BY DEF TypeInv, BytesFit
<1>2. ASSUME DOMAIN contexts' = DOMAIN contexts, UNCHANGED <<handles, next_handle>>,
             \A w \in puts' : w \in puts \/ w.fh = 0
      PROVE  HandlesFit'
  BY <1>1, <1>2 DEF HandlesFit
<1>3. ASSUME OpenHandle, DOMAIN contexts' = DOMAIN contexts \cup {next_handle}, puts' = puts
      PROVE  HandlesFit'
  <2>1. next_handle \in Nat \ {0} /\ next_handle' = next_handle + 1
    BY <1>1, <1>3 DEF OpenHandle, HandlesFit
  <2>2. handles' = handles \cup {next_handle} /\ next_handle \notin handles
    BY <1>1, <1>3 DEF OpenHandle, HandlesFit
  <2>3. handles' \subseteq 1..(next_handle' - 1)
    BY <1>1, <2>1, <2>2 DEF HandlesFit
  <2> QED
    BY <1>1, <1>3, <2>1, <2>2, <2>3 DEF HandlesFit
<1>4. \A objs, ctx : Store(objs, ctx) => DOMAIN contexts' = DOMAIN ctx
  BY DEF Store
<1>5. \A i, dir : DOMAIN Give(i, dir) = DOMAIN contexts \cup {next_handle}
  BY DEF Give, Map!Insert
<1>6. CASE Opening
  <2>1. ASSUME NEW i, NEW dir, OpenInode(i, dir) PROVE HandlesFit'
    BY <1>3, <1>5, <2>1 DEF OpenInode, files
  <2>2. ASSUME NEW p, NEW delete, OpenPath(p, delete) PROVE HandlesFit'
    BY <1>3, <1>5, <2>2 DEF OpenPath, files
  <2>3. ASSUME NEW p, Create(p) PROVE HandlesFit'
    <3>1. OpenHandle /\ puts' = puts /\ \E i, objs : Store(objs, Give(i, p \in Dirs))
      BY <2>3 DEF Create, Made, files
    <3> QED
      BY <1>3, <1>4, <1>5, <3>1
  <2>4. ASSUME NEW p, Lookup(p) \/ GetSecurity(p) \/ Mkdir(p) PROVE HandlesFit'
    <3>1. /\ UNCHANGED <<handles, next_handle>> /\ puts' = puts
          /\ contexts' = contexts \/ \E objs : Store(objs, contexts)
      BY <2>4 DEF Lookup, GetSecurity, Mkdir, Made, files, kernel
    <3> QED
      BY <1>2, <1>4, <3>1
  <2> QED
    BY <1>6, <2>1, <2>2, <2>3, <2>4 DEF Opening
<1>7. CASE Filing
  <2>1. ASSUME NEW w \in puts, PutDone(w) PROVE HandlesFit'
    <3>1. /\ puts' = puts \ {w} /\ next_handle' = next_handle
          /\ handles' = handles \ {w.fh} \/ handles' = handles
          /\ DOMAIN contexts' = DOMAIN contexts
      BY <1>4, <2>1 DEF PutDone
    <3>2. w.fh \notin DOMAIN contexts
      BY <1>1 DEF HandlesFit
    <3>3. ASSUME NEW v \in puts', v.fh # 0 PROVE v.fh \in handles' \ DOMAIN contexts'
      BY <1>1, <3>1, <3>3 DEF HandlesFit
    <3>4. handles' \subseteq 1..(next_handle' - 1) /\ DOMAIN contexts' \subseteq handles'
      BY <1>1, <3>1, <3>2 DEF HandlesFit
    <3> QED
      BY <1>1, <3>1, <3>3, <3>4 DEF HandlesFit
  <2>2. ASSUME NEW fh \in DOMAIN contexts, Close(fh) PROVE HandlesFit'
    <3>1. DOMAIN contexts' = DOMAIN contexts \ {fh} /\ next_handle' = next_handle
      BY <2>2 DEF Close, Release, Releasedir, Map!Remove
    <3>2. \/ puts' = puts /\ handles' = handles \ {fh}
          \/ /\ \E p : puts' = puts \cup {Put(p, fh)}
             /\ handles' = handles
          \/ puts' = puts /\ handles' = handles
      BY <2>2 DEF Close, Release, Releasedir, files
    <3>3. fh \in handles /\ \A w \in puts : w.fh # fh
      BY <1>1 DEF HandlesFit
    <3>4. \A w \in puts' : w \in puts \/ (w.fh = fh /\ handles' = handles)
      BY <3>2 DEF Put
    <3>5. \A v, w \in puts' : v.fh = fh /\ w.fh = fh => v = w
      BY <3>2, <3>3 DEF Put
    <3>6. handles' \subseteq 1..(next_handle' - 1) /\ DOMAIN contexts' \subseteq handles'
      BY <1>1, <3>1, <3>2 DEF HandlesFit
    <3>7. ASSUME NEW w \in puts', w.fh # 0 PROVE w.fh \in handles' \ DOMAIN contexts'
      BY <1>1, <3>1, <3>2, <3>3, <3>4, <3>7 DEF HandlesFit
    <3>8. ASSUME NEW v \in puts', NEW w \in puts', v.fh = w.fh, v.fh # 0 PROVE v = w
      BY <1>1, <3>3, <3>4, <3>5, <3>8 DEF HandlesFit
    <3> QED
      BY <1>1, <3>1, <3>6, <3>7, <3>8 DEF HandlesFit
  <2>3. ASSUME NEW c, Apply(c) PROVE HandlesFit'
    <3>1. /\ UNCHANGED <<contexts, handles, next_handle>>
          /\ \A w \in puts' : w \in puts \/ \E p : w = Put(p, 0)
      BY <2>3 DEF Apply, Written, Truncated, kernel
    <3> QED
      BY <1>2, <3>1 DEF Put
  <2>4. ASSUME NEW fh, Flush(fh) PROVE HandlesFit'
    BY <1>2, <2>4 DEF Flush, Put, kernel
  <2>5. ASSUME NEW op, NEW i, Accept(op, i) PROVE HandlesFit'
    BY <1>2, <2>5 DEF Accept, kernel
  <2> QED
    BY <1>7, <2>1, <2>2, <2>3, <2>4, <2>5 DEF Filing
<1>8. CASE Naming
  <2>1. UNCHANGED <<handles, next_handle>> /\ puts' = puts
    BY <1>8 DEF Naming, Remove, Rename, RenameOpen, Copy, CanDelete, Cleanup, Finish, files
  <2>2. \/ contexts' = contexts
        \/ \E objs : Store(objs, contexts)
        \/ \E ctx : /\ DOMAIN ctx = DOMAIN contexts
                    /\ contexts' = ctx \/ \E objs : Store(objs, ctx)
    BY <1>8 DEF Naming, Remove, Rename, RenameOpen, Copy, CanDelete, Cleanup, Delete,
                Finish, Removed, Renamed
  <2> QED
    BY <1>2, <1>4, <2>1, <2>2
<1>9. CASE Listing
  <2>1. UNCHANGED <<handles, next_handle>> /\ puts' = puts /\ DOMAIN contexts' = DOMAIN contexts
    BY <1>9 DEF Listing, Readdir, ReadDirectory, Taken, files
  <2> QED
    BY <1>2, <2>1
<1>10. CASE UNCHANGED vars
  BY <1>2, <1>10 DEF vars, files, kernel
<1> QED
  BY <1>6, <1>7, <1>8, <1>9, <1>10 DEF Next, Quiescent

-----------------------------------------------------------------------------
(* Steps of removals and renames, and of the objects *)

LEMMA PendingStep ==
  ASSUME TypeInv, [Next]_vars
  PROVE  PendingFits'
<1>1. PendingFits
  BY DEF TypeInv
<1>2. ASSUME pending' = pending, removed' = removed \/ Free PROVE PendingFits'
  BY <1>1, <1>2 DEF PendingFits, Free, None
<1>3. ASSUME NEW p, p # Root, NEW fh, Start("remove", p, Root, fh) PROVE PendingFits'
  BY <1>3 DEF PendingFits, Start
<1>4. CASE Opening
  <2>1. pending' = pending
    BY <1>4 DEF Opening, Lookup, GetSecurity, Create, Mkdir, Made, OpenInode, OpenPath
  <2>2. removed' = removed \/ Free
    BY <1>4 DEF Opening, Lookup, GetSecurity, Create, Mkdir, Made, OpenInode, OpenPath
  <2> QED
    BY <1>2, <2>1, <2>2
<1>5. CASE Filing
  BY <1>2, <1>5 DEF Filing, Accept, Apply, PutDone, Flush, Close
<1>6. CASE Naming
  <2>1. ASSUME NEW p \in Paths, Remove(p) PROVE PendingFits'
    BY <1>3, <2>1, PathSeqs DEF Remove
  <2>2. ASSUME NEW fh \in DOMAIN contexts, Cleanup(fh) PROVE PendingFits'
    <3> DEFINE i == contexts[fh].inode
    <3>1. CASE UNCHANGED <<pending, removed>>
      BY <1>2, <3>1
    <3>2. CASE i \in doomed /\ Live(i) /\ Start("remove", table.entries[i], Root, fh)
      <4>1. 1 \notin doomed /\ TableFits(table)
        BY DEF TypeInv, ContextsFit
      <4>2. table.entries[i] # Root
        BY <3>2, <4>1 DEF TableFits, Live
      <4> QED
        BY <1>3, <3>2, <4>2
    <3> QED
      BY <2>2, <3>1, <3>2 DEF Cleanup
  <2>3. ASSUME NEW p, NEW q, Copy(p, q) PROVE PendingFits'
    <3>1. p \in Files /\ q \in Files /\ p # q /\ p # Root
      BY <2>3, PathSeqs DEF Copy, Paths
    <3>2. /\ Start("rename", p, q, 0) /\ removed' = Map!Remove(removed, q)
      BY <2>3 DEF Copy
    <3>3. q \notin DOMAIN removed'
      BY <3>2 DEF Map!Remove
    <3> QED
      BY <3>1, <3>2, <3>3 DEF PendingFits, Start
  <2>4. ASSUME Finish PROVE PendingFits'
    BY <2>4 DEF Finish, PendingFits, None
  <2>5. ASSUME NEW fh, CanDelete(fh) PROVE PendingFits'
    BY <1>2, <2>5 DEF CanDelete
  <2> QED
    BY <1>6, <2>1, <2>2, <2>3, <2>4, <2>5 DEF Naming, Rename, RenameOpen
<1>7. CASE Listing
  BY <1>2, <1>7 DEF Listing, Readdir, ReadDirectory, Taken
<1>8. CASE UNCHANGED vars
  BY <1>2, <1>8 DEF vars
<1> QED
  BY <1>4, <1>5, <1>6, <1>7, <1>8 DEF Next, Quiescent

\* What a step adds to the store, and what it takes away.
LEMMA ObjectsStep ==
  ASSUME TypeInv, [Next]_vars
  PROVE  objects' \subseteq Paths
<1>1. objects \subseteq Paths
  BY DEF TypeInv
<1>2. CASE Opening
  BY <1>1, <1>2 DEF Opening, Lookup, GetSecurity, Create, Mkdir, Store, OpenInode, OpenPath
<1>3. CASE Filing
  <2>1. \A w \in puts : w.path \in Paths
    BY DEF TypeInv, BytesFit, Paths
  <2> QED
    BY <1>1, <1>3, <2>1 DEF Filing, Accept, Apply, PutDone, Store, Flush, Close
<1>4. CASE Naming
  <2>1. \A p, q : Copy(p, q) => objects' \subseteq Paths
    BY <1>1 DEF Copy, Store, Paths
  <2>2. \A p : Remove(p) => objects' \subseteq Paths
    BY <1>1 DEF Remove, Delete, Store
  <2>3. \A fh : CanDelete(fh) \/ Cleanup(fh) => objects' \subseteq Paths
    BY <1>1 DEF CanDelete, Cleanup, Delete, Store
  <2>4. Finish => objects' \subseteq Paths
    BY <1>1 DEF Finish, Removed, Renamed, Store
  <2> QED
    BY <1>4, <2>1, <2>2, <2>3, <2>4 DEF Naming, Rename, RenameOpen
<1>5. CASE Listing
  BY <1>1, <1>5 DEF Listing, Readdir, ReadDirectory, Taken
<1>6. CASE UNCHANGED vars
  BY <1>1, <1>6 DEF vars
<1> QED
  BY <1>2, <1>3, <1>4, <1>5, <1>6 DEF Next, Quiescent

-----------------------------------------------------------------------------
(* The types *)

LEMMA InitType == Init => TypeInv
<1> SUFFICES ASSUME Init PROVE TypeInv
  OBVIOUS
<1>1. objects \subseteq Paths
  BY OrderAssumption DEF Init
<1>2. TableFits(table)
  BY DEF Init, TableFits
<1>3. BytesFit
  BY DEF Init, BytesFit, Map!EmptyMap
<1>4. ContextsFit
  BY DEF Init, ContextsFit, Map!EmptyMap
<1>5. HandlesFit
  BY DEF Init, HandlesFit, Map!EmptyMap
<1>6. PendingFits
  BY DEF Init, PendingFits, None
<1> QED
  BY <1>1, <1>2, <1>3, <1>4, <1>5, <1>6 DEF TypeInv

LEMMA TypeStep == TypeInv /\ [Next]_vars => TypeInv'
  BY ObjectsStep, TableStep, BytesStep, ContextsStep, HandlesStep, PendingStep DEF TypeInv

\* Through every request, every answer of the store and every failure of it,
\* names, numbers and entries of the inode table agree (the maps that
\* get_or_create_inode, remove and rename of inode.rs:139-239 change), bytes are
\* buffered and put under the names of files only, and every handle belongs to
\* one open file or to one release whose PUT is under way (core.rs do_release).
THEOREM TypeInvariant == Spec => []TypeInv
<1>1. Init => TypeInv
  BY InitType
<1>2. TypeInv /\ [Next]_vars => TypeInv'
  BY TypeStep
<1> QED
  BY <1>1, <1>2, PTL DEF Spec

\* TypeOK follows.
THEOREM TypeCorrect == Spec => []TypeOK
<1>1. TypeInv => TypeOK
  <2> SUFFICES ASSUME TypeInv PROVE TypeOK
    OBVIOUS
  <2>1. /\ objects \subseteq Paths
        /\ DOMAIN table.entries \subseteq 1..(table.next - 1)
        /\ \A p \in DOMAIN table.paths : table.paths[p] \in 1..(table.next - 1)
    BY DEF TypeInv, TableFits
  <2>2. DOMAIN buffers \subseteq 1..(table.next - 1)
    BY DEF TypeInv, BytesFit, Known
  <2>3. /\ DOMAIN contexts \cup {w.fh : w \in puts} \subseteq handles \cup {0}
        /\ handles \subseteq 1..(next_handle - 1)
    BY DEF TypeInv, HandlesFit
  <2>4. \A fh \in DOMAIN contexts : contexts[fh].scan.got # <<>> => contexts[fh].dir
    BY DEF TypeInv, ContextsFit, IsContext
  <2>5. pending.op \in {"none", "remove", "rename"}
    BY DEF TypeInv, PendingFits
  <2> QED
    BY <2>1, <2>2, <2>3, <2>4, <2>5 DEF TypeOK
<1> QED
  BY <1>1, TypeInvariant, PTL

-----------------------------------------------------------------------------
(* Removed names *)

\* No file is on the way to another name, and none has the name of the directory
\* it is in: readdir takes the marker of a directory for such a child (core.rs:263)
\* and numbers it.
FilesAreLeaves == \A p \in Paths : \A n \in 1..(Len(p) - 1) : SubSeq(p, 1, n) \notin Files
NoNamesakes == \A p \in Paths : Marker(p) \notin Files

\* Removed names that nothing may bring back.
Gone == {p \in DOMAIN removed : ~removed[p]}

\* Nothing is left of the file p: no bytes under way, accepted or buffered under its
\* name, no number that goes by it, and no buffer of it that can take bytes again.
NothingLeft(p) ==
  /\ \A w \in puts : w.path # p
  /\ \A c \in changes : c.path # p /\ NewBuffer(c).path # p
  /\ \A i \in DOMAIN buffers : buffers[i].path = p => ~buffers[i].full /\ ~Live(i)
  /\ \A i \in DOMAIN table.entries : table.entries[i] # p

GoneFit == \A p \in Gone : p \notin objects /\ (p \in Files => NothingLeft(p))

GoneInv == TypeInv /\ GoneFit

\* A file that is gone is not found, nor met on the way to another name.
LEMMA GoneNotFound ==
  ASSUME GoneInv, NEW p \in Gone, p \in Files
  PROVE  p \notin objects /\ NothingLeft(p) /\ ~Found(p)
<1>1. p \notin objects /\ NothingLeft(p) /\ TableFits(table)
  BY DEF GoneInv, GoneFit, TypeInv
<1>2. p # Root
  BY PathSeqs DEF Paths
<1>3. p \notin DOMAIN table.paths
  BY <1>1 DEF NothingLeft, TableFits
<1> QED
  BY <1>1, <1>2, <1>3 DEF Found, Mapped

LEMMA WayFiles ==
  ASSUME FilesAreLeaves, NEW p \in Files
  PROVE  /\ \A q \in Paths \cup {Root} : p \in Way(q) => p = q
         /\ \A q \in Paths : p \notin Way(Parent(q))
<1>1. ASSUME NEW q \in Paths, NEW n \in 1..(Len(q) - 1) PROVE p # SubSeq(q, 1, n)
  BY <1>1 DEF FilesAreLeaves
<1>2. ASSUME NEW q \in Paths \cup {Root}, p \in Way(q) PROVE p = q
  <2>1. PICK n \in 1..Len(q) : p = SubSeq(q, 1, n)
    BY <1>2 DEF Way
  <2>2. q \in Seq(Names) /\ Len(q) \in Nat
    BY PathSeqs
  <2>3. q # Root
    <3> SUFFICES ASSUME q = Root PROVE FALSE
      OBVIOUS
    <3>1. Len(q) = 0
      BY DEF Root
    <3> QED
      BY <2>1, <3>1
  <2>4. n = Len(q)
    BY <1>1, <2>1, <2>2, <2>3
  <2> QED
    BY <2>1, <2>2, <2>4, SubSeqFull
<1>3. ASSUME NEW q \in Paths, p \in Way(Parent(q)) PROVE FALSE
  <2>1. PICK n \in 1..Len(Parent(q)) : p = SubSeq(Parent(q), 1, n)
    BY <1>3 DEF Way
  <2>2. q \in Seq(Names) /\ Len(q) \in Nat /\ Len(q) >= 1
    BY PathSeqs, EmptySeq DEF Root
  <2>3. \A i \in 1..(Len(q) - 1) : q[i] \in Names
    BY <2>2
  <2>4. /\ Parent(q) = SubSeq(q, 1, Len(q) - 1) /\ Parent(q) \in Seq(Names)
        /\ Len(Parent(q)) = IF 1 <= Len(q) - 1 THEN Len(q) - 1 - 1 + 1 ELSE 0
        /\ \A i \in 1..Len(Parent(q)) : Parent(q)[i] = q[1 + i - 1]
    BY <2>2, <2>3, SubSeqProperties DEF Parent
  <2>5. n \in 1..(Len(q) - 1) /\ n \in Nat /\ Len(Parent(q)) = Len(q) - 1
    BY <2>1, <2>2, <2>4
  <2>6. SubSeq(Parent(q), 1, n) = SubSeq(q, 1, n)
    <3>1. /\ \A i \in 1..n : q[i] \in Names
          /\ \A i \in 1..n : Parent(q)[i] \in Names
      BY <2>2, <2>4, <2>5
    <3>2. /\ SubSeq(q, 1, n) \in Seq(Names) /\ Len(SubSeq(q, 1, n)) = n
          /\ \A i \in 1..n : SubSeq(q, 1, n)[i] = q[i]
      BY <2>2, <2>5, <3>1, SubSeqProperties
    <3>3. /\ SubSeq(Parent(q), 1, n) \in Seq(Names) /\ Len(SubSeq(Parent(q), 1, n)) = n
          /\ \A i \in 1..n : SubSeq(Parent(q), 1, n)[i] = Parent(q)[i]
      BY <2>4, <2>5, <3>1, SubSeqProperties
    <3>4. \A i \in 1..n : Parent(q)[i] = q[i]
      BY <2>2, <2>4, <2>5
    <3> QED
      BY <3>2, <3>3, <3>4, SeqEqual
  <2> QED
    BY <1>1, <2>1, <2>5, <2>6
<1> QED
  BY <1>2, <1>3

\* A number given by a request goes by a name that is not gone.
LEMMA NumbersNotGone ==
  ASSUME GoneInv, NEW p \in Gone, p \in Files, NEW names, Numbers(names), p \notin names
  PROVE  \A i \in DOMAIN table'.entries : table'.entries[i] # p
<1>1. NothingLeft(p)
  BY GoneNotFound
<1> QED
  BY <1>1 DEF Numbers, Grown, NothingLeft

LEMMA NamesNotGone ==
  ASSUME FilesAreLeaves, NoNamesakes, GoneInv, [Next]_vars, ~Finish,
         NEW p \in Gone, p \in Files, p \in Gone'
  PROVE  \A i \in DOMAIN table'.entries : table'.entries[i] # p
<1>1. TypeInv /\ objects \subseteq Paths /\ p \notin objects /\ NothingLeft(p) /\ ~Found(p)
  BY GoneNotFound DEF GoneInv, TypeInv
<1>2. CASE table' = table
  BY <1>1, <1>2 DEF NothingLeft
<1>3. CASE Opening
  <2>1. ASSUME NEW i, NEW dir, OpenInode(i, dir) PROVE table' = table
    BY <2>1 DEF OpenInode
  <2>2. ASSUME NEW q \in Paths, Lookup(q)
        PROVE  \A i \in DOMAIN table'.entries : table'.entries[i] # p
    <3>1. Numbers({q}) /\ q # p
      BY <1>1, <2>2, OpeningNumbers DEF Lookup
    <3> QED
      BY <3>1, NumbersNotGone
  <2>3. ASSUME NEW q \in Paths, GetSecurity(q)
        PROVE  \A i \in DOMAIN table'.entries : table'.entries[i] # p
    <3>1. Numbers(Way(q)) /\ q # p
      BY <1>1, <2>3, OpeningNumbers DEF GetSecurity
    <3> QED
      BY <3>1, NumbersNotGone, WayFiles
  <2>4. ASSUME NEW q \in Paths \cup {Root}, NEW delete \in BOOLEAN, OpenPath(q, delete)
        PROVE  \A i \in DOMAIN table'.entries : table'.entries[i] # p
    <3>1. Numbers(Way(q)) /\ q # p
      BY <1>1, <2>4, OpeningNumbers DEF OpenPath
    <3> QED
      BY <3>1, NumbersNotGone, WayFiles
  <2>5. ASSUME NEW q \in Paths, Create(q) \/ Mkdir(q)
        PROVE  \A i \in DOMAIN table'.entries : table'.entries[i] # p
    <3>1. Numbers(Way(Parent(q)) \cup {q}) /\ removed' = Map!Remove(removed, q)
      BY <1>1, <2>5, OpeningNumbers DEF Create, Mkdir, Made
    <3>2. q # p
      BY <3>1 DEF Gone, Map!Remove
    <3> QED
      BY <3>1, <3>2, NumbersNotGone, WayFiles
  <2> QED
    BY <1>2, <1>3, <2>1, <2>2, <2>3, <2>4, <2>5 DEF Opening
<1>4. ASSUME NEW dir, NEW names \in {{}, Below(dir)}, Numbers(names)
      PROVE  \A i \in DOMAIN table'.entries : table'.entries[i] # p
  <2>1. p \notin Below(dir)
    BY <1>1 DEF Below, NoNamesakes
  <2> QED
    BY <1>4, <2>1, NumbersNotGone
<1>5. CASE Filing
  BY <1>2, <1>5 DEF Filing, Accept, Apply, PutDone, Flush, Close
<1>6. CASE Naming
  <2>1. ASSUME NEW q, NEW r, NEW fh,
               Remove(q) \/ Rename(q, r) \/ Cleanup(fh) \/ RenameOpen(fh, r)
        PROVE  table' = table
    BY <2>1 DEF Remove, Rename, Cleanup, RenameOpen, Copy
  <2>2. ASSUME NEW fh \in DOMAIN contexts, CanDelete(fh)
        PROVE  \E dir : \E names \in {{}, Below(dir)} : Numbers(names)
    BY <1>1, <2>2, ListingNumbers
  <2> QED
    BY <1>2, <1>4, <1>6, <2>1, <2>2 DEF Naming
<1>7. CASE Listing
  <2>1. PICK fh \in DOMAIN contexts, n \in 0..PageSize : Readdir(fh, n) \/ ReadDirectory(fh, n)
    BY <1>7 DEF Listing
  <2>2. Numbers(Below(table.entries[contexts[fh].inode]))
    BY <1>1, <2>1, ListingNumbers
  <2> QED
    BY <1>4, <2>2
<1>8. CASE UNCHANGED vars
  BY <1>2, <1>8 DEF vars
<1> QED
  BY <1>3, <1>5, <1>6, <1>7, <1>8 DEF Next, Quiescent

\* A number in use keeps its life at most: an inode that is gone stays gone.
LEMMA LifeEnds ==
  ASSUME TypeInv, [Next]_vars
  PROVE  \A i \in Known : Live(i)' => Live(i)
  BY TableStep DEF Later, Live

\* Nothing under way, accepted or buffered gets the name of a file that is gone.
LEMMA BytesNotGone ==
  ASSUME GoneInv, [Next]_vars, NEW p \in Gone, p \in Files
  PROVE  /\ \A w \in puts' : w.path # p
         /\ \A i \in DOMAIN buffers' : buffers'[i].path = p => ~buffers'[i].full /\ ~Live(i)'
         /\ \A c \in changes' : c.path # p /\ NewBuffer(c)'.path # p
<1> DEFINE Puts == \A w \in puts' : w.path # p
           Buffers == \A i \in DOMAIN buffers' :
                        buffers'[i].path = p => ~buffers'[i].full /\ ~Live(i)'
           Changes == \A c \in changes' : c.path # p /\ NewBuffer(c)'.path # p
<1> SUFFICES Puts /\ Buffers /\ Changes
  OBVIOUS
<1>1. /\ NothingLeft(p) /\ DOMAIN buffers \subseteq Known
      /\ \A i \in Known : Live(i)' => Live(i)
      /\ TableFits(table)
  BY GoneNotFound, LifeEnds DEF GoneInv, TypeInv, BytesFit
<1>2. ASSUME buffers' = buffers PROVE Buffers
  BY <1>1, <1>2 DEF NothingLeft
<1>3. ASSUME puts' \subseteq puts PROVE Puts
  BY <1>1, <1>3 DEF NothingLeft
<1>4. ASSUME changes' = changes /\ buffers' = buffers PROVE Changes
  <2>1. \A c \in changes' : NewBuffer(c)' = NewBuffer(c)
    BY <1>4 DEF NewBuffer
  <2> QED
    BY <1>1, <1>4, <2>1 DEF NothingLeft
<1>5. ASSUME UNCHANGED files PROVE Puts /\ Buffers /\ Changes
  BY <1>2, <1>3, <1>4, <1>5 DEF files
<1>6. ASSUME NEW op, NEW i \in DOMAIN table.entries, Accept(op, i)
      PROVE  Puts /\ Buffers /\ Changes
  <2>1. /\ UNCHANGED <<buffers, puts>>
        /\ changes' = {[op |-> op, inode |-> i, path |-> table.entries[i]]}
    BY <1>6 DEF Accept
  <2>2. Changes
    <3> SUFFICES ASSUME NEW e \in changes' PROVE e.path # p /\ NewBuffer(e)'.path # p
      OBVIOUS
    <3>1. e.path = table.entries[i] /\ e.inode = i /\ table.entries[i] # p
      BY <1>1, <2>1 DEF NothingLeft
    <3>2. NewBuffer(e)' = IF i \in DOMAIN buffers THEN buffers[i]
                          ELSE [path |-> e.path, full |-> FALSE]
      BY <2>1, <3>1 DEF NewBuffer, Map!Get
    <3>3. i \in DOMAIN buffers => buffers[i].path # p
      BY <1>1 DEF NothingLeft, Live
    <3> QED
      BY <3>1, <3>2, <3>3
  <2> QED
    BY <1>2, <1>3, <2>1, <2>2
<1>7. ASSUME NEW c \in changes, Apply(c) PROVE Puts /\ Buffers /\ Changes
  <2> DEFINE b == NewBuffer(c)
  <2>1. /\ b.path # p /\ c.path # p /\ b \in [path : Files, full : BOOLEAN]
    BY <1>1, BufferFits DEF NothingLeft, GoneInv
  <2>2. /\ changes' \subseteq changes
        /\ \A w \in puts' : w \in puts \/ w = Put(b.path, 0) \/ w = Put(c.path, 0)
        /\ \E full \in BOOLEAN : buffers' = Map!Insert(buffers, c.inode, [b EXCEPT !.full = full])
    BY <1>7 DEF Apply, Written, Truncated
  <2> HIDE DEF b
  <2>3. Puts
    BY <1>1, <2>1, <2>2 DEF NothingLeft, Put
  <2>4. PICK d : buffers' = Map!Insert(buffers, c.inode, d) /\ d.path # p
    BY <2>1, <2>2
  <2>5. Buffers
    <3>1. ASSUME NEW i \in DOMAIN buffers', buffers'[i].path = p
          PROVE  i \in DOMAIN buffers /\ buffers'[i] = buffers[i]
      BY <2>4, <3>1 DEF Map!Insert
    <3> QED
      BY <1>1, <3>1 DEF NothingLeft
  <2>6. Changes
    <3> SUFFICES ASSUME NEW e \in changes' PROVE e.path # p /\ NewBuffer(e)'.path # p
      OBVIOUS
    <3>1. e \in changes /\ e.path # p /\ NewBuffer(e).path # p
      BY <1>1, <2>2 DEF NothingLeft
    <3>2. NewBuffer(e)' = IF e.inode \in DOMAIN buffers' THEN buffers'[e.inode]
                          ELSE [path |-> e.path, full |-> FALSE]
      BY DEF NewBuffer, Map!Get
    <3>3. NewBuffer(e) = IF e.inode \in DOMAIN buffers THEN buffers[e.inode]
                         ELSE [path |-> e.path, full |-> FALSE]
      BY DEF NewBuffer, Map!Get
    <3>4. CASE e.inode = c.inode
      <4>1. NewBuffer(e)' = d
        BY <2>4, <3>2, <3>4 DEF Map!Insert
      <4> QED
        BY <2>4, <3>1, <4>1
    <3>5. CASE e.inode # c.inode
      <4>1. NewBuffer(e)' = NewBuffer(e)
        BY <2>4, <3>2, <3>3, <3>5 DEF Map!Insert
      <4> QED
        BY <3>1, <4>1
    <3> QED
      BY <3>4, <3>5
  <2> QED
    BY <2>3, <2>5, <2>6
<1>8. ASSUME NEW fh \in DOMAIN contexts, Flush(fh) PROVE Puts /\ Buffers /\ Changes
  <2> DEFINE i == contexts[fh].inode
  <2>1. /\ i \in DOMAIN buffers /\ buffers[i].full /\ puts' = puts \cup {Put(buffers[i].path, 0)}
        /\ buffers' = Map!Insert(buffers, i, [buffers[i] EXCEPT !.full = FALSE])
        /\ changes' = changes
    BY <1>8 DEF Flush
  <2> HIDE DEF i
  <2>2. buffers[i].path # p /\ buffers[i] \in [path : Files, full : BOOLEAN]
    BY <1>1, <2>1 DEF NothingLeft, GoneInv, TypeInv, BytesFit
  <2>3. Puts
    BY <1>1, <2>1, <2>2 DEF NothingLeft, Put
  <2>4. PICK d : buffers' = Map!Insert(buffers, i, d) /\ d.path # p
    BY <2>1, <2>2
  <2>5. Buffers
    <3>1. ASSUME NEW j \in DOMAIN buffers', buffers'[j].path = p
          PROVE  j \in DOMAIN buffers /\ buffers'[j] = buffers[j]
      BY <2>4, <3>1 DEF Map!Insert
    <3> QED
      BY <1>1, <3>1 DEF NothingLeft
  <2>6. Changes
    <3> SUFFICES ASSUME NEW e \in changes PROVE e.path # p /\ NewBuffer(e)'.path # p
      BY <2>1
    <3>1. e.path # p /\ NewBuffer(e).path # p
      BY <1>1 DEF NothingLeft
    <3>2. NewBuffer(e)' = d \/ NewBuffer(e)' = NewBuffer(e)
      BY <2>4 DEF NewBuffer, Map!Get, Map!Insert
    <3> QED
      BY <2>4, <3>1, <3>2
  <2> QED
    BY <2>3, <2>5, <2>6
<1>9. ASSUME NEW fh \in DOMAIN contexts, Release(fh) PROVE Puts /\ Buffers /\ Changes
  <2> DEFINE i == contexts[fh].inode
  <2>1. /\ buffers' = Map!Remove(buffers, i) /\ changes' = changes
        /\ \/ puts' = puts
           \/ /\ i \in DOMAIN buffers /\ buffers[i].full
              /\ puts' = puts \cup {Put(buffers[i].path, fh)}
    BY <1>9 DEF Release
  <2> HIDE DEF i
  <2>2. Puts
    BY <1>1, <2>1 DEF NothingLeft, Put
  <2>3. Buffers
    <3>1. \A j \in DOMAIN buffers' : j \in DOMAIN buffers /\ buffers'[j] = buffers[j]
      BY <2>1 DEF Map!Remove
    <3> QED
      BY <1>1, <3>1 DEF NothingLeft
  <2>4. Changes
    <3> SUFFICES ASSUME NEW e \in changes PROVE e.path # p /\ NewBuffer(e)'.path # p
      BY <2>1
    <3>1. e.path # p /\ NewBuffer(e).path # p
      BY <1>1 DEF NothingLeft
    <3>2. NewBuffer(e)' = [path |-> e.path, full |-> FALSE] \/ NewBuffer(e)' = NewBuffer(e)
      BY <2>1 DEF NewBuffer, Map!Get, Map!Remove
    <3> QED
      BY <3>1, <3>2
  <2> QED
    BY <2>2, <2>3, <2>4
<1>10. CASE Opening
  BY <1>5, <1>10 DEF Opening, Lookup, GetSecurity, Create, Mkdir, Made, OpenInode, OpenPath
<1>11. CASE Naming
  BY <1>5, <1>11 DEF Naming, Remove, Rename, Copy, CanDelete, Cleanup, RenameOpen, Finish
<1>12. CASE Listing
  BY <1>5, <1>12 DEF Listing, Readdir, ReadDirectory, Taken
<1>13. CASE UNCHANGED vars
  BY <1>5, <1>13 DEF vars
<1>14. CASE Filing
  <2>1. ASSUME NEW w, PutDone(w) PROVE Puts /\ Buffers /\ Changes
    <3>1. puts' \subseteq puts /\ UNCHANGED <<buffers, changes>>
      BY <2>1 DEF PutDone
    <3> QED
      BY <1>2, <1>3, <1>4, <3>1
  <2>2. ASSUME NEW fh, Releasedir(fh) PROVE Puts /\ Buffers /\ Changes
    BY <1>5, <2>2 DEF Releasedir
  <2> HIDE DEF Puts, Buffers, Changes
  <2> QED
    BY <1>6, <1>7, <1>8, <1>9, <1>14, <2>1, <2>2 DEF Filing, Close
<1> HIDE DEF Puts, Buffers, Changes
<1> QED
  BY <1>10, <1>11, <1>12, <1>13, <1>14 DEF Next, Quiescent

\* A name that is gone is given back to no object.
LEMMA ObjectsNotGone ==
  ASSUME GoneInv, [Next]_vars, ~Finish, NEW p \in Gone, p \in Gone'
  PROVE  p \notin objects'
<1>1. p \notin objects /\ (p \in Files => NothingLeft(p))
  BY DEF GoneInv, GoneFit
<1>2. CASE objects' \subseteq objects
  BY <1>1, <1>2
<1>3. ASSUME NEW q, objects' = objects \cup {q}, removed' = Map!Remove(removed, q)
      PROVE  p \notin objects'
  BY <1>1, <1>3 DEF Gone, Map!Remove
<1>4. CASE Opening
  <2>1. ASSUME NEW q, Create(q) \/ Mkdir(q) PROVE p \notin objects'
    BY <1>3, <2>1 DEF Create, Mkdir, Made, Store
  <2> QED
    BY <1>2, <1>4, <2>1 DEF Opening, Lookup, GetSecurity, OpenInode, OpenPath
<1>5. CASE Filing
  <2>1. ASSUME NEW w \in puts, PutDone(w) PROVE p \notin objects'
    <3>1. w.path \in Files
      BY DEF GoneInv, TypeInv, BytesFit
    <3>2. w.path # p
      BY <1>1, <3>1 DEF NothingLeft
    <3> QED
      BY <1>1, <2>1, <3>2 DEF PutDone, Store
  <2> QED
    BY <1>2, <1>5, <2>1 DEF Filing, Accept, Apply, Flush, Close
<1>6. CASE Naming
  <2>1. ASSUME NEW q, NEW r, Copy(q, r) PROVE p \notin objects'
    BY <1>3, <2>1 DEF Copy, Store
  <2>2. ASSUME NEW q, NEW fh, Remove(q) \/ CanDelete(fh) \/ Cleanup(fh) PROVE p \notin objects'
    <3>1. objects' \subseteq objects
      BY <2>2 DEF Remove, CanDelete, Cleanup, Delete, Store
    <3> QED
      BY <1>2, <3>1
  <2> QED
    BY <1>6, <2>1, <2>2 DEF Naming, Rename, RenameOpen
<1>7. CASE Listing
  BY <1>2, <1>7 DEF Listing, Readdir, ReadDirectory, Taken
<1>8. CASE UNCHANGED vars
  BY <1>2, <1>8 DEF vars
<1> QED
  BY <1>4, <1>5, <1>6, <1>7, <1>8 DEF Next, Quiescent

\* Only the end of a removal or rename makes a name gone.
LEMMA GoneBefore ==
  ASSUME [Next]_vars, ~Finish
  PROVE  Gone' \subseteq Gone
<1>1. CASE removed' = removed
  BY <1>1 DEF Gone
<1>2. CASE \E q : removed' = Map!Remove(removed, q)
  BY <1>2 DEF Gone, Map!Remove
<1>3. CASE Opening
  BY <1>1, <1>2, <1>3 DEF Opening, Lookup, GetSecurity, Create, Mkdir, Made, OpenInode, OpenPath
<1>4. CASE Filing
  BY <1>1, <1>4 DEF Filing, Accept, Apply, PutDone, Flush, Close
<1>5. CASE Naming
  BY <1>1, <1>2, <1>5 DEF Naming, Remove, Rename, RenameOpen, Copy, CanDelete, Cleanup
<1>6. CASE Listing
  BY <1>1, <1>6 DEF Listing, Readdir, ReadDirectory, Taken
<1>7. CASE UNCHANGED vars
  BY <1>1, <1>7 DEF vars
<1> QED
  BY <1>3, <1>4, <1>5, <1>6, <1>7 DEF Next, Quiescent

\* The end of a removal or rename: the name goes, and what was left of the file is
\* known by then.
LEMMA FinishGone ==
  ASSUME GoneInv, [Next]_vars, Finish, NEW p \in Gone'
  PROVE  p \notin objects' /\ (p \in Files => NothingLeft(p)')
<1> DEFINE r == pending.path
           own == IF Mapped(r) THEN {table.paths[r]} ELSE {}
<1>1. /\ TypeInv /\ TableFits(table) /\ PendingFits /\ r # Root
      /\ UNCHANGED files
  BY DEF GoneInv, TypeInv, PendingFits, Finish, Removed, Renamed
<1>2. \A c : NewBuffer(c)' = NewBuffer(c)
  BY <1>1 DEF files, NewBuffer
<1>3. \A i \in Known : Live(i)' => Live(i)
  BY <1>1, LifeEnds
<1>4. DOMAIN buffers \subseteq Known
  BY <1>1 DEF TypeInv, BytesFit
<1>5. CASE Removed
  <2>1. /\ table' = Forget(table, r) /\ objects' = objects
        /\ removed' = Map!Insert(removed, r, Haunted(r, own, own) \/ r \in objects)
    BY <1>5 DEF Removed
  <2>2. \A i \in DOMAIN table'.entries :
          /\ i \in DOMAIN table.entries /\ table'.entries[i] = table.entries[i]
          /\ i \notin own
    BY <1>1, <2>1, ForgetFits DEF Mapped
  <2>3. CASE p = r
    <3>1. removed'[r] = (Haunted(r, own, own) \/ r \in objects)
      BY <2>1 DEF Map!Insert
    <3>2. ~Haunted(r, own, own) /\ r \notin objects
      BY <2>3, <3>1 DEF Gone
    <3> HIDE DEF r, own
    <3>3. /\ \A w \in puts : w.path # r
          /\ \A c \in changes : c.path # r /\ NewBuffer(c).path # r
          /\ \A i \in DOMAIN buffers :
               buffers[i].path = r => ~buffers[i].full /\ (Live(i) => i \in own)
          /\ \A i \in DOMAIN table.entries \ own : table.entries[i] # r
      BY <3>2 DEF Haunted
    <3>4. \A i \in DOMAIN buffers : buffers[i].path = r => ~Live(i)'
      BY <1>3, <1>4, <2>2, <3>3 DEF Live
    <3>5. /\ \A w \in puts' : w.path # r
          /\ \A c \in changes' : c.path # r /\ NewBuffer(c)'.path # r
      BY <1>1, <1>2, <3>3 DEF files
    <3>6. \A i \in DOMAIN table'.entries : table'.entries[i] # r
      BY <2>2, <3>3
    <3>7. NothingLeft(p)'
      BY <1>1, <2>3, <3>3, <3>4, <3>5, <3>6 DEF NothingLeft, files
    <3> QED
      BY <2>1, <2>3, <3>2, <3>7
  <2>4. CASE p # r
    <3>1. p \in Gone
      BY <2>1, <2>4 DEF Gone, Map!Insert
    <3>2. p \notin objects'
      BY <2>1, <3>1 DEF GoneInv, GoneFit
    <3>3. ASSUME p \in Files PROVE NothingLeft(p)'
      <4>1. NothingLeft(p)
        BY <3>1, <3>3, GoneNotFound
      <4>2. \A i \in DOMAIN table'.entries : table'.entries[i] # p
        BY <2>2, <4>1 DEF NothingLeft
      <4> QED
        BY <3>1, <3>3, <4>2, BytesNotGone DEF NothingLeft
    <3> QED
      BY <3>2, <3>3
  <2> QED
    BY <2>3, <2>4
<1>6. CASE Renamed /\ UNCHANGED <<objects, contexts, table, removed>>
  <2>1. p \in Gone /\ objects' = objects /\ table' = table
    BY <1>6 DEF Gone
  <2>2. p \notin objects'
    BY <2>1 DEF GoneInv, GoneFit
  <2>3. ASSUME p \in Files PROVE NothingLeft(p)'
    <3>1. NothingLeft(p)
      BY <2>1, <2>3, GoneNotFound
    <3> QED
      BY <2>1, <2>3, <3>1, BytesNotGone DEF NothingLeft
  <2> QED
    BY <2>2, <2>3
<1>7. CASE /\ pending.op = "rename" /\ Store(objects \ {r}, contexts)
           /\ table' = Moved(table, r, pending.new)
           /\ removed' = Map!Insert(removed, r, Haunted(r, {}, own))
  <2>1. /\ pending.new \in Files /\ r # pending.new /\ pending.new \notin DOMAIN removed
        /\ pending.new # Root /\ objects' = objects \ {r}
    BY <1>1, <1>7, PathSeqs DEF PendingFits, Paths, Store
  <2>2. \A i \in DOMAIN table'.entries :
          /\ i \in DOMAIN table.entries
          /\ \/ table'.entries[i] = table.entries[i] /\ i \notin own
             \/ table'.entries[i] = pending.new
    BY <1>1, <1>7, <2>1, MovedFits DEF Mapped
  <2>3. CASE p = r
    <3>1. removed'[r] = Haunted(r, {}, own)
      BY <1>7 DEF Map!Insert
    <3>2. ~Haunted(r, {}, own)
      BY <2>3, <3>1 DEF Gone
    <3> HIDE DEF r, own
    <3>3. /\ \A w \in puts : w.path # r
          /\ \A c \in changes : c.path # r /\ NewBuffer(c).path # r
          /\ \A i \in DOMAIN buffers : buffers[i].path = r => ~buffers[i].full /\ ~Live(i)
          /\ \A i \in DOMAIN table.entries \ own : table.entries[i] # r
      BY <3>2 DEF Haunted
    <3>4. \A i \in DOMAIN buffers : buffers[i].path = r => ~Live(i)'
      BY <1>3, <1>4, <3>3
    <3>5. /\ \A w \in puts' : w.path # r
          /\ \A c \in changes' : c.path # r /\ NewBuffer(c)'.path # r
      BY <1>1, <1>2, <3>3 DEF files
    <3>6. \A i \in DOMAIN table'.entries : table'.entries[i] # r
      BY <2>1, <2>2, <3>3
    <3>7. NothingLeft(p)'
      BY <1>1, <2>3, <3>3, <3>4, <3>5, <3>6 DEF NothingLeft, files
    <3> QED
      BY <2>1, <2>3, <3>7
  <2>4. CASE p # r
    <3>1. p \in Gone
      BY <1>7, <2>4 DEF Gone, Map!Insert
    <3>2. p \notin objects' /\ p # pending.new
      BY <2>1, <3>1 DEF GoneInv, GoneFit, Gone
    <3>3. ASSUME p \in Files PROVE NothingLeft(p)'
      <4>1. NothingLeft(p)
        BY <3>1, <3>3, GoneNotFound
      <4>2. \A i \in DOMAIN table'.entries : table'.entries[i] # p
        BY <2>2, <3>2, <4>1 DEF NothingLeft
      <4> QED
        BY <3>1, <3>3, <4>2, BytesNotGone DEF NothingLeft
    <3> QED
      BY <3>2, <3>3
  <2> QED
    BY <2>3, <2>4
<1> QED
  BY <1>5, <1>6, <1>7 DEF Finish, Renamed

LEMMA GoneStep ==
  ASSUME FilesAreLeaves, NoNamesakes, GoneInv, [Next]_vars
  PROVE  GoneInv'
<1>1. TypeInv'
  BY TypeStep DEF GoneInv
<1>2. ASSUME NEW p \in Gone' PROVE p \notin objects' /\ (p \in Files => NothingLeft(p)')
  <2>1. CASE Finish
    BY <2>1, FinishGone
  <2>2. CASE ~Finish
    <3>1. p \in Gone
      BY <2>2, GoneBefore
    <3>2. p \notin objects'
      BY <2>2, <3>1, ObjectsNotGone
    <3>3. ASSUME p \in Files PROVE NothingLeft(p)'
      BY <2>2, <3>1, <3>3, NamesNotGone, BytesNotGone DEF NothingLeft
    <3> QED
      BY <3>2, <3>3
  <2> QED
    BY <2>1, <2>2
<1> QED
  BY <1>1, <1>2 DEF GoneInv, GoneFit

\* A name that was removed or renamed away stays absent until somebody makes it
\* again (core.rs do_unlink, do_rmdir and do_rename, with the buffers that do_release
\* and flush_buffer put later under the path they hold), given that no file's
\* name is one that readdir makes up or a lookup passes through.
THEOREM RemovalsLast ==
  ASSUME FilesAreLeaves, NoNamesakes
  PROVE  Spec => []RemovalLasts
<1>1. Init => GoneInv
  <2>1. Init => Gone = {}
    BY DEF Init, Gone, Map!EmptyMap
  <2> QED
    BY <2>1, InitType DEF GoneInv, GoneFit
<1>2. GoneInv /\ [Next]_vars => GoneInv'
  BY GoneStep
<1>3. GoneInv => RemovalLasts
  BY DEF GoneInv, GoneFit, Gone, RemovalLasts
<1> QED
  BY <1>1, <1>2, <1>3, PTL DEF Spec

-----------------------------------------------------------------------------
(* Directory streams *)

\* What the listings suppose of the names: none is a dot, no child has the name of the
\* directory it is in, a path is a file's or a directory's, and the store lists each once.
PlainNames ==
  /\ {Dot, DotDot} \cap Paths = {} /\ Files \cap Dirs = {}
  /\ \A p \in Paths : Marker(p) \notin Paths
  /\ \A m, n \in DOMAIN Order : Order[m] = Order[n] => m = n

\* Where an entry stands in whatever listing holds it: the dots, the marker, the names.
Place(x) == CHOOSE n \in DOMAIN Order : Order[n] = x
Rank(x) ==
  IF x = Dot THEN 1
  ELSE IF x = DotDot THEN 2
  ELSE IF x \in Paths THEN Place(x) + 3
  ELSE 3

Ascending(s) == \A m, n \in DOMAIN s : m < n => Rank(s[m]) < Rank(s[n])

\* What is listed of p from the beginning.
Shown(p, objs) == <<Dot>> \o <<DotDot>> \o Children(p, objs)

\* Nothing happened that a stream is not proof against.
Steady(s, os) ==
  IF os = "fuse" THEN s.gone \cup s.come = {} ELSE Seqs!ToSet(s.got) \cap s.gone = {}

Lasting(s) == (s.first \ s.gone) \cup {Dot, DotDot}

Passed(s, x) == s.done \/ (s.got # <<>> /\ Rank(x) <= Rank(s.got[Len(s.got)]))

\* A stream s of the directory i under way: what it delivered is in order, it left out
\* nothing that lasted, and the directory, if it has its number still, holds all of it;
\* over FUSE it is where the listing begins.
Exact(s, i, tb, objs, os) ==
  /\ Ascending(s.got)
  /\ \A x \in Lasting(s) : Passed(s, x) => x \in Seqs!ToSet(s.got)
  /\ i \in DOMAIN tb.entries =>
       LET all == Shown(tb.entries[i], objs) IN
       /\ Lasting(s) \cup Seqs!ToSet(s.got) \subseteq Seqs!ToSet(all)
       /\ os = "fuse" => Len(s.got) <= Len(all) /\ s.got = SubSeq(all, 1, Len(s.got))

StreamAt(c, tb, objs, os) ==
  LET s == c.scan IN
  /\ ~s.begun => s.got = <<>> /\ ~s.done
  /\ s.begun => c.dir
  /\ s.begun /\ Steady(s, os) => Exact(s, c.inode, tb, objs, os)

StreamsFit ==
  \A fh \in DOMAIN contexts :
    LET c == contexts[fh] IN
    StreamAt(c, table, objects, platform) /\ (c.dir /\ Live(c.inode) => table.entries[c.inode] \notin Files)

ListInv == TypeInv /\ StreamsFit

LEMMA Ranks ==
  ASSUME PlainNames
  PROVE  /\ Rank(Dot) = 1 /\ Rank(DotDot) = 2
         /\ \A n \in 1..Len(Order) : Order[n] \in Paths /\ Rank(Order[n]) = n + 3
         /\ \A x \in Paths : Rank(x) \in Nat /\ Rank(x) > 3
         /\ \A p \in Paths : Rank(Marker(p)) = 3
<1>1. Order \in Seq(Paths) /\ Len(Order) \in Nat /\ DOMAIN Order = 1..Len(Order)
  BY OrderAssumption
<1>2. Dot # DotDot
  <2>1. "." # ".."
    OBVIOUS
  <2>2. Dot[1] = "." /\ DotDot[1] = ".."
    BY DEF Dot, DotDot
  <2> QED
    BY <2>1, <2>2
<1>3. ASSUME NEW n \in 1..Len(Order) PROVE Order[n] \in Paths /\ Rank(Order[n]) = n + 3
  <2>1. Order[n] \in Paths /\ n \in DOMAIN Order
    BY <1>1
  <2>2. Order[n] # Dot /\ Order[n] # DotDot
    BY <2>1 DEF PlainNames
  <2>3. Place(Order[n]) = n
    <3>1. \A k \in DOMAIN Order : Order[k] = Order[n] <=> k = n
      BY <2>1 DEF PlainNames
    <3> QED
      BY <2>1, <3>1 DEF Place
  <2> QED
    BY <2>1, <2>2, <2>3 DEF Rank
<1>4. ASSUME NEW x \in Paths PROVE Rank(x) \in Nat /\ Rank(x) > 3
  <2>1. \E n \in 1..Len(Order) : Order[n] = x
    BY <1>1, OrderAssumption DEF Seqs!ToSet
  <2> QED
    BY <1>1, <1>3, <2>1
<1>5. ASSUME NEW p \in Paths PROVE Rank(Marker(p)) = 3
  <2>1. p \in Seq(Names) /\ Len(p) \in Nat /\ p # <<>>
    BY NamesAssumption
  <2>2. Len(p) \in 1..Len(p)
    BY <2>1, EmptySeq
  <2>3. p[Len(p)] \in Names
    BY <2>1, <2>2
  <2>4. Len(Marker(p)) = Len(p) + 1 /\ Len(Dot) = 1 /\ Len(DotDot) = 1
    BY <2>1, <2>3 DEF Marker, Dot, DotDot
  <2>5. Marker(p) # Dot /\ Marker(p) # DotDot
    <3>1. Len(Marker(p)) # 1
      BY <2>1, <2>2, <2>4
    <3> QED
      BY <2>4, <3>1
  <2>6. Marker(p) \notin Paths
    BY DEF PlainNames
  <2> QED
    BY <2>5, <2>6 DEF Rank
<1> QED
  BY <1>2, <1>3, <1>4, <1>5 DEF Rank

\* A sorted listing holds each name once, in the order of the store.
LEMMA SortedAscends ==
  ASSUME PlainNames, NEW names \in SUBSET Paths
  PROVE  LET s == Sorted(names) IN
         s \in Seq(names) /\ Ascending(s) /\ Seqs!ToSet(s) = names
<1> DEFINE m == Len(Order)
           Fine(s, n) ==
             /\ s \in Seq(names)
             /\ \A j \in 1..Len(s) : Rank(s[j]) <= n + 3
             /\ \A i, j \in 1..Len(s) : i < j => Rank(s[i]) < Rank(s[j])
             /\ \A k \in 1..n : Order[k] \in names => \E j \in 1..Len(s) : s[j] = Order[k]
<1>1. PICK f : Picks(f, names, m) /\ Sorted(names) = f[m]
  BY SortedPicks
<1>2. m \in Nat /\ \A n \in 1..m : Order[n] \in Paths /\ Rank(Order[n]) = n + 3
  BY OrderAssumption, Ranks
<1>3. \A x \in names : Rank(x) \in Nat
  BY Ranks
<1> HIDE DEF m
<1>0. ASSUME NEW n \in 1..m
      PROVE  f[n] = IF Order[n] \in names THEN Append(f[n - 1], Order[n]) ELSE f[n - 1]
  <2>1. n \in 0..m /\ n # 0
    BY <1>2
  <2>2. f[n] = IF n = 0 THEN <<>>
               ELSE IF Order[n] \in names THEN Append(f[n - 1], Order[n])
               ELSE f[n - 1]
    BY <1>1, <2>1 DEF Picks
  <2> QED
    BY <2>1, <2>2
<1> DEFINE T == {n \in Nat : n <= m => Fine(f[n], n)}
<1>4. 0 \in T
  <2>1. f[0] = <<>>
    BY <1>1, <1>2 DEF Picks
  <2>2. <<>> \in Seq(names) /\ Len(<<>>) = 0
    BY EmptySeq
  <2>3. Fine(<<>>, 0)
    BY <2>2
  <2> HIDE DEF Fine
  <2> QED
    BY <2>1, <2>3
<1>5. ASSUME NEW n \in T PROVE n + 1 \in T
  <2> SUFFICES ASSUME n + 1 <= m PROVE Fine(f[n + 1], n + 1)
    OBVIOUS
  <2>1. n \in Nat /\ n <= m /\ n + 1 \in 1..m /\ n + 1 \in 0..m /\ n + 1 # 0 /\ n + 1 - 1 = n
    BY <1>2
  <2> DEFINE s == f[n]
             t == f[n + 1]
             x == Order[n + 1]
  <2>2. Fine(s, n)
    BY <2>1
  <2>3. t = IF x \in names THEN Append(s, x) ELSE s
    BY <1>0, <2>1
  <2>4. Rank(x) = n + 1 + 3
    BY <1>2, <2>1
  <2>5. s \in Seq(names) /\ Len(s) \in Nat /\ \A j \in 1..Len(s) : s[j] \in names /\ Rank(s[j]) \in Nat
    BY <1>3, <2>2
  <2> HIDE DEF s, t, x
  <2>6. CASE x \notin names
    <3>1. \A k \in 1..(n + 1) : Order[k] \in names => k \in 1..n
      BY <2>1, <2>6 DEF x
    <3> QED
      BY <2>1, <2>2, <2>3, <2>5, <2>6, <3>1 DEF t
  <2>7. CASE x \in names
    <3>1. /\ t \in Seq(names) /\ Len(t) = Len(s) + 1
          /\ t[Len(s) + 1] = x /\ \A j \in 1..Len(s) : t[j] = s[j]
      BY <2>3, <2>5, <2>7
    <3>2. \A j \in 1..Len(t) : j \in 1..Len(s) \/ j = Len(s) + 1
      BY <2>5, <3>1
    <3>3. \A j \in 1..Len(t) : Rank(t[j]) <= n + 1 + 3
      BY <2>1, <2>2, <2>4, <2>5, <3>1, <3>2
    <3>4. ASSUME NEW i \in 1..Len(t), NEW j \in 1..Len(t), i < j PROVE Rank(t[i]) < Rank(t[j])
      <4>1. i \in 1..Len(s)
        BY <2>5, <3>1, <3>4
      <4>2. CASE j \in 1..Len(s)
        BY <2>2, <3>1, <3>4, <4>1, <4>2
      <4>3. CASE j = Len(s) + 1
        <5>1. Rank(s[i]) <= n + 3 /\ Rank(s[i]) \in Nat
          BY <2>2, <2>5, <4>1
        <5> QED
          BY <2>1, <2>4, <3>1, <4>1, <4>3, <5>1
      <4> QED
        BY <3>2, <4>2, <4>3
    <3>5. ASSUME NEW k \in 1..(n + 1), Order[k] \in names
          PROVE  \E j \in 1..Len(t) : t[j] = Order[k]
      <4>1. CASE k = n + 1
        BY <2>5, <3>1, <4>1 DEF x
      <4>2. CASE k \in 1..n
        <5>1. PICK j \in 1..Len(s) : s[j] = Order[k]
          BY <2>2, <3>5, <4>2
        <5> QED
          BY <2>5, <3>1, <5>1
      <4> QED
        BY <2>1, <4>1, <4>2
    <3> QED
      BY <3>1, <3>3, <3>4, <3>5 DEF t
  <2> QED
    BY <2>6, <2>7
<1>6. Fine(f[m], m)
  <2> HIDE DEF Fine
  <2>1. T = Nat
    BY <1>4, <1>5, Counting
  <2> QED
    BY <1>2, <2>1
<1>7. \A x \in names : \E k \in 1..m : Order[k] = x
  BY OrderAssumption DEF Seqs!ToSet, m
<1>8. DOMAIN Sorted(names) = 1..Len(Sorted(names))
  BY <1>1, <1>6
<1> QED
  BY <1>1, <1>6, <1>7, <1>8 DEF Ascending, Seqs!ToSet

\* What a directory lists of a store, besides the dots.
Held(p, objs) == {q \in objs : Parent(q) = p} \cup (IF p \in objs THEN {Marker(p)} ELSE {})

LEMMA JoinAscends ==
  ASSUME NEW S, NEW s \in Seq(S), NEW t \in Seq(S), Ascending(s), Ascending(t),
         \A x \in Seqs!ToSet(s), y \in Seqs!ToSet(t) : Rank(x) < Rank(y)
  PROVE  LET u == s \o t IN
         /\ u \in Seq(S) /\ Len(u) = Len(s) + Len(t) /\ Ascending(u)
         /\ Seqs!ToSet(u) = Seqs!ToSet(s) \cup Seqs!ToSet(t)
<1> DEFINE u == s \o t
<1>1. /\ DOMAIN s = 1..Len(s) /\ DOMAIN t = 1..Len(t) /\ Len(s) \in Nat /\ Len(t) \in Nat
      /\ u \in Seq(S) /\ Len(u) = Len(s) + Len(t) /\ DOMAIN u = 1..Len(u)
      /\ \A n \in 1..Len(s) : u[n] = s[n]
      /\ \A n \in 1..Len(t) : u[n + Len(s)] = t[n]
  <2>1. u \in Seq(S) /\ Len(u) = Len(s) + Len(t)
        /\ \A n \in 1..(Len(s) + Len(t)) : u[n] = IF n <= Len(s) THEN s[n] ELSE t[n - Len(s)]
    BY ConcatProperties
  <2> HIDE DEF u
  <2>2. ASSUME NEW n \in 1..Len(t) PROVE u[n + Len(s)] = t[n]
    <3>1. n + Len(s) \in 1..(Len(s) + Len(t)) /\ ~(n + Len(s) <= Len(s)) /\ n + Len(s) - Len(s) = n
      OBVIOUS
    <3> QED
      BY <2>1, <3>1
  <2> QED
    BY <2>1, <2>2
<1> HIDE DEF u
<1>2. ASSUME NEW n \in 1..Len(u), n \notin 1..Len(s)
      PROVE  n - Len(s) \in 1..Len(t) /\ u[n] = t[n - Len(s)]
  <2>1. n - Len(s) \in 1..Len(t) /\ n - Len(s) + Len(s) = n
    BY <1>1, <1>2
  <2> QED
    BY <1>1, <2>1
<1>3. Ascending(u)
  <2> SUFFICES ASSUME NEW m \in 1..Len(u), NEW n \in 1..Len(u), m < n
               PROVE  Rank(u[m]) < Rank(u[n])
    BY <1>1 DEF Ascending
  <2>1. CASE n \in 1..Len(s)
    <3>1. m \in 1..Len(s)
      BY <1>1, <2>1
    <3> QED
      BY <1>1, <2>1, <3>1 DEF Ascending
  <2>2. CASE m \notin 1..Len(s)
    <3>1. n \notin 1..Len(s)
      BY <1>1, <2>2
    <3>2. m - Len(s) < n - Len(s)
      BY <1>1
    <3> QED
      BY <1>1, <1>2, <2>2, <3>1, <3>2 DEF Ascending
  <2>3. CASE m \in 1..Len(s) /\ n \notin 1..Len(s)
    <3>1. u[m] \in Seqs!ToSet(s) /\ u[n] \in Seqs!ToSet(t)
      BY <1>1, <1>2, <2>3 DEF Seqs!ToSet
    <3> QED
      BY <3>1
  <2> QED
    BY <2>1, <2>2, <2>3
<1>4. ASSUME NEW x PROVE x \in Seqs!ToSet(u) <=> x \in Seqs!ToSet(s) \/ x \in Seqs!ToSet(t)
  <2>1. ASSUME NEW n \in 1..Len(u), u[n] = x PROVE x \in Seqs!ToSet(s) \/ x \in Seqs!ToSet(t)
    BY <1>1, <1>2, <2>1 DEF Seqs!ToSet
  <2>2. ASSUME NEW n \in 1..Len(s), s[n] = x PROVE x \in Seqs!ToSet(u)
    <3>1. n \in 1..Len(u) /\ u[n] = x
      BY <1>1, <2>2
    <3> QED
      BY <1>1, <3>1 DEF Seqs!ToSet
  <2>3. ASSUME NEW n \in 1..Len(t), t[n] = x PROVE x \in Seqs!ToSet(u)
    <3>1. n + Len(s) \in 1..Len(u) /\ u[n + Len(s)] = x
      BY <1>1, <2>3
    <3> QED
      BY <1>1, <3>1 DEF Seqs!ToSet
  <2> QED
    BY <1>1, <2>1, <2>2, <2>3 DEF Seqs!ToSet
<1> QED
  BY <1>1, <1>3, <1>4 DEF u

LEMMA SingleAscends ==
  ASSUME NEW x
  PROVE  Ascending(<<x>>) /\ Seqs!ToSet(<<x>>) = {x} /\ Ascending(<<>>) /\ Seqs!ToSet(<<>>) = {}
  BY DEF Ascending, Seqs!ToSet

\* A listing is in order, and holds what the directory holds and the dots.
LEMMA ChildrenAscend ==
  ASSUME PlainNames, NEW objs \in SUBSET Paths, NEW p
  PROVE  LET c == Children(p, objs) IN
         c \in Seq(Entries) /\ Ascending(c) /\ Seqs!ToSet(c) = Held(p, objs)
<1> DEFINE names == {q \in objs : Parent(q) = p}
           s == IF p \in objs THEN <<Append(p, p[Len(p)])>> ELSE <<>>
           t == Sorted(names)
<1>1. t \in Seq(names) /\ Ascending(t) /\ Seqs!ToSet(t) = names /\ names \subseteq Entries
  BY SortedAscends DEF Entries
<1>2. names \subseteq Paths
  OBVIOUS
<1>3. Children(p, objs) = s \o t
  BY DEF Children
<1>4. /\ s \in Seq(Entries) /\ Ascending(s)
      /\ Seqs!ToSet(s) = IF p \in objs THEN {Marker(p)} ELSE {}
  <2>1. CASE p \in objs
    <3>1. s = <<Marker(p)>> /\ Marker(p) \in Entries
      BY <2>1 DEF Marker, Entries
    <3> HIDE DEF s
    <3> QED
      BY <2>1, <3>1, SingleAscends
  <2>2. CASE p \notin objs
    <3>1. s = <<>> /\ <<>> \in Seq(Entries)
      BY <2>2, EmptySeq
    <3> HIDE DEF s
    <3> QED
      BY <2>2, <3>1, SingleAscends
  <2> QED
    BY <2>1, <2>2
<1>5. Held(p, objs) = Seqs!ToSet(s) \cup Seqs!ToSet(t)
  BY <1>1, <1>4 DEF Held
<1> HIDE DEF s, t, names
<1>6. t \in Seq(Entries)
  BY <1>1, SeqMonotonic
<1>7. \A x \in Seqs!ToSet(s), y \in Seqs!ToSet(t) : Rank(x) < Rank(y)
  <2>1. ASSUME NEW x \in Seqs!ToSet(s), NEW y \in Seqs!ToSet(t) PROVE Rank(x) < Rank(y)
    <3>1. p \in Paths /\ x = Marker(p) /\ y \in Paths
      BY <1>1, <1>2, <1>4
    <3> QED
      BY <3>1, Ranks
  <2> QED
    BY <2>1
<1> QED
  BY <1>1, <1>3, <1>4, <1>5, <1>6, <1>7, JoinAscends

LEMMA ListingAscends ==
  ASSUME PlainNames, NEW objs \in SUBSET Paths, NEW p
  PROVE  LET all == Shown(p, objs)
             c == Children(p, objs)
         IN
         /\ all \in Seq(Entries) /\ Ascending(all)
         /\ c \in Seq(Entries) /\ Len(all) = 2 + Len(c)
         /\ Seqs!ToSet(all) = {Dot, DotDot} \cup Held(p, objs)
         /\ all[1] = Dot /\ all[2] = DotDot /\ \A n \in 3..Len(all) : all[n] = c[n - 2]
<1> DEFINE c == Children(p, objs)
           d == <<Dot>> \o <<DotDot>>
           all == Shown(p, objs)
<1>1. c \in Seq(Entries) /\ Ascending(c) /\ Seqs!ToSet(c) = Held(p, objs) /\ Len(c) \in Nat
  BY ChildrenAscend
<1>2. /\ d \in Seq(Entries) /\ Ascending(d) /\ Seqs!ToSet(d) = {Dot, DotDot} /\ Len(d) = 2
      /\ d[1] = Dot /\ d[2] = DotDot
  <2> DEFINE s == <<Dot>>
             t == <<DotDot>>
  <2>1. s \in Seq(Entries) /\ t \in Seq(Entries)
    BY DEF Entries
  <2>2. Len(s) = 1 /\ Len(t) = 1 /\ s[1] = Dot /\ t[1] = DotDot
    OBVIOUS
  <2>3. Seqs!ToSet(s) = {Dot} /\ Seqs!ToSet(t) = {DotDot}
    BY SingleAscends
  <2>4. Ascending(s) /\ Ascending(t)
    BY SingleAscends
  <2>5. d = s \o t
    OBVIOUS
  <2> HIDE DEF d, s, t
  <2>6. \A x \in Seqs!ToSet(s), y \in Seqs!ToSet(t) : Rank(x) < Rank(y)
    BY <2>3, Ranks
  <2>7. LET u == s \o t IN
        /\ u \in Seq(Entries) /\ Len(u) = Len(s) + Len(t) /\ Ascending(u)
        /\ Seqs!ToSet(u) = Seqs!ToSet(s) \cup Seqs!ToSet(t)
    BY <2>1, <2>4, <2>6, JoinAscends
  <2>8. \A n \in 1..(Len(s) + Len(t)) : (s \o t)[n] = IF n <= Len(s) THEN s[n] ELSE t[n - Len(s)]
    BY <2>1, ConcatProperties
  <2>9. d[1] = Dot /\ d[2] = DotDot
    <3>1. 1 \in 1..(Len(s) + Len(t)) /\ 2 \in 1..(Len(s) + Len(t)) /\ 2 - Len(s) = 1
      BY <2>2
    <3>2. /\ d[1] = IF 1 <= Len(s) THEN s[1] ELSE t[1 - Len(s)]
          /\ d[2] = IF 2 <= Len(s) THEN s[2] ELSE t[2 - Len(s)]
      BY <2>5, <2>8, <3>1
    <3> QED
      BY <2>2, <3>1, <3>2
  <2>10. Seqs!ToSet(d) = {Dot, DotDot} /\ Len(d) = 2
    BY <2>2, <2>3, <2>5, <2>7
  <2> QED
    BY <2>5, <2>7, <2>9, <2>10
<1>3. all = d \o c
  BY DEF Shown
<1> HIDE DEF c, d, all
<1>4. \A x \in Seqs!ToSet(d), y \in Seqs!ToSet(c) : Rank(x) < Rank(y)
  <2>1. ASSUME NEW y \in Held(p, objs) PROVE Rank(y) \in Nat /\ Rank(y) >= 3
    BY <2>1, Ranks DEF Held
  <2> QED
    BY <1>1, <1>2, <2>1, Ranks
<1>5. /\ all \in Seq(Entries) /\ Ascending(all) /\ Len(all) = 2 + Len(c)
      /\ Seqs!ToSet(all) = {Dot, DotDot} \cup Held(p, objs)
  <2>1. /\ all \in Seq(Entries) /\ Ascending(all) /\ Len(all) = Len(d) + Len(c)
        /\ Seqs!ToSet(all) = Seqs!ToSet(d) \cup Seqs!ToSet(c)
    BY <1>1, <1>2, <1>3, <1>4, JoinAscends
  <2> QED
    BY <1>1, <1>2, <2>1
<1>6. \A n \in 1..Len(all) : all[n] = IF n <= 2 THEN d[n] ELSE c[n - 2]
  BY <1>1, <1>2, <1>3, <1>5, ConcatProperties
<1>7. all[1] = Dot /\ all[2] = DotDot /\ \A n \in 3..Len(all) : all[n] = c[n - 2]
  <2>1. 1 \in 1..Len(all) /\ 2 \in 1..Len(all)
    BY <1>1, <1>5
  <2>2. all[1] = d[1] /\ all[2] = d[2]
    BY <1>6, <2>1
  <2>3. ASSUME NEW n \in 3..Len(all) PROVE all[n] = c[n - 2]
    <3>1. n \in 1..Len(all) /\ ~(n <= 2)
      BY <1>1, <1>5
    <3> QED
      BY <1>6, <3>1
  <2> QED
    BY <1>2, <2>2, <2>3
<1> QED
  BY <1>1, <1>5, <1>7 DEF all, c

\* Offsets count the entries of the listing.
LEMMA OffsetsCount ==
  ASSUME PlainNames, objects \subseteq Paths, NEW p, NEW k \in Nat
  PROVE  LET all == Shown(p, objects) IN FromOffset(p, k) = SubSeq(all, k + 1, Len(all))
<1> DEFINE c == Children(p, objects)
           all == Shown(p, objects)
           t == SubSeq(all, k + 1, Len(all))
<1>1. /\ all \in Seq(Entries) /\ c \in Seq(Entries)
      /\ Len(c) \in Nat /\ Len(all) \in Nat /\ Len(all) = 2 + Len(c)
      /\ all[1] = Dot /\ all[2] = DotDot /\ \A n \in 3..Len(all) : all[n] = c[n - 2]
  <2>1. /\ all \in Seq(Entries) /\ c \in Seq(Entries) /\ Len(all) = 2 + Len(c)
        /\ all[1] = Dot /\ all[2] = DotDot /\ \A n \in 3..Len(all) : all[n] = c[n - 2]
    BY ListingAscends
  <2> HIDE DEF c, all
  <2> QED
    BY <2>1
<1>2. SubSeq(c, 1, Len(c)) = c /\ SubSeq(all, 1, Len(all)) = all
  BY <1>1, SubSeqFull
<1>3. all = <<Dot>> \o <<DotDot>> \o c
  BY DEF Shown
<1> HIDE DEF c, all
<1>4. /\ t \in Seq(Entries)
      /\ Len(t) = IF k + 1 <= Len(all) THEN Len(all) - (k + 1) + 1 ELSE 0
      /\ \A i \in 1..(Len(all) - (k + 1) + 1) : t[i] = all[k + 1 + i - 1]
  <2>1. \A i \in (k + 1)..Len(all) : all[i] \in Entries
    BY <1>1
  <2>2. k + 1 \in Int /\ Len(all) \in Int
    BY <1>1
  <2> QED
    BY <2>1, <2>2, SubSeqProperties
<1> HIDE DEF t
<1>5. CASE k = 0
  <2>1. t = all
    BY <1>2, <1>5 DEF t
  <2>2. FromOffset(p, 0) = <<Dot>> \o <<DotDot>> \o ChildrenFrom(p, 0)
    BY DEF FromOffset
  <2>3. ChildrenFrom(p, 0) = SubSeq(c, 1, Len(c))
    BY DEF ChildrenFrom, c
  <2> QED
    BY <1>2, <1>3, <1>5, <2>1, <2>2, <2>3 DEF t, all
<1>6. CASE k = 1
  <2> DEFINE u == <<DotDot>> \o c
  <2>1. FromOffset(p, 1) = <<>> \o <<DotDot>> \o ChildrenFrom(p, 1)
    BY DEF FromOffset
  <2>2. ChildrenFrom(p, 1) = SubSeq(c, 1, Len(c))
    BY DEF ChildrenFrom, c
  <2>3. FromOffset(p, 1) = u
    BY <1>2, <2>1, <2>2
  <2>4. /\ u \in Seq(Entries) /\ Len(u) = 1 + Len(c) /\ u[1] = DotDot
        /\ \A i \in 2..(1 + Len(c)) : u[i] = c[i - 1]
    <3>1. <<DotDot>> \in Seq(Entries) /\ Len(<<DotDot>>) = 1 /\ <<DotDot>>[1] = DotDot
      BY DEF Entries
    <3>2. /\ u \in Seq(Entries) /\ Len(u) = 1 + Len(c)
          /\ \A i \in 1..(1 + Len(c)) : u[i] = IF i <= 1 THEN <<DotDot>>[i] ELSE c[i - 1]
      BY <1>1, <3>1, ConcatProperties
    <3> HIDE DEF u
    <3> QED
      BY <1>1, <3>1, <3>2
  <2> HIDE DEF u
  <2>5. Len(t) = 1 + Len(c)
    BY <1>1, <1>4, <1>6
  <2>6. ASSUME NEW i \in 1..(1 + Len(c)) PROVE u[i] = t[i]
    <3>1. t[i] = all[1 + i]
      BY <1>1, <1>4, <1>6
    <3>2. CASE i = 1
      BY <1>1, <2>4, <3>1, <3>2
    <3>3. CASE i # 1
      <4>1. i \in 2..(1 + Len(c)) /\ 1 + i \in 3..Len(all) /\ 1 + i - 2 = i - 1
        BY <1>1, <3>3
      <4> QED
        BY <1>1, <2>4, <3>1, <4>1
    <3> QED
      BY <3>2, <3>3
  <2>7. u = t
    BY <1>4, <2>4, <2>5, <2>6, SeqEqual
  <2> QED
    BY <1>6, <2>3, <2>7 DEF t, all
<1>7. CASE k >= 2
  <2> DEFINE u == SubSeq(c, k - 2 + 1, Len(c))
  <2>1. FromOffset(p, k) = <<>> \o <<>> \o ChildrenFrom(p, k)
    <3>1. ~(k < 1) /\ ~(k < 2)
      BY <1>7
    <3> QED
      BY <3>1 DEF FromOffset
  <2>2. ChildrenFrom(p, k) = u
    <3>1. k <= 2 => k - 2 = 0
      BY <1>7
    <3> QED
      BY <1>7, <3>1 DEF ChildrenFrom, c
  <2>3. /\ u \in Seq(Entries)
        /\ Len(u) = IF k - 1 <= Len(c) THEN Len(c) - (k - 1) + 1 ELSE 0
        /\ \A i \in 1..(Len(c) - (k - 1) + 1) : u[i] = c[k - 1 + i - 1]
    <3>1. k - 2 + 1 = k - 1 /\ k - 1 \in Int /\ Len(c) \in Int /\ k - 1 >= 1
      BY <1>1, <1>7
    <3>2. \A i \in (k - 1)..Len(c) : c[i] \in Entries
      BY <1>1, <3>1
    <3> QED
      BY <3>1, <3>2, SubSeqProperties
  <2> HIDE DEF u
  <2>4. FromOffset(p, k) = u
    BY <2>1, <2>2, <2>3
  <2>5. Len(u) = Len(t)
    BY <1>1, <1>4, <1>7, <2>3
  <2>6. ASSUME NEW i \in 1..Len(t) PROVE u[i] = t[i]
    <3>1. k + 1 <= Len(all) /\ i \in 1..(Len(all) - (k + 1) + 1) /\ k + i \in 3..Len(all)
      BY <1>1, <1>4, <1>7
    <3>2. /\ i \in 1..(Len(c) - (k - 1) + 1)
          /\ k - 1 + i - 1 = k + i - 2 /\ k + 1 + i - 1 = k + i
      BY <1>1, <1>7, <3>1
    <3>3. t[i] = all[k + i] /\ u[i] = c[k + i - 2]
      BY <1>4, <2>3, <3>1, <3>2
    <3> QED
      BY <1>1, <3>1, <3>3
  <2>7. u = t
    BY <1>4, <2>3, <2>5, <2>6, SeqEqual
  <2> QED
    BY <2>4, <2>7 DEF t, all
<1> QED
  BY <1>5, <1>6, <1>7 DEF t, all

\* What the front ends read at first.
LEMMA FromStart ==
  ASSUME PlainNames, objects \subseteq Paths, NEW p
  PROVE  FromOffset(p, 0) = Shown(p, objects)
<1> DEFINE all == Shown(p, objects)
<1>1. all \in Seq(Entries) /\ FromOffset(p, 0) = SubSeq(all, 1, Len(all))
  BY ListingAscends, OffsetsCount
<1> HIDE DEF all
<1> QED
  BY <1>1, SubSeqFull DEF all

LEMMA EntryRanks ==
  ASSUME PlainNames
  PROVE  \A x \in Entries : Rank(x) \in Nat
<1>1. ASSUME NEW x \in Entries PROVE Rank(x) \in Nat
  <2>1. x \in Paths \/ x = Dot \/ x = DotDot \/ \E p \in Paths : x = Marker(p)
    BY DEF Entries
  <2> QED
    BY <2>1, Ranks
<1> QED
  BY <1>1

\* Where WinFSP goes on: after the marker, if the directory still lists it.
LEMMA MarkerFollowed ==
  ASSUME PlainNames, objects \subseteq Paths, NEW p, NEW marker
  PROVE  LET all == Shown(p, objects) IN
         /\ marker = Root => AfterMarker(p, marker) = all
         /\ marker # Root /\ marker \in Seqs!ToSet(all) =>
              \E k \in 1..Len(all) :
                all[k] = marker /\ AfterMarker(p, marker) = SubSeq(all, k + 1, Len(all))
<1> DEFINE all == FromOffset(p, 0)
           at == {n \in 1..Len(all) : all[n] = marker}
           k == CHOOSE n \in at : \A m \in at : n <= m
<1>1. AfterMarker(p, marker) = IF marker = Root THEN all
                               ELSE IF at = {} THEN <<>> ELSE SubSeq(all, k + 1, Len(all))
  BY DEF AfterMarker
<1>2. all \in Seq(Entries) /\ DOMAIN all = 1..Len(all) /\ Len(all) \in Nat
  <2>1. all = Shown(p, objects)
    BY FromStart
  <2>2. Shown(p, objects) \in Seq(Entries)
    BY ListingAscends
  <2> HIDE DEF all
  <2> QED
    BY <2>1, <2>2
<1> HIDE DEF all
<1>3. at # {} => k \in at
  <2>1. at \subseteq Nat
    BY <1>2
  <2> HIDE DEF at
  <2>2. at # {} => \E n \in at : \A m \in at : n <= m
    BY <2>1, LeastOf
  <2> QED
    BY <2>2
<1>4. marker \in Seqs!ToSet(all) => at # {}
  BY <1>2 DEF Seqs!ToSet
<1> HIDE DEF k
<1>5. ASSUME marker # Root, marker \in Seqs!ToSet(all)
      PROVE  \E n \in 1..Len(all) :
               all[n] = marker /\ AfterMarker(p, marker) = SubSeq(all, n + 1, Len(all))
  <2>1. k \in at /\ AfterMarker(p, marker) = SubSeq(all, k + 1, Len(all))
    BY <1>1, <1>3, <1>4, <1>5
  <2>2. k \in 1..Len(all) /\ all[k] = marker
    BY <2>1
  <2> HIDE DEF at
  <2> QED
    BY <2>1, <2>2
<1> QED
  <2>1. Shown(p, objects) = all
    BY FromStart DEF all
  <2>2. marker = Root => AfterMarker(p, marker) = all
    BY <1>1
  <2> HIDE DEF at
  <2> QED
    BY <1>5, <2>1, <2>2

\* What a stream got so far, and what it takes from a listing that goes on right there.
Onward(all, got, X, k, taken) ==
  /\ all \in Seq(Entries) /\ Ascending(all)
  /\ got \in Seq(Entries) /\ Ascending(got) /\ Seqs!ToSet(got) \subseteq Seqs!ToSet(all)
  /\ X \subseteq Seqs!ToSet(all)
  /\ \A x \in X : got # <<>> /\ Rank(x) <= Rank(got[Len(got)]) => x \in Seqs!ToSet(got)
  /\ k \in 0..Len(all)
  /\ IF got = <<>> THEN k = 0 ELSE k # 0 /\ all[k] = got[Len(got)]
  /\ taken \in Seq(Entries) /\ Len(taken) <= Len(all) - k
  /\ \A i \in 1..Len(taken) : taken[i] = all[k + i]

LEMMA MoreTaken ==
  ASSUME PlainNames, NEW all, NEW got, NEW X, NEW k, NEW taken, Onward(all, got, X, k, taken)
  PROVE  LET new == got \o taken
             m == k + Len(taken)
         IN
         /\ Ascending(new) /\ Seqs!ToSet(new) \subseteq Seqs!ToSet(all)
         /\ \A x \in X : new # <<>> /\ Rank(x) <= Rank(new[Len(new)]) => x \in Seqs!ToSet(new)
         /\ k = Len(all) => X \subseteq Seqs!ToSet(new)
         /\ k = Len(got) /\ got = SubSeq(all, 1, k) => Len(new) = m /\ new = SubSeq(all, 1, m)
<1>0. all \in Seq(Entries) /\ got \in Seq(Entries) /\ taken \in Seq(Entries)
  BY DEF Onward
<1> SUFFICES
      ASSUME all \in Seq(Entries), Ascending(all),
             got \in Seq(Entries), Ascending(got), Seqs!ToSet(got) \subseteq Seqs!ToSet(all),
             X \subseteq Seqs!ToSet(all),
             \A x \in X : got # <<>> /\ Rank(x) <= Rank(got[Len(got)]) => x \in Seqs!ToSet(got),
             k \in 0..Len(all),
             IF got = <<>> THEN k = 0 ELSE k # 0 /\ all[k] = got[Len(got)],
             NEW n \in 0..(Len(all) - k),
             taken \in Seq(Entries), Len(taken) = n, \A i \in 1..n : taken[i] = all[k + i],
             NEW new, new = got \o taken
      PROVE  /\ Ascending(new) /\ Seqs!ToSet(new) \subseteq Seqs!ToSet(all)
             /\ \A x \in X : new # <<>> /\ Rank(x) <= Rank(new[Len(new)]) => x \in Seqs!ToSet(new)
             /\ k = Len(all) => X \subseteq Seqs!ToSet(new)
             /\ k = Len(got) /\ got = SubSeq(all, 1, k) => Len(new) = k + n /\ new = SubSeq(all, 1, k + n)
  <2> DEFINE n == Len(taken)
             new == got \o taken
  <2>1. Len(taken) \in Nat /\ Len(all) \in Nat
    BY <1>0
  <2>2. n \in 0..(Len(all) - k)
    BY <2>1 DEF Onward
  <2> QED
    BY <2>2 DEF Onward
<1>1. /\ DOMAIN all = 1..Len(all) /\ DOMAIN got = 1..Len(got) /\ DOMAIN taken = 1..n
      /\ Len(all) \in Nat /\ Len(got) \in Nat
      /\ \A i \in 1..Len(all) : all[i] \in Entries /\ Rank(all[i]) \in Nat
      /\ \A i \in 1..Len(got) : got[i] \in Entries /\ Rank(got[i]) \in Nat
  <2>1. DOMAIN taken = 1..n
    <3>1. DOMAIN taken = 1..Len(taken)
      BY ONLY <1>0
    <3> QED
      BY <3>1
  <2>2. /\ DOMAIN all = 1..Len(all) /\ DOMAIN got = 1..Len(got)
        /\ Len(all) \in Nat /\ Len(got) \in Nat
    BY ONLY <1>0
  <2>3. /\ \A i \in 1..Len(all) : all[i] \in Entries
        /\ \A i \in 1..Len(got) : got[i] \in Entries
    BY ONLY <1>0
  <2> QED
    BY <2>1, <2>2, <2>3, EntryRanks
<1>2. Ascending(taken)
  <2> SUFFICES ASSUME NEW i \in 1..n, NEW j \in 1..n, i < j PROVE Rank(taken[i]) < Rank(taken[j])
    BY <1>1 DEF Ascending
  <2>1. k + i \in 1..Len(all) /\ k + j \in 1..Len(all) /\ k + i < k + j
    BY <1>1
  <2>2. Rank(all[k + i]) < Rank(all[k + j])
    BY <1>1, <2>1 DEF Ascending
  <2> QED
    BY <2>2
<1>3. ASSUME got # <<>>
      PROVE  /\ Len(got) \in 1..Len(got) /\ k \in 1..Len(all) /\ all[k] = got[Len(got)]
             /\ \A i \in 1..Len(got) : Rank(got[i]) <= Rank(all[k])
  <2>1. Len(got) \in 1..Len(got) /\ k \in 1..Len(all) /\ all[k] = got[Len(got)]
    BY <1>1, <1>3, EmptySeq
  <2>2. ASSUME NEW i \in 1..Len(got) PROVE Rank(got[i]) <= Rank(all[k])
    <3>1. i = Len(got) \/ i < Len(got)
      BY ONLY Len(got) \in Nat, i \in 1..Len(got)
    <3>2. i < Len(got) => Rank(got[i]) < Rank(got[Len(got)])
      BY <1>1, <2>1 DEF Ascending
    <3>3. Rank(got[i]) \in Nat /\ Rank(got[Len(got)]) \in Nat
      BY <1>1, <2>1
    <3>4. Rank(got[i]) <= Rank(got[Len(got)])
      BY <3>1, <3>2, <3>3
    <3> QED
      BY <2>1, <3>4
  <2> QED
    BY <2>1, <2>2
<1>4. \A x \in Seqs!ToSet(got), y \in Seqs!ToSet(taken) : Rank(x) < Rank(y)
  <2> SUFFICES ASSUME NEW i \in 1..Len(got), NEW j \in 1..n PROVE Rank(got[i]) < Rank(taken[j])
    BY <1>1 DEF Seqs!ToSet
  <2>1. got # <<>>
    BY <1>1, EmptySeq
  <2>2. k \in 1..Len(all) /\ k + j \in 1..Len(all) /\ k < k + j
    BY <1>1, <1>3, <2>1
  <2>3. Rank(all[k]) < Rank(all[k + j])
    BY <1>1, <2>2 DEF Ascending
  <2>4. Rank(got[i]) <= Rank(all[k]) /\ taken[j] = all[k + j]
    BY <1>3, <2>1
  <2> QED
    BY <1>1, <2>2, <2>3, <2>4
<1>5. /\ new \in Seq(Entries) /\ Len(new) = Len(got) + Len(taken) /\ Ascending(new)
      /\ Seqs!ToSet(new) = Seqs!ToSet(got) \cup Seqs!ToSet(taken)
  <2>1. LET u == got \o taken IN
        /\ u \in Seq(Entries) /\ Len(u) = Len(got) + Len(taken) /\ Ascending(u)
        /\ Seqs!ToSet(u) = Seqs!ToSet(got) \cup Seqs!ToSet(taken)
    BY ONLY got \in Seq(Entries), taken \in Seq(Entries), Ascending(got), <1>2, <1>4, JoinAscends
  <2> QED
    BY <2>1
<1>6. Seqs!ToSet(new) \subseteq Seqs!ToSet(all)
  <2>1. ASSUME NEW j \in 1..n PROVE taken[j] \in Seqs!ToSet(all)
    <3>1. k + j \in DOMAIN all /\ taken[j] = all[k + j]
      BY <1>1
    <3> QED
      BY <3>1 DEF Seqs!ToSet
  <2>2. Seqs!ToSet(taken) \subseteq Seqs!ToSet(all)
    BY <1>1, <2>1 DEF Seqs!ToSet
  <2> QED
    BY <1>5, <2>2
<1>7. ASSUME NEW x \in X, NEW j \in 1..Len(all), x = all[j], j <= k + n
      PROVE  x \in Seqs!ToSet(new)
  <2>1. CASE j <= k
    <3>1. k # 0
      BY <2>1
    <3>2. got # <<>> /\ k \in 1..Len(all)
      BY <1>1, <3>1
    <3>3. Rank(all[j]) <= Rank(all[k])
      <4>1. j = k \/ j < k
        BY <2>1
      <4>2. j < k => Rank(all[j]) < Rank(all[k])
        BY <1>1, <3>2 DEF Ascending
      <4> QED
        BY <1>1, <3>2, <4>1, <4>2
    <3>4. x \in Seqs!ToSet(got)
      BY <1>3, <1>7, <3>2, <3>3
    <3> QED
      BY <1>5, <3>4
  <2>2. CASE ~(j <= k)
    <3>1. j - k \in 1..n /\ k + (j - k) = j
      BY <1>1, <1>7, <2>2
    <3>2. taken[j - k] = x
      BY <1>7, <3>1
    <3> QED
      BY <1>1, <1>5, <3>1, <3>2 DEF Seqs!ToSet
  <2> QED
    BY <2>1, <2>2
<1>8. \A x \in X : \E j \in 1..Len(all) : x = all[j]
  BY <1>1 DEF Seqs!ToSet
<1>9. k = Len(all) => X \subseteq Seqs!ToSet(new)
  <2>1. k = Len(all) => \A j \in 1..Len(all) : j <= k + n
    BY <1>1
  <2> QED
    BY <1>7, <1>8, <2>1
<1>10. \A i \in 1..(Len(got) + n) : new[i] = IF i <= Len(got) THEN got[i] ELSE taken[i - Len(got)]
  <2>1. \A i \in 1..(Len(got) + Len(taken)) :
          (got \o taken)[i] = IF i <= Len(got) THEN got[i] ELSE taken[i - Len(got)]
    BY ONLY got \in Seq(Entries), taken \in Seq(Entries), ConcatProperties
  <2> QED
    BY <2>1
<1>11. ASSUME NEW x \in X, new # <<>>, Rank(x) <= Rank(new[Len(new)])
       PROVE  x \in Seqs!ToSet(new)
  <2>1. PICK j \in 1..Len(all) : x = all[j]
    BY <1>8
  <2>2. k + n \in 1..Len(all) /\ new[Len(new)] = all[k + n]
    <3>1. CASE n = 0
      <4>1. Len(new) = Len(got) /\ got # <<>>
        <5>1. Len(new) = Len(got)
          BY <1>1, <1>5, <3>1
        <5>2. Len(new) # 0
          BY <1>5, <1>11, EmptySeq
        <5> QED
          BY <5>1, <5>2, EmptySeq
      <4>2. Len(new) \in 1..(Len(got) + n) /\ Len(new) <= Len(got)
        BY <1>1, <1>3, <3>1, <4>1
      <4>3. new[Len(new)] = got[Len(got)]
        BY <1>10, <4>1, <4>2
      <4>4. k + n = k
        BY <1>1, <3>1
      <4> QED
        BY <1>3, <4>1, <4>3, <4>4
    <3>2. CASE n # 0
      <4>1. /\ n \in 1..n /\ Len(new) = Len(got) + n /\ Len(new) - Len(got) = n
            /\ Len(new) \in 1..(Len(got) + n) /\ ~(Len(new) <= Len(got)) /\ k + n \in 1..Len(all)
        BY <1>1, <1>5, <3>2
      <4>2. new[Len(new)] = taken[n]
        BY <1>10, <4>1
      <4> QED
        BY <4>1, <4>2
    <3> QED
      BY <3>1, <3>2
  <2>3. j <= k + n
    <3>1. ASSUME ~(j <= k + n) PROVE Rank(all[k + n]) < Rank(all[j])
      <4>1. k + n < j
        BY <1>1, <2>2, <3>1
      <4> QED
        BY <1>1, <2>2, <4>1 DEF Ascending
    <3>2. Rank(all[j]) <= Rank(all[k + n]) /\ Rank(all[j]) \in Nat /\ Rank(all[k + n]) \in Nat
      BY <1>1, <1>11, <2>1, <2>2
    <3> QED
      BY <3>1, <3>2
  <2> QED
    BY <1>7, <2>1, <2>3
<1>12. ASSUME k = Len(got), got = SubSeq(all, 1, k)
       PROVE  Len(new) = k + n /\ new = SubSeq(all, 1, k + n)
  <2> DEFINE t == SubSeq(all, 1, k + n)
  <2>1. k + n \in Nat /\ k + n <= Len(all)
    BY <1>1
  <2>2. /\ t \in Seq(Entries) /\ Len(t) = k + n
        /\ \A i \in 1..(k + n) : t[i] = all[i]
    <3>1. \A i \in 1..(k + n) : all[i] \in Entries
      BY <1>1, <2>1
    <3>2. /\ SubSeq(all, 1, k + n) \in Seq(Entries)
          /\ Len(SubSeq(all, 1, k + n)) = IF 1 <= k + n THEN k + n - 1 + 1 ELSE 0
          /\ \A i \in 1..(k + n - 1 + 1) : SubSeq(all, 1, k + n)[i] = all[1 + i - 1]
      BY <2>1, <3>1, SubSeqProperties
    <3> HIDE DEF t
    <3>3. /\ t \in Seq(Entries) /\ Len(t) = IF 1 <= k + n THEN k + n - 1 + 1 ELSE 0
          /\ \A i \in 1..(k + n - 1 + 1) : t[i] = all[1 + i - 1]
      BY <3>2 DEF t
    <3> QED
      BY <2>1, <3>3
  <2>3. \A i \in 1..k : got[i] = all[i]
    <3>1. \A i \in 1..k : all[i] \in Entries
      BY <1>1, <2>1
    <3>2. \A i \in 1..(k - 1 + 1) : SubSeq(all, 1, k)[i] = all[1 + i - 1]
      BY <3>1, SubSeqProperties
    <3> QED
      BY <1>12, <3>2
  <2>4. Len(new) = k + n
    BY <1>5, <1>12
  <2>5. ASSUME NEW i \in 1..(k + n) PROVE new[i] = all[i]
    <3>1. new[i] = IF i <= k THEN got[i] ELSE taken[i - k]
      BY <1>10, <1>12
    <3>2. i <= k => i \in 1..k
      OBVIOUS
    <3>3. ~(i <= k) => i - k \in 1..n /\ k + (i - k) = i
      BY <1>1
    <3> QED
      BY <2>3, <3>1, <3>2, <3>3
  <2> HIDE DEF t
  <2>6. new = t
    BY <1>5, <2>2, <2>4, <2>5, SeqEqual
  <2> QED
    BY <2>4, <2>6 DEF t
<1> QED
  BY <1>5, <1>6, <1>9, <1>11, <1>12

\* Directories that hold the same list the same.
LEMMA SameListing ==
  ASSUME PlainNames, NEW objs \in SUBSET Paths, NEW news \in SUBSET Paths, NEW p,
         Held(p, objs) = Held(p, news)
  PROVE  Shown(p, objs) = Shown(p, news)
<1>1. ASSUME NEW o \in SUBSET Paths
      PROVE  /\ {q \in o : Parent(q) = p} = Held(p, o) \cap {q \in Paths : Parent(q) = p}
             /\ p \in o <=> p \in Paths /\ Marker(p) \in Held(p, o)
  <2>1. p \in Paths => Marker(p) \notin Paths
    BY DEF PlainNames
  <2> QED
    BY <2>1 DEF Held
<1>2. /\ {q \in objs : Parent(q) = p} = {q \in news : Parent(q) = p}
      /\ p \in objs <=> p \in news
  BY <1>1
<1> DEFINE a == {q \in objs : Parent(q) = p}
           b == {q \in news : Parent(q) = p}
<1>3. /\ Children(p, objs) = (IF p \in objs THEN <<Append(p, p[Len(p)])>> ELSE <<>>) \o Sorted(a)
      /\ Children(p, news) = (IF p \in news THEN <<Append(p, p[Len(p)])>> ELSE <<>>) \o Sorted(b)
  BY DEF Children
<1>4. a = b
  BY <1>2
<1> HIDE DEF a, b
<1>5. Children(p, objs) = Children(p, news)
  BY <1>2, <1>3, <1>4
<1> QED
  BY <1>5 DEF Shown

\* A stream that has not begun.
LEMMA NewStream ==
  ASSUME NEW c, ~c.scan.begun, c.scan.got = <<>>, ~c.scan.done, NEW tb, NEW objs
  PROVE  StreamAt(c, tb, objs, platform) /\ Noted(c, objs) = c
  BY DEF StreamAt, Noted

\* What a change of the store does to a stream: a name that goes does not last.
LEMMA NotedStream ==
  ASSUME PlainNames, objects \subseteq Paths, NEW objs \in SUBSET Paths,
         NEW c, IsContext(c), StreamAt(c, table, objects, platform), NEW tb,
         c.dir /\ c.inode \in DOMAIN tb.entries =>
           Live(c.inode) /\ tb.entries[c.inode] = table.entries[c.inode]
  PROVE  StreamAt(Noted(c, objs), tb, objs, platform)
<1> DEFINE s == c.scan
           d == Noted(c, objs)
           p == table.entries[c.inode]
           old == Held(p, objects)
           new == Held(p, objs)
           gone == s.gone \cup (old \ new)
           come == s.come \cup (new \ old)
           e == Scan(s.begun, s.got, s.first, gone, come, s.done)
<1>1. CASE ~s.begun
  <2>1. d = c
    BY <1>1 DEF Noted
  <2> QED
    BY <1>1, <2>1 DEF StreamAt
<1>2. CASE s.begun /\ ~Live(c.inode)
  <2>1. d = c
    BY <1>2 DEF Noted
  <2>2. c.dir /\ c.inode \notin DOMAIN tb.entries
    BY <1>2 DEF StreamAt
  <2> QED
    BY <1>2, <2>1, <2>2 DEF StreamAt, Exact, Live
<1>3. CASE s.begun /\ Live(c.inode)
  <2>1. d = Note(c, gone, come)
    <3> DEFINE was == Seqs!ToSet(Children(p, objects))
               is == Seqs!ToSet(Children(p, objs))
    <3>1. d = Note(c, s.gone \cup (was \ is), s.come \cup (is \ was))
      BY <1>3 DEF Noted, Note
    <3>2. was = old /\ is = new
      BY ChildrenAscend
    <3> HIDE DEF was, is, old, new, d
    <3> QED
      BY <3>1, <3>2
  <2> HIDE DEF gone, come
  <2>2. d = Context(c.inode, c.dir, c.cleaned, e)
    <3>1. /\ c = Context(c.inode, c.dir, c.cleaned, s)
          /\ s = Scan(s.begun, s.got, s.first, s.gone, s.come, s.done)
      BY DEF IsContext, IsScan, Context, Scan
    <3> HIDE DEF d, s
    <3> QED
      BY ONLY <2>1, <3>1, NotedFields DEF e
  <2>3. /\ e.begun = s.begun /\ e.got = s.got /\ e.first = s.first
        /\ e.gone = gone /\ e.come = come /\ e.done = s.done
    BY DEF Scan
  <2> HIDE DEF d, e
  <2>4. d.inode = c.inode /\ d.dir = c.dir /\ d.scan = e
    BY <2>2 DEF Context
  <2>5. c.dir /\ s.begun
    BY <1>3 DEF StreamAt
  <2>6. s.gone \subseteq gone /\ s.come \subseteq come
    BY DEF gone, come
  <2>7. SUFFICES ASSUME Steady(e, platform)
        PROVE  Exact(e, c.inode, tb, objs, platform)
    BY <2>3, <2>4, <2>5 DEF StreamAt, d
  <2>8. Steady(s, platform)
    BY <2>3, <2>6, <2>7 DEF Steady
  <2> DEFINE all == Shown(p, objects)
  <2>9. /\ Ascending(s.got)
        /\ \A x \in Lasting(s) : Passed(s, x) => x \in Seqs!ToSet(s.got)
        /\ Lasting(s) \cup Seqs!ToSet(s.got) \subseteq Seqs!ToSet(all)
        /\ platform = "fuse" => Len(s.got) <= Len(all) /\ s.got = SubSeq(all, 1, Len(s.got))
    BY <1>3, <2>8 DEF StreamAt, Exact, Live
  <2>10. Lasting(e) \subseteq Lasting(s) /\ \A x : Passed(e, x) <=> Passed(s, x)
    BY <2>3, <2>6 DEF Lasting, Passed
  <2>11. /\ Seqs!ToSet(all) = {Dot, DotDot} \cup old
         /\ Seqs!ToSet(Shown(p, objs)) = {Dot, DotDot} \cup new
    BY ListingAscends
  <2> HIDE DEF all, s
  <2>12. Lasting(e) \subseteq {Dot, DotDot} \cup new
    BY <2>3, <2>9, <2>10, <2>11 DEF Lasting, gone
  <2>13. CASE platform = "fuse"
    <3>1. gone = {} /\ come = {}
      BY <2>3, <2>7, <2>13 DEF Steady
    <3>2. old = new
      BY <3>1 DEF gone, come
    <3>3. Shown(p, objs) = all
      BY <3>2, SameListing DEF all
    <3> QED
      BY <2>3, <2>5, <2>9, <2>10, <3>3, <2>13 DEF Exact
  <2>14. CASE platform # "fuse"
    <3>1. Seqs!ToSet(s.got) \cap gone = {}
      BY <2>3, <2>7, <2>14 DEF Steady
    <3>2. Seqs!ToSet(s.got) \subseteq {Dot, DotDot} \cup new
      BY <2>9, <2>11, <3>1 DEF gone
    <3> QED
      BY <2>3, <2>5, <2>9, <2>10, <2>11, <2>12, <3>2, <2>14 DEF Exact
  <2> QED
    BY <2>13, <2>14
<1> QED
  BY <1>1, <1>2, <1>3

\* What a front end offers goes on where the stream stands.
Offered(c) ==
  LET p == table.entries[c.inode]
      got == c.scan.got
  IN IF platform = "fuse" THEN FromOffset(p, Len(got))
     ELSE AfterMarker(p, IF got = <<>> THEN Root ELSE got[Len(got)])

Stands(got, all, k) ==
  /\ k \in 0..Len(all)
  /\ IF got = <<>> THEN k = 0 ELSE k # 0 /\ all[k] = got[Len(got)]
  /\ platform = "fuse" => k = Len(got) /\ got = SubSeq(all, 1, k)

LEMMA NoRootListed == Root \notin Entries
<1>1. Dot # Root /\ DotDot # Root
  <2>1. Len(Dot) = 1 /\ Len(DotDot) = 1 /\ Len(Root) = 0
    BY DEF Dot, DotDot, Root
  <2> QED
    BY <2>1
<1>2. ASSUME NEW p \in Paths PROVE Marker(p) # Root
  <2>1. p \in Seq(Names) /\ Len(p) \in Nat /\ p # <<>>
    BY NamesAssumption
  <2>2. Len(p) \in 1..Len(p)
    BY <2>1, EmptySeq
  <2>3. p[Len(p)] \in Names
    BY <2>1, <2>2
  <2>4. Len(Marker(p)) = Len(p) + 1
    BY <2>1, <2>3 DEF Marker
  <2> QED
    BY <2>1, <2>4, EmptySeq DEF Root
<1> QED
  BY <1>1, <1>2, PathSeqs DEF Entries

LEMMA OfferedOn ==
  ASSUME PlainNames, objects \subseteq Paths, NEW c, IsContext(c),
         LET all == Shown(table.entries[c.inode], objects)
             got == c.scan.got
         IN /\ Seqs!ToSet(got) \subseteq Seqs!ToSet(all)
            /\ platform = "fuse" => Len(got) <= Len(all) /\ got = SubSeq(all, 1, Len(got))
  PROVE  LET all == Shown(table.entries[c.inode], objects) IN
         \E k : Stands(c.scan.got, all, k) /\ Offered(c) = SubSeq(all, k + 1, Len(all))
<1> DEFINE p == table.entries[c.inode]
           all == Shown(p, objects)
           got == c.scan.got
<1>1. /\ Seqs!ToSet(got) \subseteq Seqs!ToSet(all)
      /\ platform = "fuse" => Len(got) <= Len(all) /\ got = SubSeq(all, 1, Len(got))
  OBVIOUS
<1>2. /\ got \in Seq(Entries) /\ Len(got) \in Nat
      /\ got # <<>> => Len(got) \in 1..Len(got) /\ got[Len(got)] \in Seqs!ToSet(got)
                       /\ got[Len(got)] \in Entries
  <2>1. got \in Seq(Entries)
    BY DEF IsContext, IsScan
  <2> HIDE DEF got
  <2>2. Len(got) \in Nat /\ DOMAIN got = 1..Len(got)
    BY <2>1
  <2>3. got # <<>> => Len(got) \in 1..Len(got)
    BY <2>1, <2>2, EmptySeq
  <2> QED
    BY <2>1, <2>2, <2>3 DEF Seqs!ToSet
<1>3. all \in Seq(Entries) /\ Len(all) \in Nat /\ DOMAIN all = 1..Len(all)
  <2>1. all \in Seq(Entries)
    BY ListingAscends
  <2> HIDE DEF all
  <2> QED
    BY <2>1
<1>4. Offered(c) = IF platform = "fuse" THEN FromOffset(p, Len(got))
                   ELSE AfterMarker(p, IF got = <<>> THEN Root ELSE got[Len(got)])
  BY DEF Offered
<1>5. SUFFICES \E k : Stands(got, all, k) /\ Offered(c) = SubSeq(all, k + 1, Len(all))
  OBVIOUS
<1> HIDE DEF got
<1>6. CASE platform = "fuse"
  <2> DEFINE k == Len(got)
  <2>1. Offered(c) = SubSeq(all, k + 1, Len(all))
    BY <1>2, <1>4, <1>6, OffsetsCount
  <2> HIDE DEF all
  <2>2. k \in 0..Len(all) /\ got = SubSeq(all, 1, k)
    BY <1>1, <1>2, <1>3, <1>6
  <2>3. got = <<>> => k = 0
    BY <1>2, EmptySeq
  <2>4. got # <<>> => k # 0 /\ all[k] = got[Len(got)]
    <3>1. SUFFICES ASSUME got # <<>> PROVE k # 0 /\ all[k] = got[k]
      OBVIOUS
    <3>2. k \in 1..k
      BY <1>2, <3>1
    <3>3. \A i \in 1..k : all[i] \in Entries
      BY <1>3, <2>2
    <3>4. \A i \in 1..(k - 1 + 1) : SubSeq(all, 1, k)[i] = all[1 + i - 1]
      BY <1>2, <3>3, SubSeqProperties
    <3> QED
      BY <1>2, <2>2, <3>2, <3>4
  <2> QED
    BY <2>1, <2>2, <2>3, <2>4 DEF Stands
<1>7. CASE platform # "fuse" /\ got = <<>>
  <2>1. Offered(c) = all
    BY <1>4, <1>7, MarkerFollowed
  <2> HIDE DEF all
  <2>2. all = SubSeq(all, 0 + 1, Len(all))
    BY <1>3, SubSeqFull
  <2>3. Stands(got, all, 0)
    BY <1>3, <1>7 DEF Stands
  <2> QED
    BY <2>1, <2>2, <2>3
<1>8. CASE platform # "fuse" /\ got # <<>>
  <2> DEFINE m == got[Len(got)]
  <2>1. m # Root /\ m \in Seqs!ToSet(all) /\ Offered(c) = AfterMarker(p, m)
    BY <1>1, <1>2, <1>4, <1>8, NoRootListed
  <2>2. PICK k \in 1..Len(all) :
          all[k] = m /\ AfterMarker(p, m) = SubSeq(all, k + 1, Len(all))
    BY <2>1, MarkerFollowed
  <2> HIDE DEF all
  <2>3. Stands(got, all, k)
    BY <1>3, <1>8, <2>2 DEF Stands
  <2> QED
    BY <2>1, <2>2, <2>3
<1> QED
  BY <1>6, <1>7, <1>8

\* A stream after it took entries.
LEMMA TakenStream ==
  ASSUME PlainNames, TypeInv, StreamsFit, NEW fh \in DOMAIN contexts, NEW n \in Nat,
         Live(contexts[fh].inode), Taken(fh, Offered(contexts[fh]), n), NEW tb,
         LET i == contexts[fh].inode IN
         i \in DOMAIN tb.entries => tb.entries[i] = table.entries[i]
  PROVE  /\ StreamAt(contexts'[fh], tb, objects, platform)
         /\ contexts'[fh].inode = contexts[fh].inode /\ contexts'[fh].dir = contexts[fh].dir
         /\ DOMAIN contexts' = DOMAIN contexts
         /\ \A g \in DOMAIN contexts : g # fh => contexts'[g] = contexts[g]
<1> DEFINE c == contexts[fh]
           p == table.entries[c.inode]
           all == Shown(p, objects)
           first == Seqs!ToSet(Children(p, objects))
           s == IF c.scan.begun THEN c.scan ELSE Begin(c.scan, first)
           offered == Offered(c)
           taken == SubSeq(offered, 1, n)
           got == c.scan.got
           new == got \o taken
           end == n = 0
           t == Take(s, taken, end)
           d == [c EXCEPT !.scan = t]
<1>1. /\ contexts' = [contexts EXCEPT ![fh] = d] /\ c.dir
      /\ n <= Len(offered) /\ (n = 0 => offered = <<>>) /\ ~c.scan.done
  BY DEF Taken, Begin, Take
<1>2. /\ IsContext(c) /\ StreamAt(c, table, objects, platform) /\ Live(c.inode)
      /\ objects \subseteq Paths
      /\ c.inode \in DOMAIN tb.entries => tb.entries[c.inode] = p
  BY DEF TypeInv, ContextsFit, StreamsFit
<1> HIDE DEF c
<1>3. /\ Seqs!ToSet(all) = {Dot, DotDot} \cup first
      /\ all \in Seq(Entries) /\ Ascending(all) /\ Len(all) \in Nat
  <2>1. first = Held(p, objects)
    BY <1>2, ChildrenAscend
  <2> HIDE DEF first
  <2>2. /\ all \in Seq(Entries) /\ Ascending(all)
        /\ Seqs!ToSet(all) = {Dot, DotDot} \cup Held(p, objects)
    BY <1>2, ListingAscends
  <2> HIDE DEF all
  <2> QED
    BY <2>1, <2>2
<1>4. offered = Offered(c)
  OBVIOUS
<1> HIDE DEF first, offered
<1>5. /\ s.begun /\ s.got = got /\ s.gone = c.scan.gone /\ s.come = c.scan.come
      /\ s.first = IF c.scan.begun THEN c.scan.first ELSE first
      /\ s.done = c.scan.done
      /\ s = Scan(s.begun, s.got, s.first, s.gone, s.come, s.done)
  <2>1. c.scan = Scan(c.scan.begun, c.scan.got, c.scan.first, c.scan.gone, c.scan.come, c.scan.done)
    BY <1>2 DEF IsContext, IsScan, Scan
  <2>2. Begin(c.scan, first) = Scan(TRUE, c.scan.got, first, c.scan.gone, c.scan.come, c.scan.done)
    BY <2>1, ScanFields
  <2> DEFINE b == Begin(c.scan, first)
  <2> HIDE DEF b
  <2>3. b = Scan(TRUE, c.scan.got, first, c.scan.gone, c.scan.come, c.scan.done)
    BY <2>2 DEF b
  <2>4. /\ b.begun /\ b.got = got /\ b.gone = c.scan.gone /\ b.come = c.scan.come
        /\ b.first = first /\ b.done = c.scan.done
    BY <2>3 DEF Scan
  <2>5. b = Scan(b.begun, b.got, b.first, b.gone, b.come, b.done)
    BY <2>3, <2>4
  <2>6. s = IF c.scan.begun THEN c.scan ELSE b
    BY DEF b
  <2> HIDE DEF s
  <2> QED
    BY <2>1, <2>4, <2>5, <2>6
<1> HIDE DEF s, taken, end
<1>6. /\ t.begun /\ t.got = new /\ t.gone = s.gone /\ t.come = s.come
      /\ t.first = s.first /\ t.done = end
  <2>1. s = Scan(s.begun, s.got, s.first, s.gone, s.come, s.done)
    BY <1>5
  <2> DEFINE more == s.got \o taken
  <2>2. t = Scan(s.begun, more, s.first, s.gone, s.come, end)
    BY <2>1, ScanFields
  <2>3. more = new
    BY <1>5
  <2> HIDE DEF t, more, new
  <2> QED
    BY <1>5, <2>2, <2>3 DEF Scan
<1> HIDE DEF t
<1>7. d.inode = c.inode /\ d.dir = c.dir /\ d.scan = t
  <2>1. c = Context(c.inode, c.dir, c.cleaned, c.scan)
    BY <1>2 DEF IsContext, Context
  <2>2. d = Context(c.inode, c.dir, c.cleaned, t)
    BY <2>1 DEF Context
  <2> HIDE DEF d
  <2> QED
    BY <2>2 DEF Context
<1> HIDE DEF d
<1>8. contexts'[fh] = d /\ DOMAIN contexts' = DOMAIN contexts
      /\ \A g \in DOMAIN contexts : g # fh => contexts'[g] = contexts[g]
  BY <1>1
<1>9. SUFFICES ASSUME Steady(t, platform) PROVE Exact(t, c.inode, tb, objects, platform)
  BY <1>1, <1>6, <1>7, <1>8 DEF StreamAt, c
<1>10. got \in Seq(Entries) /\ Len(got) \in Nat
  BY <1>2 DEF IsContext, IsScan
<1>11. /\ Ascending(got) /\ Lasting(s) \cup Seqs!ToSet(got) \subseteq Seqs!ToSet(all)
       /\ \A x \in Lasting(s) : got # <<>> /\ Rank(x) <= Rank(got[Len(got)]) => x \in Seqs!ToSet(got)
       /\ platform = "fuse" => Len(got) <= Len(all) /\ got = SubSeq(all, 1, Len(got))
  <2>1. CASE c.scan.begun
    <3>1. s = c.scan
      BY <2>1 DEF s
    <3>2. Steady(c.scan, platform)
      <4>1. offered \in Seq(Entries)
        BY <1>2, <1>4, <1>10, OffersEntries DEF Offered
      <4>2. taken \in Seq(Entries)
        <5>1. \A i \in 1..n : offered[i] \in Entries
          BY <1>1, <4>1
        <5> QED
          BY <5>1, SubSeqProperties DEF taken
      <4>3. Seqs!ToSet(got) \subseteq Seqs!ToSet(new)
        <5>1. /\ new \in Seq(Entries) /\ Len(new) = Len(got) + Len(taken) /\ Len(taken) \in Nat
              /\ \A i \in 1..(Len(got) + Len(taken)) : new[i] = IF i <= Len(got) THEN got[i] ELSE taken[i - Len(got)]
          BY <1>10, <4>2, ConcatProperties
        <5> HIDE DEF new, got
        <5>2. ASSUME NEW i \in 1..Len(got) PROVE i \in DOMAIN new /\ new[i] = got[i]
          BY <1>10, <5>1
        <5>3. DOMAIN got = 1..Len(got)
          BY <1>10
        <5> QED
          BY <5>2, <5>3 DEF Seqs!ToSet
      <4> HIDE DEF new
      <4> QED
        BY <1>6, <1>9, <3>1, <4>3 DEF Steady
    <3>3. Exact(c.scan, c.inode, table, objects, platform)
      BY <1>2, <2>1, <3>2 DEF StreamAt
    <3> QED
      BY <1>2, <3>1, <3>3 DEF Exact, Passed, Live
  <2>2. CASE ~c.scan.begun
    <3>1. got = <<>>
      BY <1>2, <2>2 DEF StreamAt
    <3>2. Ascending(got) /\ Seqs!ToSet(got) = {}
      BY <3>1, SingleAscends
    <3>3. Lasting(s) \subseteq Seqs!ToSet(all)
      BY <1>3, <1>5, <2>2 DEF Lasting
    <3>4. Len(got) = 0 /\ got = SubSeq(all, 1, 0)
      <4>1. SubSeq(all, 1, 0) = <<>>
        BY SubSeqEmpty
      <4> QED
        BY <3>1, <4>1, EmptySeq
    <3> QED
      BY <1>3, <3>1, <3>2, <3>3, <3>4
  <2> QED
    BY <2>1, <2>2
<1>12. PICK k : Stands(got, all, k) /\ offered = SubSeq(all, k + 1, Len(all))
  BY <1>2, <1>4, <1>11, OfferedOn
<1> HIDE DEF all, got
<1>13. k \in 0..Len(all) /\ (IF got = <<>> THEN k = 0 ELSE k # 0 /\ all[k] = got[Len(got)])
  BY <1>12 DEF Stands
<1>14. /\ Len(offered) = Len(all) - k
       /\ \A i \in 1..(Len(all) - k) : offered[i] = all[k + i] /\ offered[i] \in Entries
  <2>1. \A i \in (k + 1)..Len(all) : all[i] \in Entries
    BY <1>3, <1>13
  <2>2. /\ Len(offered) = IF k + 1 <= Len(all) THEN Len(all) - (k + 1) + 1 ELSE 0
        /\ \A i \in 1..(Len(all) - (k + 1) + 1) : offered[i] = all[k + 1 + i - 1]
    BY <1>3, <1>12, <1>13, <2>1, SubSeqProperties
  <2>3. ASSUME NEW i \in 1..(Len(all) - k) PROVE offered[i] = all[k + i] /\ offered[i] \in Entries
    <3>1. i \in 1..(Len(all) - (k + 1) + 1) /\ k + 1 + i - 1 = k + i /\ k + i \in (k + 1)..Len(all)
      BY <1>3, <1>13
    <3> QED
      BY <2>1, <2>2, <3>1
  <2>4. Len(offered) = Len(all) - k
    BY <1>3, <1>13, <2>2
  <2> QED
    BY <2>3, <2>4
<1>15. /\ n \in 0..(Len(all) - k) /\ taken \in Seq(Entries) /\ Len(taken) = n
       /\ \A i \in 1..n : taken[i] = all[k + i]
  <2>1. n \in 0..(Len(all) - k)
    BY <1>1, <1>14
  <2>2. \A i \in 1..n : offered[i] = all[k + i] /\ offered[i] \in Entries
    BY <1>3, <1>13, <1>14, <2>1
  <2>3. /\ taken \in Seq(Entries) /\ Len(taken) = IF 1 <= n THEN n - 1 + 1 ELSE 0
        /\ \A i \in 1..(n - 1 + 1) : taken[i] = offered[1 + i - 1]
    BY <2>2, SubSeqProperties DEF taken
  <2> QED
    BY <2>1, <2>2, <2>3
<1>16. /\ Ascending(new) /\ Seqs!ToSet(new) \subseteq Seqs!ToSet(all)
       /\ \A x \in Lasting(s) : new # <<>> /\ Rank(x) <= Rank(new[Len(new)]) => x \in Seqs!ToSet(new)
       /\ k = Len(all) => Lasting(s) \subseteq Seqs!ToSet(new)
       /\ k = Len(got) /\ got = SubSeq(all, 1, k) =>
            Len(new) = k + n /\ new = SubSeq(all, 1, k + n)
  <2> DEFINE X == Lasting(s)
  <2>1. /\ Seqs!ToSet(got) \subseteq Seqs!ToSet(all) /\ X \subseteq Seqs!ToSet(all)
        /\ \A x \in X : got # <<>> /\ Rank(x) <= Rank(got[Len(got)]) => x \in Seqs!ToSet(got)
    BY <1>11
  <2>2. all \in Seq(Entries) /\ Ascending(all) /\ got \in Seq(Entries) /\ Ascending(got)
    BY <1>3, <1>10, <1>11
  <2>3. new = got \o taken
    OBVIOUS
  <2> HIDE DEF X, new
  <2>4. /\ Ascending(new) /\ Seqs!ToSet(new) \subseteq Seqs!ToSet(all)
        /\ \A x \in X : new # <<>> /\ Rank(x) <= Rank(new[Len(new)]) => x \in Seqs!ToSet(new)
        /\ k = Len(all) => X \subseteq Seqs!ToSet(new)
        /\ k = Len(got) /\ got = SubSeq(all, 1, k) =>
             Len(new) = k + n /\ new = SubSeq(all, 1, k + n)
    <3>1. Onward(all, got, X, k, taken)
      <4>1. taken \in Seq(Entries) /\ Len(taken) <= Len(all) - k
        BY <1>15
      <4>2. \A i \in 1..Len(taken) : taken[i] = all[k + i]
        BY <1>15
      <4> QED
        BY <1>13, <2>1, <2>2, <4>1, <4>2 DEF Onward
    <3> DEFINE l == Len(taken)
               more == got \o taken
    <3>2. /\ Ascending(more) /\ Seqs!ToSet(more) \subseteq Seqs!ToSet(all)
          /\ \A x \in X : more # <<>> /\ Rank(x) <= Rank(more[Len(more)]) => x \in Seqs!ToSet(more)
          /\ k = Len(all) => X \subseteq Seqs!ToSet(more)
          /\ k = Len(got) /\ got = SubSeq(all, 1, k) =>
               Len(more) = k + l /\ more = SubSeq(all, 1, k + l)
      BY <3>1, MoreTaken
    <3>3. l = n /\ more = new
      BY <1>15, <2>3
    <3> HIDE DEF l, more
    <3> QED
      BY ONLY <3>2, <3>3
  <2> QED
    BY <2>4 DEF X
<1>17. end => k = Len(all)
  <2>1. end => Len(offered) = 0
    BY <1>1, EmptySeq DEF end
  <2>2. k \in Nat /\ Len(all) \in Nat /\ Len(offered) = Len(all) - k
    BY <1>3, <1>13, <1>14
  <2> QED
    BY <2>1, <2>2
<1>18. Lasting(t) = Lasting(s)
  BY <1>6 DEF Lasting
<1> HIDE DEF new
<1>19. \A x \in Lasting(t) : Passed(t, x) => x \in Seqs!ToSet(t.got)
  BY <1>6, <1>16, <1>17, <1>18 DEF Passed
<1>20. platform = "fuse" => Len(new) <= Len(all) /\ new = SubSeq(all, 1, Len(new))
  <2>1. platform = "fuse" => Len(new) = k + n /\ new = SubSeq(all, 1, k + n)
    BY <1>12, <1>16 DEF Stands
  <2>2. k + n <= Len(all)
    BY <1>3, <1>13, <1>15
  <2> QED
    BY <2>1, <2>2
<1>21. Lasting(t) \cup Seqs!ToSet(t.got) \subseteq Seqs!ToSet(all)
  BY <1>6, <1>11, <1>16, <1>18
<1>22. c.inode \in DOMAIN tb.entries => Shown(tb.entries[c.inode], objects) = all
  BY <1>2 DEF all
<1> QED
  BY <1>6, <1>16, <1>19, <1>20, <1>21, <1>22 DEF Exact

\* What StreamsFit asks of a context that goes through a step of the table.
Sound(c) ==
  /\ IsContext(c) /\ StreamAt(c, table, objects, platform)
  /\ c.dir /\ c.inode \in DOMAIN table'.entries =>
       /\ table'.entries[c.inode] \notin Files
       /\ c.scan.begun => Live(c.inode) /\ table'.entries[c.inode] = table.entries[c.inode]

\* The directory of an open stream keeps its name as long as it has its number.
LEMMA ContextsSound ==
  ASSUME TypeInv, StreamsFit, [Next]_vars, NEW fh \in DOMAIN contexts
  PROVE  Sound(contexts[fh])
<1> DEFINE c == contexts[fh]
<1>1. /\ IsContext(c) /\ c.inode \in Known /\ StreamAt(c, table, objects, platform)
      /\ c.dir /\ Live(c.inode) => table.entries[c.inode] \notin Files
  BY DEF TypeInv, ContextsFit, StreamsFit
<1>2. Later
  BY TableStep
<1> HIDE DEF c
<1>3. c.inode \in DOMAIN table'.entries =>
        /\ Live(c.inode)
        /\ \/ table'.entries[c.inode] = table.entries[c.inode]
           \/ table.entries[c.inode] \in Files
  BY <1>1, <1>2 DEF Later, Live
<1>4. Sound(c)
  BY <1>1, <1>3 DEF Sound
<1> QED
  BY <1>4 DEF c

LEMMA NewSound ==
  ASSUME NEW i, NEW dir \in BOOLEAN,
         dir /\ i \in DOMAIN table'.entries => table'.entries[i] \notin Files
  PROVE  Sound(NewContext(i, dir))
<1> DEFINE c == NewContext(i, dir)
<1>1. c = Context(i, dir, FALSE, NoScan)
  BY DEF NewContext, Context
<1>2. <<>> \in Seq(Entries)
  BY EmptySeq
<1>3. /\ IsScan(NoScan) /\ NoScan.got = <<>> /\ NoScan.begun = FALSE /\ NoScan.done = FALSE
  BY <1>2 DEF NoScan, IsScan
<1> HIDE DEF c
<1>4. c.inode = i /\ c.dir = dir /\ c.scan = NoScan
  BY <1>1 DEF Context
<1>5. IsContext(c)
  BY <1>1, <1>3, <1>4 DEF IsContext, Context
<1>6. StreamAt(c, table, objects, platform)
  BY <1>3, <1>4, NewStream
<1>7. Sound(c)
  BY <1>3, <1>4, <1>5, <1>6 DEF Sound
<1> QED
  BY <1>7 DEF c

\* A context that is given keeps the others as they were.
LEMMA GivenSound ==
  ASSUME TypeInv, StreamsFit, [Next]_vars, NEW i, NEW dir \in BOOLEAN,
         dir /\ i \in DOMAIN table'.entries => table'.entries[i] \notin Files
  PROVE  \A fh \in DOMAIN Give(i, dir) : Sound(Give(i, dir)[fh])
<1>1. ASSUME NEW fh \in DOMAIN Give(i, dir)
      PROVE  \/ Give(i, dir)[fh] = NewContext(i, dir)
             \/ fh \in DOMAIN contexts /\ Give(i, dir)[fh] = contexts[fh]
  BY <1>1 DEF Give, Map!Insert
<1> QED
  BY <1>1, NewSound, ContextsSound

LEMMA CleanedSound ==
  ASSUME NEW c, Sound(c)
  PROVE  Sound([c EXCEPT !.cleaned = TRUE])
<1> DEFINE yes == TRUE
           d == [c EXCEPT !.cleaned = yes]
<1>1. c = Context(c.inode, c.dir, c.cleaned, c.scan)
  BY DEF Sound, IsContext, Context
<1> HIDE DEF yes
<1>2. d = Context(c.inode, c.dir, yes, c.scan)
  BY <1>1 DEF Context
<1> HIDE DEF d
<1>3. d.inode = c.inode /\ d.dir = c.dir /\ d.cleaned = yes /\ d.scan = c.scan
  BY <1>2 DEF Context
<1>4. IsContext(d)
  BY <1>2, <1>3 DEF Sound, IsContext, Context
<1>5. Sound(d)
  BY <1>3, <1>4 DEF Sound, StreamAt
<1> QED
  BY <1>5 DEF d, yes

LEMMA StreamsFrom ==
  ASSUME PlainNames, TypeInv, [Next]_vars, platform' = platform,
         NEW ctx, \A fh \in DOMAIN ctx : Sound(ctx[fh]),
         (contexts' = ctx /\ objects' = objects) \/ \E objs : Store(objs, ctx)
  PROVE  StreamsFit'
<1>1. objects \subseteq Paths /\ objects' \subseteq Paths
  BY ObjectsStep DEF TypeInv
<1>2. CASE contexts' = ctx /\ objects' = objects
  <2>1. ASSUME NEW fh \in DOMAIN ctx
        PROVE  /\ StreamAt(ctx[fh], table', objects, platform)
               /\ ctx[fh].dir /\ ctx[fh].inode \in DOMAIN table'.entries =>
                    table'.entries[ctx[fh].inode] \notin Files
    <3> DEFINE c == ctx[fh]
    <3>1. Sound(c)
      OBVIOUS
    <3> HIDE DEF c
    <3>2. StreamAt(c, table', objects, platform)
      BY <3>1 DEF Sound, StreamAt, Exact, Live
    <3> QED
      BY <3>1, <3>2 DEF Sound, c
  <2> QED
    BY <1>2, <2>1 DEF StreamsFit, Live
<1>3. ASSUME NEW objs, Store(objs, ctx) PROVE StreamsFit'
  <2>1. /\ objects' = objs /\ objs \in SUBSET Paths
        /\ contexts' = [fh \in DOMAIN ctx |-> Noted(ctx[fh], objs)]
    BY <1>1, <1>3 DEF Store
  <2>2. ASSUME NEW fh \in DOMAIN ctx
        PROVE  LET d == Noted(ctx[fh], objs) IN
               /\ StreamAt(d, table', objs, platform)
               /\ d.dir /\ d.inode \in DOMAIN table'.entries => table'.entries[d.inode] \notin Files
    <3> DEFINE c == ctx[fh]
               d == Noted(c, objs)
    <3>1. Sound(c)
      OBVIOUS
    <3> HIDE DEF c
    <3>2. IsContext(c) /\ StreamAt(c, table, objects, platform)
      BY <3>1 DEF Sound
    <3>3. d.inode = c.inode /\ d.dir = c.dir
      BY <3>2, NotedContext
    <3>4. CASE c.scan.begun
      <4>1. c.dir /\ c.inode \in DOMAIN table'.entries =>
              Live(c.inode) /\ table'.entries[c.inode] = table.entries[c.inode]
        BY <3>1, <3>4 DEF Sound
      <4>2. StreamAt(d, table', objs, platform)
        BY <1>1, <2>1, <3>2, <4>1, NotedStream
      <4> QED
        BY <3>1, <3>3, <4>2 DEF Sound, c
    <3>5. CASE ~c.scan.begun
      <4>1. c.scan.got = <<>> /\ ~c.scan.done
        BY <3>2, <3>5 DEF StreamAt
      <4>2. d = c /\ StreamAt(c, table', objs, platform)
        BY <3>5, <4>1, NewStream
      <4> QED
        BY <3>1, <3>3, <4>2 DEF Sound, c
    <3> QED
      BY <3>4, <3>5
  <2>3. DOMAIN contexts' = DOMAIN ctx /\ \A fh \in DOMAIN ctx : contexts'[fh] = Noted(ctx[fh], objs)
    BY <2>1
  <2> QED
    BY <2>1, <2>2, <2>3 DEF StreamsFit, Live
<1> QED
  BY <1>2, <1>3

LEMMA PlatformKept ==
  ASSUME [Next]_vars
  PROVE  platform' = platform
<1>1. CASE Opening
  BY <1>1 DEF Opening, Lookup, GetSecurity, Create, Mkdir, OpenInode, OpenPath, Fuse, WinFsp
<1>2. CASE Filing
  BY <1>2 DEF Filing, Accept, Apply, PutDone, Flush, Close
<1>3. CASE Naming
  BY <1>3 DEF Naming, Remove, Rename, CanDelete, Cleanup, RenameOpen, Finish, Fuse, WinFsp
<1>4. CASE Listing
  BY <1>4 DEF Listing, Readdir, ReadDirectory, Fuse, WinFsp
<1>5. CASE UNCHANGED vars
  BY <1>5 DEF vars
<1> QED
  BY <1>1, <1>2, <1>3, <1>4, <1>5 DEF Next, Quiescent

LEMMA OpeningStreams ==
  ASSUME PlainNames, ListInv, [Next]_vars, Opening
  PROVE  StreamsFit'
<1>1. /\ TypeInv /\ StreamsFit /\ TableFits(table') /\ platform' = platform
  BY TableStep, PlatformKept DEF ListInv
<1>2. ASSUME (contexts' = contexts /\ objects' = objects) \/ \E objs : Store(objs, contexts)
      PROVE  StreamsFit'
  BY <1>1, <1>2, ContextsSound, StreamsFrom
<1>3. ASSUME NEW i, NEW dir \in BOOLEAN,
             (contexts' = Give(i, dir) /\ objects' = objects) \/ \E objs : Store(objs, Give(i, dir)),
             dir /\ i \in DOMAIN table'.entries => table'.entries[i] \notin Files
      PROVE  StreamsFit'
  BY <1>1, <1>3, GivenSound, StreamsFrom
<1>4. ASSUME NEW p \in DOMAIN table'.paths
      PROVE  table'.entries[table'.paths[p]] = p
  BY <1>1 DEF TableFits
<1>5. ASSUME NEW i, NEW dir \in BOOLEAN, OpenInode(i, dir) PROVE StreamsFit'
  <2>1. /\ table' = table /\ contexts' = Give(i, dir) /\ objects' = objects
        /\ Live(i) => (dir <=> table.entries[i] \notin Files)
    BY <1>5 DEF OpenInode
  <2> QED
    BY <1>3, <2>1 DEF Live
<1>6. ASSUME NEW p \in Paths \cup {Root}, NEW delete \in BOOLEAN, OpenPath(p, delete)
      PROVE  StreamsFit'
  <2>1. /\ p \in DOMAIN table'.paths /\ objects' = objects
        /\ contexts' = Give(table'.paths[p], p \notin Files)
    BY <1>1, <1>6, OpeningNumbers DEF OpenPath
  <2> DEFINE i == table'.paths[p]
             dir == p \notin Files
  <2>2. dir \in BOOLEAN /\ (dir => table'.entries[i] \notin Files)
    BY <1>4, <2>1
  <2>3. contexts' = Give(i, dir)
    BY <2>1
  <2> HIDE DEF i, dir
  <2> QED
    BY <1>3, <2>1, <2>2, <2>3
<1>7. ASSUME NEW p \in Paths, Create(p) PROVE StreamsFit'
  <2>1. /\ p \in DOMAIN table'.paths
        /\ Store(objects \cup {p}, Give(table'.paths[p], p \in Dirs))
    BY <1>1, <1>7, OpeningNumbers DEF Create, Become
  <2> DEFINE i == table'.paths[p]
             dir == p \in Dirs
  <2>2. dir \in BOOLEAN /\ (dir => table'.entries[i] \notin Files)
    BY <1>4, <2>1 DEF PlainNames
  <2>3. Store(objects \cup {p}, Give(i, dir))
    BY <2>1
  <2> HIDE DEF i, dir
  <2> QED
    BY <1>3, <2>2, <2>3
<1>8. ASSUME NEW p, Lookup(p) \/ GetSecurity(p) \/ Mkdir(p) PROVE StreamsFit'
  BY <1>2, <1>8 DEF Lookup, GetSecurity, Mkdir, kernel
<1> QED
  BY <1>5, <1>6, <1>7, <1>8 DEF Opening

\* A stream goes on, and the names it is given get their numbers.
LEMMA ListingStreams ==
  ASSUME PlainNames, ListInv, [Next]_vars, Listing
  PROVE  StreamsFit'
<1>1. TypeInv /\ StreamsFit /\ platform' = platform
  BY PlatformKept DEF ListInv
<1>2. PICK fh \in DOMAIN contexts, n \in 0..PageSize : Readdir(fh, n) \/ ReadDirectory(fh, n)
  BY DEF Listing
<1> DEFINE c == contexts[fh]
           i == c.inode
<1>3. /\ n \in Nat /\ Live(i) /\ Taken(fh, Offered(c), n) /\ objects' = objects
  <2>1. CASE Readdir(fh, n)
    BY <2>1 DEF Readdir, Offered, Fuse, Taken
  <2>2. CASE ReadDirectory(fh, n)
    BY <2>2 DEF ReadDirectory, Offered, WinFsp, Taken
  <2> QED
    BY <1>2, <2>1, <2>2
<1>4. TableFits(table) /\ (Live(i) => i \in Known)
  BY DEF TypeInv, TableFits, Known, Live, ListInv
<1>5. c.dir /\ table.entries[i] \notin Files
  BY <1>1, <1>3 DEF StreamsFit, Taken
<1>6. ASSUME NEW g \in DOMAIN contexts PROVE Sound(contexts[g])
  BY <1>1, ContextsSound
<1>7. Later
  BY <1>1, TableStep
<1>8. i \in DOMAIN table'.entries => table'.entries[i] = table.entries[i]
  BY <1>3, <1>4, <1>5, <1>7 DEF Later
<1>9. /\ StreamAt(contexts'[fh], table', objects, platform)
      /\ contexts'[fh].inode = i /\ contexts'[fh].dir = c.dir
      /\ DOMAIN contexts' = DOMAIN contexts
      /\ \A g \in DOMAIN contexts : g # fh => contexts'[g] = contexts[g]
  BY <1>1, <1>3, <1>8, TakenStream
<1>10. ASSUME NEW g \in DOMAIN contexts, g # fh
       PROVE  /\ StreamAt(contexts'[g], table', objects, platform)
              /\ contexts'[g].dir /\ contexts'[g].inode \in DOMAIN table'.entries =>
                   table'.entries[contexts'[g].inode] \notin Files
  <2> DEFINE d == contexts[g]
  <2>1. Sound(d) /\ contexts'[g] = d
    BY <1>6, <1>9, <1>10
  <2> HIDE DEF d
  <2>2. StreamAt(d, table', objects, platform)
    BY <2>1 DEF Sound, StreamAt, Exact, Live
  <2> QED
    BY <2>1, <2>2 DEF Sound
<1> HIDE DEF c
<1>11. ASSUME NEW g \in DOMAIN contexts'
       PROVE  /\ StreamAt(contexts'[g], table', objects, platform)
              /\ contexts'[g].dir /\ contexts'[g].inode \in DOMAIN table'.entries =>
                   table'.entries[contexts'[g].inode] \notin Files
  BY <1>5, <1>8, <1>9, <1>10
<1> QED
  BY <1>1, <1>3, <1>11 DEF StreamsFit, Live

LEMMA StreamsStep ==
  ASSUME PlainNames, ListInv, [Next]_vars
  PROVE  StreamsFit'
<1>1. /\ TypeInv /\ StreamsFit /\ platform' = platform
      /\ \A fh \in DOMAIN contexts : Sound(contexts[fh])
  BY PlatformKept, ContextsSound DEF ListInv
<1>2. ASSUME (contexts' = contexts /\ objects' = objects) \/ \E objs : Store(objs, contexts)
      PROVE  StreamsFit'
  BY <1>1, <1>2, StreamsFrom
<1>3. ASSUME NEW fh \in DOMAIN contexts, Close(fh) PROVE StreamsFit'
  <2>1. contexts' = Map!Remove(contexts, fh) /\ objects' = objects
    BY <1>3 DEF Close, Release, Releasedir
  <2>2. \A g \in DOMAIN contexts' : Sound(contexts'[g])
    BY <1>1, <2>1 DEF Map!Remove
  <2> QED
    BY <1>1, <2>1, <2>2, StreamsFrom
<1>4. ASSUME NEW fh \in DOMAIN contexts, Cleanup(fh) PROVE StreamsFit'
  <2> DEFINE ctx == [contexts EXCEPT ![fh].cleaned = TRUE]
             d == [contexts[fh] EXCEPT !.cleaned = TRUE]
  <2>1. (contexts' = ctx /\ objects' = objects) \/ \E objs : Store(objs, ctx)
    BY <1>4 DEF Cleanup, Delete
  <2>2. Sound(d)
    BY <1>1, CleanedSound
  <2>3. ctx = [contexts EXCEPT ![fh] = d]
    OBVIOUS
  <2> HIDE DEF ctx, d
  <2>4. \A g \in DOMAIN ctx : Sound(ctx[g])
    BY <1>1, <2>2, <2>3
  <2> QED
    BY <1>1, <2>1, <2>4, StreamsFrom
<1>5. ASSUME NEW p, NEW q, NEW fh,
             Remove(p) \/ Rename(p, q) \/ RenameOpen(fh, q) \/ CanDelete(fh) \/ Finish
      PROVE  StreamsFit'
  BY <1>2, <1>5 DEF Remove, Delete, Rename, RenameOpen, Copy, CanDelete, Finish, Removed, Renamed
<1>6. CASE Filing
  BY <1>2, <1>3, <1>6 DEF Filing, Accept, Apply, PutDone, Flush, kernel
<1>7. CASE Naming
  BY <1>4, <1>5, <1>7 DEF Naming
<1>8. CASE UNCHANGED vars
  BY <1>2, <1>8 DEF vars, kernel
<1> QED
  BY <1>6, <1>7, <1>8, OpeningStreams, ListingStreams DEF Next, Quiescent

\* What stands once in an ascending list stands there once only.
LEMMA OnceOnly ==
  ASSUME PlainNames, NEW s \in Seq(Entries), Ascending(s), NEW x \in Seqs!ToSet(s)
  PROVE  Cardinality({n \in DOMAIN s : s[n] = x}) = 1
<1>1. DOMAIN s = 1..Len(s) /\ Len(s) \in Nat
  OBVIOUS
<1>2. PICK k \in DOMAIN s : s[k] = x
  BY DEF Seqs!ToSet
<1>3. ASSUME NEW n \in DOMAIN s, s[n] = x PROVE n = k
  <2>1. n \in Nat /\ k \in Nat /\ Rank(x) \in Nat
    BY <1>1, <1>2, EntryRanks
  <2>2. (n < k => Rank(x) < Rank(x)) /\ (k < n => Rank(x) < Rank(x))
    BY <1>2, <1>3 DEF Ascending
  <2> QED
    BY <2>1, <2>2
<1>4. {n \in DOMAIN s : s[n] = x} = {k}
  BY <1>2, <1>3
<1> QED
  BY <1>4, FS_Singleton

\* A stream that has come to its end has delivered each entry exactly once that was
\* there all the time: over FUSE, where do_readdir goes on from a count, if the
\* directory did not change meanwhile; over WinFSP, where read_directory goes on after
\* the last name it delivered, if no delivered name went.
THEOREM ListingsExact ==
  ASSUME PlainNames
  PROVE  Spec => []ListingExact
<1>1. Init => ListInv
  BY InitType DEF ListInv, StreamsFit, Init, Map!EmptyMap
<1>2. ListInv /\ [Next]_vars => ListInv'
  BY TypeStep, StreamsStep DEF ListInv
<1>3. ListInv => ListingExact
  <2> SUFFICES ASSUME ListInv, NEW fh \in DOMAIN contexts,
                      contexts[fh].scan.done, Steady(contexts[fh].scan, platform)
               PROVE  LET s == contexts[fh].scan IN
                      \A x \in Lasting(s) \cup Seqs!ToSet(s.got) :
                        Cardinality({n \in DOMAIN s.got : s.got[n] = x}) = 1
    BY DEF ListingExact, Steady, Lasting
  <2> DEFINE c == contexts[fh]
             s == c.scan
  <2>1. IsContext(c) /\ StreamAt(c, table, objects, platform)
    BY DEF ListInv, TypeInv, ContextsFit, StreamsFit
  <2>2. s.got \in Seq(Entries)
    BY <2>1 DEF IsContext, IsScan
  <2>3. Exact(s, c.inode, table, objects, platform)
    BY <2>1 DEF StreamAt
  <2>4. Ascending(s.got) /\ Lasting(s) \subseteq Seqs!ToSet(s.got)
    BY <2>3 DEF Exact, Passed
  <2> HIDE DEF s
  <2>5. \A x \in Seqs!ToSet(s.got) : Cardinality({n \in DOMAIN s.got : s.got[n] = x}) = 1
    BY <2>2, <2>4, OnceOnly
  <2> QED
    BY <2>4, <2>5 DEF s
<1> QED
  BY <1>1, <1>2, <1>3, PTL DEF Spec
=============================================================================
