---------------------------- MODULE InodeIdentity ----------------------------
(***************************************************************************)
(* What the inode table (InodeManager) promises of its numbers, whatever   *)
(* its methods do meanwhile: a number is issued once, in order; it is held *)
(* by one path or by the request that is about to give it to one; and a    *)
(* number that nobody holds any more is gone for good, so that what the    *)
(* caches and buffers keep under it can never be taken for another file's. *)
(***************************************************************************)
EXTENDS Naturals

CONSTANTS Numbers, ChildPaths, RootPath

VARIABLE holder   \* per number: its path, "fresh", "request" or "gone"

First == CHOOSE i \in Numbers : \A j \in Numbers : i <= j

Init == holder = [i \in Numbers |-> IF i = First THEN RootPath ELSE "fresh"]

\* The next number goes to a request.
Issue(i) ==
  /\ holder[i] = "fresh"
  /\ \A j \in Numbers : j < i => holder[j] # "fresh"
  /\ holder' = [holder EXCEPT ![i] = "request"]

\* A request gives its number to a path; the path's last one is gone.
Bind(i, p) ==
  /\ holder[i] = "request"
  /\ holder' = [j \in Numbers |-> IF j = i THEN p
                                  ELSE IF holder[j] = p THEN "gone" ELSE holder[j]]

\* A request takes a path's number into its hands.
Take(i) ==
  /\ holder[i] \in ChildPaths
  /\ holder' = [holder EXCEPT ![i] = "request"]

\* A path loses its number.
Drop(i) ==
  /\ holder[i] \in ChildPaths
  /\ holder' = [holder EXCEPT ![i] = "gone"]

Next ==
  \E i \in Numbers :
    \/ Issue(i) \/ Take(i) \/ Drop(i)
    \/ \E p \in ChildPaths : Bind(i, p)

Spec == Init /\ [][Next]_holder
=============================================================================
