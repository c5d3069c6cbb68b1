------------------------- MODULE InodeManagerSerial --------------------------
(***************************************************************************)
(* InodeManager with a history variable: whether calls of its methods have *)
(* overlapped.  The methods keep both maps in step only as long as they    *)
(* run one after the other.                                                *)
(***************************************************************************)
EXTENDS InodeManager

VARIABLE overlapped   \* history: two methods have run at a time

Busy(t) == pc[t] # "idle"

SerialInit == Init /\ overlapped = FALSE

SerialNext ==
  /\ Next
  /\ overlapped' = (overlapped \/ \E t, u \in Threads : t # u /\ Busy(t)' /\ Busy(u)')

SerialSpec == SerialInit /\ [][SerialNext]_<<vars, overlapped>>

\* As long as methods run one after the other, every mapped path leads to an
\* entry that carries this very path (inode.rs); once two of them have overlapped,
\* a rename and a removal of one path may have left a path without an entry.
ResolvesUnlessOverlapped == ~overlapped => MappedPathsResolve
=============================================================================
