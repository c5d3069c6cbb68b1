------------------------------- MODULE DashMap -------------------------------
(***************************************************************************)
(* The concurrent hash map of the dashmap crate, as obsfuse uses it: every *)
(* single call is atomic, two calls never are.  A map is a function from   *)
(* the keys it holds to their values.                                      *)
(***************************************************************************)
EmptyMap == [k \in {} |-> k]

\* DashMap::insert: binds k, replacing whatever was bound to it.
Insert(m, k, v) == [x \in DOMAIN m \cup {k} |-> IF x = k THEN v ELSE m[x]]

\* DashMap::remove: forgets k, and does nothing when k is absent.
Remove(m, k) == [x \in DOMAIN m \ {k} |-> m[x]]

\* DashMap::get followed by a copy out of the guard.
Get(m, k, absent) == IF k \in DOMAIN m THEN m[k] ELSE absent
==============================================================================
