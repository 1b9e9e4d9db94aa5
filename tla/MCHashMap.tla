----------------------------- MODULE MCHashMap -----------------------------
(***************************************************************************)
(* Instances of HashMap for TLC: a table of 4 buckets in place of 16,      *)
(* which is too full from its third entry on (75%, as 12 of 16 are), and   *)
(* four keys whose hashes collide and wrap round the end of the table.     *)
(***************************************************************************)
EXTENDS HashMapRefinement

MCKeys == {"k0", "k4", "k3", "k7"}
MCHash == [k0 |-> 0, k4 |-> 4, k3 |-> 3, k7 |-> 7]

(* Five buckets: two of the keys collide, the third sits on the wrap, and  *)
(* the limit is four entries.                                              *)
MCHash5 == [k0 |-> 0, k4 |-> 4, k3 |-> 5, k7 |-> 9]
=============================================================================
