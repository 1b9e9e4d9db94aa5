-------------------------- MODULE HashMapRefinement --------------------------
(***************************************************************************)
(* The hash table as its clients see it: how AbstractMap's variables are   *)
(* read off the buckets of HashMap.                                        *)
(***************************************************************************)
EXTENDS HashMap

(* The limit on the number of keys that put/get clients meet: the first    *)
(* count at which the table is too full.                                   *)
Limit == CHOOSE n \in 1 .. InitSize :
            /\ Percent(n, InitSize) >= HighWatermark
            /\ \A x \in 1 .. n - 1 : Percent(x, InitSize) < HighWatermark

(* The map from keys to values that the buckets of m stand for.            *)
Holding(m, k) == {b \in 0 .. m.capacity - 1 : m.buckets[b].key = k}
Contents(m) ==
    [k \in {x \in Keys : Holding(m, x) # {}} |->
        m.buckets[CHOOSE b \in Holding(m, k) : TRUE].val]

(* In place of a put when none is in progress.                             *)
NoPut == EmptyEntry

Abs == INSTANCE AbstractMap
           WITH contents <- Contents(map), got <- out, failed <- (pc = "aborted"),
                NoCall <- NoPut,
                pending <- IF pc = "idle" THEN NoPut ELSE arg

(* Seen through put and get, the table of hashmap.c is the bounded map of  *)
(* AbstractMap: a put either takes effect or, exactly when Limit keys are  *)
(* present, aborts the process; rehash changes nothing a client sees.      *)
ImplementsMap == Abs!Spec
=============================================================================
