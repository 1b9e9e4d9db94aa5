---------------------------- MODULE AbstractMap ----------------------------
(***************************************************************************)
(* What a client that only puts and gets may rely on in the hash table of  *)
(* hashmap.c: a finite map from keys to ints that holds at most Limit      *)
(* keys, in which a missing key reads as 0.  Once Limit keys are in it,    *)
(* every put, even one of a key that is there, ends the process.           *)
(***************************************************************************)
EXTENDS Integers, FiniteSets

CONSTANTS
    Keys, Vals,
    Limit,      \* how many keys fit
    NoCall      \* no put is in progress

VARIABLES
    contents,   \* the map, a function from the keys present
    pending,    \* the put in progress
    got,        \* what the last get returned
    failed      \* the process has ended

vars == <<contents, pending, got, failed>>

Init == contents = <<>> /\ pending = NoCall /\ got = 0 /\ failed = FALSE

BeginPut(k, v) ==
    /\ pending = NoCall
    /\ pending' = [key |-> k, val |-> v]
    /\ UNCHANGED <<contents, got, failed>>

(* The put takes effect exactly once, with its own key and value.          *)
EndPut ==
    /\ pending # NoCall /\ ~failed
    /\ Cardinality(DOMAIN contents) < Limit
    /\ contents' = [x \in DOMAIN contents \cup {pending.key} |->
                       IF x = pending.key THEN pending.val ELSE contents[x]]
    /\ pending' = NoCall
    /\ UNCHANGED <<got, failed>>

PutFails ==
    /\ pending # NoCall /\ ~failed
    /\ Cardinality(DOMAIN contents) >= Limit
    /\ failed' = TRUE
    /\ UNCHANGED <<contents, pending, got>>

Get(k) ==
    /\ pending = NoCall
    /\ got' = IF k \in DOMAIN contents THEN contents[k] ELSE 0
    /\ UNCHANGED <<contents, pending, failed>>

Next ==
    \/ \E k \in Keys, v \in Vals : BeginPut(k, v)
    \/ EndPut
    \/ PutFails
    \/ \E k \in Keys : Get(k)

Spec == Init /\ [][Next]_vars
=============================================================================
