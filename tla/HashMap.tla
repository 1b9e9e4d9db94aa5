------------------------------ MODULE HashMap ------------------------------
(***************************************************************************)
(* The open-addressing hash table of hashmap.c: linear probing, TOMBSTONE  *)
(* marks for deleted entries, and a rehash when the usage reaches          *)
(* HIGH_WATERMARK percent.  Calls are sequential; a put that finds the     *)
(* table too full runs rehash(), whose loops are modelled step by step.    *)
(***************************************************************************)
EXTENDS Integers, FiniteSets

CONSTANTS
    Keys,           \* the strings used as keys
    Deletable,      \* the keys the client may pass to hashmap_delete
    Vals,           \* the ints stored
    Null,           \* a bucket whose key is NULL
    Tombstone,      \* a bucket whose key is TOMBSTONE
    Hash,           \* fnv_hash, a function from Keys to naturals
    InitSize,       \* INIT_SIZE
    HighWatermark,  \* HIGH_WATERMARK, a percentage
    LowWatermark    \* LOW_WATERMARK, a percentage

(* Two buckets are not buckets: NULL and TOMBSTONE differ from every key.  *)
ASSUME KeysAssumption ==
    /\ Null \notin Keys /\ Tombstone \notin Keys /\ Null # Tombstone
    /\ Deletable \subseteq Keys
    /\ Vals \subseteq Int
    /\ Hash \in [Keys -> Nat]

(* The watermarks are percentages, and the first table, full but for one   *)
(* bucket, is above the high one: 16 buckets and 70% satisfy this, 3 and   *)
(* 70% do not.                                                             *)
ASSUME SizeAssumption ==
    /\ InitSize \in Nat /\ HighWatermark \in Nat /\ LowWatermark \in Nat
    /\ 0 < LowWatermark /\ LowWatermark <= HighWatermark
    /\ HighWatermark * InitSize <= 100 * (InitSize - 1)

(* One key alone does not fill LOW_WATERMARK percent of the first table.   *)
ASSUME OneKeyAssumption == 100 < LowWatermark * InitSize

VARIABLES
    map,     \* the HashMap the client passes
    map2,    \* rehash's new map
    pc,      \* where the call in progress is
    arg,     \* key and value of the put in progress
    i,       \* rehash's outer loop counter
    j,       \* rehash's inner loop counter
    nkeys,   \* rehash's count of live entries
    cap,     \* rehash's size of the new map
    out      \* what the last hashmap_get returned

rvars == <<map2, i, j, nkeys, cap>>
vars == <<map, map2, pc, arg, i, j, nkeys, cap, out>>

-----------------------------------------------------------------------------
(* HashEntry and HashMap.  A map whose buckets were never allocated has    *)
(* capacity 0.                                                             *)
Entry == [key : Keys \cup {Null, Tombstone}, val : Vals \cup {0}]
EmptyEntry == [key |-> Null, val |-> 0]

Calloc(n) == [buckets |-> [b \in 0 .. n - 1 |-> EmptyEntry],
              capacity |-> n, used |-> 0]

Live(m, b) == m.buckets[b].key \in Keys

Percent(n, size) == (n * 100) \div size
Full(m) == Percent(m.used, m.capacity) >= HighWatermark

(* The bucket that the n-th probe for key k looks at.                      *)
Slot(m, k, n) == (Hash[k] + n) % m.capacity
Probed(m, k, n) == m.buckets[Slot(m, k, n)].key

(* The probe loops: n is the first probe whose bucket holds a key of S.    *)
StopsAt(m, k, S, n) ==
    /\ n \in 0 .. m.capacity - 1
    /\ Probed(m, k, n) \in S
    /\ \A x \in 0 .. n - 1 : Probed(m, k, x) \notin S
Stops(m, k, S) == \E n \in 0 .. m.capacity - 1 : StopsAt(m, k, S, n)

GetSet(k) == {k, Null}
PutSet(k) == {k, Null, Tombstone}

(* Two errors a Store could have: it leaves the value of an entry that is  *)
(* reused alone; it counts the tombstones it reuses, not the NULLs.        *)
StoreKeepsOldValue(m, k, v, n) ==
    LET b == Slot(m, k, n)
        x == IF Probed(m, k, n) = k THEN m.buckets[b].val ELSE v
    IN [buckets |-> [m.buckets EXCEPT ![b] = [key |-> k, val |-> x]],
        capacity |-> m.capacity,
        used |-> IF Probed(m, k, n) = Null THEN m.used + 1 ELSE m.used]
StoreCountsTombstones(m, k, v, n) ==
    [buckets |-> [m.buckets EXCEPT ![Slot(m, k, n)] = [key |-> k, val |-> v]],
     capacity |-> m.capacity,
     used |-> IF Probed(m, k, n) = Tombstone THEN m.used + 1 ELSE m.used]

(* The entry that probe n of a put ends on takes the key and the value;    *)
(* only a bucket that was NULL adds to used.                               *)
Store(m, k, v, n) ==
    [buckets |-> [m.buckets EXCEPT ![Slot(m, k, n)] = [key |-> k, val |-> v]],
     capacity |-> m.capacity,
     used |-> IF Probed(m, k, n) = Null THEN m.used + 1 ELSE m.used]

(* Two errors a deletion could have: it frees the bucket; it uncounts it.  *)
EraseFrees(m, k, n) ==
    [m EXCEPT !.buckets[Slot(m, k, n)].key = Null]
EraseUncounts(m, k, n) ==
    [m EXCEPT !.buckets[Slot(m, k, n)].key = Tombstone, !.used = @ - 1]

(* A deletion marks the entry; used and val stay as they are.              *)
Erase(m, k, n) ==
    [buckets |-> [m.buckets EXCEPT ![Slot(m, k, n)].key = Tombstone],
     capacity |-> m.capacity,
     used |-> m.used]

-----------------------------------------------------------------------------
Init ==
    /\ map = Calloc(0) /\ map2 = Calloc(0)
    /\ pc = "idle"
    /\ arg \in [key : Keys, val : Vals]
    /\ i = 0 /\ j = 0 /\ nkeys = 0 /\ cap = 0 /\ out = 0

(* hashmap_put up to the probe loop: allocate the buckets, or rehash, or   *)
(* go on.                                                                  *)
BeginPut(k, v) ==
    /\ pc = "idle"
    /\ arg' = [key |-> k, val |-> v]
    /\ IF map.capacity = 0
       THEN map' = Calloc(InitSize) /\ pc' = "insert" /\ UNCHANGED <<i, nkeys>>
       ELSE /\ UNCHANGED map
            /\ IF Full(map)
               THEN pc' = "count" /\ i' = 0 /\ nkeys' = 0
               ELSE pc' = "insert" /\ UNCHANGED <<i, nkeys>>
    /\ UNCHANGED <<map2, j, cap, out>>

(* The probe loop of get_or_insert_entry and the assignment to ent->val.   *)
Insert ==
    /\ pc = "insert"
    /\ IF Stops(map, arg.key, PutSet(arg.key))
       THEN /\ \E n \in 0 .. map.capacity - 1 :
                  /\ StopsAt(map, arg.key, PutSet(arg.key), n)
                  /\ map' = Store(map, arg.key, arg.val, n)
            /\ pc' = "idle"
       ELSE pc' = "unreachable" /\ UNCHANGED map
    /\ UNCHANGED <<rvars, arg, out>>

(* hashmap_get: 0 is also what it returns for a key that is not there.     *)
Get(k) ==
    /\ pc = "idle"
    /\ IF map.capacity = 0
       THEN out' = 0 /\ UNCHANGED pc
       ELSE IF Stops(map, k, GetSet(k))
            THEN /\ \E n \in 0 .. map.capacity - 1 :
                       /\ StopsAt(map, k, GetSet(k), n)
                       /\ out' = IF Probed(map, k, n) = k
                                 THEN map.buckets[Slot(map, k, n)].val ELSE 0
                 /\ UNCHANGED pc
            ELSE pc' = "unreachable" /\ UNCHANGED out
    /\ UNCHANGED <<map, rvars, arg>>

(* hashmap_delete: nothing happens unless the key is found.                *)
Delete(k) ==
    /\ pc = "idle" /\ map.capacity > 0
    /\ IF Stops(map, k, GetSet(k))
       THEN /\ \E n \in 0 .. map.capacity - 1 :
                  /\ StopsAt(map, k, GetSet(k), n)
                  /\ map' = IF Probed(map, k, n) = k THEN Erase(map, k, n) ELSE map
            /\ UNCHANGED pc
       ELSE pc' = "unreachable" /\ UNCHANGED map
    /\ UNCHANGED <<rvars, arg, out>>

-----------------------------------------------------------------------------
(* rehash.  The loop of line 27 encloses everything that follows: each of  *)
(* its iterations counts one bucket, builds a new map, checks it and       *)
(* installs it.                                                            *)

(* An error: the new map is sized for the keys counted so far.             *)
StartFromKeys == nkeys + 1

(* What cap starts from.                                                   *)
StartCapacity == map.capacity

(* One iteration begins: count bucket i, start from the present capacity.  *)
RehashCount ==
    /\ pc = "count"
    /\ IF i < map.capacity
       THEN /\ nkeys' = IF Live(map, i) THEN nkeys + 1 ELSE nkeys
            /\ cap' = StartCapacity
            /\ pc' = "grow"
       ELSE pc' = "insert" /\ UNCHANGED <<nkeys, cap>>
    /\ UNCHANGED <<map, map2, i, j, arg, out>>

(* An error: the doubled value is not assigned.                            *)
NotDoubled(c) == c

Doubled(c) == 2 * c

(* Double cap while the keys counted so far would fill half of it, then    *)
(* allocate the new map.                                                   *)
RehashGrow ==
    /\ pc = "grow"
    /\ IF Percent(nkeys, cap) >= LowWatermark
       THEN cap' = Doubled(cap) /\ UNCHANGED <<pc, map2, j>>
       ELSE map2' = Calloc(cap) /\ j' = 0 /\ pc' = "copy" /\ UNCHANGED cap
    /\ UNCHANGED <<map, i, nkeys, arg, out>>

(* hashmap_put of bucket j into the new map.  If the new map were itself   *)
(* full, this put would call rehash again ("nested", not followed here:    *)
(* NoNestedRehash shows that it does not happen).                          *)
CopyBucket ==
    LET e == map.buckets[j] IN
    IF Full(map2)
    THEN pc' = "nested" /\ UNCHANGED <<map2, j>>
    ELSE IF Stops(map2, e.key, PutSet(e.key))
         THEN /\ \E n \in 0 .. map2.capacity - 1 :
                    /\ StopsAt(map2, e.key, PutSet(e.key), n)
                    /\ map2' = Store(map2, e.key, e.val, n)
              /\ j' = j + 1 /\ UNCHANGED pc
         ELSE pc' = "unreachable" /\ UNCHANGED <<map2, j>>

RehashCopy ==
    /\ pc = "copy"
    /\ IF j < map.capacity
       THEN IF Live(map, j)
            THEN CopyBucket
            ELSE j' = j + 1 /\ UNCHANGED <<pc, map2>>
       ELSE pc' = "check" /\ UNCHANGED <<map2, j>>
    /\ UNCHANGED <<map, i, nkeys, cap, arg, out>>

(* The assertion compiled out.                                             *)
NotAsserted == TRUE

(* assert(map2.used == nkeys).                                             *)
Asserted == map2.used = nkeys

(* A failed assertion aborts the program; otherwise *map = map2.           *)
RehashCheck ==
    /\ pc = "check"
    /\ IF Asserted
       THEN map' = map2 /\ i' = i + 1 /\ pc' = "count"
       ELSE pc' = "aborted" /\ UNCHANGED <<map, i>>
    /\ UNCHANGED <<map2, j, nkeys, cap, arg, out>>

-----------------------------------------------------------------------------
Step == Insert \/ RehashCount \/ RehashGrow \/ RehashCopy \/ RehashCheck

(* A process that aborted or ran into unreachable() takes no more steps.   *)
Exited == pc \in {"aborted", "unreachable"} /\ UNCHANGED vars

Next ==
    \/ \E k \in Keys, v \in Vals : BeginPut(k, v)
    \/ \E k \in Keys : Get(k)
    \/ \E k \in Deletable : Delete(k)
    \/ Step
    \/ Exited

Spec == Init /\ [][Next]_vars

(* A call that has begun keeps running.                                    *)
FairSpec == Spec /\ WF_vars(Step)


-----------------------------------------------------------------------------
(* Type invariant: a map has one bucket for each index below capacity, and *)
(* its used counter lies between 0 and capacity.                           *)
IsMap(m) ==
    /\ m = [buckets |-> m.buckets, capacity |-> m.capacity, used |-> m.used]
    /\ m.capacity \in Nat
    /\ m.used \in 0 .. m.capacity
    /\ m.buckets \in [0 .. m.capacity - 1 -> Entry]

TypeOK ==
    /\ IsMap(map) /\ IsMap(map2)
    /\ pc \in {"idle", "insert", "count", "grow", "copy", "check",
               "aborted", "unreachable", "nested"}
    /\ arg \in [key : Keys, val : Vals]
    /\ i \in Nat /\ j \in Nat /\ nkeys \in Nat /\ cap \in Nat
    /\ out \in Vals \cup {0}

(* unreachable() at lines 70 and 104 lives up to its name: a probe loop    *)
(* always meets the key, a reusable bucket or a NULL one before it has     *)
(* gone round the table.                                                   *)
NeverUnreachable == pc # "unreachable"

(* The puts rehash makes into its new map never find that map full, so     *)
(* rehash does not call itself.                                            *)
NoNestedRehash == pc # "nested"

(* What the two above rest on: used counts the buckets that are not NULL,  *)
(* tombstones included, and there is always a NULL one left.               *)
NonNull(m) == {b \in 0 .. m.capacity - 1 : m.buckets[b].key # Null}
UsedCountsBuckets ==
    \A m \in {map, map2} :
        /\ m.used = Cardinality(NonNull(m))
        /\ m.capacity > 0 => m.used < m.capacity

(* Every key that sits in some bucket is found by get_entry: no put,       *)
(* delete or rehash leaves a NULL bucket between the slot a key hashes to  *)
(* and the buckets that hold it.                                           *)
ChainsUnbroken ==
    \A m \in {map, map2}, k \in Keys :
        (\E b \in 0 .. m.capacity - 1 : m.buckets[b].key = k)
            => \E n \in 0 .. m.capacity - 1 :
                  StopsAt(m, k, GetSet(k), n) /\ Probed(m, k, n) = k

(* What the author seems to have missed in placing the counting loop round *)
(* the whole of rehash: no rehash that succeeds enlarges the table.  With  *)
(* 16 buckets the compiler never holds more than 12 keys in a map.         *)
NeverGrows == map.capacity \in {0, InitSize}

(* A call that began returns, or ends the process: rehash's doubling loop  *)
(* and its two loops over the buckets terminate.                           *)
CallsEnd == pc # "idle" ~> pc \in {"idle", "aborted"}

(* hashmap.c:47, assert(map2.used == nkeys).  The code violates it.        *)
AssertionHolds == pc # "aborted"

(* What the commented-out hashmap_test of hashmap.c:127 expects of         *)
(* hashmap_delete: the key is gone.  The code violates it, because a put   *)
(* that meets a tombstone first does not look for the key further on.      *)
DeletedIsGone ==
    [][\A k \in Deletable :
          Delete(k) => \A b \in 0 .. map'.capacity - 1 :
                          map'.buckets[b].key # k]_vars
=============================================================================
