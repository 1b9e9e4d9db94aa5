----------------------- MODULE HashMapRefinementProofs -----------------------
(***************************************************************************)
(* The proof that the hash table, used through put and get alone as the    *)
(* compiler uses it, implements the bounded map of AbstractMap.            *)
(***************************************************************************)
EXTENDS HashMapRefinement, HashMapProofs

-----------------------------------------------------------------------------
(* Without deletions there are no tombstones, and no key is in two buckets.*)
Unmarked(m) == \A b \in 0 .. m.capacity - 1 : m.buckets[b].key # Tombstone
Distinct(m) ==
    \A a, b \in 0 .. m.capacity - 1 :
        Live(m, a) /\ m.buckets[a].key = m.buckets[b].key => a = b
Plain(m) == IsMap(m) /\ Chained(m) /\ Unmarked(m) /\ Distinct(m)

(* A put into a plain map stops at the bucket that holds its key if there  *)
(* is one, and at a NULL one otherwise.                                    *)
LEMMA PutStops ==
    ASSUME NEW m, Plain(m), NEW k \in Keys,
           NEW n \in 0 .. m.capacity - 1,
           StopsAt(m, k, PutSet(k), n) \/ StopsAt(m, k, GetSet(k), n)
    PROVE  /\ Slot(m, k, n) \in 0 .. m.capacity - 1
           /\ Probed(m, k, n) \in {k, Null}
           /\ \A b \in 0 .. m.capacity - 1 : m.buckets[b].key = k => b = Slot(m, k, n)
<1> USE DEF Plain
<1>1. m.capacity \in Nat /\ m.capacity > 0
    BY DEF IsMap
<1>2. \A x \in 0 .. m.capacity - 1 : Slot(m, k, x) \in 0 .. m.capacity - 1
    BY <1>1, SlotType
<1>3. /\ Probed(m, k, n) \in {k, Null}
      /\ \A x \in 0 .. n - 1 : Probed(m, k, x) \notin {k, Null}
    BY <1>2 DEF StopsAt, PutSet, GetSet, Probed, Unmarked
<1>4. ASSUME NEW b \in 0 .. m.capacity - 1, m.buckets[b].key = k
      PROVE  b = Slot(m, k, n)
    <2>1. PICK y \in 0 .. m.capacity - 1 :
             StopsAt(m, k, GetSet(k), y) /\ Probed(m, k, y) = k
        BY <1>4, ChainedFound
    <2>2. y = n
        BY <1>1, <1>3, <2>1 DEF StopsAt, GetSet
    <2>3. m.buckets[Slot(m, k, n)].key = k
        BY <2>1, <2>2 DEF Probed
    <2> QED
        BY <1>2, <1>4, <2>3 DEF Distinct, Live
<1> QED
    BY <1>2, <1>3, <1>4

(* So it keeps the map plain.                                              *)
LEMMA StorePlain ==
    ASSUME NEW m, Plain(m), NEW k \in Keys, NEW v,
           NEW n \in 0 .. m.capacity - 1, StopsAt(m, k, PutSet(k), n),
           IsMap(Store(m, k, v, n))
    PROVE  Plain(Store(m, k, v, n))
<1> DEFINE b == Slot(m, k, n)
           s == Store(m, k, v, n)
<1>1. /\ b \in 0 .. m.capacity - 1
      /\ \A c \in 0 .. m.capacity - 1 : m.buckets[c].key = k => c = b
    BY PutStops
<1>2. /\ s.capacity = m.capacity
      /\ s.buckets = [m.buckets EXCEPT ![b] = [key |-> k, val |-> v]]
    BY DEF Store
<1>3. /\ s.buckets[b].key = k
      /\ \A c \in 0 .. m.capacity - 1 : c # b => s.buckets[c] = m.buckets[c]
    BY <1>1, <1>2 DEF Plain, IsMap
<1>4. IsMap(s) /\ Chained(s)
    BY StoreChained DEF Plain
<1> HIDE DEF b, s
<1>5. Unmarked(s)
    BY <1>2, <1>3, KeysAssumption DEF Plain, Unmarked
<1>6. Distinct(s)
    BY <1>1, <1>2, <1>3 DEF Plain, Distinct, Live
<1> QED
    BY <1>4, <1>5, <1>6 DEF Plain, s

LEMMA CallocPlain ==
    ASSUME NEW c \in Nat
    PROVE  Plain(Calloc(c))
<1>1. IsMap(Calloc(c)) /\ Chained(Calloc(c))
    BY CallocCounted, CallocChained
<1>2. Unmarked(Calloc(c)) /\ Distinct(Calloc(c))
    BY KeysAssumption DEF Unmarked, Distinct, Live, Calloc, EmptyEntry
<1> QED
    BY <1>1, <1>2 DEF Plain

-----------------------------------------------------------------------------
(* What a plain map stands for.                                            *)

LEMMA ContentsOf ==
    ASSUME NEW m, Plain(m)
    PROVE  /\ DOMAIN Contents(m) = {x \in Keys : Holding(m, x) # {}}
           /\ \A k \in Keys, b \in 0 .. m.capacity - 1 :
                 m.buckets[b].key = k =>
                    k \in DOMAIN Contents(m) /\ Contents(m)[k] = m.buckets[b].val
           /\ \A k \in DOMAIN Contents(m) :
                 \E b \in 0 .. m.capacity - 1 : m.buckets[b].key = k
<1>1. DOMAIN Contents(m) = {x \in Keys : Holding(m, x) # {}}
    BY DEF Contents
<1>2. ASSUME NEW k \in Keys, NEW b \in 0 .. m.capacity - 1, m.buckets[b].key = k
      PROVE  k \in DOMAIN Contents(m) /\ Contents(m)[k] = m.buckets[b].val
    <2>1. Holding(m, k) = {b}
        BY <1>2 DEF Holding, Plain, Distinct, Live
    <2>2. (CHOOSE c \in {b} : TRUE) = b
        OBVIOUS
    <2>3. k \in DOMAIN Contents(m)
        BY <1>1, <2>1
    <2>4. Contents(m)[k] = m.buckets[CHOOSE c \in Holding(m, k) : TRUE].val
        BY <1>1, <2>3 DEF Contents
    <2> QED
        BY <2>1, <2>2, <2>3, <2>4
<1>3. \A k \in DOMAIN Contents(m) : \E b \in 0 .. m.capacity - 1 : m.buckets[b].key = k
    BY <1>1 DEF Holding
<1> QED
    BY <1>1, <1>2, <1>3

(* As many keys as buckets in use.                                         *)
LEMMA ContentsSize ==
    ASSUME NEW m, Plain(m), Counted(m)
    PROVE  Cardinality(DOMAIN Contents(m)) = m.used
<1> DEFINE f == [b \in NonNull(m) |-> m.buckets[b].key]
           T == DOMAIN Contents(m)
<1>1. \A b \in NonNull(m) : /\ b \in 0 .. m.capacity - 1 /\ Live(m, b)
                            /\ m.buckets[b].key \in T
    <2>1. \A b \in 0 .. m.capacity - 1 : m.buckets[b] \in Entry
        BY DEF Plain, IsMap
    <2> QED
        BY <2>1, ContentsOf DEF NonNull, Live, Plain, Unmarked, Entry
<1>2. f \in [NonNull(m) -> T]
    BY <1>1
<1>3. \A a, b \in NonNull(m) : f[a] = f[b] => a = b
    BY <1>1 DEF Plain, Distinct
<1>4. \A k \in T : \E b \in NonNull(m) : f[b] = k
    <2> SUFFICES ASSUME NEW k \in T PROVE \E b \in NonNull(m) : f[b] = k
        OBVIOUS
    <2>1. PICK b \in 0 .. m.capacity - 1 : m.buckets[b].key = k
        BY ContentsOf
    <2>2. k \in Keys
        BY ContentsOf
    <2> QED
        BY <2>1, <2>2, KeysAssumption DEF NonNull
<1> HIDE DEF f, T
<1>5. f \in Bijection(NonNull(m), T)
    BY <1>2, <1>3, <1>4 DEF Bijection, Injection, Surjection, IsInjective
<1>6. IsFiniteSet(NonNull(m))
    BY NonNullFinite DEF Plain
<1>7. Cardinality(T) = Cardinality(NonNull(m))
    BY <1>5, <1>6, FS_Bijection DEF ExistsBijection
<1> QED
    BY <1>7 DEF Counted, T

(* An empty map stands for no keys.                                        *)
LEMMA ContentsEmpty ==
    ASSUME NEW c \in Nat
    PROVE  Contents(Calloc(c)) = <<>>
<1> DEFINE m == Calloc(c)
<1>1. \A k \in Keys : Holding(m, k) = {}
    BY KeysAssumption DEF Holding, Calloc, EmptyEntry
<1>2. {x \in Keys : Holding(m, x) # {}} = {}
    BY <1>1
<1> HIDE DEF m
<1>3. Contents(m) = [k \in {} |-> m.buckets[CHOOSE b \in Holding(m, k) : TRUE].val]
    BY <1>2 DEF Contents
<1>4. \A f, g : f = [k \in {} |-> g[k]] => f = <<>>
    OBVIOUS
<1> QED
    BY <1>3 DEF m

(* A put changes what the map stands for at its own key.                   *)
Updated(f, k, v) == [x \in DOMAIN f \cup {k} |-> IF x = k THEN v ELSE f[x]]

LEMMA ContentsOfStore ==
    ASSUME NEW m, Plain(m), NEW k \in Keys, NEW v,
           NEW n \in 0 .. m.capacity - 1, StopsAt(m, k, PutSet(k), n),
           IsMap(Store(m, k, v, n))
    PROVE  Contents(Store(m, k, v, n)) = Updated(Contents(m), k, v)
<1> DEFINE b == Slot(m, k, n)
<1>0. PICK s : s = Store(m, k, v, n)
    OBVIOUS
<1>1. /\ b \in 0 .. m.capacity - 1
      /\ m.buckets[b].key \in {k, Null}
      /\ \A c \in 0 .. m.capacity - 1 : m.buckets[c].key = k => c = b
    BY PutStops DEF Probed
<1>2. /\ s.capacity = m.capacity
      /\ s.buckets = [m.buckets EXCEPT ![b] = [key |-> k, val |-> v]]
    BY <1>0 DEF Store
<1>3. /\ s.buckets[b].key = k /\ s.buckets[b].val = v
      /\ \A c \in 0 .. m.capacity - 1 : c # b => s.buckets[c] = m.buckets[c]
    BY <1>1, <1>2 DEF Plain, IsMap
<1>4. Plain(s)
    BY <1>0, StorePlain
<1> HIDE DEF b
<1>5. k \in DOMAIN Contents(s) /\ Contents(s)[k] = v
    <2>1. \A c \in 0 .. s.capacity - 1 : s.buckets[c].key = k =>
             k \in DOMAIN Contents(s) /\ Contents(s)[k] = s.buckets[c].val
        BY <1>4, ContentsOf
    <2>2. b \in 0 .. s.capacity - 1
        BY <1>1, <1>2
    <2> QED
        BY <1>3, <2>1, <2>2
<1>6. ASSUME NEW x \in DOMAIN Contents(m), x # k
      PROVE  x \in DOMAIN Contents(s) /\ Contents(s)[x] = Contents(m)[x]
    <2>1. PICK c \in 0 .. m.capacity - 1 : m.buckets[c].key = x
        BY ContentsOf
    <2>2. x \in Keys
        BY ContentsOf
    <2>3. c # b
        BY <1>1, <1>6, <2>1, <2>2, KeysAssumption
    <2>4. s.buckets[c] = m.buckets[c]
        BY <1>3, <2>3
    <2>5. Contents(m)[x] = m.buckets[c].val
        BY <2>1, <2>2, ContentsOf
    <2>6. x \in DOMAIN Contents(s) /\ Contents(s)[x] = s.buckets[c].val
        <3>1. \A d \in 0 .. s.capacity - 1 : s.buckets[d].key = x =>
                 x \in DOMAIN Contents(s) /\ Contents(s)[x] = s.buckets[d].val
            BY <1>4, <2>2, ContentsOf
        <3>2. c \in 0 .. s.capacity - 1
            BY <1>2
        <3> QED
            BY <2>1, <2>4, <3>1, <3>2
    <2> QED
        BY <2>4, <2>5, <2>6
<1>7. ASSUME NEW x \in DOMAIN Contents(s), x # k
      PROVE  x \in DOMAIN Contents(m)
    <2>1. PICK c \in 0 .. m.capacity - 1 : s.buckets[c].key = x
        <3>1. \E d \in 0 .. s.capacity - 1 : s.buckets[d].key = x
            BY <1>4, ContentsOf
        <3> QED
            BY <1>2, <3>1
    <2>2. x \in Keys
        BY <1>4, ContentsOf
    <2>3. m.buckets[c].key = x
        BY <1>3, <1>7, <2>1
    <2> QED
        BY <2>2, <2>3, ContentsOf
<1>8. DOMAIN Contents(s) = DOMAIN Contents(m) \cup {k}
    BY <1>5, <1>6, <1>7
<1>9. Contents(s) = [x \in DOMAIN Contents(s) |-> Contents(s)[x]]
    BY DEF Contents
<1> QED
    BY <1>0, <1>5, <1>6, <1>8, <1>9 DEF Updated

-----------------------------------------------------------------------------
(* The table is too full exactly when Limit entries are in use.            *)
LEMMA LimitMeans ==
    /\ Limit \in Nat
    /\ \A u \in Nat : u >= Limit <=> 100 * u >= HighWatermark * InitSize
<1> DEFINE High(n) == Percent(n, InitSize) >= HighWatermark
           T == {n \in 1 .. InitSize : High(n)}
<1>1. \A n \in Nat : High(n) <=> 100 * n >= HighWatermark * InitSize
    BY Sizes, PercentAtLeast
<1> HIDE DEF High
<1>2. InitSize \in T /\ T \in SUBSET Nat
    BY <1>1, Sizes
<1>3. PICK n \in T : \A y \in T : n <= y
    BY <1>2, LeastElement
<1>4. \A x \in 1 .. n - 1 : ~High(x)
    <2>1. \A x \in 1 .. n - 1 : x \in 1 .. InitSize /\ ~(n <= x)
        BY Sizes
    <2> QED
        BY <1>3, <2>1
<1>5. \E x \in 1 .. InitSize : High(x) /\ \A y \in 1 .. x - 1 : ~High(y)
    BY <1>3, <1>4
<1>6. \A x \in 1 .. InitSize : Percent(x, InitSize) < HighWatermark <=> ~High(x)
    <2>1. \A x \in Nat : Percent(x, InitSize) \in Int
        BY Sizes DEF Percent
    <2> QED
        BY <2>1, Sizes DEF High
<1>7. Limit \in 1 .. InitSize /\ High(Limit) /\ \A y \in 1 .. Limit - 1 : ~High(y)
    <2>1. \E x \in 1 .. InitSize :
             /\ Percent(x, InitSize) >= HighWatermark
             /\ \A y \in 1 .. x - 1 : Percent(y, InitSize) < HighWatermark
        <3>1. \A x \in 1 .. InitSize : \A y \in 1 .. x - 1 : y \in 1 .. InitSize
            BY Sizes
        <3> QED
            BY <1>5, <1>6, <3>1 DEF High
    <2>2. /\ Limit \in 1 .. InitSize
          /\ Percent(Limit, InitSize) >= HighWatermark
          /\ \A y \in 1 .. Limit - 1 : Percent(y, InitSize) < HighWatermark
        BY <2>1, Zenon DEF Limit
    <2> QED
        <3>1. \A y \in 1 .. Limit - 1 : y \in 1 .. InitSize
            BY <2>2, Sizes
        <3> QED
            BY <1>6, <2>2, <3>1 DEF High
<1> HIDE DEF T
<1> SUFFICES ASSUME NEW u \in Nat
             PROVE  u >= Limit <=> 100 * u >= HighWatermark * InitSize
    BY <1>7, Sizes
<1>8. CASE u >= Limit
    BY <1>1, <1>7, <1>8, Sizes
<1>9. CASE ~(u >= Limit)
    <2>1. u = 0 \/ u \in 1 .. Limit - 1
        BY <1>7, <1>9
    <2>2. u = 0 => 100 * u = 0
        OBVIOUS
    <2> QED
        BY <1>1, <1>7, <1>9, <2>1, <2>2, Sizes
<1> QED
    BY <1>8, <1>9

-----------------------------------------------------------------------------
(* The inductive invariant: the maps are plain, a rehash is in its first   *)
(* round over a map that is too full, and its new map holds the entries of *)
(* the buckets passed, each once.  So the assertion that ends the round    *)
(* compares all the entries with the one key counted, and fails.           *)

PutGetInv ==
    /\ Inv
    /\ Plain(map) /\ Plain(map2)
    /\ pc \in Rehashing => i = 0 /\ 100 * map.used >= HighWatermark * InitSize
    /\ pc \in {"copy", "check"} =>
          /\ map2.used = Cardinality(Passed(map, j))
          /\ \A b \in 0 .. map2.capacity - 1 :
                Live(map2, b) =>
                    \E c \in Passed(map, j) : map.buckets[c].key = map2.buckets[b].key
    /\ pc = "check" => j = map.capacity

LEMMA InitPutGet == Init => PutGetInv
<1> SUFFICES ASSUME Init PROVE PutGetInv
    OBVIOUS
<1>1. Plain(map) /\ Plain(map2)
    BY CallocPlain DEF Init
<1> QED
    BY <1>1, InitInv DEF Init, PutGetInv, Rehashing

(* In a plain map every entry in use is live.                              *)
LEMMA AllPassed ==
    ASSUME Plain(map), Counted(map)
    PROVE  Cardinality(Passed(map, map.capacity)) = map.used
<1>1. \A b \in 0 .. map.capacity - 1 : map.buckets[b] \in Entry
    BY DEF Plain, IsMap
<1>2. \A b \in 0 .. map.capacity - 1 : Live(map, b) <=> map.buckets[b].key # Null
    BY <1>1, KeysAssumption DEF Plain, Unmarked, Live, Entry
<1>3. Passed(map, map.capacity) = NonNull(map)
    BY <1>2 DEF Passed, NonNull
<1> QED
    BY <1>3 DEF Counted

(* The copy of one bucket.                                                 *)
LEMMA CopyPutGet ==
    ASSUME PutGetInv, RehashCopy, Inv'
    PROVE  PutGetInv'
<1> USE DEF Rehashing
<1>1. /\ pc = "copy" /\ i = 0 /\ 100 * map.used >= HighWatermark * InitSize
      /\ Plain(map) /\ Plain(map2) /\ IsMap(map2) /\ IsMap(map) /\ Counted(map)
      /\ TypeOK /\ j \in Nat /\ j <= map.capacity
      /\ map2.used = Cardinality(Passed(map, j))
      /\ \A b \in 0 .. map2.capacity - 1 :
            Live(map2, b) =>
                \E c \in Passed(map, j) : map.buckets[c].key = map2.buckets[b].key
    BY DEF PutGetInv, Inv, TypeOK, RehashInv, Plain, RehashCopy
<1>2. map' = map /\ i' = i
    BY DEF RehashCopy
<1>3. pc' # "unreachable" /\ pc' # "nested" /\ IsMap(map2')
    BY DEF Inv, TypeOK
<1>4. CASE j < map.capacity /\ Live(map, j)
    <2> DEFINE e == map.buckets[j]
    <2>1. /\ j' = j + 1 /\ pc' = "copy"
          /\ \E n \in 0 .. map2.capacity - 1 :
                /\ StopsAt(map2, e.key, PutSet(e.key), n)
                /\ map2' = Store(map2, e.key, e.val, n)
        BY <1>1, <1>3, <1>4 DEF RehashCopy, CopyBucket
    <2>2. PICK n \in 0 .. map2.capacity - 1 :
             /\ StopsAt(map2, e.key, PutSet(e.key), n)
             /\ map2' = Store(map2, e.key, e.val, n)
        BY <2>1
    <2>3. e.key \in Keys
        BY <1>4 DEF Live
    <2>4. Plain(map2')
        BY <1>1, <1>3, <2>2, <2>3, StorePlain
    <2> DEFINE s == Slot(map2, e.key, n)
    <2>5. s \in 0 .. map2.capacity - 1 /\ map2.buckets[s].key \in {e.key, Null}
        BY <1>1, <2>2, <2>3, PutStops DEF Probed
    <2>6. map2.buckets[s].key # e.key
        <3> SUFFICES ASSUME map2.buckets[s].key = e.key PROVE FALSE
            OBVIOUS
        <3>1. PICK c \in Passed(map, j) : map.buckets[c].key = e.key
            BY <1>1, <2>3, <2>5 DEF Live
        <3>2. c \in 0 .. map.capacity - 1 /\ Live(map, c) /\ c # j
            BY <1>1, <3>1 DEF Passed, IsMap
        <3>3. j \in 0 .. map.capacity - 1
            BY <1>1, <1>4 DEF IsMap
        <3> QED
            BY <1>1, <3>1, <3>2, <3>3 DEF Plain, Distinct
    <2>7. /\ map2'.capacity = map2.capacity
          /\ map2'.used = map2.used + 1
          /\ map2'.buckets = [map2.buckets EXCEPT ![s] = [key |-> e.key, val |-> e.val]]
        BY <2>2, <2>3, <2>5, <2>6 DEF Store, Probed
    <2>8. map2'.used = Cardinality(Passed(map, j + 1))
        BY <1>1, <1>4, <2>7, PassedBound
    <2>9. Passed(map, j) \subseteq Passed(map, j + 1) /\ j \in Passed(map, j + 1)
        BY <1>1, <1>4 DEF Passed, IsMap
    <2>10. ASSUME NEW b \in 0 .. map2'.capacity - 1, Live(map2', b)
           PROVE  \E c \in Passed(map, j + 1) : map.buckets[c].key = map2'.buckets[b].key
        <3>1. CASE b = s
            <4>1. map2'.buckets[b].key = e.key
                BY <1>1, <2>5, <2>7, <3>1 DEF IsMap
            <4> QED
                BY <2>9, <4>1
        <3>2. CASE b # s
            <4>1. b \in 0 .. map2.capacity - 1 /\ map2'.buckets[b] = map2.buckets[b]
                BY <1>1, <2>7, <2>10, <3>2 DEF IsMap
            <4>2. Live(map2, b)
                BY <2>10, <4>1 DEF Live
            <4>3. PICK c \in Passed(map, j) : map.buckets[c].key = map2.buckets[b].key
                BY <1>1, <4>1, <4>2
            <4> QED
                BY <2>9, <4>1, <4>3
        <3> QED
            BY <3>1, <3>2
    <2> HIDE DEF e, s
    <2> QED
        BY <1>1, <1>2, <2>1, <2>4, <2>8, <2>10 DEF PutGetInv
<1>5. CASE j < map.capacity /\ ~Live(map, j)
    <2>1. j' = j + 1 /\ pc' = "copy" /\ map2' = map2
        BY <1>1, <1>5 DEF RehashCopy
    <2>2. Passed(map, j + 1) = Passed(map, j)
        BY <1>1, <1>5, PassedBound
    <2> QED
        BY <1>1, <1>2, <2>1, <2>2 DEF PutGetInv
<1>6. CASE ~(j < map.capacity)
    <2>1. j' = j /\ pc' = "check" /\ map2' = map2
        BY <1>1, <1>6 DEF RehashCopy
    <2>2. j = map.capacity
        BY <1>1, <1>6 DEF IsMap
    <2> QED
        BY <1>1, <1>2, <2>1, <2>2 DEF PutGetInv
<1> QED
    BY <1>4, <1>5, <1>6

(* The check at the end of a round fails.                                  *)
LEMMA CheckFails ==
    ASSUME PutGetInv, RehashCheck
    PROVE  pc' = "aborted" /\ map' = map /\ map2' = map2
<1>1. /\ Plain(map) /\ Counted(map) /\ i = 0 /\ nkeys <= 1 /\ nkeys \in Nat
      /\ map2.used = Cardinality(Passed(map, map.capacity))
      /\ 100 * map.used >= HighWatermark * InitSize /\ map.used \in Nat
    BY DEF PutGetInv, Inv, RehashInv, RehashCheck, Rehashing, TypeOK, IsMap
<1>2. map2.used = map.used
    BY <1>1, AllPassed
<1>3. map2.used # nkeys
    BY <1>1, <1>2, Sizes
<1> QED
    BY <1>3 DEF RehashCheck, Asserted

LEMMA NextPutGet ==
    ASSUME Deletable = {}
    PROVE  PutGetInv /\ [Next]_vars => PutGetInv'
<1> SUFFICES ASSUME PutGetInv, [Next]_vars PROVE PutGetInv'
    OBVIOUS
<1> USE DEF Rehashing
<1>1. /\ Inv' /\ Plain(map) /\ Plain(map2)
      /\ IsMap(map') /\ map.used \in Nat /\ map.capacity \in {0, InitSize}
      /\ arg \in [key : Keys, val : Vals] /\ cap \in Nat
      /\ pc' \notin {"unreachable", "nested"}
    BY NextInv DEF PutGetInv, Inv, TypeOK, IsMap
<1>2. ASSUME NEW k \in Keys, NEW v \in Vals, BeginPut(k, v) PROVE PutGetInv'
    <2>1. pc = "idle" /\ map2' = map2
        BY <1>2 DEF BeginPut
    <2>2. CASE map.capacity = 0
        <3>1. map' = Calloc(InitSize) /\ pc' = "insert"
            BY <1>2, <2>2 DEF BeginPut
        <3>2. Plain(map')
            BY <3>1, Sizes, CallocPlain
        <3> QED
            BY <1>1, <2>1, <3>1, <3>2 DEF PutGetInv
    <2>3. CASE map.capacity # 0
        <3>1. /\ map' = map
              /\ pc' = "insert" \/ (pc' = "count" /\ i' = 0 /\ Full(map))
            BY <1>2, <2>3 DEF BeginPut
        <3>2. Full(map) => 100 * map.used >= HighWatermark * InitSize
            BY <1>1, <2>3, Sizes, FullMeans
        <3> QED
            BY <1>1, <2>1, <3>1, <3>2 DEF PutGetInv
    <2> QED
        BY <2>2, <2>3
<1>3. CASE Insert
    <2>1. PICK n \in 0 .. map.capacity - 1 :
             StopsAt(map, arg.key, PutSet(arg.key), n) /\ map' = Store(map, arg.key, arg.val, n)
        BY <1>1, <1>3 DEF Insert
    <2>2. map2' = map2 /\ pc' = "idle"
        BY <1>1, <1>3 DEF Insert, rvars
    <2>3. Plain(map')
        BY <1>1, <2>1, StorePlain
    <2> QED
        BY <1>1, <2>2, <2>3 DEF PutGetInv
<1>4. ASSUME NEW k \in Keys, Get(k) PROVE PutGetInv'
    <2>1. map' = map /\ map2' = map2 /\ pc' = "idle"
        BY <1>1, <1>4 DEF Get, rvars
    <2> QED
        BY <1>1, <2>1 DEF PutGetInv
<1>5. CASE RehashCount
    <2>1. i = 0 /\ map.capacity = InitSize /\ map' = map /\ map2' = map2 /\ i' = i
        BY <1>5 DEF RehashCount, PutGetInv, Inv, RehashInv
    <2>2. pc' = "grow"
        BY <1>5, <2>1, Sizes DEF RehashCount
    <2> QED
        BY <1>1, <1>5, <2>1, <2>2 DEF PutGetInv, RehashCount
<1>6. CASE RehashGrow
    <2>1. /\ i' = i /\ map' = map /\ pc = "grow"
          /\ i = 0 /\ 100 * map.used >= HighWatermark * InitSize
        BY <1>6 DEF RehashGrow, PutGetInv
    <2>2. CASE pc' = "copy"
        <3>1. map2' = Calloc(cap) /\ j' = 0
            BY <1>6, <2>1, <2>2 DEF RehashGrow
        <3>2. Plain(map2') /\ map2'.used = 0 /\ map2'.capacity = cap
            BY <1>1, <3>1, CallocPlain, CallocCounted
        <3>3. Passed(map, 0) = {}
            BY DEF Passed
        <3>4. \A b \in 0 .. map2'.capacity - 1 : ~Live(map2', b)
            BY <3>1, <3>2, KeysAssumption DEF Live, Calloc, EmptyEntry
        <3> QED
            BY <1>1, <2>1, <2>2, <3>1, <3>2, <3>3, <3>4, FS_EmptySet DEF PutGetInv
    <2>3. CASE pc' # "copy"
        <3>1. map2' = map2 /\ pc' = "grow"
            BY <1>6, <2>1, <2>3 DEF RehashGrow
        <3> QED
            BY <1>1, <2>1, <3>1 DEF PutGetInv
    <2> QED
        BY <2>2, <2>3
<1>7. CASE RehashCopy
    BY <1>1, <1>7, CopyPutGet
<1>8. CASE RehashCheck
    BY <1>1, <1>8, CheckFails DEF PutGetInv
<1>9. CASE UNCHANGED vars
    BY <1>1, <1>9 DEF vars, PutGetInv, Inv, TypeOK, Passed, Live
<1> QED
    BY <1>2, <1>3, <1>4, <1>5, <1>6, <1>7, <1>8, <1>9 DEF Next, Step, Exited

LEMMA SpecPutGet ==
    ASSUME Deletable = {}
    PROVE  Spec => []PutGetInv
    BY InitPutGet, NextPutGet, PTL DEF Spec

-----------------------------------------------------------------------------
(* The refinement.                                                         *)

LEMMA InitAbs == Init => Abs!Init
<1> SUFFICES ASSUME Init PROVE Abs!Init
    OBVIOUS
<1>1. Contents(map) = <<>>
    BY ContentsEmpty DEF Init
<1> QED
    BY <1>1 DEF Init, Abs!Init

(* Each step of the table is a step of the bounded map, or does not change *)
(* what a client sees.                                                     *)
LEMMA NextAbs ==
    ASSUME Deletable = {}
    PROVE  PutGetInv /\ [Next]_vars => [Abs!Next]_Abs!vars
<1> SUFFICES ASSUME PutGetInv, [Next]_vars PROVE [Abs!Next]_Abs!vars
    OBVIOUS
<1>1. /\ Plain(map) /\ Counted(map) /\ map.used \in Nat
      /\ arg \in [key : Keys, val : Vals] /\ arg # NoPut
      /\ pc' \notin {"unreachable", "nested"}
      /\ IsMap(map) /\ IsMap(map') /\ map.capacity \in {0, InitSize}
    <2>1. Inv /\ Inv' /\ Plain(map)
        BY NextInv DEF PutGetInv
    <2>2. /\ Counted(map) /\ IsMap(map) /\ IsMap(map')
          /\ map.capacity \in {0, InitSize} /\ pc' \notin {"unreachable", "nested"}
          /\ arg \in [key : Keys, val : Vals]
        BY <2>1 DEF Inv, TypeOK
    <2>3. map.used \in Nat
        BY <2>2 DEF IsMap
    <2>4. arg # NoPut
        BY <2>2, KeysAssumption DEF NoPut, EmptyEntry
    <2> QED
        BY <2>1, <2>2, <2>3, <2>4
<1>2. Abs!Cardinality(DOMAIN Contents(map)) = map.used
    BY <1>1, ContentsSize DEF Abs!Cardinality, Cardinality
<1>3. ASSUME NEW k \in Keys, NEW v \in Vals, BeginPut(k, v)
      PROVE  Abs!BeginPut(k, v)
    <2>1. pc = "idle" /\ pc' \in {"insert", "count"} /\ arg' = [key |-> k, val |-> v]
          /\ out' = out
        BY <1>3 DEF BeginPut
    <2>2. Contents(map') = Contents(map)
        <3>1. CASE map.capacity = 0
            <4>1. map' = Calloc(InitSize)
                BY <1>3, <3>1 DEF BeginPut
            <4>2. Contents(map') = <<>>
                BY <4>1, Sizes, ContentsEmpty
            <4>3. \A x \in Keys : Holding(map, x) = {}
                BY <3>1 DEF Holding
            <4> QED
                BY <4>2, <4>3 DEF Contents
        <3>2. CASE map.capacity # 0
            BY <1>3, <3>2 DEF BeginPut
        <3> QED
            BY <3>1, <3>2
    <2> QED
        BY <2>1, <2>2 DEF Abs!BeginPut
<1>4. ASSUME Insert
      PROVE  Abs!EndPut
    <2>1. PICK n \in 0 .. map.capacity - 1 :
             StopsAt(map, arg.key, PutSet(arg.key), n) /\ map' = Store(map, arg.key, arg.val, n)
        BY <1>1, <1>4 DEF Insert
    <2>2. pc = "insert" /\ pc' = "idle" /\ arg' = arg /\ out' = out
        BY <1>1, <1>4 DEF Insert
    <2>3. Contents(map') = Updated(Contents(map), arg.key, arg.val)
        <3>1. arg.key \in Keys /\ IsMap(Store(map, arg.key, arg.val, n))
            BY <1>1, <2>1
        <3>2. Contents(Store(map, arg.key, arg.val, n)) =
                 Updated(Contents(map), arg.key, arg.val)
            BY <1>1, <2>1, <3>1, ContentsOfStore
        <3> QED
            BY <2>1, <3>2
    <2>4. 100 * map.used < HighWatermark * InitSize
        BY <2>2 DEF PutGetInv, Inv
    <2>5. map.used < Limit
        BY <1>1, <2>4, LimitMeans, Sizes
    <2> QED
        BY <1>1, <1>2, <2>2, <2>3, <2>5 DEF Abs!EndPut, Updated
<1>5. ASSUME NEW k \in Keys, Get(k)
      PROVE  Abs!Get(k)
    <2>1. pc = "idle" /\ pc' = "idle" /\ map' = map /\ arg' = arg
        BY <1>1, <1>5 DEF Get
    <2>3. \A b \in 0 .. map.capacity - 1 : map.buckets[b].key = k =>
             k \in DOMAIN Contents(map) /\ Contents(map)[k] = map.buckets[b].val
        BY <1>1, ContentsOf
    <2>4. k \in DOMAIN Contents(map) =>
             \E b \in 0 .. map.capacity - 1 : map.buckets[b].key = k
        BY <1>1, ContentsOf
    <2>2. out' = IF k \in DOMAIN Contents(map) THEN Contents(map)[k] ELSE 0
        <3>1. CASE map.capacity = 0
            <4>1. k \notin DOMAIN Contents(map)
                BY <2>4, <3>1
            <4> QED
                BY <1>5, <3>1, <4>1 DEF Get
        <3>2. CASE map.capacity # 0
            <4>1. PICK n \in 0 .. map.capacity - 1 :
                     /\ StopsAt(map, k, GetSet(k), n)
                     /\ out' = IF Probed(map, k, n) = k
                               THEN map.buckets[Slot(map, k, n)].val ELSE 0
                BY <1>1, <1>5, <3>2 DEF Get
            <4>2. /\ Slot(map, k, n) \in 0 .. map.capacity - 1
                  /\ Probed(map, k, n) \in {k, Null}
                  /\ \A b \in 0 .. map.capacity - 1 :
                        map.buckets[b].key = k => b = Slot(map, k, n)
                BY <1>1, <4>1, PutStops
            <4>3. CASE Probed(map, k, n) = k
                BY <2>3, <4>1, <4>2, <4>3 DEF Probed
            <4>4. CASE Probed(map, k, n) # k
                <5>1. k \notin DOMAIN Contents(map)
                    BY <2>4, <4>2, <4>4 DEF Probed
                <5> QED
                    BY <4>1, <4>4, <5>1
            <4> QED
                BY <4>3, <4>4
        <3> QED
            BY <3>1, <3>2
    <2> QED
        BY <2>1, <2>2 DEF Abs!Get
<1>6. ASSUME RehashCheck
      PROVE  Abs!PutFails
    <2>1. pc = "check" /\ pc' = "aborted" /\ map' = map /\ arg' = arg /\ out' = out
        BY <1>6, CheckFails DEF RehashCheck
    <2>2. 100 * map.used >= HighWatermark * InitSize
        BY <2>1 DEF PutGetInv, Rehashing
    <2>3. map.used >= Limit
        BY <1>1, <2>2, LimitMeans
    <2> QED
        BY <1>1, <1>2, <2>1, <2>3 DEF Abs!PutFails
<1>7. ASSUME RehashCount \/ RehashGrow \/ RehashCopy
      PROVE  UNCHANGED Abs!vars
    <2>1. /\ pc \in {"count", "grow", "copy"} /\ pc' \notin {"idle", "aborted"}
          /\ map' = map /\ arg' = arg /\ out' = out
        BY <1>1, <1>7 DEF RehashCount, RehashGrow, RehashCopy, CopyBucket
    <2> QED
        BY <2>1 DEF Abs!vars
<1>8. ASSUME UNCHANGED vars
      PROVE  UNCHANGED Abs!vars
    BY <1>8 DEF vars, Abs!vars
<1> QED
    BY <1>3, <1>4, <1>5, <1>6, <1>7, <1>8 DEF Next, Step, Exited, Abs!Next

(* For any keys, hash function, initial size and watermarks that satisfy   *)
(* the assumptions of HashMap: as long as nothing is deleted, gets and     *)
(* puts behave as those of a map that holds at most Limit keys, and the    *)
(* put that finds Limit keys ends the process; rehashing is invisible.     *)
THEOREM PutGetImplementsMap ==
    ASSUME Deletable = {}
    PROVE  Spec => ImplementsMap
<1>1. Init => Abs!Init
    BY InitAbs
<1>2. PutGetInv /\ [Next]_vars => [Abs!Next]_Abs!vars
    BY NextAbs
<1>3. Spec => []PutGetInv
    BY SpecPutGet
<1> QED
    BY <1>1, <1>2, <1>3, PTL DEF Spec, ImplementsMap, Abs!Spec

(* The table of the compiler, with INIT_SIZE 16 and HIGH_WATERMARK 70, is  *)
(* full with twelve keys: this is the number that the models of the parser *)
(* and of the activation records take for the limit of a map.              *)
THEOREM TwelveKeys ==
    ASSUME InitSize = 16, HighWatermark = 70
    PROVE  Limit = 12
<1>1. \A u \in Nat : u >= Limit <=> 100 * u >= 1120
    BY LimitMeans
<1>2. 12 >= Limit /\ ~(11 >= Limit)
    BY <1>1
<1> QED
    BY <1>2, LimitMeans

(* Whatever is put and deleted, no map ever has more than Limit buckets in *)
(* use, tombstones included, and so never more than Limit keys.            *)
THEOREM AtMostLimit == Spec => [](Cardinality(NonNull(map)) <= Limit)
<1>1. Inv => Cardinality(NonNull(map)) <= Limit
    <2> SUFFICES ASSUME Inv PROVE Cardinality(NonNull(map)) <= Limit
        OBVIOUS
    <2>1. map.used \in Nat /\ map.used = Cardinality(NonNull(map))
        BY DEF Inv, TypeOK, IsMap, Counted
    <2>2. CASE map.used = 0
        BY <2>1, <2>2, LimitMeans
    <2>3. CASE map.used # 0
        <3>1. map.used - 1 \in Nat /\ 100 * (map.used - 1) < HighWatermark * InitSize
            BY <2>1, <2>3 DEF Inv
        <3>2. ~(map.used - 1 >= Limit)
            BY <3>1, LimitMeans, Sizes
        <3> QED
            BY <2>1, <3>2, LimitMeans
    <2> QED
        BY <2>2, <2>3
<1> QED
    BY <1>1, SpecInv, PTL
=============================================================================
