--------------------------- MODULE HashMapProofs ---------------------------
(***************************************************************************)
(* Proofs about the hash table: the type invariant, that its probe loops   *)
(* always end on a bucket, that rehash does not call itself, and that no   *)
(* successful rehash enlarges the table, for every set of keys, every hash *)
(* function, every initial size and every pair of watermarks that satisfy  *)
(* the assumptions of HashMap.                                             *)
(***************************************************************************)
EXTENDS HashMap, LeastNumber, FiniteSetTheorems, TLAPS

-----------------------------------------------------------------------------
(* Arithmetic.                                                             *)

(* The integer division of the watermark tests, as a comparison.           *)
LEMMA PercentAtLeast ==
    ASSUME NEW n \in Nat, NEW c \in Nat, c > 0, NEW h \in Nat
    PROVE  (Percent(n, c) >= h) <=> (100 * n >= h * c)
<1>1. \A a \in Nat : (a \div c >= h) <=> (a >= h * c)
    OBVIOUS
<1>2. n * 100 \in Nat /\ n * 100 = 100 * n
    OBVIOUS
<1> QED
    BY <1>1, <1>2 DEF Percent

(* Multiplication is monotone.                                             *)
LEMMA TimesMonotone ==
    ASSUME NEW a \in Nat, NEW b \in Nat, a <= b, NEW c \in Nat
    PROVE  c * a <= c * b
    OBVIOUS

(* Linear probing from any hash value visits every bucket in one round.    *)
LEMMA ProbingVisits ==
    ASSUME NEW h \in Nat, NEW c \in Nat, c > 0, NEW b \in 0 .. c - 1
    PROVE  \E n \in 0 .. c - 1 : (h + n) % c = b
<1> DEFINE r == h % c
           q == h \div c
<1>1. r \in 0 .. c - 1 /\ q \in Nat /\ h = c * q + r
    OBVIOUS
<1>2. \A x \in Nat : (c * x + b) % c = b
    OBVIOUS
<1>3. CASE r <= b
    <2>1. b - r \in 0 .. c - 1 /\ h + (b - r) = c * q + b
        BY <1>1, <1>3
    <2>2. (h + (b - r)) % c = b
        BY <1>1, <1>2, <2>1
    <2> HIDE DEF r
    <2> QED
        BY <2>1, <2>2
<1>4. CASE r > b
    <2>1. b - r + c \in 0 .. c - 1 /\ h + (b - r + c) = c * (q + 1) + b
        BY <1>1, <1>4
    <2>2. (h + (b - r + c)) % c = b
        <3>1. q + 1 \in Nat
            BY <1>1
        <3> QED
            BY <1>2, <2>1, <3>1
    <2> HIDE DEF r
    <2> QED
        BY <2>1, <2>2
<1> QED
    BY <1>1, <1>3, <1>4

-----------------------------------------------------------------------------
(* Probing.                                                                *)

(* Slots are indices of buckets.                                           *)
LEMMA SlotType ==
    ASSUME NEW m, IsMap(m), m.capacity > 0, NEW k \in Keys, NEW n \in Nat
    PROVE  Slot(m, k, n) \in 0 .. m.capacity - 1
    BY KeysAssumption DEF Slot, IsMap

(* A probe loop stops whenever some bucket holds a key it stops at.        *)
LEMMA ProbeStops ==
    ASSUME NEW m, IsMap(m), NEW k \in Keys, NEW S,
           NEW b \in 0 .. m.capacity - 1, m.buckets[b].key \in S
    PROVE  Stops(m, k, S)
<1> DEFINE T == {n \in 0 .. m.capacity - 1 : Probed(m, k, n) \in S}
<1>1. m.capacity \in Nat /\ m.capacity > 0 /\ Hash[k] \in Nat
    BY KeysAssumption DEF IsMap
<1>2. \E n \in 0 .. m.capacity - 1 : Slot(m, k, n) = b
    BY <1>1, ProbingVisits DEF Slot
<1>3. T # {} /\ T \subseteq Nat
    BY <1>2 DEF Probed
<1>4. PICK n \in T : \A y \in T : n <= y
    BY <1>3, LeastElement
<1>5. \A x \in 0 .. n - 1 : Probed(m, k, x) \notin S
    BY <1>1, <1>4
<1> QED
    BY <1>4, <1>5 DEF Stops, StopsAt

-----------------------------------------------------------------------------
(* Counting.                                                               *)

(* used is the number of buckets that are not NULL, and one is NULL.       *)
Counted(m) ==
    /\ m.used = Cardinality(NonNull(m))
    /\ m.capacity > 0 => m.used < m.capacity

(* The buckets are finitely many.                                          *)
LEMMA NonNullFinite ==
    ASSUME NEW m, IsMap(m)
    PROVE  /\ IsFiniteSet(0 .. m.capacity - 1)
           /\ IsFiniteSet(NonNull(m))
           /\ Cardinality(NonNull(m)) \in Nat
<1>1. m.capacity - 1 \in Int
    BY DEF IsMap
<1>2. IsFiniteSet(0 .. m.capacity - 1)
    BY <1>1, FS_Interval
<1>3. NonNull(m) \in SUBSET (0 .. m.capacity - 1)
    BY DEF NonNull
<1> QED
    BY <1>2, <1>3, FS_Subset, FS_CardinalityType

(* A table that counts its buckets has a NULL one, so every probe loop     *)
(* that stops at NULL stops.                                               *)
LEMMA CountedStops ==
    ASSUME NEW m, IsMap(m), Counted(m), m.capacity > 0,
           NEW k \in Keys, NEW S, Null \in S
    PROVE  Stops(m, k, S)
<1>1. Cardinality(0 .. m.capacity - 1) = m.capacity
    <2>1. m.capacity \in Nat /\ m.capacity - 1 \in Int /\ ~(0 > m.capacity - 1)
        BY DEF IsMap
    <2>2. Cardinality(0 .. m.capacity - 1) = (m.capacity - 1) - 0 + 1
        BY <2>1, FS_Interval
    <2> QED
        BY <2>1, <2>2
<1>2. NonNull(m) # 0 .. m.capacity - 1
    BY <1>1 DEF Counted, IsMap
<1>3. PICK b \in 0 .. m.capacity - 1 : m.buckets[b].key = Null
    BY <1>2 DEF NonNull
<1> QED
    BY <1>3, ProbeStops

(* A new map is well formed and counts its buckets.                        *)
LEMMA CallocCounted ==
    ASSUME NEW n \in Nat
    PROVE  /\ IsMap(Calloc(n)) /\ Counted(Calloc(n))
           /\ Calloc(n).capacity = n /\ Calloc(n).used = 0
<1>1. IsMap(Calloc(n)) /\ Calloc(n).capacity = n /\ Calloc(n).used = 0
    BY DEF IsMap, Calloc, EmptyEntry, Entry
<1>2. NonNull(Calloc(n)) = {}
    BY DEF NonNull, Calloc, EmptyEntry
<1> QED
    BY <1>1, <1>2, FS_EmptySet DEF Counted

(* The entry a put ends on keeps a map well formed and counted, as long as *)
(* one more entry leaves a NULL bucket.                                    *)
LEMMA StoreCounted ==
    ASSUME NEW m, IsMap(m), Counted(m), m.used + 1 < m.capacity,
           NEW k \in Keys, NEW v \in Vals \cup {0},
           NEW n \in 0 .. m.capacity - 1
    PROVE  /\ IsMap(Store(m, k, v, n)) /\ Counted(Store(m, k, v, n))
           /\ Store(m, k, v, n).capacity = m.capacity
           /\ Store(m, k, v, n).used \in {m.used, m.used + 1}
<1> DEFINE b == Slot(m, k, n)
           s == Store(m, k, v, n)
<1>1. b \in 0 .. m.capacity - 1
    <2>1. n \in Nat /\ m.capacity > 0
        BY DEF IsMap
    <2> QED
        BY <2>1, SlotType
<1>2. /\ s.buckets = [m.buckets EXCEPT ![b] = [key |-> k, val |-> v]]
      /\ s.capacity = m.capacity
      /\ s.used = IF m.buckets[b].key = Null THEN m.used + 1 ELSE m.used
      /\ s = [buckets |-> s.buckets, capacity |-> s.capacity, used |-> s.used]
    BY DEF IsMap, Store, Probed
<1>3. IsMap(s)
    BY <1>1, <1>2 DEF IsMap, Entry
<1>4. k # Null
    BY KeysAssumption
<1>5. NonNull(s) = NonNull(m) \cup {b}
    BY <1>1, <1>2, <1>4 DEF NonNull, IsMap
<1>6. Cardinality(NonNull(s)) = s.used
    <2>1. b \in NonNull(m) <=> m.buckets[b].key # Null
        BY <1>1 DEF NonNull
    <2>2. Cardinality(NonNull(m) \cup {b}) =
             IF b \in NonNull(m) THEN m.used ELSE m.used + 1
        BY NonNullFinite, FS_AddElement DEF Counted
    <2> QED
        BY <1>2, <1>5, <2>1, <2>2
<1> HIDE DEF s
<1>7. Counted(s)
    BY <1>2, <1>6 DEF Counted, IsMap
<1> QED
    BY <1>2, <1>3, <1>7 DEF s

(* So does the mark a deletion leaves.                                     *)
LEMMA EraseCounted ==
    ASSUME NEW m, IsMap(m), Counted(m), NEW k \in Keys,
           NEW n \in 0 .. m.capacity - 1, Probed(m, k, n) = k
    PROVE  /\ IsMap(Erase(m, k, n)) /\ Counted(Erase(m, k, n))
           /\ Erase(m, k, n).capacity = m.capacity
           /\ Erase(m, k, n).used = m.used
<1> DEFINE b == Slot(m, k, n)
           s == Erase(m, k, n)
<1>1. b \in 0 .. m.capacity - 1
    <2>1. n \in Nat /\ m.capacity > 0
        BY DEF IsMap
    <2> QED
        BY <2>1, SlotType
<1>2. /\ s.buckets = [m.buckets EXCEPT ![b].key = Tombstone]
      /\ s.capacity = m.capacity /\ s.used = m.used
      /\ s = [buckets |-> s.buckets, capacity |-> s.capacity, used |-> s.used]
    BY DEF IsMap, Erase
<1>3. m.buckets[b] \in Entry /\ m.buckets[b].key = k
    BY <1>1 DEF IsMap, Probed
<1>4. s.buckets = [m.buckets EXCEPT ![b] = [key |-> Tombstone, val |-> m.buckets[b].val]]
    BY <1>1, <1>2, <1>3 DEF Entry, IsMap
<1>5. IsMap(s)
    BY <1>1, <1>2, <1>3, <1>4 DEF IsMap, Entry
<1>6. NonNull(s) = NonNull(m)
    BY <1>1, <1>2, <1>3, <1>4, KeysAssumption DEF NonNull, IsMap
<1> HIDE DEF s
<1>7. Counted(s)
    BY <1>2, <1>6 DEF Counted
<1> QED
    BY <1>2, <1>5, <1>7 DEF s

-----------------------------------------------------------------------------
(* The inductive invariant.                                                *)

(* The live buckets that rehash's inner loop has passed.                   *)
Passed(m, x) == {b \in 0 .. x - 1 : Live(m, b)}

Rehashing == {"count", "grow", "copy", "check"}

(* In its first round rehash has counted at most one key, so it goes on    *)
(* only if the new map holds at most one; in the later rounds the map      *)
(* itself holds at most one.  In both cases one key is not enough to       *)
(* double cap.                                                             *)
RehashInv ==
    /\ pc \in Rehashing =>
          /\ map.capacity = InitSize
          /\ i = 0 \/ map.used <= 1
    /\ (pc = "count" /\ i = 0) => nkeys = 0
    /\ pc \in {"grow", "copy", "check"} =>
          /\ cap >= InitSize
          /\ i = 0 => nkeys <= 1
          /\ nkeys <= 1 => cap = InitSize
    /\ pc \in {"copy", "check"} =>
          /\ map2.capacity = cap
          /\ j <= map.capacity
          /\ map2.used <= Cardinality(Passed(map, j))

(* The table passes the high watermark by at most one entry, and is below  *)
(* it when a put probes it.                                                *)
Inv ==
    /\ TypeOK
    /\ Counted(map) /\ Counted(map2)
    /\ map.capacity \in {0, InitSize}
    /\ map.used > 0 => 100 * (map.used - 1) < HighWatermark * InitSize
    /\ pc = "insert" =>
          /\ map.capacity = InitSize
          /\ 100 * map.used < HighWatermark * InitSize
    /\ RehashInv
    /\ pc \notin {"unreachable", "nested"}

-----------------------------------------------------------------------------
(* Facts about the sizes, with the products named as numbers.              *)
LEMMA Sizes ==
    /\ InitSize \in Nat /\ InitSize > 0
    /\ HighWatermark \in Nat /\ LowWatermark \in Nat
    /\ HighWatermark * InitSize \in Nat
    /\ HighWatermark * InitSize <= 100 * (InitSize - 1)
    /\ 100 < HighWatermark * InitSize
    /\ 100 < LowWatermark * InitSize
<1>1. InitSize \in Nat /\ HighWatermark \in Nat /\ LowWatermark \in Nat
    BY SizeAssumption
<1>2. InitSize * LowWatermark <= InitSize * HighWatermark
    BY <1>1, SizeAssumption, TimesMonotone
<1>3. /\ InitSize * LowWatermark = LowWatermark * InitSize
      /\ InitSize * HighWatermark = HighWatermark * InitSize
      /\ HighWatermark * InitSize \in Nat /\ LowWatermark * InitSize \in Nat
    BY <1>1
<1> QED
    BY <1>1, <1>2, <1>3, SizeAssumption, OneKeyAssumption

(* The watermark test of a map that is at least as large as the first one. *)
LEMMA FullMeans ==
    ASSUME NEW m, m.used \in Nat, m.capacity \in Nat, m.capacity >= InitSize
    PROVE  /\ m.capacity = InitSize =>
                 (Full(m) <=> 100 * m.used >= HighWatermark * InitSize)
           /\ 100 * m.used < HighWatermark * InitSize => ~Full(m)
<1>1. Full(m) <=> 100 * m.used >= HighWatermark * m.capacity
    BY Sizes, PercentAtLeast DEF Full
<1>2. HighWatermark * InitSize <= HighWatermark * m.capacity
    BY Sizes, TimesMonotone
<1>3. HighWatermark * m.capacity \in Nat
    BY Sizes
<1> QED
    BY <1>1, <1>2, <1>3, Sizes

(* The live buckets of any prefix are among those that used counts, and    *)
(* a live bucket that is not in the prefix adds one.                       *)
LEMMA PassedBound ==
    ASSUME TypeOK, Counted(map), NEW x \in Nat, x <= map.capacity
    PROVE  /\ Cardinality(Passed(map, x)) \in Nat
           /\ Cardinality(Passed(map, x)) <= map.used
           /\ x < map.capacity /\ Live(map, x) =>
                 /\ Cardinality(Passed(map, x + 1)) = Cardinality(Passed(map, x)) + 1
                 /\ Cardinality(Passed(map, x)) + 1 <= map.used
           /\ x < map.capacity /\ ~Live(map, x) => Passed(map, x + 1) = Passed(map, x)
<1> USE DEF TypeOK
<1>1. \A y \in Nat : y <= map.capacity =>
         Passed(map, y) \in SUBSET NonNull(map)
    BY KeysAssumption DEF Passed, Live, NonNull, IsMap
<1>2. \A y \in Nat : y <= map.capacity =>
         /\ IsFiniteSet(Passed(map, y))
         /\ Cardinality(Passed(map, y)) \in Nat
         /\ Cardinality(Passed(map, y)) <= map.used
    BY <1>1, NonNullFinite, FS_Subset, FS_CardinalityType DEF Counted
<1>3. ASSUME x < map.capacity, Live(map, x)
      PROVE  Cardinality(Passed(map, x + 1)) = Cardinality(Passed(map, x)) + 1
    <2>1. Passed(map, x + 1) = Passed(map, x) \cup {x} /\ x \notin Passed(map, x)
        BY <1>3 DEF Passed, IsMap
    <2> QED
        BY <2>1, <1>2, FS_AddElement
<1>4. ASSUME x < map.capacity, ~Live(map, x)
      PROVE  Passed(map, x + 1) = Passed(map, x)
    BY <1>4 DEF Passed, IsMap
<1>5. x < map.capacity => x + 1 \in Nat /\ x + 1 <= map.capacity
    BY DEF IsMap
<1> QED
    BY <1>2, <1>3, <1>4, <1>5

-----------------------------------------------------------------------------
(* One lemma per action: it preserves the invariant.                       *)

LEMMA InitInv == Init => Inv
<1> SUFFICES ASSUME Init PROVE Inv
    OBVIOUS
<1>1. /\ IsMap(map) /\ Counted(map) /\ map.capacity = 0 /\ map.used = 0
      /\ IsMap(map2) /\ Counted(map2)
    BY CallocCounted DEF Init
<1>2. TypeOK
    BY <1>1 DEF TypeOK, Init
<1> QED
    BY <1>1, <1>2 DEF Inv, RehashInv, Rehashing, Init

LEMMA BeginPutInv ==
    ASSUME Inv, NEW k \in Keys, NEW v \in Vals, BeginPut(k, v)
    PROVE  Inv'
<1> USE DEF BeginPut
<1>1. /\ IsMap(map) /\ IsMap(map2) /\ Counted(map) /\ Counted(map2)
      /\ map.capacity \in {0, InitSize} /\ map.used \in Nat
      /\ map.used > 0 => 100 * (map.used - 1) < HighWatermark * InitSize
    BY DEF Inv, TypeOK, IsMap
<1>2. CASE map.capacity = 0
    <2>1. /\ IsMap(map') /\ Counted(map')
          /\ map'.capacity = InitSize /\ map'.used = 0
        BY <1>2, Sizes, CallocCounted
    <2>2. TypeOK'
        BY <1>2, <2>1 DEF Inv, TypeOK
    <2> QED
        BY <1>1, <1>2, <2>1, <2>2, Sizes DEF Inv, RehashInv, Rehashing
<1>3. CASE map.capacity # 0
    <2>1. TypeOK'
        BY <1>3 DEF Inv, TypeOK
    <2>2. Full(map) <=> 100 * map.used >= HighWatermark * InitSize
        BY <1>1, <1>3, Sizes, FullMeans
    <2> QED
        BY <1>1, <1>3, <2>1, <2>2, Sizes DEF Inv, RehashInv, Rehashing
<1> QED
    BY <1>2, <1>3

LEMMA InsertInv ==
    ASSUME Inv, Insert
    PROVE  Inv'
<1>1. /\ IsMap(map) /\ Counted(map) /\ map.capacity = InitSize
      /\ map.used \in Nat /\ 100 * map.used < HighWatermark * InitSize
      /\ arg.key \in Keys /\ arg.val \in Vals \cup {0}
    BY DEF Inv, TypeOK, IsMap, Insert
<1>2. Stops(map, arg.key, PutSet(arg.key))
    BY <1>1, Sizes, CountedStops DEF PutSet
<1>3. PICK n \in 0 .. map.capacity - 1 : map' = Store(map, arg.key, arg.val, n)
    BY <1>2 DEF Insert
<1>4. map.used + 1 < map.capacity
    BY <1>1, Sizes
<1>5. /\ IsMap(map') /\ Counted(map') /\ map'.capacity = InitSize
      /\ map'.used \in {map.used, map.used + 1}
    BY <1>1, <1>3, <1>4, StoreCounted
<1>6. pc' = "idle" /\ UNCHANGED <<rvars, arg, out>>
    BY <1>2 DEF Insert
<1>7. TypeOK'
    BY <1>5, <1>6 DEF Inv, TypeOK, rvars
<1>8. map'.used > 0 => 100 * (map'.used - 1) < HighWatermark * InitSize
    BY <1>1, <1>5, Sizes
<1> QED
    BY <1>5, <1>6, <1>7, <1>8 DEF Inv, RehashInv, Rehashing, rvars

LEMMA GetInv ==
    ASSUME Inv, NEW k \in Keys, Get(k)
    PROVE  Inv'
<1>1. IsMap(map) /\ Counted(map) /\ map.capacity \in Nat
    BY DEF Inv, TypeOK, IsMap
<1>2. map.capacity > 0 => Stops(map, k, GetSet(k))
    BY <1>1, CountedStops DEF GetSet
<1>3. pc' = pc /\ UNCHANGED <<map, rvars, arg>>
    BY <1>1, <1>2 DEF Get
<1>4. out' \in Vals \cup {0}
    <2>1. CASE map.capacity = 0
        BY <2>1 DEF Get
    <2>2. CASE map.capacity # 0
        <3>1. PICK n \in 0 .. map.capacity - 1 :
                 out' = IF Probed(map, k, n) = k
                        THEN map.buckets[Slot(map, k, n)].val ELSE 0
            BY <1>1, <1>2, <2>2 DEF Get
        <3>2. n \in Nat /\ map.capacity > 0
            BY <1>1, <2>2
        <3>3. map.buckets[Slot(map, k, n)] \in Entry
            BY <1>1, <3>2, SlotType DEF IsMap
        <3> QED
            BY <3>1, <3>3 DEF Entry
    <2> QED
        BY <2>1, <2>2
<1>5. TypeOK'
    BY <1>3, <1>4 DEF Inv, TypeOK, rvars
<1> QED
    BY <1>3, <1>5 DEF Inv, RehashInv, Rehashing, rvars, Get

LEMMA DeleteInv ==
    ASSUME Inv, NEW k \in Deletable, Delete(k)
    PROVE  Inv'
<1>1. IsMap(map) /\ Counted(map) /\ map.capacity > 0 /\ k \in Keys
    BY KeysAssumption DEF Inv, TypeOK, Delete
<1>2. Stops(map, k, GetSet(k))
    BY <1>1, CountedStops DEF GetSet
<1>3. pc' = "idle" /\ pc = "idle" /\ UNCHANGED <<rvars, arg, out>>
    BY <1>2 DEF Delete
<1>4. /\ IsMap(map') /\ Counted(map')
      /\ map'.capacity = map.capacity /\ map'.used = map.used
    <2>1. PICK n \in 0 .. map.capacity - 1 :
             map' = IF Probed(map, k, n) = k THEN Erase(map, k, n) ELSE map
        BY <1>2 DEF Delete
    <2> QED
        BY <1>1, <2>1, EraseCounted
<1>5. TypeOK'
    BY <1>3, <1>4 DEF Inv, TypeOK, rvars
<1> QED
    BY <1>3, <1>4, <1>5 DEF Inv, RehashInv, Rehashing, rvars

LEMMA RehashCountInv ==
    ASSUME Inv, RehashCount
    PROVE  Inv'
<1> USE DEF RehashCount, StartCapacity
<1>1. /\ TypeOK /\ i \in Nat /\ nkeys \in Nat /\ map.used \in Nat
      /\ map.capacity = InitSize /\ (i = 0 \/ map.used <= 1)
      /\ i = 0 => nkeys = 0
    BY DEF Inv, RehashInv, Rehashing, TypeOK, IsMap
<1>2. TypeOK'
    BY <1>1, Sizes DEF TypeOK
<1>3. CASE i < map.capacity
    BY <1>1, <1>2, <1>3, Sizes DEF Inv, RehashInv, Rehashing
<1>4. CASE ~(i < map.capacity)
    <2>1. 100 * map.used < HighWatermark * InitSize
        BY <1>1, <1>4, Sizes
    <2> QED
        BY <1>1, <1>2, <1>4, <2>1 DEF Inv, RehashInv, Rehashing
<1> QED
    BY <1>3, <1>4

LEMMA RehashGrowInv ==
    ASSUME Inv, RehashGrow
    PROVE  Inv'
<1> USE DEF RehashGrow, Doubled
<1>1. /\ TypeOK /\ cap \in Nat /\ nkeys \in Nat /\ cap >= InitSize
      /\ map.capacity = InitSize /\ map.used \in Nat
      /\ nkeys <= 1 => cap = InitSize
    BY DEF Inv, RehashInv, Rehashing, TypeOK, IsMap
<1>2. CASE Percent(nkeys, cap) >= LowWatermark
    <2>1. TypeOK'
        BY <1>1, <1>2 DEF TypeOK
    <2>2. ~(nkeys <= 1)
        <3> SUFFICES ASSUME nkeys <= 1 PROVE FALSE
            OBVIOUS
        <3>1. 100 * nkeys >= LowWatermark * InitSize
            BY <1>1, <1>2, Sizes, PercentAtLeast
        <3> QED
            BY <1>1, <3>1, Sizes
    <2> QED
        BY <1>1, <1>2, <2>1, <2>2, Sizes DEF Inv, RehashInv, Rehashing
<1>3. CASE ~(Percent(nkeys, cap) >= LowWatermark)
    <2>1. /\ IsMap(map2') /\ Counted(map2')
          /\ map2'.capacity = cap /\ map2'.used = 0
        BY <1>1, <1>3, CallocCounted
    <2>2. TypeOK'
        BY <1>1, <1>3, <2>1 DEF TypeOK
    <2>3. Cardinality(Passed(map, 0)) = 0
        <3>1. Passed(map, 0) = {}
            BY DEF Passed
        <3> QED
            BY <3>1, FS_EmptySet
    <2>4. map2'.used <= Cardinality(Passed(map', j'))
        BY <1>3, <2>1, <2>3
    <2> QED
        <3>1. RehashInv'
            BY <1>1, <1>3, <2>1, <2>4, Sizes DEF Inv, RehashInv, Rehashing
        <3> QED
            BY <1>1, <1>3, <2>1, <2>2, <3>1 DEF Inv
<1> QED
    BY <1>2, <1>3

LEMMA RehashCopyInv ==
    ASSUME Inv, RehashCopy
    PROVE  Inv'
<1>1. /\ TypeOK /\ IsMap(map) /\ IsMap(map2) /\ Counted(map) /\ Counted(map2)
      /\ map.capacity = InitSize /\ map.used \in Nat /\ j \in Nat
      /\ map.used > 0 => 100 * (map.used - 1) < HighWatermark * InitSize
      /\ j <= map.capacity /\ map2.used \in Nat
      /\ map2.capacity = cap /\ cap \in Nat /\ cap >= InitSize
      /\ map2.used <= Cardinality(Passed(map, j))
      /\ pc = "copy"
    BY DEF Inv, RehashInv, Rehashing, TypeOK, IsMap, RehashCopy
<1>2. UNCHANGED <<map, i, nkeys, cap, arg, out>>
    BY DEF RehashCopy
<1>3. CASE j < map.capacity /\ Live(map, j)
    <2> DEFINE e == map.buckets[j]
    <2>1. e.key \in Keys /\ e.val \in Vals \cup {0}
        BY <1>1, <1>3 DEF Live, IsMap, Entry
    <2>2. /\ Cardinality(Passed(map, j)) \in Nat
          /\ Cardinality(Passed(map, j + 1)) = Cardinality(Passed(map, j)) + 1
          /\ Cardinality(Passed(map, j)) + 1 <= map.used
        BY <1>1, <1>3, PassedBound
    <2>3. 100 * map2.used < HighWatermark * InitSize /\ map2.used + 1 < map2.capacity
        BY <1>1, <2>2, Sizes
    <2>4. ~Full(map2)
        BY <1>1, <2>3, FullMeans
    <2>5. Stops(map2, e.key, PutSet(e.key))
        BY <1>1, <2>1, Sizes, CountedStops DEF PutSet
    <2>6. PICK n \in 0 .. map2.capacity - 1 : map2' = Store(map2, e.key, e.val, n)
        BY <1>3, <2>4, <2>5 DEF RehashCopy, CopyBucket
    <2>7. j' = j + 1 /\ pc' = "copy"
        BY <1>1, <1>3, <2>4, <2>5 DEF RehashCopy, CopyBucket
    <2>8. /\ IsMap(map2') /\ Counted(map2') /\ map2'.capacity = cap
          /\ map2'.used \in {map2.used, map2.used + 1}
        BY <1>1, <2>1, <2>3, <2>6, StoreCounted
    <2>9. TypeOK'
        BY <1>1, <1>2, <2>7, <2>8 DEF TypeOK
    <2>10. map2'.used <= Cardinality(Passed(map', j'))
        BY <1>1, <1>2, <2>2, <2>7, <2>8
    <2> QED
        <3>1. RehashInv'
            BY <1>1, <1>2, <1>3, <2>7, <2>8, <2>10, Sizes DEF Inv, RehashInv, Rehashing
        <3> QED
            BY <1>1, <1>2, <2>7, <2>8, <2>9, <3>1 DEF Inv
<1>4. CASE j < map.capacity /\ ~Live(map, j)
    <2>1. j' = j + 1 /\ UNCHANGED <<pc, map2>>
        BY <1>4 DEF RehashCopy
    <2>2. TypeOK'
        BY <1>1, <1>2, <2>1 DEF TypeOK
    <2>3. Passed(map', j') = Passed(map, j)
        BY <1>1, <1>2, <1>4, <2>1, PassedBound
    <2> QED
        <3>1. RehashInv'
            BY <1>1, <1>2, <1>4, <2>1, <2>3, Sizes DEF Inv, RehashInv, Rehashing
        <3> QED
            BY <1>1, <1>2, <2>1, <2>2, <3>1 DEF Inv
<1>5. CASE ~(j < map.capacity)
    <2>1. pc' = "check" /\ UNCHANGED <<map2, j>>
        BY <1>5 DEF RehashCopy
    <2>2. TypeOK'
        BY <1>1, <1>2, <2>1 DEF TypeOK
    <2> QED
        BY <1>1, <1>2, <2>1, <2>2 DEF Inv, RehashInv, Rehashing
<1> QED
    BY <1>3, <1>4, <1>5

LEMMA RehashCheckInv ==
    ASSUME Inv, RehashCheck
    PROVE  Inv'
<1> USE DEF RehashCheck, Asserted
<1>1. /\ TypeOK /\ Counted(map) /\ Counted(map2)
      /\ map.capacity = InitSize /\ map.used \in Nat /\ j \in Nat /\ i \in Nat
      /\ i = 0 \/ map.used <= 1
      /\ i = 0 => nkeys <= 1
      /\ nkeys <= 1 => cap = InitSize
      /\ j <= map.capacity /\ map2.used \in Nat
      /\ map2.capacity = cap
      /\ map2.used <= Cardinality(Passed(map, j))
    BY DEF Inv, RehashInv, Rehashing, TypeOK, IsMap
<1>2. TypeOK'
    BY <1>1 DEF TypeOK
<1>3. CASE map2.used = nkeys
    <2>1. map2.used <= map.used
        BY <1>1, PassedBound
    <2>2. nkeys <= 1 /\ map2.capacity = InitSize /\ map2.used <= 1
        BY <1>1, <1>3, <2>1
    <2>3. map2.used > 0 => 100 * (map2.used - 1) < HighWatermark * InitSize
        BY <1>1, <2>2, Sizes
    <2> QED
        BY <1>1, <1>2, <1>3, <2>2, <2>3 DEF Inv, RehashInv, Rehashing
<1>4. CASE map2.used # nkeys
    BY <1>1, <1>2, <1>4 DEF Inv, RehashInv, Rehashing
<1> QED
    BY <1>3, <1>4

(* The invariant is inductive.                                             *)
LEMMA NextInv == Inv /\ [Next]_vars => Inv'
<1> SUFFICES ASSUME Inv, [Next]_vars PROVE Inv'
    OBVIOUS
<1>1. ASSUME NEW k \in Keys, NEW v \in Vals, BeginPut(k, v) PROVE Inv'
    BY <1>1, BeginPutInv
<1>2. ASSUME NEW k \in Keys, Get(k) PROVE Inv'
    BY <1>2, GetInv
<1>3. ASSUME NEW k \in Deletable, Delete(k) PROVE Inv'
    BY <1>3, DeleteInv
<1>4. CASE Step
    BY <1>4, InsertInv, RehashCountInv, RehashGrowInv, RehashCopyInv, RehashCheckInv
    DEF Step
<1>5. CASE UNCHANGED vars
    BY <1>5 DEF vars, Inv, TypeOK, RehashInv, Rehashing
<1> QED
    BY <1>1, <1>2, <1>3, <1>4, <1>5 DEF Next, Exited

(* Every reachable state satisfies the invariant.                          *)
LEMMA SpecInv == Spec => []Inv
    BY InitInv, NextInv, PTL DEF Spec

-----------------------------------------------------------------------------
(* Probe chains.                                                           *)

(* No bucket before one that holds a key, in the order the key is probed,  *)
(* is NULL.                                                                *)
Chained(m) ==
    \A k \in Keys, n \in 0 .. m.capacity - 1 :
        Probed(m, k, n) = k => \A x \in 0 .. n - 1 : Probed(m, k, x) # Null

(* One round of probing visits no bucket twice.                            *)
LEMMA ProbingOnce ==
    ASSUME NEW h \in Nat, NEW c \in Nat, c > 0,
           NEW x \in 0 .. c - 1, NEW y \in 0 .. c - 1, (h + x) % c = (h + y) % c
    PROVE  x = y
<1> DEFINE r == h % c
           q == h \div c
<1>1. r \in 0 .. c - 1 /\ q \in Nat /\ h = c * q + r
    OBVIOUS
<1>2. \A z \in Nat, b \in 0 .. c - 1 : (c * z + b) % c = b
    OBVIOUS
<1>3. \A n \in 0 .. c - 1 : (h + n) % c = IF r + n < c THEN r + n ELSE r + n - c
    <2> SUFFICES ASSUME NEW n \in 0 .. c - 1
                 PROVE  (h + n) % c = IF r + n < c THEN r + n ELSE r + n - c
        OBVIOUS
    <2>1. CASE r + n < c
        <3>1. h + n = c * q + (r + n) /\ r + n \in 0 .. c - 1
            BY <1>1, <2>1
        <3> QED
            BY <1>1, <1>2, <2>1, <3>1
    <2>2. CASE ~(r + n < c)
        <3>1. h + n = c * (q + 1) + (r + n - c) /\ r + n - c \in 0 .. c - 1 /\ q + 1 \in Nat
            BY <1>1, <2>2
        <3> QED
            BY <1>2, <2>2, <3>1
    <2> QED
        BY <2>1, <2>2
<1> HIDE DEF r
<1> QED
    BY <1>1, <1>3

(* A key in a chained map is found.                                        *)
LEMMA ChainedFound ==
    ASSUME NEW m, IsMap(m), Chained(m), NEW k \in Keys,
           NEW b \in 0 .. m.capacity - 1, m.buckets[b].key = k
    PROVE  \E n \in 0 .. m.capacity - 1 :
              StopsAt(m, k, GetSet(k), n) /\ Probed(m, k, n) = k
<1>1. m.capacity \in Nat /\ m.capacity > 0 /\ Hash[k] \in Nat /\ k # Null
    BY KeysAssumption DEF IsMap
<1>2. PICK n \in 0 .. m.capacity - 1 : StopsAt(m, k, GetSet(k), n)
    BY ProbeStops DEF Stops, GetSet
<1>3. PICK y \in 0 .. m.capacity - 1 : Slot(m, k, y) = b
    BY <1>1, ProbingVisits DEF Slot
<1>4. Probed(m, k, y) = k
    BY <1>3 DEF Probed
<1>5. ~(y < n)
    BY <1>1, <1>2, <1>4 DEF StopsAt, GetSet
<1>6. n < y => Probed(m, k, n) # Null
    BY <1>1, <1>4 DEF Chained
<1>7. Probed(m, k, n) = k
    BY <1>1, <1>2, <1>4, <1>5, <1>6 DEF StopsAt, GetSet
<1> QED
    BY <1>2, <1>7

(* A new map holds no key.                                                 *)
LEMMA CallocChained ==
    ASSUME NEW c \in Nat
    PROVE  Chained(Calloc(c))
<1> DEFINE m == Calloc(c)
<1>1. IsMap(m) /\ m.capacity = c
    BY CallocCounted
<1>2. \A b \in 0 .. c - 1 : m.buckets[b].key = Null
    BY DEF Calloc, EmptyEntry
<1> HIDE DEF m
<1>3. \A k \in Keys, n \in 0 .. c - 1 : Probed(m, k, n) # k
    BY <1>1, <1>2, SlotType, KeysAssumption DEF Probed
<1> QED
    BY <1>1, <1>3 DEF Chained, m

(* A map with the NULL buckets of another one, or fewer, that holds the    *)
(* same keys at the same places except for one key at one bucket.          *)
LEMMA ChangedChained ==
    ASSUME NEW m, IsMap(m), Chained(m), NEW s, IsMap(s), s.capacity = m.capacity,
           NEW b \in 0 .. m.capacity - 1,
           \A x \in 0 .. m.capacity - 1 : x # b => s.buckets[x] = m.buckets[x],
           s.buckets[b].key # Null,
           \A k \in Keys, n \in 0 .. m.capacity - 1 :
               s.buckets[b].key = k /\ Slot(m, k, n) = b =>
                   \A x \in 0 .. n - 1 : Probed(m, k, x) # Null
    PROVE  Chained(s)
<1> SUFFICES ASSUME NEW k \in Keys, NEW n \in 0 .. m.capacity - 1, Probed(s, k, n) = k,
                    NEW x \in 0 .. n - 1
             PROVE  Probed(s, k, x) # Null
    BY DEF Chained
<1>1. m.capacity \in Nat /\ m.capacity > 0 /\ n \in Nat /\ x \in Nat
    BY DEF IsMap
<1>2. /\ Slot(s, k, n) = Slot(m, k, n) /\ Slot(s, k, x) = Slot(m, k, x)
      /\ Slot(m, k, n) \in 0 .. m.capacity - 1 /\ Slot(m, k, x) \in 0 .. m.capacity - 1
    BY <1>1, SlotType DEF Slot
<1>3. Probed(m, k, x) # Null
    <2>1. CASE Slot(m, k, n) = b
        BY <1>2, <2>1 DEF Probed
    <2>2. CASE Slot(m, k, n) # b
        BY <1>2, <2>2 DEF Probed, Chained
    <2> QED
        BY <2>1, <2>2
<1> QED
    BY <1>2, <1>3 DEF Probed

(* A put stores the key where its probing stopped.                         *)
LEMMA StoreChained ==
    ASSUME NEW m, IsMap(m), Chained(m), NEW k \in Keys, NEW v,
           NEW n \in 0 .. m.capacity - 1, StopsAt(m, k, PutSet(k), n),
           IsMap(Store(m, k, v, n))
    PROVE  Chained(Store(m, k, v, n))
<1> DEFINE b == Slot(m, k, n)
           s == Store(m, k, v, n)
<1>1. /\ m.capacity \in Nat /\ m.capacity > 0 /\ n \in Nat
      /\ k # Null /\ Hash[k] \in Nat
    BY KeysAssumption DEF IsMap
<1>2. b \in 0 .. m.capacity - 1
    BY <1>1, SlotType
<1>3. /\ s.capacity = m.capacity
      /\ s.buckets = [m.buckets EXCEPT ![b] = [key |-> k, val |-> v]]
    BY DEF Store
<1>4. s.buckets[b].key = k
    BY <1>2, <1>3 DEF IsMap
<1>5. \A x \in 0 .. m.capacity - 1 : x # b => s.buckets[x] = m.buckets[x]
    BY <1>3 DEF IsMap
<1>6. \A x \in 0 .. n - 1 : Probed(m, k, x) # Null
    BY DEF StopsAt, PutSet
<1>7. \A y \in 0 .. m.capacity - 1 : Slot(m, k, y) = b => y = n
    BY <1>1, ProbingOnce DEF Slot
<1>8. \A l \in Keys, y \in 0 .. m.capacity - 1 :
         s.buckets[b].key = l /\ Slot(m, l, y) = b =>
             \A x \in 0 .. y - 1 : Probed(m, l, x) # Null
    BY <1>4, <1>6, <1>7
<1>9. IsMap(s) /\ s.capacity = m.capacity /\ s.buckets[b].key # Null
    BY <1>1, <1>3, <1>4
<1> HIDE DEF b, s
<1>10. Chained(s)
    BY <1>2, <1>5, <1>8, <1>9, ChangedChained
<1> QED
    BY <1>10 DEF s

(* A deletion leaves a mark that probing passes.                           *)
LEMMA EraseChained ==
    ASSUME NEW m, IsMap(m), Chained(m), NEW k \in Keys,
           NEW n \in 0 .. m.capacity - 1, IsMap(Erase(m, k, n))
    PROVE  Chained(Erase(m, k, n))
<1> DEFINE b == Slot(m, k, n)
           s == Erase(m, k, n)
<1>1. m.capacity \in Nat /\ m.capacity > 0 /\ n \in Nat
    BY DEF IsMap
<1>2. b \in 0 .. m.capacity - 1
    BY <1>1, SlotType
<1>3. /\ s.capacity = m.capacity
      /\ s.buckets = [m.buckets EXCEPT ![b].key = Tombstone]
    BY DEF Erase
<1>4. m.buckets[b] \in Entry
    BY <1>2 DEF IsMap
<1>5. s.buckets[b].key = Tombstone
    BY <1>2, <1>3, <1>4 DEF IsMap, Entry
<1>6. \A x \in 0 .. m.capacity - 1 : x # b => s.buckets[x] = m.buckets[x]
    BY <1>3 DEF IsMap
<1>7. /\ IsMap(s) /\ s.capacity = m.capacity
      /\ s.buckets[b].key # Null /\ s.buckets[b].key \notin Keys
    BY <1>3, <1>5, KeysAssumption
<1> HIDE DEF b, s
<1>8. Chained(s)
    BY <1>2, <1>6, <1>7, ChangedChained
<1> QED
    BY <1>8 DEF s

(* Both maps stay chained.                                                 *)
ChainInv == Inv /\ Chained(map) /\ Chained(map2)

LEMMA InitChained == Init => ChainInv
<1> SUFFICES ASSUME Init PROVE ChainInv
    OBVIOUS
<1> QED
    BY InitInv, CallocChained DEF Init, ChainInv

LEMMA NextChained == ChainInv /\ [Next]_vars => ChainInv'
<1> SUFFICES ASSUME ChainInv, [Next]_vars PROVE Chained(map') /\ Chained(map2')
    BY NextInv DEF ChainInv, Chained, Probed, Slot
<1> USE DEF ChainInv
<1>1. /\ IsMap(map) /\ IsMap(map2) /\ IsMap(map') /\ IsMap(map2')
      /\ arg \in [key : Keys, val : Vals] /\ cap \in Nat
      /\ pc' \notin {"unreachable", "nested"}
    BY NextInv DEF Inv, TypeOK
<1>2. ASSUME NEW k \in Keys, NEW v \in Vals, BeginPut(k, v)
      PROVE  Chained(map') /\ Chained(map2')
    BY <1>2, CallocChained, Sizes DEF BeginPut
<1>3. CASE Insert
    <2>1. PICK n \in 0 .. map.capacity - 1 :
             StopsAt(map, arg.key, PutSet(arg.key), n) /\ map' = Store(map, arg.key, arg.val, n)
        BY <1>1, <1>3 DEF Insert
    <2>2. map2' = map2
        BY <1>3 DEF Insert, rvars
    <2> QED
        BY <1>1, <2>1, <2>2, StoreChained
<1>4. ASSUME NEW k \in Keys, Get(k) PROVE Chained(map') /\ Chained(map2')
    BY <1>4 DEF Get, rvars
<1>5. ASSUME NEW k \in Deletable, Delete(k) PROVE Chained(map') /\ Chained(map2')
    <2>1. PICK n \in 0 .. map.capacity - 1 :
             map' = IF Probed(map, k, n) = k THEN Erase(map, k, n) ELSE map
        BY <1>1, <1>5 DEF Delete
    <2>2. map2' = map2 /\ k \in Keys
        BY <1>5, KeysAssumption DEF Delete, rvars
    <2> QED
        BY <1>1, <2>1, <2>2, EraseChained
<1>6. CASE RehashCount
    BY <1>6 DEF RehashCount
<1>7. CASE RehashGrow
    BY <1>1, <1>7, CallocChained DEF RehashGrow
<1>8. CASE RehashCopy
    <2>1. map' = map
        BY <1>8 DEF RehashCopy
    <2>2. CASE map2' = map2
        BY <2>1, <2>2
    <2>3. CASE map2' # map2
        <3> DEFINE e == map.buckets[j]
        <3>1. /\ Live(map, j)
              /\ \E n \in 0 .. map2.capacity - 1 :
                    StopsAt(map2, e.key, PutSet(e.key), n) /\ map2' = Store(map2, e.key, e.val, n)
            BY <1>8, <2>3 DEF RehashCopy, CopyBucket
        <3>2. e.key \in Keys
            BY <3>1 DEF Live
        <3> QED
            BY <1>1, <2>1, <3>1, <3>2, StoreChained
    <2> QED
        BY <2>2, <2>3
<1>9. CASE RehashCheck
    BY <1>9 DEF RehashCheck
<1>10. CASE UNCHANGED vars
    BY <1>10 DEF vars
<1> QED
    BY <1>2, <1>3, <1>4, <1>5, <1>6, <1>7, <1>8, <1>9, <1>10 DEF Next, Step, Exited

LEMMA SpecChained == Spec => []ChainInv
    BY InitChained, NextChained, PTL DEF Spec

-----------------------------------------------------------------------------
(* How long a call can take.                                               *)

(* More than one round of rehash's outer loop takes: cap starts from       *)
(* InitSize and is doubled while it is below 100 * nkeys, and there is a   *)
(* step for each bucket.                                                   *)
Round == 201 * InitSize + 5
RoundsLeft == (InitSize - i) * Round

(* A number of steps in which the call in progress is over.                *)
Remaining ==
    CASE pc = "insert" -> 1
      [] pc = "count" -> RoundsLeft + 2
      [] pc = "grow" -> RoundsLeft + 1 - cap
      [] pc = "copy" -> RoundsLeft - Round + InitSize - j + 4
      [] pc = "check" -> RoundsLeft - Round + 3
      [] OTHER -> 0

(* The outer loop stays within the table, and nkeys, which may count a key *)
(* twice when the key has moved, grows by at most one in each round of it. *)
CallInv ==
    /\ Inv
    /\ pc = "count" => i <= InitSize /\ nkeys <= i
    /\ pc \in {"grow", "copy", "check"} => i < InitSize /\ nkeys <= i + 1
    /\ pc = "grow" => cap <= 200 * InitSize

LEMMA Rounds ==
    ASSUME i \in Nat, i <= InitSize
    PROVE  /\ Round \in Nat /\ RoundsLeft \in Nat
           /\ i < InitSize =>
                 RoundsLeft >= Round /\ (InitSize - (i + 1)) * Round = RoundsLeft - Round
<1>1. Round \in Nat
    BY Sizes DEF Round
<1>2. PICK a \in Nat : a = InitSize - i
    BY Sizes
<1>3. RoundsLeft = a * Round /\ a * Round \in Nat
    BY <1>1, <1>2 DEF RoundsLeft
<1>4. CASE i = InitSize
    BY <1>1, <1>3, <1>4
<1>5. CASE i < InitSize
    <2>1. PICK n \in Nat : n = InitSize - (i + 1) /\ a = n + 1
        BY <1>2, <1>5, Sizes
    <2>2. n * Round \in Nat /\ (n + 1) * Round = n * Round + Round
        BY <1>1
    <2> QED
        BY <1>1, <1>3, <2>1, <2>2
<1> QED
    BY <1>1, <1>3, <1>4, <1>5, Sizes

LEMMA CallFacts ==
    ASSUME CallInv
    PROVE  /\ i \in Nat /\ j \in Nat /\ nkeys \in Nat /\ cap \in Nat
           /\ InitSize \in Nat /\ InitSize > 0 /\ Round = 201 * InitSize + 5
           /\ pc \in Rehashing => map.capacity = InitSize
           /\ pc = "copy" => j <= InitSize
           /\ pc \in {"grow", "copy", "check"} => cap >= InitSize
    BY Sizes DEF CallInv, Inv, TypeOK, RehashInv, Rehashing, Round

LEMMA RemainingType == CallInv => Remaining \in Nat
<1> SUFFICES ASSUME CallInv PROVE Remaining \in Nat
    OBVIOUS
<1>1. pc = "count" => RoundsLeft \in Nat
    BY CallFacts, Rounds DEF CallInv
<1>2. pc \in {"grow", "copy", "check"} =>
         RoundsLeft \in Nat /\ Round \in Nat /\ RoundsLeft >= Round
    BY CallFacts, Rounds DEF CallInv
<1>3. pc = "grow" => cap <= 200 * InitSize
    BY DEF CallInv
<1>4. CASE pc = "count"
    BY <1>1, <1>4 DEF Remaining
<1>5. CASE pc = "grow"
    BY <1>2, <1>3, <1>5, CallFacts DEF Remaining
<1>6. CASE pc = "copy"
    BY <1>2, <1>6, CallFacts DEF Remaining
<1>7. CASE pc = "check"
    BY <1>2, <1>7 DEF Remaining
<1> QED
    BY <1>4, <1>5, <1>6, <1>7 DEF Remaining

LEMMA InitCall == Init => CallInv
    BY InitInv DEF Init, CallInv

(* cap is doubled only while the keys counted fill a share of it.          *)
LEMMA DoublingBound ==
    ASSUME CallInv, pc = "grow", Percent(nkeys, cap) >= LowWatermark
    PROVE  cap <= 100 * InitSize
<1>1. nkeys \in Nat /\ cap \in Nat /\ cap > 0 /\ LowWatermark \in Nat /\ LowWatermark > 0
    BY CallFacts, Sizes, SizeAssumption
<1>2. 100 * nkeys >= LowWatermark * cap
    BY <1>1, PercentAtLeast
<1>3. LowWatermark * cap >= cap
    <2>1. cap * 1 <= cap * LowWatermark
        BY <1>1, TimesMonotone
    <2> QED
        BY <1>1, <2>1
<1>4. nkeys <= InitSize
    BY CallFacts DEF CallInv
<1> QED
    BY <1>1, <1>2, <1>3, <1>4, Sizes

LEMMA NextCall == CallInv /\ [Next]_vars => CallInv'
<1> SUFFICES ASSUME CallInv, [Next]_vars PROVE CallInv'
    OBVIOUS
<1>1. Inv /\ Inv'
    BY NextInv DEF CallInv
<1> USE CallFacts
<1>2. ASSUME NEW k \in Keys, NEW v \in Vals, BeginPut(k, v) PROVE CallInv'
    BY <1>1, <1>2 DEF BeginPut, CallInv
<1>3. CASE Insert
    BY <1>1, <1>3 DEF Insert, CallInv
<1>4. ASSUME NEW k \in Keys, Get(k) PROVE CallInv'
    BY <1>1, <1>4 DEF Get, CallInv
<1>5. ASSUME NEW k \in Deletable, Delete(k) PROVE CallInv'
    BY <1>1, <1>5 DEF Delete, CallInv
<1>6. CASE RehashCount
    BY <1>1, <1>6 DEF RehashCount, StartCapacity, CallInv, Rehashing
<1>7. CASE RehashGrow
    BY <1>1, <1>7, DoublingBound DEF RehashGrow, Doubled, CallInv
<1>8. CASE RehashCopy
    BY <1>1, <1>8 DEF RehashCopy, CopyBucket, CallInv
<1>9. CASE RehashCheck
    BY <1>1, <1>9 DEF RehashCheck, CallInv
<1>10. CASE UNCHANGED vars
    BY <1>1, <1>10 DEF vars, CallInv
<1> QED
    BY <1>2, <1>3, <1>4, <1>5, <1>6, <1>7, <1>8, <1>9, <1>10 DEF Next, Step, Exited

LEMMA StepShortens == CallInv /\ CallInv' /\ Step => Remaining' < Remaining
<1> SUFFICES ASSUME CallInv, CallInv', Step PROVE Remaining' < Remaining
    OBVIOUS
<1>1. Round' = Round /\ Round = 201 * InitSize + 5
    BY DEF Round
<1>2. CASE Insert
    BY <1>2 DEF Insert, Remaining, CallInv, Inv
<1>3. CASE RehashCount
    <2>1. pc = "count" /\ RoundsLeft' = RoundsLeft /\ RoundsLeft \in Nat
        BY <1>3, CallFacts, Rounds DEF RehashCount, RoundsLeft, Round, CallInv
    <2>2. CASE i < map.capacity
        <3>1. pc' = "grow" /\ cap' = InitSize
            BY <1>3, <2>1, <2>2, CallFacts DEF RehashCount, StartCapacity, Rehashing
        <3> QED
            BY <2>1, <3>1, CallFacts DEF Remaining
    <2>3. CASE ~(i < map.capacity)
        <3>1. pc' = "insert"
            BY <1>3, <2>3 DEF RehashCount
        <3> QED
            BY <2>1, <3>1 DEF Remaining
    <2> QED
        BY <2>2, <2>3
<1>4. ASSUME RehashGrow \/ RehashCopy \/ RehashCheck
      PROVE  /\ RoundsLeft \in Nat /\ Round \in Nat /\ RoundsLeft >= Round
             /\ (InitSize - (i + 1)) * Round = RoundsLeft - Round
    BY <1>4, CallFacts, Rounds DEF RehashGrow, RehashCopy, RehashCheck, CallInv
<1>5. CASE RehashGrow
    <2>1. RoundsLeft' = RoundsLeft /\ pc = "grow"
        BY <1>5 DEF RehashGrow, RoundsLeft, Round
    <2>2. CASE Percent(nkeys, cap) >= LowWatermark
        <3>1. pc' = "grow" /\ cap' = 2 * cap
            BY <1>5, <2>2 DEF RehashGrow, Doubled
        <3> QED
            BY <1>4, <1>5, <2>1, <3>1, CallFacts DEF Remaining
    <2>3. CASE ~(Percent(nkeys, cap) >= LowWatermark)
        <3>1. pc' = "copy" /\ j' = 0 /\ cap <= 200 * InitSize
            BY <1>5, <2>1, <2>3 DEF RehashGrow, CallInv
        <3> QED
            BY <1>1, <1>4, <1>5, <2>1, <3>1, CallFacts DEF Remaining
    <2> QED
        BY <2>2, <2>3
<1>6. CASE RehashCopy
    <2>1. RoundsLeft' = RoundsLeft /\ pc = "copy"
        BY <1>6 DEF RehashCopy, RoundsLeft, Round
    <2>2. CASE j < map.capacity
        <3>1. pc' = "copy" /\ j' = j + 1
            BY <1>6, <2>2 DEF RehashCopy, CopyBucket, CallInv, Inv
        <3> QED
            BY <1>1, <1>4, <1>6, <2>1, <3>1, CallFacts DEF Remaining
    <2>3. CASE ~(j < map.capacity)
        <3>1. pc' = "check" /\ j = InitSize
            BY <1>6, <2>1, <2>3, CallFacts DEF RehashCopy, Rehashing
        <3> QED
            BY <1>1, <1>4, <1>6, <2>1, <3>1, CallFacts DEF Remaining
    <2> QED
        BY <2>2, <2>3
<1>7. CASE RehashCheck
    <2>1. pc = "check"
        BY <1>7 DEF RehashCheck
    <2>2. CASE Asserted
        <3>1. pc' = "count" /\ i' = i + 1
            BY <1>7, <2>2 DEF RehashCheck
        <3>2. RoundsLeft' = RoundsLeft - Round
            BY <1>4, <1>7, <3>1 DEF RoundsLeft, Round
        <3> QED
            BY <1>4, <1>7, <2>1, <3>1, <3>2 DEF Remaining
    <2>3. CASE ~Asserted
        <3>1. pc' = "aborted"
            BY <1>7, <2>3 DEF RehashCheck
        <3> QED
            BY <1>4, <1>7, <2>1, <3>1 DEF Remaining
    <2> QED
        BY <2>2, <2>3
<1> QED
    BY <1>2, <1>3, <1>5, <1>6, <1>7 DEF Step

-----------------------------------------------------------------------------
(* The variables always hold what the C structures can hold.               *)
THEOREM TypeCorrect == Spec => []TypeOK
<1>1. Inv => TypeOK
    BY DEF Inv
<1> QED
    BY <1>1, SpecInv, PTL

(* get_entry and get_or_insert_entry never fall out of their loops into    *)
(* unreachable(), for any hash function and any sequence of calls.         *)
THEOREM UnreachableUnreached == Spec => []NeverUnreachable
<1>1. Inv => NeverUnreachable
    BY DEF Inv, NeverUnreachable
<1> QED
    BY <1>1, SpecInv, PTL

(* rehash does not recur through the hashmap_put it calls.                 *)
THEOREM RehashNotNested == Spec => []NoNestedRehash
<1>1. Inv => NoNestedRehash
    BY DEF Inv, NoNestedRehash
<1> QED
    BY <1>1, SpecInv, PTL

(* used is exact, and a NULL bucket is left in both tables.                *)
THEOREM UsedCorrect == Spec => []UsedCountsBuckets
<1>1. Inv => UsedCountsBuckets
    BY DEF Inv, UsedCountsBuckets, Counted
<1> QED
    BY <1>1, SpecInv, PTL

(* A rehash that passes its assertion keeps the size of the table: the     *)
(* table of a map is INIT_SIZE buckets large as long as the process lives. *)
THEOREM TableNeverGrows == Spec => []NeverGrows
<1>1. Inv => NeverGrows
    BY DEF Inv, NeverGrows
<1> QED
    BY <1>1, SpecInv, PTL

(* get_entry finds every key that sits in some bucket, for any hash        *)
(* function and any sequence of puts, deletions and rehashes: no probing   *)
(* meets a NULL bucket before the key.                                     *)
THEOREM ChainsKept == Spec => []ChainsUnbroken
<1>1. ChainInv => ChainsUnbroken
    BY ChainedFound DEF ChainInv, Inv, TypeOK, ChainsUnbroken
<1> QED
    BY <1>1, SpecChained, PTL

(* A call is over after a number of steps that is known when it begins:    *)
(* rehash's doubling loop and its two loops over the buckets end, for any  *)
(* sizes and watermarks, whatever the client does between the calls.  With *)
(* the fairness of FairSpec this is why CallsEnd holds.                    *)
THEOREM CallsAdvance ==
    Spec => [](Remaining \in Nat) /\ [][Step => Remaining' < Remaining]_vars
<1>1. CallInv => Remaining \in Nat
    BY RemainingType
<1>2. CallInv /\ CallInv' /\ [Next]_vars => [Step => Remaining' < Remaining]_vars
    BY StepShortens
<1>3. Spec => []CallInv
    BY InitCall, NextCall, PTL DEF Spec
<1> QED
    BY <1>1, <1>2, <1>3, PTL DEF Spec
=============================================================================
