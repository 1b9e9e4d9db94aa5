------------------------- MODULE ChibiccFrameProofs -------------------------
(***************************************************************************)
(* Proofs about the frames of chibicc-learn: for every list of locals,     *)
(* assign_lvar_offsets keeps them apart and inside the frame.              *)
(***************************************************************************)
EXTENDS ChibiccFrame, LeastNumber

Sized(vs) == \A k \in DOMAIN vs : vs[k].ty.size \in Nat

(* The recursion of Taken has a solution.                                  *)
Adds(vs, m, f) == f = [k \in 0 .. m |-> IF k = 0 THEN 0 ELSE f[k - 1] + vs[k].ty.size]

LEMMA TakenExists ==
    ASSUME NEW vs, Len(vs) \in Nat
    PROVE  \E f : Adds(vs, Len(vs), f)
<1> DEFINE T == {m \in Nat : \E f : Adds(vs, m, f)}
<1>1. 0 \in T
    <2>1. Adds(vs, 0, [k \in 0 .. 0 |-> 0])
        BY DEF Adds
    <2> QED
        BY <2>1
<1>2. ASSUME NEW m \in Nat, m \in T PROVE m + 1 \in T
    <2>1. PICK f : Adds(vs, m, f)
        BY <1>2
    <2> DEFINE g == [k \in 0 .. m + 1 |-> IF k = m + 1 THEN f[m] + vs[k].ty.size ELSE f[k]]
    <2>2. ASSUME NEW k \in 0 .. m + 1
          PROVE  g[k] = IF k = 0 THEN 0 ELSE g[k - 1] + vs[k].ty.size
        <3>1. CASE k = m + 1
            <4>1. g[k] = f[m] + vs[k].ty.size /\ k # 0 /\ k - 1 = m /\ g[m] = f[m]
                BY <3>1
            <4> QED
                BY <4>1
        <3>2. CASE k # m + 1
            <4>1. k \in 0 .. m /\ g[k] = f[k]
                BY <3>2
            <4>2. f[k] = IF k = 0 THEN 0 ELSE f[k - 1] + vs[k].ty.size
                BY <2>1, <4>1 DEF Adds
            <4>3. k # 0 => g[k - 1] = f[k - 1]
                BY <4>1
            <4> QED
                BY <4>1, <4>2, <4>3
        <3> QED
            BY <3>1, <3>2
    <2>3. g = [k \in 0 .. m + 1 |-> g[k]]
        OBVIOUS
    <2> HIDE DEF g
    <2>4. Adds(vs, m + 1, g)
        BY <2>2, <2>3 DEF Adds
    <2> QED
        BY <2>4
<1> HIDE DEF T
<1>3. \A m \in Nat : m \in T
    BY <1>1, <1>2, SetInduction
<1> QED
    BY <1>3 DEF T

LEMMA TakenAdds ==
    ASSUME NEW vs, Len(vs) \in Nat
    PROVE  Adds(vs, Len(vs), Taken(vs))
<1>1. Taken(vs) = CHOOSE f : Adds(vs, Len(vs), f)
    BY DEF Taken, Adds
<1> QED
    BY <1>1, TakenExists

(* A list of variables with sizes and ids of their own, as new_lvar makes  *)
(* it: an id is the length of the list that it is put before.              *)
Formed(fn) ==
    /\ Len(fn.locals) \in Nat /\ DOMAIN fn.locals = 1 .. Len(fn.locals)
    /\ Sized(fn.locals)
    /\ \A j, k \in DOMAIN fn.locals : fn.locals[j].id = fn.locals[k].id => j = k

(* The offsets grow by the sizes, from 0.                                  *)
LEMMA TakenSteps ==
    ASSUME NEW fn, Formed(fn)
    PROVE  LET vs == fn.locals IN
           /\ Taken(vs)[0] = 0
           /\ \A k \in 0 .. Len(vs) : Taken(vs)[k] \in Nat
           /\ \A k \in 1 .. Len(vs) : Taken(vs)[k] = Taken(vs)[k - 1] + vs[k].ty.size
<1> DEFINE vs == fn.locals
           T == {n \in Nat : n <= Len(vs) => Taken(vs)[n] \in Nat}
<1>1. Len(vs) \in Nat /\ DOMAIN vs = 1 .. Len(vs) /\ Sized(vs)
    BY DEF Formed
<1>2. \A k \in 0 .. Len(vs) :
        Taken(vs)[k] = IF k = 0 THEN 0 ELSE Taken(vs)[k - 1] + vs[k].ty.size
    BY <1>1, TakenAdds DEF Adds
<1>3. Taken(vs)[0] = 0
    BY <1>1, <1>2
<1>4. ASSUME NEW n \in Nat, n \in T PROVE n + 1 \in T
    <2>1. ASSUME n + 1 <= Len(vs) PROVE Taken(vs)[n + 1] \in Nat
        <3>1. Taken(vs)[n + 1] = Taken(vs)[n] + vs[n + 1].ty.size
            BY <1>1, <1>2, <2>1
        <3>2. vs[n + 1].ty.size \in Nat
            BY <1>1, <2>1 DEF Sized
        <3> QED
            BY <1>1, <1>4, <2>1, <3>1, <3>2
    <2> QED
        BY <2>1
<1>5. 0 \in T
    BY <1>3
<1> HIDE DEF T
<1>6. \A n \in Nat : n \in T
    BY <1>4, <1>5, SetInduction
<1> QED
    BY <1>1, <1>2, <1>3, <1>6 DEF T

LEMMA TakenGrows ==
    ASSUME NEW fn, Formed(fn),
           NEW j \in 0 .. Len(fn.locals), NEW k \in 0 .. Len(fn.locals), j <= k
    PROVE  Taken(fn.locals)[j] <= Taken(fn.locals)[k]
<1> DEFINE vs == fn.locals
           T == {n \in Nat : j + n <= Len(vs) => Taken(vs)[j] <= Taken(vs)[j + n]}
<1>1. Len(vs) \in Nat /\ DOMAIN vs = 1 .. Len(vs) /\ Sized(vs)
    BY DEF Formed
<1>2. /\ \A i \in 0 .. Len(vs) : Taken(vs)[i] \in Nat
      /\ \A i \in 1 .. Len(vs) : Taken(vs)[i] = Taken(vs)[i - 1] + vs[i].ty.size
    BY TakenSteps
<1>3. 0 \in T
    BY <1>1, <1>2
<1>4. ASSUME NEW n \in Nat, n \in T PROVE n + 1 \in T
    <2>1. ASSUME j + (n + 1) <= Len(vs) PROVE Taken(vs)[j] <= Taken(vs)[j + (n + 1)]
        <3>1. j + n \in 0 .. Len(vs) /\ j + (n + 1) \in 1 .. Len(vs) /\ (j + (n + 1)) - 1 = j + n
            BY <1>1, <2>1
        <3>2. Taken(vs)[j + (n + 1)] = Taken(vs)[j + n] + vs[j + (n + 1)].ty.size
            BY <1>2, <3>1
        <3>3. vs[j + (n + 1)].ty.size \in Nat
            BY <1>1, <3>1 DEF Sized
        <3> QED
            BY <1>1, <1>2, <1>4, <3>1, <3>2, <3>3
    <2> QED
        BY <2>1
<1> HIDE DEF T
<1>5. \A n \in Nat : n \in T
    BY <1>3, <1>4, SetInduction
<1>6. k - j \in Nat /\ j + (k - j) = k
    BY <1>1
<1>7. k - j \in T
    BY <1>5, <1>6
<1> QED
    BY <1>1, <1>6, <1>7 DEF T

(* The bytes of a variable, counted from rbp.                              *)
Place(fn, v) == Offset(fn, v) .. Offset(fn, v) + v.ty.size - 1

LEMMA PlaceOf ==
    ASSUME NEW fn, Formed(fn), NEW k \in DOMAIN fn.locals
    PROVE  LET v == fn.locals[k] IN
           /\ Position(fn, v) = k /\ Taken(fn.locals)[k] \in Nat /\ Taken(fn.locals)[k - 1] \in Nat
           /\ v.ty.size \in Nat
           /\ Offset(fn, v) = 0 - Taken(fn.locals)[k]
           /\ Offset(fn, v) + v.ty.size = 0 - Taken(fn.locals)[k - 1]
<1> DEFINE v == fn.locals[k]
<1>1. Position(fn, v) = k
    BY DEF Position, Formed
<1>2. Len(fn.locals) \in Nat /\ k \in 1 .. Len(fn.locals)
    BY DEF Formed
<1>3. v.ty.size \in Nat
    BY DEF Formed, Sized
<1>4. Taken(fn.locals)[k] \in Nat /\ Taken(fn.locals)[k - 1] \in Nat
      /\ Taken(fn.locals)[k] = Taken(fn.locals)[k - 1] + v.ty.size
    BY <1>2, TakenSteps
<1>5. Offset(fn, v) = 0 - Taken(fn.locals)[k]
    BY <1>1 DEF Offset
<1> QED
    BY <1>1, <1>3, <1>4, <1>5

(* Intervals of integers.                                                  *)
LEMMA Apart ==
    ASSUME NEW p \in Int, NEW m \in Int, NEW q \in Int, NEW n \in Int, q + n <= p
    PROVE  (p .. p + m - 1) \cap (q .. q + n - 1) = {}
OBVIOUS

LEMMA Inside ==
    ASSUME NEW p \in Int, NEW m \in Int, NEW q \in Int, NEW n \in Int, q <= p, p + m <= n + 1
    PROVE  p .. p + m - 1 \subseteq q .. n
OBVIOUS

(* assign_lvar_offsets: no two locals of a function share a byte, whatever *)
(* their sizes.                                                            *)
THEOREM PlacesDisjoint ==
    ASSUME NEW fn, Formed(fn), NEW j \in DOMAIN fn.locals, NEW k \in DOMAIN fn.locals, j # k
    PROVE  Place(fn, fn.locals[j]) \cap Place(fn, fn.locals[k]) = {}
<1>1. ASSUME NEW a \in DOMAIN fn.locals, NEW b \in DOMAIN fn.locals, a < b
      PROVE  Place(fn, fn.locals[a]) \cap Place(fn, fn.locals[b]) = {}
    <2>1. Len(fn.locals) \in Nat /\ a \in 1 .. Len(fn.locals) /\ b \in 1 .. Len(fn.locals)
        BY DEF Formed
    <2>2. a \in 0 .. Len(fn.locals) /\ b - 1 \in 0 .. Len(fn.locals) /\ a <= b - 1
        BY <1>1, <2>1
    <2>3. Taken(fn.locals)[a] <= Taken(fn.locals)[b - 1]
        BY <2>2, TakenGrows
    <2>4. /\ Offset(fn, fn.locals[a]) = 0 - Taken(fn.locals)[a] /\ Taken(fn.locals)[a] \in Nat
          /\ Offset(fn, fn.locals[b]) + fn.locals[b].ty.size = 0 - Taken(fn.locals)[b - 1]
          /\ Taken(fn.locals)[b - 1] \in Nat
        BY PlaceOf
    <2>5. /\ Offset(fn, fn.locals[a]) \in Int /\ fn.locals[a].ty.size \in Int
          /\ Offset(fn, fn.locals[b]) \in Int /\ fn.locals[b].ty.size \in Int
        BY <2>4, PlaceOf
    <2>6. Offset(fn, fn.locals[b]) + fn.locals[b].ty.size <= Offset(fn, fn.locals[a])
        BY <2>3, <2>4
    <2> QED
        BY <2>5, <2>6, Apart DEF Place
<1>2. j \in Nat /\ k \in Nat
    BY DEF Formed
<1>3. CASE j < k
    BY <1>1, <1>3
<1>4. CASE k < j
    BY <1>1, <1>4
<1> QED
    BY <1>2, <1>3, <1>4

(* Rounding up gives the next multiple.                                    *)
LEMMA AlignsUp ==
    ASSUME NEW n \in Nat, NEW align \in Nat \ {0}
    PROVE  /\ AlignTo(n, align) \in n .. n + align - 1
           /\ AlignTo(n, align) % align = 0
<1> DEFINE q == (n + align - 1) \div align
<1>1. n + align - 1 \in Nat
    OBVIOUS
<1>2. /\ q \in Nat /\ (n + align - 1) % align \in 0 .. align - 1
      /\ n + align - 1 = align * q + ((n + align - 1) % align)
    BY <1>1, DivMod
<1>3. AlignTo(n, align) = align * q
    BY <1>2 DEF AlignTo
<1> HIDE DEF q
<1>4. align * q \in Nat
    BY <1>2
<1>5. 0 \in 0 .. align - 1 /\ align * q = align * q + 0
    BY <1>4
<1>6. (align * q) % align = 0
    BY <1>2, <1>4, <1>5, DivUnique
<1> QED
    BY <1>2, <1>3, <1>4, <1>6

(* The frame is a multiple of 16, holds every local, and is less than 16   *)
(* bytes longer than all of them.                                          *)
THEOREM PlacesInFrame ==
    ASSUME NEW fn, Formed(fn)
    PROVE  /\ FrameBytes(fn) \in SizeOf(fn.locals) .. SizeOf(fn.locals) + 15
           /\ FrameBytes(fn) % 16 = 0
           /\ \A k \in DOMAIN fn.locals :
                 Place(fn, fn.locals[k]) \subseteq 0 - SizeOf(fn.locals) .. -1
<1>1. Len(fn.locals) \in Nat /\ DOMAIN fn.locals = 1 .. Len(fn.locals)
    BY DEF Formed
<1>2. SizeOf(fn.locals) \in Nat
    BY <1>1, TakenSteps DEF SizeOf
<1>3. /\ FrameBytes(fn) \in SizeOf(fn.locals) .. SizeOf(fn.locals) + 16 - 1
      /\ FrameBytes(fn) % 16 = 0
    BY <1>2, AlignsUp DEF FrameBytes
<1>4. ASSUME NEW k \in DOMAIN fn.locals
      PROVE  Place(fn, fn.locals[k]) \subseteq 0 - SizeOf(fn.locals) .. -1
    <2>1. /\ Offset(fn, fn.locals[k]) = 0 - Taken(fn.locals)[k] /\ Taken(fn.locals)[k] \in Nat
          /\ Offset(fn, fn.locals[k]) + fn.locals[k].ty.size = 0 - Taken(fn.locals)[k - 1]
          /\ Taken(fn.locals)[k - 1] \in Nat
        BY PlaceOf
    <2>2. Taken(fn.locals)[k] <= SizeOf(fn.locals)
        BY <1>1, TakenGrows DEF SizeOf
    <2>3. Offset(fn, fn.locals[k]) \in Int /\ fn.locals[k].ty.size \in Int
        BY <2>1, PlaceOf
    <2>4. /\ 0 - SizeOf(fn.locals) \in Int /\ 0 - SizeOf(fn.locals) <= Offset(fn, fn.locals[k])
          /\ Offset(fn, fn.locals[k]) + fn.locals[k].ty.size <= -1 + 1
        BY <1>2, <2>1, <2>2
    <2> QED
        BY <2>3, <2>4, Inside DEF Place
<1> QED
    BY <1>2, <1>3, <1>4

(* What the prologue stores of a parameter lies within its place: a char   *)
(* takes one byte, everything else has eight at least.                     *)
THEOREM ParametersFit ==
    ASSUME NEW fn, Formed(fn), NEW k \in DOMAIN fn.locals,
           fn.locals[k].ty.size = 1 \/ fn.locals[k].ty.size >= 8
    PROVE  LET v == fn.locals[k] IN
           Offset(fn, v) .. Offset(fn, v) + Width(v.ty) - 1 \subseteq Place(fn, v)
<1>1. fn.locals[k].ty.size \in Nat /\ Offset(fn, fn.locals[k]) \in Int
    BY PlaceOf
<1> QED
    BY <1>1 DEF Width, Place
=============================================================================
