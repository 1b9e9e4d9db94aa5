---------------------------- MODULE FrameProofs ----------------------------
(***************************************************************************)
(* Proofs about activation records.  Their layout: for every set of names, *)
(* every set of types of locals and globals, arrays included, and any      *)
(* number of functions, parameters and variables, the slots of a function  *)
(* are disjoint, inside the frame and the same at every occurrence, as     *)
(* long as the parameters are scalars.  The prologues that gen_func prints *)
(* for them: for any number of argument registers, the stores stay in the  *)
(* frame and none damages the argument that another one left, as long as   *)
(* parameters are ints or pointers.                                        *)
(***************************************************************************)
EXTENDS Prologue, TLAPS

(* With array parameters the theorems below are false: section 3 of the    *)
(* README has an example.                                                  *)
ScalarParams == \A t \in ParamTypes : Scalar(t)

-----------------------------------------------------------------------------
(* Sizes of types.                                                         *)
LEMMA SizeType ==
    ASSUME NEW t \in Type
    PROVE  /\ ElemSize(t) \in Nat /\ ElemSize(t) > 0
           /\ Size(t) \in Nat
           /\ Scalar(t) => Size(t) = ElemSize(t)
<1>1. ElemSize(t) \in Nat /\ ElemSize(t) > 0
    BY DEF ElemSize, Type, Elem
<1>2. t.n \in Nat
    BY DEF Type
<1>3. Size(t) \in Nat
    BY <1>1, <1>2 DEF Size
<1>4. Scalar(t) => Size(t) = ElemSize(t)
    BY <1>1, <1>2 DEF Size, Scalar
<1> QED
    BY <1>1, <1>3, <1>4

(* Every type that a program uses is a scalar or an array.                 *)
LEMMA TypeFacts ==
    ASSUME NEW t \in ParamTypes \cup LocalTypes \cup GlobalTypes
    PROVE  /\ t \in Type
           /\ ElemSize(t) \in Nat /\ ElemSize(t) > 0
           /\ Size(t) \in Nat
           /\ ~t.array => Size(t) = ElemSize(t)
    BY SizeType, TypesAssumption

-----------------------------------------------------------------------------
(* While a function is read, its variables occupy the bytes from Start     *)
(* (included) to End (excluded), counted from the far end of the frame.    *)
Start(v) == v.offset - ElemSize(v.ty)
End(v) == Start(v) + Size(v.ty)

Reading == phase \in {"params", "body"}

MapAgrees ==
    /\ DOMAIN lvar_map = DOMAIN locals
    /\ \A x \in DOMAIN locals : lvar_map[x] = Size(locals[x].ty)

Placed ==
    \A x \in DOMAIN locals :
        /\ 0 <= Start(locals[x]) /\ End(locals[x]) <= local_offset
        /\ \A y \in DOMAIN locals :
              x # y => \/ End(locals[x]) <= Start(locals[y])
                       \/ End(locals[y]) <= Start(locals[x])

(* The node that local_variable makes for a name that is known.            *)
NodesCurrent ==
    \A n \in nodes : n.name \in DOMAIN locals \cup DOMAIN globals /\ n = NodeOf(n.name)

(* The three properties, for one function.                                 *)
Sound(f) ==
    /\ \A n \in LocalNodes(f) : Bytes(n) \subseteq 1 .. f.total_offset
    /\ \A m, n \in LocalNodes(f) : m.name # n.name => Bytes(m) \cap Bytes(n) = {}
    /\ \A m, n \in f.nodes : m.name = n.name => m = n

Inv ==
    /\ TypeOK
    /\ phase = "toplevel" => local_offset = 0
    /\ Reading => MapAgrees /\ Placed /\ NodesCurrent
    /\ phase = "params" => local_offset <= args_offset_total
    /\ \A k \in DOMAIN code : Sound(code[k])

-----------------------------------------------------------------------------
LEMMA InitInv == Init => Inv
<1> SUFFICES ASSUME Init PROVE Inv
    OBVIOUS
<1>1. DOMAIN <<>> = {}
    OBVIOUS
<1>2. TypeOK
    <2>1. args \in Seq(Node) /\ code \in Seq([args : Seq(Node), nodes : SUBSET Node, total_offset : Nat])
        BY DEF Init
    <2>2. globals \in [DOMAIN globals -> GlobalTypes]
        BY <1>1 DEF Init
    <2>3. locals \in [DOMAIN locals -> Variable] /\ lvar_map \in [DOMAIN lvar_map -> Nat]
        BY <1>1 DEF Init
    <2> QED
        BY <1>1, <2>1, <2>2, <2>3 DEF TypeOK, Init
<1> QED
    BY <1>1, <1>2 DEF Inv, Reading, Init

LEMMA DeclareGlobalInv ==
    ASSUME Inv, NEW x \in Names, NEW t \in GlobalTypes, DeclareGlobal(x, t)
    PROVE  Inv'
<1>1. /\ UNCHANGED <<phase, locals, lvar_map, local_offset, args_offset_total,
                     args, nodes, occurrences, code>>
      /\ phase = "toplevel"
    BY DEF DeclareGlobal
<1>2. /\ DOMAIN globals' = DOMAIN globals \cup {x}
      /\ globals' \in [DOMAIN globals' -> GlobalTypes]
    BY DEF DeclareGlobal, Inv, TypeOK
<1>3. TypeOK'
    BY <1>1, <1>2 DEF Inv, TypeOK
<1> QED
    BY <1>1, <1>3 DEF Inv, Reading

LEMMA BeginFunctionInv ==
    ASSUME Inv, BeginFunction
    PROVE  Inv'
<1> USE DEF BeginFunction
<1>1. DOMAIN <<>> = {}
    OBVIOUS
<1>2. TypeOK'
    <2>1. args' \in Seq(Node)
        OBVIOUS
    <2>2. locals' \in [DOMAIN locals' -> Variable] /\ lvar_map' \in [DOMAIN lvar_map' -> Nat]
        BY <1>1
    <2> QED
        BY <1>1, <2>1, <2>2 DEF Inv, TypeOK
<1>3. MapAgrees' /\ Placed' /\ NodesCurrent'
    BY <1>1 DEF MapAgrees, Placed, NodesCurrent
<1>4. local_offset' <= args_offset_total'
    BY DEF Inv
<1> QED
    BY <1>2, <1>3, <1>4 DEF Inv, Reading

(* A new variable takes the bytes from local_offset on.                    *)
LEMMA NewLocalPlaces ==
    ASSUME Inv, Reading, NEW x \in Names, ~Known(x),
           NEW t \in ParamTypes \cup LocalTypes,
           NewLocal(x, t), UNCHANGED globals
    PROVE  /\ DOMAIN locals' \subseteq Names /\ locals' \in [DOMAIN locals' -> Variable]
           /\ DOMAIN lvar_map' \subseteq Names /\ lvar_map' \in [DOMAIN lvar_map' -> Nat]
           /\ local_offset' \in Nat /\ nodes' \subseteq Node
           /\ NewOffset(t) \in Nat
           /\ LNode(x, [ty |-> t, offset |-> NewOffset(t)]) \in Node
           /\ Scalar(t) => NewOffset(t) = local_offset'
           /\ MapAgrees' /\ Placed' /\ NodesCurrent'
<1> DEFINE v == [ty |-> t, offset |-> NewOffset(t)]
<1>1. /\ local_offset \in Nat /\ ElemSize(t) \in Nat /\ ElemSize(t) > 0
      /\ Size(t) \in Nat /\ (~t.array => Size(t) = ElemSize(t))
    BY TypeFacts DEF Inv, TypeOK
<1>2. /\ NewOffset(t) = local_offset + ElemSize(t) /\ NewOffset(t) \in Nat
      /\ Start(v) = local_offset /\ End(v) = local_offset + Size(t)
    BY <1>1 DEF NewOffset, Start, End
<1>3. local_offset' = local_offset + Size(t) /\ local_offset' \in Nat
    BY <1>1 DEF NewLocal, NextLocalOffset
<1>4. /\ DOMAIN locals' = DOMAIN locals \cup {x} /\ x \notin DOMAIN locals
      /\ locals'[x] = v
      /\ \A y \in DOMAIN locals : locals'[y] = locals[y]
    BY DEF NewLocal, Known
<1>5. /\ DOMAIN lvar_map' = DOMAIN lvar_map \cup {x}
      /\ DOMAIN lvar_map = DOMAIN locals
      /\ lvar_map'[x] = Size(t)
      /\ \A y \in DOMAIN locals : lvar_map'[y] = lvar_map[y]
    BY <1>4 DEF NewLocal, Inv, MapAgrees
<1>6. v \in Variable /\ locals \in [DOMAIN locals -> Variable] /\ DOMAIN locals \subseteq Names
    BY <1>2 DEF Inv, TypeOK, Variable
<1>7. DOMAIN locals' \subseteq Names /\ locals' \in [DOMAIN locals' -> Variable]
    BY <1>4, <1>6 DEF NewLocal
<1>8. DOMAIN lvar_map' \subseteq Names /\ lvar_map' \in [DOMAIN lvar_map' -> Nat]
    BY <1>1, <1>4, <1>5, <1>6 DEF NewLocal, Inv, TypeOK
<1>9. LNode(x, v) \in Node
    BY <1>2 DEF LNode, Node
<1>10. nodes' \subseteq Node
    BY <1>9 DEF NewLocal, Inv, TypeOK
<1>11. MapAgrees'
    BY <1>4, <1>5 DEF MapAgrees, Inv
<1>12. Placed'
    <2>1. \A y \in DOMAIN locals :
             /\ 0 <= Start(locals'[y]) /\ End(locals'[y]) <= local_offset
             /\ Start(locals'[y]) \in Int /\ End(locals'[y]) \in Int
             /\ \A z \in DOMAIN locals :
                  y # z => \/ End(locals'[y]) <= Start(locals'[z])
                           \/ End(locals'[z]) <= Start(locals'[y])
        <3>1. \A y \in DOMAIN locals : Start(locals[y]) \in Int /\ End(locals[y]) \in Int
            BY <1>6, TypeFacts DEF Start, End, Variable
        <3> QED
            BY <1>4, <3>1 DEF Inv, Placed
    <2>2. Start(locals'[x]) = local_offset /\ End(locals'[x]) = local_offset'
        BY <1>2, <1>3, <1>4
    <2> SUFFICES ASSUME NEW y \in DOMAIN locals'
                 PROVE  /\ 0 <= Start(locals'[y]) /\ End(locals'[y]) <= local_offset'
                        /\ \A z \in DOMAIN locals' :
                             y # z => \/ End(locals'[y]) <= Start(locals'[z])
                                      \/ End(locals'[z]) <= Start(locals'[y])
        BY DEF Placed
    <2> QED
        BY <1>1, <1>3, <1>4, <2>1, <2>2
<1>13. NodesCurrent'
    <2>1. \A n \in nodes : /\ n.name \in DOMAIN locals \cup DOMAIN globals
                           /\ n = NodeOf(n.name) /\ n.name # x
        BY DEF Inv, NodesCurrent, Known
    <2>2. LNode(x, v).name = x
        BY DEF LNode
    <2> QED
        BY <1>4, <2>1, <2>2 DEF NodesCurrent, NewLocal, NodeOf, LNode, GNode
<1>14. Scalar(t) => NewOffset(t) = local_offset'
    BY <1>1, <1>2, <1>3 DEF Scalar
<1> QED
    BY <1>2, <1>3, <1>7, <1>8, <1>9, <1>10, <1>11, <1>12, <1>13, <1>14

(* The node of a variable that is known.                                   *)
LEMMA NodeOfType ==
    ASSUME Inv, NEW x \in Names, Known(x)
    PROVE  NodeOf(x) \in Node /\ NodeOf(x).offset \in Nat /\ NodeOf(x).name = x
<1>1. CASE x \in DOMAIN locals
    BY <1>1 DEF NodeOf, LNode, Node, Variable, Inv, TypeOK
<1>2. CASE x \notin DOMAIN locals
    <2>1. globals[x] \in GlobalTypes
        BY <1>2 DEF Known, Inv, TypeOK
    <2> QED
        BY <1>2, <2>1 DEF NodeOf, GNode, Node
<1> QED
    BY <1>1, <1>2

(* A variable that is known gets one more node and nothing else.           *)
LEMMA OldVariablePlaces ==
    ASSUME Inv, Reading, NEW x \in Names, Known(x), OldVariable(x), UNCHANGED globals
    PROVE  /\ UNCHANGED <<locals, local_offset, lvar_map>> /\ nodes' \subseteq Node
           /\ MapAgrees' /\ Placed' /\ NodesCurrent'
<1>1. UNCHANGED <<locals, local_offset, lvar_map>> /\ nodes' = nodes \cup {NodeOf(x)}
    BY DEF OldVariable
<1>2. nodes' \subseteq Node
    BY <1>1, NodeOfType DEF Inv, TypeOK
<1>3. MapAgrees' /\ Placed'
    BY <1>1 DEF Inv, MapAgrees, Placed
<1>4. NodesCurrent'
    <2>1. \A n \in nodes' : n.name \in DOMAIN locals \cup DOMAIN globals /\ n = NodeOf(n.name)
        BY <1>1, NodeOfType DEF Inv, NodesCurrent, Known
    <2> QED
        BY <1>1, <2>1 DEF NodesCurrent, NodeOf, LNode, GNode
<1> QED
    BY <1>1, <1>2, <1>3, <1>4

LEMMA ParamInv ==
    ASSUME ScalarParams, Inv, NEW x \in Names, NEW t \in ParamTypes, Param(x, t)
    PROVE  Inv'
<1> DEFINE node == IF Known(x) THEN NodeOf(x)
                   ELSE LNode(x, [ty |-> t, offset |-> NewOffset(t)])
<1>1. /\ phase = "params" /\ Reading /\ UNCHANGED <<globals, code>> /\ occurrences' = occurrences + 1
      /\ args \in Seq(Node) /\ args_offset_total \in Nat
      /\ local_offset \in Nat /\ local_offset <= args_offset_total
    BY DEF Param, Reading, Inv, TypeOK
<1>2. CASE ~Known(x) /\ MapFull
    BY <1>1, <1>2 DEF Param, Inv, TypeOK, Reading
<1>3. CASE Known(x)
    <2>1. /\ OldVariable(x) /\ UNCHANGED phase
          /\ args' = Append(args, node)
          /\ args_offset_total' = args_offset_total + node.offset
        BY <1>3 DEF Param
    <2>2. /\ UNCHANGED <<locals, local_offset, lvar_map>> /\ nodes' \subseteq Node
          /\ MapAgrees' /\ Placed' /\ NodesCurrent'
        BY <1>1, <1>3, <2>1, OldVariablePlaces
    <2>3. node \in Node /\ node.offset \in Nat
        BY <1>3, NodeOfType
    <2>4. args' \in Seq(Node) /\ args_offset_total' \in Nat
        BY <1>1, <2>1, <2>3
    <2>5. TypeOK'
        BY <1>1, <2>1, <2>2, <2>4 DEF Inv, TypeOK
    <2>6. local_offset' <= args_offset_total'
        BY <1>1, <2>1, <2>2, <2>3
    <2> HIDE DEF node
    <2> QED
        BY <1>1, <2>1, <2>2, <2>5, <2>6 DEF Inv, Reading
<1>4. CASE ~Known(x) /\ ~MapFull
    <2>1. /\ NewLocal(x, t) /\ UNCHANGED phase
          /\ args' = Append(args, node)
          /\ args_offset_total' = args_offset_total + node.offset
        BY <1>4 DEF Param
    <2>2. /\ DOMAIN locals' \subseteq Names /\ locals' \in [DOMAIN locals' -> Variable]
          /\ DOMAIN lvar_map' \subseteq Names /\ lvar_map' \in [DOMAIN lvar_map' -> Nat]
          /\ local_offset' \in Nat /\ nodes' \subseteq Node
          /\ NewOffset(t) \in Nat /\ node \in Node
          /\ NewOffset(t) = local_offset'
          /\ MapAgrees' /\ Placed' /\ NodesCurrent'
        BY <1>1, <1>4, <2>1, NewLocalPlaces DEF ScalarParams
    <2>3. node.offset = NewOffset(t)
        BY <1>4 DEF LNode
    <2>4. args' \in Seq(Node) /\ args_offset_total' \in Nat
        BY <1>1, <2>1, <2>2, <2>3
    <2>5. TypeOK'
        BY <1>1, <2>1, <2>2, <2>4 DEF Inv, TypeOK
    <2>6. local_offset' <= args_offset_total'
        BY <1>1, <2>1, <2>2, <2>3
    <2> HIDE DEF node
    <2> QED
        BY <1>1, <2>1, <2>2, <2>5, <2>6 DEF Inv, Reading
<1> QED
    BY <1>2, <1>3, <1>4

LEMMA BeginBodyInv ==
    ASSUME Inv, BeginBody
    PROVE  Inv'
<1>1. /\ phase = "params" /\ Reading /\ phase' = "body" /\ Reading'
      /\ local_offset' = args_offset_total
      /\ UNCHANGED <<globals, locals, lvar_map, args_offset_total, args, nodes,
                     occurrences, code>>
      /\ local_offset \in Nat /\ args_offset_total \in Nat
      /\ local_offset <= args_offset_total
    BY DEF BeginBody, BodyOffset, Reading, Inv, TypeOK
<1>2. TypeOK'
    BY <1>1 DEF Inv, TypeOK
<1>3. Placed'
    <2>1. \A x \in DOMAIN locals : locals[x] \in Variable
        BY DEF Inv, TypeOK
    <2>2. \A v \in Variable : End(v) \in Int
        BY TypeFacts DEF Start, End, Variable
    <2> QED
        BY <1>1, <2>1, <2>2 DEF Inv, Placed
<1>4. MapAgrees' /\ NodesCurrent'
    BY <1>1 DEF Inv, MapAgrees, NodesCurrent, NodeOf, LNode, GNode
<1> QED
    BY <1>1, <1>2, <1>3, <1>4 DEF Inv

LEMMA DeclareInv ==
    ASSUME Inv, NEW x \in Names, NEW t \in LocalTypes, Declare(x, t)
    PROVE  Inv'
<1>1. /\ phase = "body" /\ Reading /\ occurrences' = occurrences + 1
      /\ UNCHANGED <<globals, args_offset_total, args, code>>
    BY DEF Declare, Reading
<1>2. CASE Known(x)
    <2>1. OldVariable(x) /\ UNCHANGED phase
        BY <1>2 DEF Declare
    <2>2. /\ UNCHANGED <<locals, local_offset, lvar_map>> /\ nodes' \subseteq Node
          /\ MapAgrees' /\ Placed' /\ NodesCurrent'
        BY <1>1, <1>2, <2>1, OldVariablePlaces
    <2>3. TypeOK'
        BY <1>1, <2>1, <2>2 DEF Inv, TypeOK
    <2> QED
        BY <1>1, <2>1, <2>2, <2>3 DEF Inv, Reading
<1>3. CASE ~Known(x) /\ MapFull
    BY <1>1, <1>3 DEF Declare, Inv, TypeOK, Reading
<1>4. CASE ~Known(x) /\ ~MapFull
    <2>1. NewLocal(x, t) /\ UNCHANGED phase
        BY <1>4 DEF Declare
    <2>2. /\ DOMAIN locals' \subseteq Names /\ locals' \in [DOMAIN locals' -> Variable]
          /\ DOMAIN lvar_map' \subseteq Names /\ lvar_map' \in [DOMAIN lvar_map' -> Nat]
          /\ local_offset' \in Nat /\ nodes' \subseteq Node
          /\ MapAgrees' /\ Placed' /\ NodesCurrent'
        BY <1>1, <1>4, <2>1, NewLocalPlaces
    <2>3. TypeOK'
        BY <1>1, <2>1, <2>2 DEF Inv, TypeOK
    <2> QED
        BY <1>1, <2>1, <2>2, <2>3 DEF Inv, Reading
<1> QED
    BY <1>2, <1>3, <1>4

LEMMA UseInv ==
    ASSUME Inv, NEW x \in Names, Use(x)
    PROVE  Inv'
<1>1. /\ phase = "body" /\ Reading /\ occurrences' = occurrences + 1
      /\ UNCHANGED <<globals, args_offset_total, args, code>>
    BY DEF Use, Reading
<1>2. CASE Known(x)
    <2>1. OldVariable(x) /\ UNCHANGED phase
        BY <1>2 DEF Use
    <2>2. /\ UNCHANGED <<locals, local_offset, lvar_map>> /\ nodes' \subseteq Node
          /\ MapAgrees' /\ Placed' /\ NodesCurrent'
        BY <1>1, <1>2, <2>1, OldVariablePlaces
    <2>3. TypeOK'
        BY <1>1, <2>1, <2>2 DEF Inv, TypeOK
    <2> QED
        BY <1>1, <2>1, <2>2, <2>3 DEF Inv, Reading
<1>3. CASE ~Known(x)
    BY <1>1, <1>3 DEF Use, Inv, TypeOK, Reading
<1> QED
    BY <1>2, <1>3

(* update_lvar_offset puts a variable that occupies Start to End from the  *)
(* far end of the frame at the same bytes counted from rbp.                *)
LEMMA TurnedBytes ==
    ASSUME Inv, Reading, NEW n \in nodes, n.kind = "lvar"
    PROVE  /\ n.name \in DOMAIN locals
           /\ Bytes(Turned(n)) = local_offset - End(locals[n.name]) + 1
                                   .. local_offset - Start(locals[n.name])
<1> DEFINE v == locals[n.name]
<1>1. /\ n.name \in DOMAIN locals
      /\ n = LNode(n.name, v)
    BY DEF Inv, NodesCurrent, NodeOf, GNode, LNode
<1>2. v \in Variable /\ v.ty \in ParamTypes \cup LocalTypes /\ v.offset \in Nat
    BY <1>1 DEF Inv, TypeOK, Variable
<1>3. /\ ElemSize(v.ty) \in Nat /\ Size(v.ty) \in Nat
      /\ ~v.ty.array => Size(v.ty) = ElemSize(v.ty)
    BY <1>2, TypeFacts
<1>4. n.ty = v.ty /\ n.offset = v.offset
    BY <1>1 DEF LNode
<1>5. n.name \in DOMAIN lvar_map /\ lvar_map[n.name] = Size(v.ty)
    BY <1>1 DEF Inv, MapAgrees
<1>6. /\ Turned(n).offset = local_offset - v.offset + ElemSize(v.ty)
      /\ Turned(n).ty = v.ty
    BY <1>3, <1>4, <1>5 DEF Turned
<1>7. local_offset \in Nat
    BY DEF Inv, TypeOK
<1> HIDE DEF v
<1> QED
    BY <1>1, <1>2, <1>3, <1>6, <1>7 DEF Bytes, Start, End, v

LEMMA TurnedType ==
    ASSUME Inv, Reading, NEW n \in Node
    PROVE  /\ Turned(n) \in Node
           /\ Turned(n).name = n.name /\ Turned(n).kind = n.kind
<1>1. n.offset \in Int /\ local_offset \in Int /\ ElemSize(n.ty) \in Int
    BY TypeFacts DEF Inv, TypeOK, Node
<1>2. n.name \in DOMAIN lvar_map => lvar_map[n.name] \in Int
    BY DEF Inv, TypeOK
<1>3. Turned(n).offset \in Int
    BY <1>1, <1>2 DEF Turned
<1> QED
    BY <1>3 DEF Turned, Node

LEMMA EndFunctionInv ==
    ASSUME Inv, EndFunction
    PROVE  Inv'
<1> DEFINE f == [args  |-> [k \in DOMAIN args |-> Turned(args[k])],
                 nodes |-> {Turned(n) : n \in nodes},
                 total_offset |-> local_offset]
<1>1. /\ phase = "body" /\ Reading /\ phase' = "toplevel"
      /\ code' = Append(code, f) /\ local_offset' = 0
      /\ UNCHANGED <<globals, locals, lvar_map, args_offset_total, args, nodes,
                     occurrences>>
    BY DEF EndFunction, Reading
<1>2. /\ args \in Seq(Node) /\ nodes \subseteq Node /\ local_offset \in Nat
      /\ code \in Seq([args : Seq(Node), nodes : SUBSET Node, total_offset : Nat])
    BY DEF Inv, TypeOK
<1>3. f \in [args : Seq(Node), nodes : SUBSET Node, total_offset : Nat]
    <2>1. [k \in DOMAIN args |-> Turned(args[k])] \in Seq(Node)
        <3>1. \A k \in DOMAIN args : args[k] \in Node
            BY <1>2
        <3>2. \A k \in DOMAIN args : Turned(args[k]) \in Node
            BY <1>1, <3>1, TurnedType
        <3>3. DOMAIN args = 1 .. Len(args) /\ Len(args) \in Nat
            BY <1>2
        <3> QED
            BY <3>2, <3>3
    <2>2. {Turned(n) : n \in nodes} \subseteq Node
        BY <1>1, <1>2, TurnedType
    <2> QED
        BY <1>2, <2>1, <2>2
<1>4. TypeOK'
    <2>1. code' \in Seq([args : Seq(Node), nodes : SUBSET Node, total_offset : Nat])
        BY <1>1, <1>2, <1>3
    <2> QED
        BY <1>1, <2>1 DEF Inv, TypeOK
<1>5. Sound(f)
    <2>1. \A g \in f.nodes : \E n \in nodes :
             g = Turned(n) /\ g.name = n.name /\ g.kind = n.kind
        BY <1>1, <1>2, TurnedType
    <2>2. \A x \in DOMAIN locals :
             /\ Start(locals[x]) \in Int /\ End(locals[x]) \in Int
             /\ 0 <= Start(locals[x]) /\ End(locals[x]) <= local_offset
             /\ \A y \in DOMAIN locals :
                  x # y => \/ End(locals[x]) <= Start(locals[y])
                           \/ End(locals[y]) <= Start(locals[x])
        <3>1. \A x \in DOMAIN locals : locals[x] \in Variable
            BY DEF Inv, TypeOK
        <3>2. \A v \in Variable : Start(v) \in Int /\ End(v) \in Int
            BY TypeFacts DEF Start, End, Variable
        <3> QED
            BY <1>1, <3>1, <3>2 DEF Inv, Placed
    <2>3. \A g \in LocalNodes(f) :
             /\ g.name \in DOMAIN locals
             /\ Bytes(g) = local_offset - End(locals[g.name]) + 1
                             .. local_offset - Start(locals[g.name])
        BY <1>1, <2>1, TurnedBytes DEF LocalNodes
    <2>4. ASSUME NEW g \in LocalNodes(f)
          PROVE  Bytes(g) \subseteq 1 .. f.total_offset
        <3> DEFINE a == Start(locals[g.name])
                   e == End(locals[g.name])
        <3>1. a \in Int /\ e \in Int /\ 0 <= a /\ e <= local_offset
            BY <2>2, <2>3
        <3>2. Bytes(g) = local_offset - e + 1 .. local_offset - a
            BY <2>3
        <3> HIDE DEF a, e
        <3> QED
            BY <1>2, <3>1, <3>2
    <2>5. ASSUME NEW g \in LocalNodes(f), NEW h \in LocalNodes(f), g.name # h.name
          PROVE  Bytes(g) \cap Bytes(h) = {}
        <3> DEFINE a == Start(locals[g.name])
                   e == End(locals[g.name])
                   b == Start(locals[h.name])
                   d == End(locals[h.name])
        <3>1. /\ a \in Int /\ e \in Int /\ b \in Int /\ d \in Int
              /\ e <= b \/ d <= a
            BY <2>2, <2>3, <2>5
        <3>2. /\ Bytes(g) = local_offset - e + 1 .. local_offset - a
              /\ Bytes(h) = local_offset - d + 1 .. local_offset - b
            BY <2>3
        <3> HIDE DEF a, b, d, e
        <3> QED
            BY <1>2, <3>1, <3>2
    <2>6. \A g, h \in f.nodes : g.name = h.name => g = h
        <3>1. \A m, n \in nodes : m.name = n.name => m = n
            BY <1>1 DEF Inv, NodesCurrent
        <3> QED
            BY <2>1, <3>1
    <2> QED
        BY <2>4, <2>5, <2>6 DEF Sound
<1>6. \A k \in DOMAIN code' : Sound(code'[k])
    <2>1. \A k \in DOMAIN code' : code'[k] = f \/ (k \in DOMAIN code /\ code'[k] = code[k])
        BY <1>1, <1>2
    <2> QED
        BY <1>5, <2>1 DEF Inv
<1> QED
    BY <1>1, <1>4, <1>6 DEF Inv, Reading

(* The invariant is inductive when the parameters are scalars.             *)
LEMMA NextInv ==
    ASSUME ScalarParams, Inv, [Next]_vars
    PROVE  Inv'
<1>1. ASSUME NEW x \in Names, NEW t \in GlobalTypes, DeclareGlobal(x, t) PROVE Inv'
    BY <1>1, DeclareGlobalInv
<1>2. CASE BeginFunction
    BY <1>2, BeginFunctionInv
<1>3. ASSUME NEW x \in Names, NEW t \in ParamTypes, Param(x, t) PROVE Inv'
    BY <1>3, ParamInv
<1>4. CASE BeginBody
    BY <1>4, BeginBodyInv
<1>5. ASSUME NEW x \in Names, NEW t \in LocalTypes, Declare(x, t) PROVE Inv'
    BY <1>5, DeclareInv
<1>6. ASSUME NEW x \in Names, Use(x) PROVE Inv'
    BY <1>6, UseInv
<1>7. CASE EndFunction
    BY <1>7, EndFunctionInv
<1>8. CASE UNCHANGED vars
    <2>1. UNCHANGED <<phase, globals, locals, lvar_map, local_offset, args_offset_total,
                      args, nodes, occurrences, code>>
        BY <1>8 DEF vars
    <2>2. TypeOK'
        BY <2>1 DEF Inv, TypeOK
    <2>3. Reading' => MapAgrees' /\ Placed' /\ NodesCurrent'
        BY <2>1 DEF Inv, Reading, MapAgrees, Placed, NodesCurrent, NodeOf, LNode, GNode
    <2> QED
        BY <2>1, <2>2, <2>3 DEF Inv
<1> QED
    BY <1>1, <1>2, <1>3, <1>4, <1>5, <1>6, <1>7, <1>8 DEF Next, Ended

LEMMA SpecInv ==
    ASSUME ScalarParams
    PROVE  Spec => []Inv
<1>1. Inv /\ [Next]_vars => Inv'
    BY NextInv
<1> QED
    BY <1>1, InitInv, PTL DEF Spec

-----------------------------------------------------------------------------
(* The parser's variables keep their types.                                *)
THEOREM TypeCorrect ==
    ASSUME ScalarParams
    PROVE  Spec => []TypeOK
<1>1. Inv => TypeOK
    BY DEF Inv
<1> QED
    BY <1>1, SpecInv, PTL

(* Every variable of every function lies inside the frame that the         *)
(* prologue reserves for the function.                                     *)
THEOREM FrameLargeEnough ==
    ASSUME ScalarParams
    PROVE  Spec => []WithinFrame
<1>1. Inv => WithinFrame
    BY DEF Inv, Sound, WithinFrame
<1> QED
    BY <1>1, SpecInv, PTL

(* No two variables of a function share a byte.                            *)
THEOREM SlotsDisjoint ==
    ASSUME ScalarParams
    PROVE  Spec => []LocalsDisjoint
<1>1. Inv => LocalsDisjoint
    BY DEF Inv, Sound, LocalsDisjoint
<1> QED
    BY <1>1, SpecInv, PTL

(* All occurrences of a variable in a function address the same place.     *)
THEOREM OccurrencesSame ==
    ASSUME ScalarParams
    PROVE  Spec => []OccurrencesAgree
<1>1. Inv => OccurrencesAgree
    BY DEF Inv, Sound, OccurrencesAgree
<1> QED
    BY <1>1, SpecInv, PTL

-----------------------------------------------------------------------------
(* The prologues.  With char parameters what follows is false: see the run *)
(* PrologueChars.                                                          *)
WordParams == \A t \in ParamTypes : Scalar(t) /\ t.elem \in {"int", "ptr"}

(* While the parameters are read, the locals are the parameters; their     *)
(* nodes are nodes of the function, also when these are turned round.      *)
ArgNodes(list, ns) ==
    \A k \in DOMAIN list : list[k] \in ns /\ (list[k].kind = "lvar" => list[k].ty \in ParamTypes)
ArgsKnown ==
    /\ phase = "params" => \A x \in DOMAIN locals : locals[x].ty \in ParamTypes
    /\ Reading => ArgNodes(args, nodes)
    /\ \A j \in DOMAIN code : ArgNodes(code[j].args, code[j].nodes)

(* What the stores so far have left: whole arguments, in their own slots.  *)
Arrived(k) ==
    \A b \in 0 .. Size(Params[k].ty) - 1 :
        /\ Params[k].offset - b \in DOMAIN frame
        /\ frame[Params[k].offset - b] = <<k, b>>
Written ==
    /\ \A k \in DOMAIN Params : argn < k /\ k <= ArgRegisters => Arrived(k)
    /\ \A d \in DOMAIN frame : \E k \in DOMAIN Params : d \in Bytes(Params[k])

PInv ==
    /\ Inv /\ ArgsKnown
    /\ stage = "gen" =>
          /\ fn \in DOMAIN code /\ argn \in 0 .. Len(Params)
          /\ DistinctNames => Written

-----------------------------------------------------------------------------
(* An int or a pointer is stored with its own width.                       *)
LEMMA WordWidth ==
    ASSUME WordParams, NEW n \in Node, n.ty \in ParamTypes
    PROVE  /\ StoreWidth(n) = Size(n.ty) /\ Size(n.ty) \in Nat /\ Size(n.ty) > 0
           /\ n.offset \in Int
<1>1. ~n.ty.array /\ n.ty.n = 1 /\ n.ty.elem \in {"int", "ptr"}
    BY DEF WordParams, Scalar
<1>2. ElemSize(n.ty) = IF n.ty.elem = "int" THEN 4 ELSE 8
    BY <1>1 DEF ElemSize
<1>3. Size(n.ty) = ElemSize(n.ty)
    BY <1>1, <1>2 DEF Size
<1>4. StoreWidth(n) = IF n.ty.elem = "int" THEN 4 ELSE 8
    BY <1>1 DEF StoreWidth
<1> QED
    BY <1>2, <1>3, <1>4 DEF Node

(* The elements of a list to which one is appended.                        *)
LEMMA AppendElements ==
    ASSUME NEW S, NEW list \in Seq(S), NEW n \in S
    PROVE  \A k \in DOMAIN Append(list, n) :
              Append(list, n)[k] = n \/ (k \in DOMAIN list /\ Append(list, n)[k] = list[k])
OBVIOUS

(* A list of nodes that gets a node of the function's keeps ArgNodes.      *)
LEMMA AppendArgNodes ==
    ASSUME NEW list \in Seq(Node), NEW ns, NEW ms, ArgNodes(list, ns), ns \subseteq ms,
           NEW n \in Node, n \in ms, n.kind = "lvar" => n.ty \in ParamTypes
    PROVE  ArgNodes(Append(list, n), ms)
<1> DEFINE bs == Append(list, n)
<1>1. \A k \in DOMAIN bs : bs[k] = n \/ (k \in DOMAIN list /\ bs[k] = list[k])
    BY AppendElements
<1> HIDE DEF bs
<1>2. ArgNodes(bs, ms)
    BY <1>1 DEF ArgNodes
<1> QED
    BY <1>2 DEF bs

(* The parameters of a complete function are nodes.                        *)
LEMMA CodeArgs ==
    ASSUME Inv, NEW k \in DOMAIN code
    PROVE  code[k].args \in Seq(Node) /\ Len(code[k].args) \in Nat
           /\ DOMAIN code[k].args = 1 .. Len(code[k].args)
<1>1. code[k].args \in Seq(Node)
    <2> DEFINE R == [args : Seq(Node), nodes : SUBSET Node, total_offset : Nat]
    <2>1. code \in Seq(R)
        BY DEF Inv, TypeOK
    <2> HIDE DEF R
    <2>2. code[k] \in R
        BY <2>1
    <2> QED
        BY <2>2 DEF R
<1> DEFINE list == code[k].args
<1>2. list \in Seq(Node)
    BY <1>1
<1> HIDE DEF list
<1>3. Len(list) \in Nat /\ DOMAIN list = 1 .. Len(list)
    BY <1>2
<1> QED
    BY <1>2, <1>3 DEF list

LEMMA ParamArgs ==
    ASSUME ScalarParams, Inv, ArgsKnown, NEW x \in Names, NEW t \in ParamTypes, Param(x, t)
    PROVE  ArgsKnown'
<1> DEFINE node == IF Known(x) THEN NodeOf(x)
                   ELSE LNode(x, [ty |-> t, offset |-> NewOffset(t)])
<1>1. /\ phase = "params" /\ Reading /\ UNCHANGED <<globals, code>>
      /\ args \in Seq(Node) /\ ArgNodes(args, nodes)
      /\ \A y \in DOMAIN locals : locals[y].ty \in ParamTypes
    BY DEF Param, Reading, Inv, TypeOK, ArgsKnown
<1>2. CASE ~Known(x) /\ MapFull
    <2>1. phase' = "aborted"
        BY <1>2 DEF Param
    <2> QED
        BY <1>1, <2>1 DEF ArgsKnown, Reading
<1>3. CASE Known(x)
    <2>1. /\ OldVariable(x) /\ UNCHANGED phase /\ args' = Append(args, node)
        BY <1>3 DEF Param
    <2>2. locals' = locals /\ nodes' = nodes \cup {node}
        BY <1>3, <2>1 DEF OldVariable
    <2>3. node \in Node
        BY <1>3, NodeOfType
    <2>4. node.kind = "lvar" => node.ty \in ParamTypes
        BY <1>1, <1>3 DEF NodeOf, LNode, GNode
    <2> HIDE DEF node
    <2>5. ArgNodes(args', nodes')
        BY <1>1, <2>1, <2>2, <2>3, <2>4, AppendArgNodes
    <2> QED
        BY <1>1, <2>1, <2>2, <2>5 DEF ArgsKnown
<1>4. CASE ~Known(x) /\ ~MapFull
    <2>1. /\ NewLocal(x, t) /\ UNCHANGED phase /\ args' = Append(args, node)
        BY <1>4 DEF Param
    <2>2. /\ node \in Node /\ nodes' = nodes \cup {node}
          /\ node.ty \in ParamTypes
        BY <1>1, <1>4, <2>1, NewLocalPlaces DEF NewLocal, LNode
    <2>3. \A y \in DOMAIN locals' : locals'[y].ty \in ParamTypes
        BY <1>1, <2>1 DEF NewLocal
    <2> HIDE DEF node
    <2>4. ArgNodes(args', nodes')
        BY <1>1, <2>1, <2>2, AppendArgNodes
    <2> QED
        BY <1>1, <2>1, <2>3, <2>4 DEF ArgsKnown
<1> QED
    BY <1>2, <1>3, <1>4

LEMMA EndFunctionArgs ==
    ASSUME Inv, ArgsKnown, EndFunction
    PROVE  ArgsKnown'
<1> DEFINE f == [args  |-> [k \in DOMAIN args |-> Turned(args[k])],
                 nodes |-> {Turned(n) : n \in nodes},
                 total_offset |-> local_offset]
<1>1. /\ phase' = "toplevel" /\ Reading
      /\ code' = Append(code, f) /\ ArgNodes(args, nodes)
      /\ code \in Seq([args : Seq(Node), nodes : SUBSET Node, total_offset : Nat])
    BY DEF EndFunction, Reading, ArgsKnown, Inv, TypeOK
<1>2. ArgNodes(f.args, f.nodes)
    BY <1>1 DEF ArgNodes, Turned
<1>3. \A j \in DOMAIN code' : code'[j] = f \/ (j \in DOMAIN code /\ code'[j] = code[j])
    BY <1>1
<1> HIDE DEF f
<1>4. \A j \in DOMAIN code' : ArgNodes(code'[j].args, code'[j].nodes)
    BY <1>2, <1>3 DEF ArgsKnown
<1> QED
    BY <1>1, <1>4 DEF ArgsKnown, Reading

(* The other steps of the parser leave the parameters alone; nodes grows.  *)
LEMMA NextArgs ==
    ASSUME ScalarParams, Inv, ArgsKnown, [Next]_vars
    PROVE  ArgsKnown'
<1>1. ASSUME NEW x \in Names, NEW t \in GlobalTypes, DeclareGlobal(x, t) PROVE ArgsKnown'
    BY <1>1 DEF DeclareGlobal, ArgsKnown, Reading, ArgNodes
<1>2. CASE BeginFunction
    BY <1>2 DEF BeginFunction, ArgsKnown, Reading, ArgNodes
<1>3. ASSUME NEW x \in Names, NEW t \in ParamTypes, Param(x, t) PROVE ArgsKnown'
    BY <1>3, ParamArgs
<1>4. CASE BeginBody
    BY <1>4 DEF BeginBody, ArgsKnown, Reading, ArgNodes
<1>5. ASSUME phase = "body", UNCHANGED <<args, code>>, nodes \subseteq nodes', phase' # "params"
      PROVE  ArgsKnown'
    BY <1>5 DEF ArgsKnown, Reading, ArgNodes
<1>6. ASSUME NEW x \in Names, NEW t \in LocalTypes, Declare(x, t) PROVE ArgsKnown'
    BY <1>5, <1>6 DEF Declare, OldVariable, NewLocal
<1>7. ASSUME NEW x \in Names, Use(x) PROVE ArgsKnown'
    BY <1>5, <1>7 DEF Use, OldVariable
<1>8. CASE EndFunction
    BY <1>8, EndFunctionArgs
<1>9. CASE UNCHANGED vars
    BY <1>9 DEF vars, ArgsKnown, Reading, ArgNodes
<1> QED
    BY <1>1, <1>2, <1>3, <1>4, <1>6, <1>7, <1>8, <1>9 DEF Next, Ended

-----------------------------------------------------------------------------
LEMMA PInitInv == PInit => PInv
<1> SUFFICES ASSUME PInit PROVE PInv
    OBVIOUS
<1>1. Inv
    BY InitInv DEF PInit
<1>2. ArgsKnown
    BY DEF PInit, Init, ArgsKnown, Reading, ArgNodes
<1> QED
    BY <1>1, <1>2 DEF PInv, PInit

(* Steps that leave the parser alone leave its invariant alone.            *)
LEMMA ParserIdle ==
    ASSUME WordParams, Inv, ArgsKnown, UNCHANGED vars
    PROVE  Inv' /\ ArgsKnown' /\ code' = code
<1>1. ScalarParams
    BY DEF WordParams, ScalarParams
<1> QED
    BY <1>1, NextInv, NextArgs DEF vars

(* A prologue starts with an empty frame and all the stores ahead.         *)
LEMMA EnterFunctionInv ==
    ASSUME WordParams, Inv, ArgsKnown, NEW k \in DOMAIN code, EnterFunction(k), stage' = "gen"
    PROVE  PInv'
<1>1. /\ Inv' /\ ArgsKnown' /\ code' = code
      /\ fn' = k /\ argn' = Len(code[k].args) /\ frame' = <<>>
    BY ParserIdle DEF EnterFunction
<1>2. code[k].args \in Seq(Node) /\ Len(code[k].args) \in Nat
      /\ DOMAIN code[k].args = 1 .. Len(code[k].args)
    BY CodeArgs
<1>3. Params' = code[k].args /\ argn' \in 0 .. Len(Params')
    BY <1>1, <1>2 DEF Params
<1>4. \A j \in DOMAIN Params' : ~(argn' < j)
    BY <1>1, <1>2, <1>3
<1>5. DOMAIN frame' = {}
    BY <1>1
<1>6. Written'
    BY <1>4, <1>5 DEF Written
<1> QED
    BY <1>1, <1>3, <1>6 DEF PInv

(* The parameters of a function with distinct names: nodes of locals of    *)
(* the function, whose bytes are in the frame and shared with no other.    *)
LEMMA ParamSlots ==
    ASSUME WordParams, Inv, ArgsKnown, fn \in DOMAIN code, DistinctNames
    PROVE  /\ DOMAIN Params = 1 .. Len(Params) /\ Len(Params) \in Nat
           /\ \A k \in DOMAIN Params :
                 /\ Params[k] \in Node /\ Params[k].ty \in ParamTypes
                 /\ Bytes(Params[k]) \subseteq 1 .. code[fn].total_offset
                 /\ \A l \in DOMAIN Params :
                       k # l => Bytes(Params[k]) \cap Bytes(Params[l]) = {}
<1>1. /\ Params \in Seq(Node) /\ Len(Params) \in Nat /\ DOMAIN Params = 1 .. Len(Params)
      /\ ArgNodes(Params, code[fn].nodes) /\ Sound(code[fn])
    BY CodeArgs DEF Inv, ArgsKnown, Params
<1>2. \A k \in DOMAIN Params : /\ Params[k] \in Node /\ Params[k].ty \in ParamTypes
                               /\ Params[k] \in LocalNodes(code[fn])
    BY <1>1 DEF ArgNodes, LocalNodes, DistinctNames
<1> QED
    BY <1>1, <1>2 DEF Sound, DistinctNames

LEMMA StoreParamInv ==
    ASSUME WordParams, PInv, StoreParam
    PROVE  PInv'
<1>1. /\ Inv /\ ArgsKnown /\ fn \in DOMAIN code /\ argn \in 0 .. Len(Params) /\ argn > 0
      /\ argn' = argn - 1 /\ fn' = fn /\ stage' = "gen"
      /\ Inv' /\ ArgsKnown' /\ code' = code
    BY ParserIdle DEF PInv, StoreParam
<1>2. Params' = Params /\ (DistinctNames' => DistinctNames)
    BY <1>1 DEF Params, DistinctNames
<1>3. Len(Params) \in Nat
    BY <1>1, CodeArgs DEF Params
<1>4. argn' \in 0 .. Len(Params')
    BY <1>1, <1>2, <1>3
<1>5. ASSUME DistinctNames PROVE Written'
    <2>1. Written
        BY <1>1, <1>5 DEF PInv, StoreParam
    <2>2. /\ DOMAIN Params = 1 .. Len(Params)
          /\ \A k \in DOMAIN Params :
                /\ Params[k] \in Node /\ Params[k].ty \in ParamTypes
                /\ \A l \in DOMAIN Params :
                      k # l => Bytes(Params[k]) \cap Bytes(Params[l]) = {}
        BY <1>1, <1>5, ParamSlots
    <2> DEFINE n == Params[argn]
    <2>3. argn \in DOMAIN Params /\ argn \in Nat
        BY <1>1, <1>3, <2>2
    <2>4. CASE argn > ArgRegisters
        <3>1. frame' = frame
            BY <1>1, <2>3, <2>4, RegistersAssumption DEF StoreParam
        <3>2. \A k \in DOMAIN Params : argn' < k /\ k <= ArgRegisters => argn < k
            BY <1>1, <2>2, <2>3, <2>4, RegistersAssumption
        <3> QED
            BY <1>2, <2>1, <3>1, <3>2 DEF Written, Arrived
    <2>5. CASE argn <= ArgRegisters
        <3>1. /\ StoreWidth(n) = Size(n.ty) /\ Size(n.ty) \in Nat /\ n.offset \in Int
            BY <2>2, <2>3, WordWidth
        <3>2. frame' = [d \in DOMAIN frame \cup Bytes(n) |->
                          IF d \in Bytes(n) THEN <<argn, n.offset - d>> ELSE frame[d]]
            BY <2>5, <3>1 DEF StoreParam, Stored, Bytes, Params
        <3> HIDE DEF n
        <3>3. \A b \in 0 .. Size(n.ty) - 1 :
                 n.offset - b \in Bytes(n) /\ n.offset - (n.offset - b) = b
            BY <3>1 DEF Bytes
        <3>4. \A b \in 0 .. Size(n.ty) - 1 :
                 n.offset - b \in DOMAIN frame' /\ frame'[n.offset - b] = <<argn, b>>
            BY <3>2, <3>3
        <3>5. ASSUME NEW k \in DOMAIN Params, argn < k, Arrived(k) PROVE Arrived(k)'
            <4>1. /\ Size(Params[k].ty) \in Nat /\ Params[k].offset \in Int
                BY <2>2, WordWidth
            <4>2. \A b \in 0 .. Size(Params[k].ty) - 1 : Params[k].offset - b \in Bytes(Params[k])
                BY <4>1 DEF Bytes
            <4>3. Bytes(Params[k]) \cap Bytes(n) = {}
                BY <2>2, <2>3, <3>5 DEF n
            <4>4. \A b \in 0 .. Size(Params[k].ty) - 1 :
                     /\ Params[k].offset - b \in DOMAIN frame'
                     /\ frame'[Params[k].offset - b] = <<k, b>>
                BY <3>2, <3>5, <4>2, <4>3 DEF Arrived
            <4> QED
                BY <1>2, <4>4 DEF Arrived
        <3>6. ASSUME NEW k \in DOMAIN Params, argn' < k, k <= ArgRegisters PROVE Arrived(k)'
            <4>1. CASE k = argn
                BY <1>2, <3>4, <4>1 DEF Arrived, n
            <4>2. CASE k # argn
                <5>1. argn < k
                    BY <1>1, <2>2, <2>3, <3>6, <4>2
                <5> QED
                    BY <2>1, <3>5, <3>6, <5>1 DEF Written
            <4> QED
                BY <4>1, <4>2
        <3>7. \A d \in DOMAIN frame' : \E k \in DOMAIN Params : d \in Bytes(Params[k])
            BY <2>1, <2>3, <3>2 DEF Written, n
        <3> QED
            BY <1>2, <3>6, <3>7 DEF Written
    <2> QED
        BY <2>3, <2>4, <2>5, RegistersAssumption
<1> QED
    BY <1>1, <1>2, <1>4, <1>5 DEF PInv

LEMMA PNextInv ==
    ASSUME WordParams, PInv, [PNext]_allvars
    PROVE  PInv'
<1>1. CASE Parse
    <2>1. ScalarParams
        BY DEF WordParams, ScalarParams
    <2>2. Inv' /\ ArgsKnown' /\ stage' # "gen"
        BY <1>1, <2>1, NextInv, NextArgs DEF Parse, PInv, pvars
    <2> QED
        BY <2>2 DEF PInv
<1>2. CASE BeginCodegen
    <2>1. 1 \in DOMAIN code
        BY <1>2 DEF BeginCodegen, PInv, Inv, TypeOK
    <2> QED
        BY <1>2, <2>1, EnterFunctionInv DEF BeginCodegen, PInv
<1>3. CASE StoreParam
    BY <1>3, StoreParamInv
<1>4. CASE NextFunction
    <2>1. fn + 1 \in DOMAIN code
        BY <1>4 DEF NextFunction, PInv, Inv, TypeOK
    <2> QED
        BY <1>4, <2>1, EnterFunctionInv DEF NextFunction, PInv
<1>5. CASE UNCHANGED allvars
    <2>1. Inv' /\ ArgsKnown'
        BY <1>5, ParserIdle DEF allvars, PInv
    <2>2. /\ code' = code /\ stage' = stage /\ fn' = fn /\ argn' = argn /\ frame' = frame
        BY <1>5 DEF allvars, pvars, vars
    <2> QED
        BY <2>1, <2>2 DEF PInv, Params, DistinctNames, Written, Arrived
<1> QED
    BY <1>1, <1>2, <1>3, <1>4, <1>5 DEF PNext, Done

LEMMA PSpecInv ==
    ASSUME WordParams
    PROVE  PSpec => []PInv
<1>1. PInv /\ [PNext]_allvars => PInv'
    BY PNextInv
<1> QED
    BY <1>1, PInitInv, PTL DEF PSpec

-----------------------------------------------------------------------------
(* When the prologue of gen_func is over, each argument that came in a     *)
(* register can be read back whole from the slot of its parameter.         *)
THEOREM ArgumentsArrive ==
    ASSUME WordParams
    PROVE  PSpec => []ParamsArrive
<1>1. PInv => ParamsArrive
    <2> SUFFICES ASSUME PInv, stage = "gen", argn = 0, DistinctNames,
                        NEW k \in DOMAIN Params, k <= ArgRegisters
                 PROVE  Arrived(k)
        BY DEF ParamsArrive, Arrived
    <2>1. Written /\ DOMAIN Params = 1 .. Len(Params) /\ Len(Params) \in Nat
        BY CodeArgs DEF PInv, Params
    <2> QED
        BY <2>1 DEF Written
<1> QED
    BY <1>1, PSpecInv, PTL

(* The stores of the prologue hit neither the saved rbp and the return     *)
(* address above the frame nor what lies below rsp.                        *)
THEOREM StoresStayInFrame ==
    ASSUME WordParams
    PROVE  PSpec => []StoresInFrame
<1>1. PInv => StoresInFrame
    <2> SUFFICES ASSUME PInv, stage = "gen", DistinctNames, NEW d \in DOMAIN frame
                 PROVE  d \in 1 .. code[fn].total_offset
        BY DEF StoresInFrame
    <2>1. PICK k \in DOMAIN Params : d \in Bytes(Params[k])
        BY DEF PInv, Written
    <2> QED
        BY <2>1, ParamSlots DEF PInv
<1> QED
    BY <1>1, PSpecInv, PTL
=============================================================================
