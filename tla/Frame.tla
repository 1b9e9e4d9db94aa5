------------------------------- MODULE Frame -------------------------------
(***************************************************************************)
(* The layout of activation records: how parse.c gives every variable of a *)
(* function an offset while it reads the function (local_variable,         *)
(* func_args_definition, toplevel), and how update_lvar_offset of utils.c  *)
(* turns the offsets round, so that variables grow from the far end of the *)
(* frame towards rbp.  The source program is an arbitrary sequence of      *)
(* declarations and uses; everything else in a function is left out.       *)
(***************************************************************************)
EXTENDS Integers, FiniteSets, Sequences

CONSTANTS
    Names,        \* identifiers
    ParamTypes,   \* the types parameters may have
    LocalTypes,   \* the types local variables may have
    GlobalTypes,  \* the types global variables may have
    NoType,       \* the NULL type that primary passes for a use of a name
    MapLimit,     \* how many keys fit in lvar_map (AbstractMap's Limit)
    MaxOccurrences, MaxFunctions   \* bounds on the source program

Elem == {"int", "char", "ptr"}

(* int x, char x, T *x have n = 1; T x[n] is an array.                     *)
Type == [elem : Elem, array : BOOLEAN, n : Nat]
Scalar(t) == ~t.array /\ t.n = 1

ASSUME TypesAssumption ==
    /\ ParamTypes \subseteq Type /\ LocalTypes \subseteq Type
    /\ GlobalTypes \subseteq Type
    /\ \A t \in ParamTypes \cup LocalTypes \cup GlobalTypes : t.array \/ Scalar(t)
    /\ NoType \notin Type

ASSUME LimitAssumption ==
    /\ MapLimit \in Nat
    /\ MaxOccurrences \in Nat /\ MaxFunctions \in Nat

VARIABLES
    phase,              \* what the parser is reading
    globals,            \* name -> type
    locals,             \* name -> type and offset, of this function
    lvar_map,           \* name -> size, of this function
    local_offset,
    args_offset_total,
    args,               \* the nodes of the parameters, in order
    nodes,              \* the nodes of all the variables that occur
    occurrences,        \* of variables in the whole file (bounded)
    code                \* the functions that are complete

vars == <<phase, globals, locals, lvar_map, local_offset, args_offset_total,
          args, nodes, occurrences, code>>

-----------------------------------------------------------------------------
(* size_of_type.                                                           *)
ElemSize(t) == CASE t.elem = "int"  -> 4
                 [] t.elem = "char" -> 1
                 [] t.elem = "ptr"  -> 8
Size(t) == t.n * ElemSize(t)

(* The offset local_variable gives a new variable: the far end of a scalar,*)
(* the far end of the first element of an array.                           *)
NewOffset(t) == local_offset + IF t.array THEN ElemSize(t) ELSE Size(t)

(* Where it leaves local_offset.  Two errors: an array takes the room of   *)
(* one element; the offset runs the other way.                             *)
NextLocalOffsetOfElem(t) == local_offset + ElemSize(t)
NextLocalOffsetDown(t) == local_offset - Size(t)
NextLocalOffset(t) == local_offset + Size(t)

(* Whether find_lvar or find_gvar finds the name.  An error: only globals  *)
(* are looked up.                                                          *)
KnownGlobal(x) == x \in DOMAIN globals
Known(x) == x \in DOMAIN locals \/ x \in DOMAIN globals

(* The node of an occurrence of x: find_lvar goes first, then find_gvar,   *)
(* whose nodes have the offset 0 that calloc left there.                   *)
LNode(x, v) == [name |-> x, kind |-> "lvar", ty |-> v.ty, offset |-> v.offset]
GNode(x) == [name |-> x, kind |-> "gvar", ty |-> globals[x], offset |-> 0]
NodeOf(x) == IF x \in DOMAIN locals THEN LNode(x, locals[x]) ELSE GNode(x)

(* local_variable for a name that is in neither list: a new entry in       *)
(* locals and in lvar_map.                                                 *)
NewLocal(x, t) ==
    LET v == [ty |-> t, offset |-> NewOffset(t)] IN
    /\ locals' = [y \in DOMAIN locals \cup {x} |-> IF y = x THEN v ELSE locals[y]]
    /\ local_offset' = NextLocalOffset(t)
    /\ lvar_map' = [y \in DOMAIN lvar_map \cup {x} |->
                       IF y = x THEN Size(t) ELSE lvar_map[y]]
    /\ nodes' = nodes \cup {LNode(x, v)}

(* local_variable for a name that is in one of them, whatever the type it  *)
(* is declared with this time.                                             *)
OldVariable(x) ==
    /\ nodes' = nodes \cup {NodeOf(x)}
    /\ UNCHANGED <<locals, local_offset, lvar_map>>

MapFull == Cardinality(DOMAIN lvar_map) >= MapLimit

-----------------------------------------------------------------------------
Init ==
    /\ phase = "toplevel"
    /\ globals = <<>> /\ locals = <<>> /\ lvar_map = <<>>
    /\ local_offset = 0 /\ args_offset_total = 0
    /\ args = <<>> /\ nodes = {} /\ occurrences = 0 /\ code = <<>>

(* toplevel reads a global variable (a second declaration of a name is not *)
(* modelled here).                                                         *)
DeclareGlobal(x, t) ==
    /\ phase = "toplevel" /\ x \notin DOMAIN globals
    /\ globals' = [y \in DOMAIN globals \cup {x} |-> IF y = x THEN t ELSE globals[y]]
    /\ UNCHANGED <<phase, locals, lvar_map, local_offset, args_offset_total,
                   args, nodes, occurrences, code>>

(* toplevel reads the name of a function and "(".                          *)
BeginFunction ==
    /\ phase = "toplevel" /\ Len(code) < MaxFunctions
    /\ phase' = "params"
    /\ locals' = <<>> /\ lvar_map' = <<>> /\ args_offset_total' = 0
    /\ args' = <<>> /\ nodes' = {}
    /\ UNCHANGED <<globals, local_offset, occurrences, code>>

(* One round of func_args_definition.                                      *)
Param(x, t) ==
    /\ phase = "params" /\ occurrences < MaxOccurrences
    /\ occurrences' = occurrences + 1
    /\ IF ~Known(x) /\ MapFull
       THEN phase' = "aborted"
            /\ UNCHANGED <<locals, lvar_map, local_offset, args_offset_total, args, nodes>>
       ELSE /\ IF Known(x) THEN OldVariable(x) ELSE NewLocal(x, t)
            /\ LET node == IF Known(x) THEN NodeOf(x)
                           ELSE LNode(x, [ty |-> t, offset |-> NewOffset(t)])
               IN /\ args' = Append(args, node)
                  /\ args_offset_total' = args_offset_total + node.offset
            /\ UNCHANGED phase
    /\ UNCHANGED <<globals, code>>

(* "{": the body's variables start at args_offset_total.                   *)
BodyOffset == args_offset_total

BeginBody ==
    /\ phase = "params"
    /\ phase' = "body"
    /\ local_offset' = BodyOffset
    /\ UNCHANGED <<globals, locals, lvar_map, args_offset_total, args, nodes,
                   occurrences, code>>

(* ident_declaration in the body.                                          *)
Declare(x, t) ==
    /\ phase = "body" /\ occurrences < MaxOccurrences
    /\ occurrences' = occurrences + 1
    /\ IF Known(x)
       THEN OldVariable(x) /\ UNCHANGED phase
       ELSE IF MapFull
            THEN phase' = "aborted" /\ UNCHANGED <<locals, lvar_map, local_offset, nodes>>
            ELSE NewLocal(x, t) /\ UNCHANGED phase
    /\ UNCHANGED <<globals, args_offset_total, args, code>>

(* primary reads a name: local_variable with the type NoType.  A name that *)
(* is not known ends the compiler: error_at, or a NULL type dereferenced   *)
(* if it would have been the first local.                                  *)
Use(x) ==
    /\ phase = "body" /\ occurrences < MaxOccurrences
    /\ occurrences' = occurrences + 1
    /\ IF Known(x)
       THEN OldVariable(x) /\ UNCHANGED phase
       ELSE phase' = "rejected" /\ UNCHANGED <<locals, lvar_map, local_offset, nodes>>
    /\ UNCHANGED <<globals, args_offset_total, args, code>>

(* update_lvar_offset for one node.  A name that is not in lvar_map reads  *)
(* as 0, which passes its test val >= 0 too.  An error: the room of the    *)
(* variable itself is left out.                                            *)
TurnedWithoutSize(n) == [n EXCEPT !.offset = local_offset - n.offset]
Turned(n) ==
    LET val == IF n.name \in DOMAIN lvar_map THEN lvar_map[n.name] ELSE 0
        room == IF n.ty.array THEN ElemSize(n.ty) ELSE val
    IN [name |-> n.name, kind |-> n.kind, ty |-> n.ty,
        offset |-> local_offset - n.offset + room]

(* "}": every node of the function is turned round and the frame size is   *)
(* fixed.                                                                  *)
EndFunction ==
    /\ phase = "body"
    /\ phase' = "toplevel"
    /\ code' = Append(code, [args  |-> [k \in DOMAIN args |-> Turned(args[k])],
                             nodes |-> {Turned(n) : n \in nodes},
                             total_offset |-> local_offset])
    /\ local_offset' = 0
    /\ UNCHANGED <<globals, locals, lvar_map, args_offset_total, args, nodes,
                   occurrences>>

(* A compiler that aborted or rejected its input has ended.                *)
Ended == phase \in {"aborted", "rejected"} /\ UNCHANGED vars

Next ==
    \/ \E x \in Names, t \in GlobalTypes : DeclareGlobal(x, t)
    \/ BeginFunction
    \/ \E x \in Names, t \in ParamTypes : Param(x, t)
    \/ BeginBody
    \/ \E x \in Names, t \in LocalTypes : Declare(x, t)
    \/ \E x \in Names : Use(x)
    \/ EndFunction
    \/ Ended

Spec == Init /\ [][Next]_vars

-----------------------------------------------------------------------------
Variable == [ty : ParamTypes \cup LocalTypes, offset : Nat]
Node == [name : Names, kind : {"lvar", "gvar"},
         ty : ParamTypes \cup LocalTypes \cup GlobalTypes, offset : Int]

TypeOK ==
    /\ phase \in {"toplevel", "params", "body", "aborted", "rejected"}
    /\ DOMAIN globals \subseteq Names /\ globals \in [DOMAIN globals -> GlobalTypes]
    /\ DOMAIN locals \subseteq Names /\ locals \in [DOMAIN locals -> Variable]
    /\ DOMAIN lvar_map \subseteq Names /\ lvar_map \in [DOMAIN lvar_map -> Nat]
    /\ local_offset \in Nat /\ args_offset_total \in Nat /\ occurrences \in Nat
    /\ args \in Seq(Node) /\ nodes \subseteq Node
    /\ code \in Seq([args : Seq(Node), nodes : SUBSET Node, total_offset : Nat])

(* The bytes of the frame that a node addresses, counted from rbp          *)
(* downwards: byte d is at rbp-d, and the variable at rbp-offset reaches   *)
(* up to rbp-(offset-size+1).                                              *)
Bytes(n) == n.offset - Size(n.ty) + 1 .. n.offset

LocalNodes(f) == {n \in f.nodes : n.kind = "lvar"}

(* Every local variable of a complete function lies inside the frame that  *)
(* the prologue makes.                                                     *)
WithinFrame ==
    \A k \in DOMAIN code : \A n \in LocalNodes(code[k]) :
        Bytes(n) \subseteq 1 .. code[k].total_offset

(* No two variables of a function share a byte.                            *)
LocalsDisjoint ==
    \A k \in DOMAIN code : \A m, n \in LocalNodes(code[k]) :
        m.name # n.name => Bytes(m) \cap Bytes(n) = {}

(* All occurrences of a variable address the same place with the same      *)
(* type.                                                                   *)
OccurrencesAgree ==
    \A k \in DOMAIN code : \A m, n \in code[k].nodes :
        m.name = n.name => m = n
=============================================================================
