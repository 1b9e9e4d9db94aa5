------------------------------ MODULE CodeGen ------------------------------
(***************************************************************************)
(* codegen.c for functions and global variables over int, char, int * and  *)
(* int[]: the instructions that gen prints for a syntax tree.  The         *)
(* operators have the names of the C functions they translate and return   *)
(* what those print, given the frame fr that parse.c has laid out (name -> *)
(* type and offset from rbp down).                                         *)
(* The one static that changes what is printed is rsp_offset: the text     *)
(* carries the marks IntDeclared and Adjust where the code changes or      *)
(* tests it, and TextOf, which reads the text in the order in which it is  *)
(* printed, puts the padding in.                                           *)
(***************************************************************************)
EXTENDS Source, Assembly

(* Two marks in the text that are no instructions.                         *)
IntDeclared == <<"int_declared">>        \* mark: rsp_offset += 4
Adjust == <<"adjust_rsp">>               \* mark: adjust_rsp is called

(* The type that parse.c has put in the node of a variable.                *)
TypeIn(fr, n) == IF n.kind = "gvar" THEN n.ty ELSE fr[n.name].ty

(* What set_register_name chooses: an array is stored by elements.         *)
Width(ty) ==
    CASE ty.kind = "ptr" -> PtrBytes
      [] ty.kind = "array" -> IF ty.elem = "char" THEN 1 ELSE IntBytes
      [] ty.kind = "char" -> 1
      [] OTHER -> IntBytes

-----------------------------------------------------------------------------
(* rsp_offset, modulo 8, when item i of the text is printed: each int      *)
(* declared adds 4, and adjust_rsp leaves a multiple of 8 behind.          *)
RspOffset(is, i) ==
    LET since == {j \in 1 .. i - 1 : \A k \in j .. i - 1 : is[k] # Adjust}
    IN 4 * Cardinality({j \in since : is[j] = IntDeclared}) % 8

(* adjust_rsp: sub rsp, 4 unless rsp_offset is a multiple of 8.            *)
AdjustRsp(is, i) == RspOffset(is, i) = 4

TextOf(is) ==
    LET printed == SelectSeq([i \in DOMAIN is |-> i],
                             LAMBDA i : /\ is[i] # IntDeclared
                                        /\ is[i] = Adjust => AdjustRsp(is, i))
    IN [k \in DOMAIN printed |->
           IF is[printed[k]] = Adjust THEN SubImm("rsp", 4) ELSE is[printed[k]]]

(* Which occurrences of a variable gen_lvar_addr adds to rsp_offset.  An   *)
(* error: every use of an int.                                             *)
CountedEveryUse(n, fr) == IF TypeIn(fr, n).kind = "int" THEN <<IntDeclared>> ELSE <<>>
Counted(n, fr) ==
    IF TypeIn(fr, n).kind = "int" /\ n.is_declaration THEN <<IntDeclared>> ELSE <<>>

(* gen_lvar_addr.  The declaration of an array also stores edi in its      *)
(* first element and pushes the address a second time.                     *)
GenLvarAddr(n, fr) ==
    Counted(n, fr) \o <<Mov("rax", "rbp"), SubImm("rax", fr[n.name].offset), Push("rax")>>
    \o IF TypeIn(fr, n).kind = "array" /\ n.is_declaration
       THEN <<Store("rdi", Width(TypeIn(fr, n))), Push("rax")>> ELSE <<>>

(* gen_gvar_value.  The value of a global that is no pointer is there      *)
(* already; gen_var_preprocess takes it for an address nevertheless.       *)
GenGvarValue(n) ==
    <<IF n.ty.kind = "ptr" THEN LeaSymbol(n.name) ELSE LoadSymbol(n.name), Push("rax")>>

(* gen_var_preprocess: the address on the stack becomes the value there,   *)
(* except for an array that is dereferenced.  has_index is never set, so   *)
(* it is 0 here.                                                           *)
GenVarPreprocess(n, is_dereference, fr) ==
    IF TypeIn(fr, n).kind = "array" /\ is_dereference THEN <<>>
    ELSE <<Pop("rax"),
           CASE TypeIn(fr, n).kind = "int" -> Load(IntBytes)
             [] TypeIn(fr, n).kind = "char" -> LoadSigned(1, IntBytes)
             [] OTHER -> Load(PtrBytes),
           Push("rax")>>

(* The operation of gen_calculator on rax and rdi.                         *)
Operation(op) ==
    CASE op \in {"add", "sub", "mul"} -> <<Alu(op)>>
      [] op = "div" -> <<Cqo, Idiv>>
      [] OTHER -> <<Cmp, SetByte(op), MovZeroExtend>>

(* A number next to a variable that is a pointer or an array is scaled.    *)
(* An error: only next to a pointer.                                       *)
ScaledByPointers(m, other, fr) ==
    IF m.kind = "num" /\ other.kind = "lvar" /\ TypeIn(fr, other).kind = "ptr"
    THEN Num(m.val * 4) ELSE m
Scaled(m, other, fr) ==
    IF /\ m.kind = "num" /\ other.kind = "lvar"
       /\ TypeIn(fr, other).kind \in {"ptr", "array"}
    THEN Num(m.val * 4) ELSE m

(* deref_type.                                                             *)
RECURSIVE DerefType(_, _)
DerefType(n, fr) ==
    CASE n.kind \in {"deref", "add"} -> DerefType(n.lhs, fr)
      [] n.kind = "num" -> TInt
      [] TypeIn(fr, n).kind = "ptr" -> TInt
      [] OTHER -> TypeIn(fr, n)

(* What set_register_name picks for the store of an assignment.            *)
StoreType(n, fr) ==
    IF n.kind = "deref" THEN DerefType(n, fr) ELSE TypeIn(fr, n)

ArgRegister == <<"rdi", "rsi", "rdx", "rcx", "r8", "r9">>

(* The order gen_func_call walks the arguments in: func_call_args built    *)
(* the list from the last to the first.                                    *)
ArgOrder(as) == [k \in DOMAIN as |-> Len(as) + 1 - k]

-----------------------------------------------------------------------------
RECURSIVE GenExpr(_, _, _)
RECURSIVE GenLhsDeref(_, _)

GenCalculator(n, is_dereference, fr) ==
    GenExpr(Scaled(n.lhs, n.rhs, fr), is_dereference, fr)
    \o GenExpr(Scaled(n.rhs, n.lhs, fr), is_dereference, fr)
    \o <<Pop("rdi"), Pop("rax")>> \o Operation(n.kind)

(* The address a dereferenced left-hand side stands for.                   *)
GenLhsDeref(n, fr) ==
    CASE n.kind = "lvar" ->
            GenLvarAddr(n, fr)
            \o IF TypeIn(fr, n).kind = "array" THEN <<>>
               ELSE <<Pop("rax"), Load(PtrBytes), Push("rax")>>
      [] n.kind = "deref" -> GenLhsDeref(n.lhs, fr)
      [] n.kind = "add" -> GenCalculator(n, TRUE, fr) \o <<Push("rax")>>
      [] OTHER -> <<>>

(* gen_gvar_assign: the value that the assignment leaves is the one it     *)
(* stored, with the bytes behind it.  An error: always the whole register. *)
GlobalWidthWhole(ty) == PtrBytes
GlobalWidth(ty) ==
    CASE ty.kind = "int" -> IntBytes [] ty.kind = "char" -> 1 [] OTHER -> PtrBytes
GenGvarAssign(n, fr) ==
    GenExpr(n.rhs, FALSE, fr)
    \o <<Pop("rax"), StoreSymbol(n.lhs.name, GlobalWidth(n.lhs.ty)), PushSymbol(n.lhs.name)>>

(* The value that any other assignment leaves is the address it stored to. *)
GenAssign(n, is_dereference, fr) ==
    LET ofArray == /\ n.lhs.kind = "lvar" /\ TypeIn(fr, n.lhs).kind = "ptr"
                   /\ n.rhs.kind = "lvar" /\ TypeIn(fr, n.rhs).kind = "array"
    IN (IF n.lhs.kind = "lvar" THEN GenLvarAddr(n.lhs, fr) ELSE GenLhsDeref(n.lhs, fr))
       \o (IF ofArray THEN GenLvarAddr(n.rhs, fr) ELSE GenExpr(n.rhs, is_dereference, fr))
       \o <<Pop("rdi"), Pop("rax"),
            Store("rdi", Width(StoreType(n.lhs, fr))), Push("rax")>>

(* gen_func_call: each argument is computed and goes to its register; only *)
(* six of them have one.                                                   *)
GenFuncCall(n, fr) ==
    LET Arg(k) == GenExpr(n.args[k], FALSE, fr) \o <<Pop("rax"), Mov(ArgRegister[k], "rax")>>
        numbered == SelectSeq(ArgOrder(n.args), LAMBDA k : k <= 6)
    IN FlattenSeq([j \in DOMAIN numbered |-> Arg(numbered[j])]) \o <<CallTo(n.name)>>

GenExpr(n, is_dereference, fr) ==
    CASE n.kind = "num" -> <<PushImm(n.val)>>
      [] n.kind = "lvar" -> GenLvarAddr(n, fr) \o GenVarPreprocess(n, is_dereference, fr)
      [] n.kind = "str" -> <<LeaSymbol(n.str), Push("rax")>>
      [] n.kind = "gvar" -> GenGvarValue(n) \o GenVarPreprocess(n, is_dereference, fr)
      [] n.kind = "addr" -> GenLvarAddr(n.lhs, fr)
      [] n.kind = "deref" ->
            GenExpr(n.lhs, TRUE, fr) \o <<Pop("rax"), Load(PtrBytes), Push("rax")>>
      [] n.kind = "assign" /\ n.lhs.kind = "gvar" -> GenGvarAssign(n, fr)
      [] n.kind = "assign" -> GenAssign(n, is_dereference, fr)
      [] n.kind = "call" -> GenFuncCall(n, fr) \o <<Push("rax")>>
      [] OTHER -> GenCalculator(n, is_dereference, fr) \o <<Push("rax")>>

-----------------------------------------------------------------------------
(* The epilogue of a return.  An error: the frame is not given up.         *)
EpilogueWithoutFrame == <<Pop("rax"), Pop("rbp"), Ret>>
Epilogue == <<Pop("rax"), Mov("rsp", "rbp"), Pop("rbp"), Ret>>

(* What a statement does with the value of its expression.  An error: the  *)
(* value stays on the stack.                                               *)
ValueKept == <<>>
ValueDropped == <<Pop("rax")>>

(* The end of a test: rax is compared, and when it is zero control goes to *)
(* the label.                                                              *)
Test(l) == <<Pop("rax"), CmpZero, Adjust, Je(l)>>
JumpTo(l) == <<Adjust, Jmp(l)>>
Mark(l) == <<Label(l)>>

RECURSIVE GenStmt(_, _, _)

(* The third clause of a for.  An error: it is not generated.              *)
ForStepForgotten(n, fr) == <<>>
ForStep(n, fr) == GenExpr(n.inc, FALSE, fr) \o <<Pop("rax")>>

GenFor(n, fr, c) ==
    LET begin == LabelOf("for.begin", c)
        end == LabelOf("for.end", c)
    IN GenExpr(n.init, FALSE, fr) \o <<Pop("rax")>> \o JumpTo(begin) \o Mark(begin)
       \o GenExpr(n.cond, FALSE, fr) \o Test(end)
       \o GenStmt(n.then, fr, Append(c, 1)) \o ForStep(n, fr) \o JumpTo(begin) \o Mark(end)

GenWhile(n, fr, c) ==
    LET begin == LabelOf("while.begin", c)
        end == LabelOf("while.end", c)
    IN JumpTo(begin) \o Mark(begin) \o GenExpr(n.cond, FALSE, fr) \o Test(end)
       \o GenStmt(n.then, fr, Append(c, 1)) \o JumpTo(begin) \o Mark(end)

GenIf(n, fr, c) ==
    LET else == LabelOf("else", c)
        end == LabelOf("end", c)
    IN GenExpr(n.cond, FALSE, fr) \o Test(else) \o GenStmt(n.then, fr, Append(c, 1))
       \o JumpTo(end) \o Mark(else) \o GenStmt(n.els, fr, Append(c, 2)) \o Mark(end)

GenStmt(n, fr, c) ==
    CASE n.kind = "return" /\ n.lhs.kind = "gvar" ->
            <<LoadSymbol(n.lhs.name), Push("rax")>> \o Epilogue
      [] n.kind = "return" -> GenExpr(n.lhs, FALSE, fr) \o Epilogue
      [] n.kind = "block" ->
            FlattenSeq([k \in DOMAIN n.body |-> GenStmt(n.body[k], fr, Append(c, k))])
      [] n.kind = "for" -> GenFor(n, fr, c)
      [] n.kind = "while" -> GenWhile(n, fr, c)
      [] n.kind = "if" -> GenIf(n, fr, c)
      [] n.kind = "no_else" -> <<>>
      [] n.kind = "nop" -> <<NoOperation>>
      [] OTHER -> GenExpr(n, FALSE, fr) \o ValueDropped

-----------------------------------------------------------------------------
(* The frame of a function as parse.c lays it out (module Frame): the      *)
(* body's variables start at the sum of the parameters' offsets.           *)
SizeSum(vs) == FoldLeft(LAMBDA t, v : t + v[2].size, 0, vs)
ParamsTotal(f) == FoldLeft(LAMBDA t, k : t + SizeSum(SubSeq(f.params, 1, k)), 0,
                           [k \in DOMAIN f.params |-> k])
TotalOffset(f) == ParamsTotal(f) + SizeSum(f.locals)

FrameOf(f) ==
    LET vs == f.params \o f.locals
        P == Len(f.params)
        Start(k) == IF k <= P THEN SizeSum(SubSeq(vs, 1, k - 1))
                    ELSE ParamsTotal(f) + SizeSum(SubSeq(vs, P + 1, k - 1))
        IndexOf(x) == CHOOSE k \in DOMAIN vs : vs[k][1] = x
    IN [x \in {vs[k][1] : k \in DOMAIN vs} |->
           [ty |-> vs[IndexOf(x)][2], offset |-> TotalOffset(f) - Start(IndexOf(x))]]

(* What the prologue takes from rsp.  An error: the parameters' part only. *)
FrameSizeOfParams(f) == ParamsTotal(f)
FrameSize(f) == TotalOffset(f)

(* gen_func.  A parameter that is no int is stored as a whole register.    *)
ParamWidth(ty) == IF ty.kind = "int" THEN IntBytes ELSE PtrBytes
GenFunc(f) ==
    LET frame == FrameOf(f)
        Arg(k) == <<Mov("rax", "rbp"), SubImm("rax", frame[f.params[k][1]].offset),
                    Store(ArgRegister[k], ParamWidth(f.params[k][2]))>>
        prologue == <<Label(Entry(f.name)), Push("rbp"), Mov("rbp", "rsp"),
                      SubImm("rsp", FrameSize(f))>>
        ordered == ArgOrder(f.params)
    IN prologue \o FlattenSeq([k \in DOMAIN ordered |-> Arg(ordered[k])])
       \o GenStmt(f.body, frame, <<f.name>>)

(* gen_gvar: an int starts with its size.                                  *)
GenGvar(g) == Datum(g.name, g.ty.size, IF g.ty.kind = "int" THEN g.ty.size ELSE 0)

(* gen, for each function and each global variable of the program.  main   *)
(* has printed the literals before, each once; what they hold plays no     *)
(* part here, and the text is the label.                                   *)
OfKind(p, kind) == SelectSeq(p, LAMBDA i : i.kind = kind)
Compile(p) ==
    LET fs == OfKind(p, "func") IN FlattenSeq([k \in DOMAIN fs |-> TextOf(GenFunc(fs[k]))])
DataOf(p, is) ==
    LET gs == OfKind(p, "gvar")
        named == {is[k][2] : k \in {j \in DOMAIN is : is[j][1] = "lea_symbol"}}
        strs == SetToSeq(named \ {gs[k].name : k \in DOMAIN gs})
    IN [k \in DOMAIN strs |-> Datum(strs[k], Len(strs[k]) + 1, 0)]
       \o [k \in DOMAIN gs |-> GenGvar(gs[k])]
=============================================================================
