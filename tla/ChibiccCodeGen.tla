--------------------------- MODULE ChibiccCodeGen ---------------------------
(***************************************************************************)
(* codegen.c of chibicc-learn: the instructions it prints for the objects  *)
(* of a program.  An expression leaves its value in rax; push and pop are  *)
(* counted in depth.  The operators return what the C function of their    *)
(* name prints, given the function fn that is being generated; a node that *)
(* the C code refuses leaves the mark Refused in the text.                 *)
(***************************************************************************)
EXTENDS ChibiccParser, ChibiccFrame, Assembly

ArgReg == <<"rdi", "rsi", "rdx", "rcx", "r8", "r9">>
Refused == <<"error_tok">>

-----------------------------------------------------------------------------
RECURSIVE GenExpr(_, _)

GenAddr(n, fn) ==
    CASE n.kind = "var" /\ n.var.is_local -> <<LeaFrame(Offset(fn, n.var))>>
      [] n.kind = "var" /\ ~n.var.is_local -> <<LeaSymbol(n.var.name)>>
      [] n.kind = "deref" -> GenExpr(n.lhs, fn)
      [] OTHER -> <<Refused>>

(* An array is not loaded: its value is its address.                       *)
LoadValue(ty) ==
    CASE ty.kind = "array" -> <<>>
      [] ty.size = 1 -> <<LoadSigned(1, 8)>>
      [] OTHER -> <<Load(8)>>

(* store.  An error: a char is stored with eight bytes.                    *)
StoreWide(ty) == <<Pop("rdi"), StoreAt("rdi", 0, "rax", 8)>>
StoreValue(ty) == <<Pop("rdi"), StoreAt("rdi", 0, "rax", Width(ty))>>

(* The arguments are pushed in order and popped into their registers, the  *)
(* last one first.                                                         *)
ArgPops(as) == [k \in DOMAIN as |-> Pop(ArgReg[Len(as) + 1 - k])]
GenFuncall(n, fn) ==
    FlattenSeq([k \in DOMAIN n.args |-> GenExpr(n.args[k], fn) \o <<Push("rax")>>])
    \o ArgPops(n.args) \o <<MovImm("rax", 0), CallTo(n.name)>>

(* The operation on rax, the left operand, and rdi, the right.             *)
BinaryOperation(kind) ==
    CASE kind \in {"add", "sub", "mul"} -> <<Alu(kind)>>
      [] kind = "div" -> <<Cqo, Idiv>>
      [] kind \in {"eq", "ne", "lt", "le"} -> <<Cmp, SetByte(kind), MovZeroExtend>>
      [] OTHER -> <<Refused>>

GenExpr(n, fn) ==
    CASE n.kind = "num" -> <<MovImm("rax", n.val)>>
      [] n.kind = "neg" -> GenExpr(n.lhs, fn) \o <<Neg>>
      [] n.kind = "addr" -> GenAddr(n.lhs, fn)
      [] n.kind = "var" -> GenAddr(n, fn) \o LoadValue(n.ty)
      [] n.kind = "deref" -> GenExpr(n.lhs, fn) \o LoadValue(n.ty)
      [] n.kind = "assign" ->
            GenAddr(n.lhs, fn) \o <<Push("rax")>> \o GenExpr(n.rhs, fn) \o StoreValue(n.ty)
      [] n.kind = "funcall" -> GenFuncall(n, fn)
      [] OTHER -> GenExpr(n.rhs, fn) \o <<Push("rax")>> \o GenExpr(n.lhs, fn) \o <<Pop("rdi")>>
                  \o BinaryOperation(n.kind)

-----------------------------------------------------------------------------
RECURSIVE GenStmt(_, _, _)

TestFor(l) == <<CmpZero, Je(l)>>
OptionalStmt(n, fn, c) == IF n.kind = "none" THEN <<>> ELSE GenStmt(n, fn, c)

GenIf(n, fn, c) ==
    LET else == LabelOf(".L.else", c)
        end == LabelOf(".L.end", c)
    IN GenExpr(n.cond, fn) \o TestFor(else) \o GenStmt(n.then, fn, Append(c, 1))
       \o <<Jmp(end), Label(else)>> \o OptionalStmt(n.els, fn, Append(c, 2)) \o <<Label(end)>>

(* A loop.  Errors: it goes back without its third clause; it keeps a      *)
(* value on the stack, and the pop is behind the jump back.                *)
NoInc(n, fn) == <<>>
Inc(n, fn) == IF n.inc.kind = "none" THEN <<>> ELSE GenExpr(n.inc, fn)
GoBackPushing(begin) == <<Push("rax"), Jmp(begin), Pop("rax")>>
GoBack(begin) == <<Jmp(begin)>>
GenFor(n, fn, c) ==
    LET begin == LabelOf(".L.begin", c)
        end == LabelOf(".L.end", c)
    IN OptionalStmt(n.init, fn, Append(c, 1)) \o <<Label(begin)>>
       \o (IF n.cond.kind = "none" THEN <<>> ELSE GenExpr(n.cond, fn) \o TestFor(end))
       \o GenStmt(n.then, fn, Append(c, 2)) \o Inc(n, fn) \o GoBack(begin) \o <<Label(end)>>

ReturnLabel(fn) == LabelOf(".L.return", <<fn.name>>)

GenStmt(n, fn, c) ==
    CASE n.kind = "if" -> GenIf(n, fn, c)
      [] n.kind = "for" -> GenFor(n, fn, c)
      [] n.kind = "block" ->
            FlattenSeq([k \in DOMAIN n.body |-> GenStmt(n.body[k], fn, Append(c, k))])
      [] n.kind = "return" -> GenExpr(n.lhs, fn) \o <<Jmp(ReturnLabel(fn))>>
      [] n.kind = "expr_stmt" -> GenExpr(n.lhs, fn)

-----------------------------------------------------------------------------
(* emit_data, and emit_text for one function.                              *)
Variable(objs) == SelectSeq(objs, LAMBDA o : ~o.is_function)
EmitData(objs) ==
    LET vs == Variable(objs) IN [k \in DOMAIN vs |-> Datum(vs[k].name, vs[k].ty.size, 0)]

SaveParams(fn) ==
    [k \in DOMAIN fn.params |->
        StoreAt("rbp", Offset(fn, fn.params[k]), ArgReg[k], Width(fn.params[k].ty))]
Body(fn) == GenStmt(fn.body, fn, <<fn.name>>)

(* The end of a function gives the frame back.                             *)
Epilogue(fn) == <<Label(ReturnLabel(fn)), Mov("rsp", "rbp"), Pop("rbp"), Ret>>
EmitFunction(fn) ==
    <<Label(Entry(fn.name)), Push("rbp"), Mov("rbp", "rsp"), SubImm("rsp", FrameBytes(fn))>>
    \o SaveParams(fn) \o Body(fn) \o Epilogue(fn)

(* depth after a text: the assertion at the end of each body.              *)
Depth(text) ==
    FoldLeft(LAMBDA d, i : d + (CASE i[1] = "push" -> 1 [] i[1] = "pop" -> -1 [] OTHER -> 0), 0, text)

Functions(objs) == SelectSeq(objs, LAMBDA o : o.is_function)
EmitText(objs) ==
    LET fs == Functions(objs) IN FlattenSeq([k \in DOMAIN fs |-> EmitFunction(fs[k])])

(* main: what the compiler has printed, and how it ends.                   *)
EndOf(objs, code) ==
    IF Refused \in Range(code) THEN "rejected"
    ELSE IF \E o \in Range(Functions(objs)) : Depth(Body(o)) # 0 THEN "aborted"
    ELSE "compiled"
Output(objs, code) ==
    [objs |-> objs, code |-> code, data |-> EmitData(objs), end |-> EndOf(objs, code)]
Outcome(s) ==
    IF Going(s) THEN Output(s.globals, EmitText(s.globals))
    ELSE [objs |-> <<>>, code |-> <<>>, data |-> <<>>, end |-> s.end]
Compiled(text) == Outcome(Parse(text))
=============================================================================
