------------------------------- MODULE Parser -------------------------------
(***************************************************************************)
(* parse.c: from tokens to the nodes of Source.  The C functions share the *)
(* cursor `token' and the lists of variables; here each takes a record s   *)
(* with all of them and returns the one it leaves behind, with its node    *)
(* and the node's type.  s.end says how the compiler ended: "" while it    *)
(* goes on, "rejected" by error_at with a place or by exit, "crashed" by a *)
(* NULL pointer, "hangs" in a loop, "aborted" by the assertion of rehash,  *)
(* "unplaced" by error_at at the end of the file, which reads on behind it *)
(* for the end of the line before it exits, if it gets that far.           *)
(***************************************************************************)
EXTENDS Source

CONSTANT MapLimit      \* how many keys fit in a table (AbstractMap's Limit)

NoType == [kind |-> "none"]         \* the NULL of a node that has no type
TStr == [kind |-> "str", elem |-> "char", size |-> PtrBytes, n |-> 1]

ElemOf(ty) == IF ty.kind = "ptr" THEN "ptr" ELSE ty.elem
PointerType(ty) == [kind |-> "ptr", elem |-> ElemOf(ty), size |-> PtrBytes, n |-> 1]
ArrayType(ty, k) == [kind |-> "array", elem |-> ElemOf(ty), size |-> k * ty.size, n |-> k]
TypeNamed(word) == IF word = "char" THEN TChar ELSE TInt

(* new_type of a global or a function leaves the kind of a char 0, which   *)
(* is TY_INT.                                                              *)
GlobalType(pointer) == IF pointer THEN TPtr ELSE TInt

(* Where parsing starts.  globals is the list in memory, each entry with   *)
(* the place of the next one, 0 for NULL; head is globals_head.            *)
Reader(toks) ==
    [toks |-> toks, at |-> 1, end |-> "", locals |-> <<>>, has_map |-> FALSE,
     globals |-> <<>>, head |-> 0, strs |-> <<>>, label_count |-> 0]

-----------------------------------------------------------------------------
(* The cursor of tokenize.c.                                               *)
Tok(s) == s.toks[s.at]
Going(s) == s.end = ""
EndAs(s, how) == IF Going(s) THEN [s EXCEPT !.end = how] ELSE s
Crash(s) == EndAs(s, "crashed")      \* error_at(NULL, ...) among others
(* error_at looks for the end of the line from the token on: at the token  *)
(* of the end of the file it looks behind the file.                        *)
Reject(s) == EndAs(s, IF Tok(s).kind = "eof" THEN "unplaced" ELSE "rejected")

AtEof(s) == Tok(s).kind = "eof"
EqualToken(s, kind) == Going(s) /\ Tok(s).kind = kind
Sees(s, op) == Going(s) /\ Tok(s).kind \in {"punct", "sizeof"} /\ Tok(s).text = op
(* equal compares as many characters as the token has: none at the end.    *)
Equal(s, op) == Going(s) /\ (Tok(s).text = op \/ AtEof(s))
Advance(s) == IF Going(s) THEN [s EXCEPT !.at = @ + 1] ELSE s
Consume(s, op) == IF Sees(s, op) THEN Advance(s) ELSE s
Expect(s, op) == IF EqualToken(s, "punct") /\ Tok(s).text = op THEN Advance(s) ELSE Reject(s)

Digits == <<"0", "1", "2", "3", "4", "5", "6", "7", "8", "9">>
NumberOf(text) ==
    FoldLeft(LAMBDA v, k : 10 * v + IndexFirstSubSeq(<<SubSeq(text, k, k)>>, Digits) - 1,
             0, [k \in 1 .. Len(text) |-> k])

Returns(n, ty, s) == [node |-> n, ty |-> ty, s |-> s]
Untyped(n, s) == Returns(n, NoType, s)
Fails(s) == Untyped(Nop, s)

-----------------------------------------------------------------------------
(* The lists of variables.                                                 *)
Named(name, vs) == SelectSeq(vs, LAMBDA v : v[1] = name)
FindLvar(s, name) == Named(name, s.locals)

(* find_gvar walks the list from its beginning: where it finds the name, 0 *)
(* at its end, Endless when it comes by an entry again.                    *)
Endless == -1
RECURSIVE WalkFrom(_, _, _, _)
WalkFrom(s, name, k, seen) ==
    CASE k = 0 -> 0
      [] k \in seen -> Endless
      [] k \in DOMAIN s.globals \ seen ->
            IF s.globals[k].name = name THEN k
            ELSE WalkFrom(s, name, s.globals[k].next, seen \cup {k})
FindGvar(s, name) == WalkFrom(s, name, IF s.globals = <<>> THEN 0 ELSE 1, {})

(* toplevel's part for a global: an entry that is found is linked to the   *)
(* end of the list once more.  An error: a new entry points to the first.  *)
NewEntryCircular(name, ty) == [name |-> name, ty |-> ty, next |-> 1]
NewEntry(name, ty) == [name |-> name, ty |-> ty, next |-> 0]
LinkGlobal(s, name, ty) ==
    LET g == FindGvar(s, name)
        all == IF g = 0 THEN Append(s.globals, NewEntry(name, ty)) ELSE s.globals
        k == IF g = 0 THEN Len(all) ELSE g
    IN IF g = Endless THEN EndAs(s, "hangs")
       ELSE [s EXCEPT !.globals = IF s.head = 0 THEN all ELSE [all EXCEPT ![s.head].next = k],
                      !.head = k]

(* new_str: the map gives a literal the number of its last occurrence.     *)
(* An error: label_count stays.                                            *)
NextLabelSame(s) == s.label_count
NextLabel(s) == s.label_count + 1
PutString(s, text) ==
    IF Cardinality(DOMAIN s.strs) >= MapLimit THEN EndAs(s, "aborted")
    ELSE [s EXCEPT !.strs = [x \in DOMAIN @ \cup {text} |-> IF x = text THEN s.label_count ELSE @[x]],
                   !.label_count = NextLabel(s)]

-----------------------------------------------------------------------------
(* Expressions.  Parsed(x, s) is what the function for the nonterminal x   *)
(* returns: the functions call each other through it.                      *)
RECURSIVE Parsed(_, _)
RECURSIVE Level(_, _)
RECURSIVE LevelRest(_, _)
RECURSIVE ArrayRest(_)
RECURSIVE Stars(_, _)
RECURSIVE CallArgs(_, _)

(* equality, relational, add and mul.                                      *)
Operators == <<{"==", "!="}, {"<", "<=", ">", ">="}, {"+", "-"}, {"*", "/"}>>
NewOperation(op, l, r) ==
    CASE op = "==" -> Binary("eq", l, r)
      [] op = "!=" -> Binary("ne", l, r)
      [] op = "<"  -> Binary("lt", l, r)
      [] op = "<=" -> Binary("le", l, r)
      [] op = ">"  -> Binary("lt", r, l)
      [] op = ">=" -> Binary("le", r, l)
      [] op = "+"  -> Binary("add", l, r)
      [] op = "-"  -> Binary("sub", l, r)
      [] op = "*"  -> Binary("mul", l, r)
      [] op = "/"  -> Binary("div", l, r)

Level(k, s) ==
    IF k > Len(Operators) THEN ArrayRest(Parsed("unary", s)) ELSE LevelRest(k, Level(k + 1, s))
(* The operators of a level associate to the left.  An error: to the right.*)
LevelRestRight(k, l) ==
    IF ~\E op \in Operators[k] : Sees(l.s, op) THEN l
    ELSE LET r == Level(k, Advance(l.s))
         IN Untyped(NewOperation(Tok(l.s).text, l.node, r.node), r.s)
LevelRest(k, l) ==
    IF ~\E op \in Operators[k] : Sees(l.s, op) THEN l
    ELSE LET r == Level(k + 1, Advance(l.s))
         IN LevelRest(k, Untyped(NewOperation(Tok(l.s).text, l.node, r.node), r.s))

(* What stands right of = is an equality: a = b = c is refused.            *)
Assignment(s) ==
    LET l == Parsed("equality", s)
        r == Parsed("equality", Advance(l.s))
    IN IF Sees(l.s, "=") THEN Untyped(Assign(l.node, r.node), r.s) ELSE l

(* array takes its indices after unary has taken the signs.                *)
ArrayRest(x) ==
    IF ~Sees(x.s, "[") THEN x
    ELSE LET i == Parsed("expr", Advance(x.s))
         IN ArrayRest(Untyped(Index(x.node, i.node), Expect(i.s, "]")))

(* local_variable for a name that is in neither list; a NULL type is the   *)
(* one of a use.                                                           *)
NewLocal(s, name, ty) ==
    LET size == Parsed("unary", Advance(s))
        array == Sees(s, "[")
        after == IF array THEN Expect(size.s, "]") ELSE s
        full == IF ~array \/ ty = NoType THEN ty
                ELSE ArrayType(ty, IF size.node.kind = "num" THEN size.node.val ELSE 0)
    IN CASE ~Going(after) -> Fails(after)
         [] Going(after) /\ ty = NoType ->
               Fails(IF array \/ s.locals = <<>> THEN Crash(after) ELSE EndAs(s, "rejected"))
         [] Going(after) /\ ty # NoType /\ ~s.has_map -> Fails(Crash(after))
         [] Going(after) /\ ty # NoType /\ s.has_map /\ Len(after.locals) >= MapLimit ->
               Fails(EndAs(after, "aborted"))
         [] OTHER -> Returns(Var(name), full, [after EXCEPT !.locals = Append(@, <<name, full>>)])

(* local_variable: both lists are searched, and a local hides a global.    *)
LocalVariable(s, name, ty) ==
    LET g == FindGvar(s, name)
        l == FindLvar(s, name)
    IN CASE ~Going(s) -> Fails(s)
         [] Going(s) /\ g = Endless -> Fails(EndAs(s, "hangs"))
         [] Going(s) /\ g # Endless /\ l # <<>> -> Returns(Var(name), Head(l)[2], s)
         [] Going(s) /\ g \notin {0, Endless} /\ l = <<>> ->
               Returns(GlobalUse(name, s.globals[g].ty), s.globals[g].ty, s)
         [] OTHER -> NewLocal(s, name, ty)

Stars(s, ty) == IF Sees(s, "*") THEN Stars(Advance(s), PointerType(ty)) ELSE [ty |-> ty, s |-> s]
IdentDeclaration(s) ==
    LET d == Stars(Advance(s), TypeNamed(Tok(s).text))
        x == LocalVariable(Advance(d.s), Tok(d.s).text, d.ty)
    IN IF ~EqualToken(d.s, "ident") THEN Fails(Crash(d.s))
       ELSE IF Going(x.s) THEN [x EXCEPT !.node.is_declaration = TRUE] ELSE x

(* func_call_args: an argument begins with a number, a name or &; at       *)
(* anything else the call is over, with or without its parenthesis.        *)
CallArgs(s, as) ==
    LET a == Parsed("expr", s) IN
    IF EqualToken(s, "num") \/ EqualToken(s, "ident") \/ Equal(s, "&")
    THEN CallArgs(Consume(a.s, ","), Append(as, a.node))
    ELSE [args |-> as, s |-> Consume(s, ")")]

(* A literal is the token between two quotes.                              *)
Literal(s) == s.toks[s.at + 1].text
PastLiteral(s) == [s EXCEPT !.at = @ + 3]

Primary(s) ==
    CASE Sees(s, "(") -> LET e == Parsed("expr", Advance(s)) IN [e EXCEPT !.s = Expect(@, ")")]
      [] EqualToken(s, "type") ->
            LET x == IdentDeclaration(s)
                e == Parsed("expr", Advance(x.s))
            IN IF Sees(x.s, "=") THEN Untyped(Assign(x.node, e.node), e.s) ELSE x
      [] EqualToken(s, "ident") /\ Sees(Advance(s), "(") ->
            LET c == CallArgs(Advance(Advance(s)), <<>>) IN Untyped(Call(Tok(s).text, c.args), c.s)
      [] EqualToken(s, "ident") /\ ~Sees(Advance(s), "(") ->
            LocalVariable(Advance(s), Tok(s).text, NoType)
      [] Sees(s, "\"") ->
            Returns(Str(Literal(s)), TStr, PastLiteral(PutString(s, Literal(s))))
      [] Sees(s, "'") -> Returns([kind |-> "char", ch |-> Literal(s)], TChar, PastLiteral(s))
      [] EqualToken(s, "num") -> Returns(Num(NumberOf(Tok(s).text)), TInt, Advance(s))
      [] OTHER -> Fails(Reject(s))

UnaryExpr(s) ==
    LET operand == Parsed("unary", Advance(s)) IN
    CASE Sees(s, "+") -> Parsed("primary", Advance(s))
      [] Sees(s, "-") -> Untyped(Binary("sub", Num(0), operand.node), operand.s)
      [] Sees(s, "&") -> Untyped(Unary("addr", operand.node), operand.s)
      [] Sees(s, "*") -> Untyped(Unary("deref", operand.node), operand.s)
      [] Sees(s, "sizeof") ->
            IF operand.ty = NoType THEN Fails(Crash(operand.s))
            ELSE Returns(Num(operand.ty.size), TInt, operand.s)
      [] OTHER -> Parsed("primary", s)

-----------------------------------------------------------------------------
(* Statements.                                                             *)
RECURSIVE BlockFrom(_, _)

BlockFrom(s, ns) ==
    IF Sees(s, "}") \/ ~Going(s)
    THEN Untyped(Block(IF ns = <<>> THEN <<Nop>> ELSE ns), Advance(s))
    ELSE LET n == Parsed("stmt", s) IN BlockFrom(n.s, Append(ns, n.node))

Stmt(s) ==
    LET open == Expect(Advance(s), "(")        \* after if, for, while
        whole == Parsed("expr", s)
    IN CASE Sees(s, "{") -> BlockFrom(Advance(s), <<>>)
         [] EqualToken(s, "return") ->
               LET e == Parsed("expr", Advance(s)) IN Untyped(Return(e.node), Expect(e.s, ";"))
         [] EqualToken(s, "if") ->
               LET c == Parsed("expr", open)
                   t == Parsed("stmt", Expect(c.s, ")"))
                   e == IF EqualToken(t.s, "else") THEN Parsed("stmt", Advance(t.s)) ELSE Untyped(NoElse, t.s)
               IN Untyped(If(c.node, t.node, e.node), e.s)
         [] EqualToken(s, "for") ->
               LET i == Parsed("expr", open)
                   c == Parsed("expr", Expect(i.s, ";"))
                   n == Parsed("expr", Expect(c.s, ";"))
                   b == Parsed("stmt", Expect(n.s, ")"))
               IN Untyped(For(i.node, c.node, n.node, b.node), b.s)
         [] EqualToken(s, "while") ->
               LET c == Parsed("expr", open)
                   b == Parsed("stmt", Expect(c.s, ")"))
               IN Untyped(While(c.node, b.node), b.s)
         [] OTHER -> Untyped(whole.node, Expect(whole.s, ";"))

-----------------------------------------------------------------------------
(* toplevel.                                                               *)
RECURSIVE ParamsFrom(_, _)

(* func_args_definition.  A parameter with a default value is the node of  *)
(* an assignment, with neither name nor type.                              *)
ParamOf(x) == <<IF x.node.kind \in {"lvar", "gvar"} THEN x.node.name ELSE "", x.ty>>
ParamsFrom(s, ps) ==
    LET x == Parsed("primary", s)
        after == Consume(x.s, ",")
        all == Append(ps, ParamOf(x))
    IN CASE EqualToken(s, "type") ->
               IF Sees(after, ")") THEN [params |-> all, s |-> Advance(after)]
               ELSE ParamsFrom(after, all)
         [] Sees(s, ")") -> [params |-> ps, s |-> Advance(s)]
         [] OTHER -> [params |-> ps, s |-> Crash(s)]

FunctionFrom(s, name) ==
    LET ps == ParamsFrom([s EXCEPT !.locals = <<>>, !.has_map = TRUE], <<>>)
        b == Parsed("stmt", ps.s)
        rest == SelectSeq(b.s.locals, LAMBDA v : Named(v[1], ps.params) = <<>>)
    IN IF ~Equal(ps.s, "{") THEN Fails(Reject(ps.s))
       ELSE Untyped(Function(name, ps.params, rest, b.node), b.s)

GlobalFrom(s, name, ty) ==
    LET linked == LinkGlobal(s, name, ty)
        x == Gvar(name, ty)
        r == Parsed("equality", [Advance(linked) EXCEPT !.has_map = FALSE])
    IN IF Sees(linked, "=") THEN Untyped(Assign(x, r.node), Expect(r.s, ";"))
       ELSE Untyped(x, Expect(linked, ";"))

(* The star of a pointer is looked for after the name.  A global array     *)
(* ends the compiler.                                                      *)
Toplevel(s) ==
    LET named == Advance(Advance(s))
        name == Tok(Advance(s)).text
        ty == GlobalType(Sees(named, "*"))
        t == Consume(named, "*")
    IN IF ~EqualToken(s, "type") \/ ~EqualToken(Advance(s), "ident") THEN Fails(Crash(s))
       ELSE CASE Sees(t, "(") -> FunctionFrom(Advance(t), name)
              [] Sees(t, "[") -> Fails(EndAs(s, "rejected"))
              [] OTHER -> GlobalFrom(t, name, ty)

Parsed(x, s) ==
    CASE x = "toplevel" -> Toplevel(s)
      [] x = "stmt"     -> Stmt(s)
      [] x = "expr"     -> Assignment(s)
      [] x = "equality" -> Level(1, s)
      [] x = "unary"    -> UnaryExpr(s)
      [] x = "primary"  -> Primary(s)

(* One round of program.                                                   *)
Program(s) == Parsed("toplevel", s)
=============================================================================
