--------------------------- MODULE ChibiccParser ---------------------------
(***************************************************************************)
(* tokenize.c, parse.c and type.c of chibicc-learn: from the text of a     *)
(* program to its objects.  The parse functions of the C code take a token *)
(* and give back the one they stopped at; here they take and give back a   *)
(* record s with the tokens, the place in them, the two lists of variables *)
(* (newest first, as they are linked) and how it ended: "" while the       *)
(* parser goes on, "rejected" by error_tok, "crashed" by a NULL pointer.   *)
(* A node carries the type that add_type gives it.                         *)
(***************************************************************************)
EXTENDS Integers, Sequences, FiniteSets, SequencesExt

-----------------------------------------------------------------------------
(* tokenize.c.  A text is a string; past its end is the NUL.               *)
CharAt(in, k) == SubSeq(in, k, k)
Space == {" ", "\n", "\t"}
Digits == {"0", "1", "2", "3", "4", "5", "6", "7", "8", "9"}
IdentFirst ==
    {"a", "b", "c", "d", "e", "f", "g", "h", "i", "j", "k", "l", "m", "n", "o", "p", "q", "r", "s",
     "t", "u", "v", "w", "x", "y", "z", "A", "B", "C", "D", "E", "F", "G", "H", "I", "J", "K", "L",
     "M", "N", "O", "P", "Q", "R", "S", "T", "U", "V", "W", "X", "Y", "Z", "_"}
IdentRest == IdentFirst \cup Digits
TwoPunct == {"==", "!=", "<=", ">="}
Punct == {"!", "\"", "#", "$", "%", "&", "'", "(", ")", "*", "+", ",", "-", ".", "/", ":", ";",
          "<", "=", ">", "?", "@", "[", "\\", "]", "^", "{", "|", "}", "~"}
Keyword == {"return", "if", "else", "for", "while", "int", "sizeof", "char"}

(* The first place from k on that is not in S.                             *)
PastSpan(in, k, S) ==
    CHOOSE q \in k .. Len(in) + 1 :
        /\ \A j \in k .. q - 1 : CharAt(in, j) \in S
        /\ q = Len(in) + 1 \/ CharAt(in, q) \notin S

ReadPunct(in, k) ==
    IF k < Len(in) /\ SubSeq(in, k, k + 1) \in TwoPunct THEN 2
    ELSE IF CharAt(in, k) \in Punct THEN 1 ELSE 0

(* The token of a kind from k to before q; an identifier may be a keyword. *)
TokenOf(in, kind, k, q) ==
    LET text == SubSeq(in, k, q - 1)
    IN [kind |-> IF text \in Keyword THEN "keyword" ELSE kind, text |-> text]
EofToken == [kind |-> "eof", text |-> ""]
BadToken == [kind |-> "bad", text |-> ""]

RECURSIVE TokensFrom(_, _)
TokensFrom(in, k) ==
    LET Then(kind, q) == <<TokenOf(in, kind, k, q)>> \o TokensFrom(in, q)
    IN CASE k > Len(in) -> <<EofToken>>
         [] CharAt(in, k) \in Space -> TokensFrom(in, k + 1)
         [] CharAt(in, k) \in Digits -> Then("num", PastSpan(in, k, Digits))
         [] CharAt(in, k) \in IdentFirst -> Then("ident", PastSpan(in, k, IdentRest))
         [] ReadPunct(in, k) > 0 -> Then("punct", k + ReadPunct(in, k))
         [] OTHER -> <<BadToken>>
Tokenize(in) == TokensFrom(in, 1)

(* strtoul.                                                                *)
DigitValue(c) == CHOOSE v \in 0 .. 9 : c = SubSeq("0123456789", v + 1, v + 1)
RECURSIVE NumberOf(_)
NumberOf(text) ==
    IF text = "" THEN 0
    ELSE 10 * NumberOf(SubSeq(text, 1, Len(text) - 1)) + DigitValue(CharAt(text, Len(text)))

-----------------------------------------------------------------------------
(* type.c.                                                                 *)
NoType == [kind |-> "none"]
TyChar == [kind |-> "char", size |-> 1, base |-> NoType]
TyInt == [kind |-> "int", size |-> 8, base |-> NoType]
PointerTo(base) == [kind |-> "ptr", size |-> 8, base |-> base]
ArrayOf(base, len) == [kind |-> "array", size |-> base.size * len, base |-> base]
FuncType(params) == [kind |-> "func", size |-> 0, base |-> NoType, params |-> params]

IsInteger(ty) == ty.kind \in {"char", "int"}
HasBase(ty) == ty.base # NoType

(* What add_type refuses, and the type it gives to a node whose children   *)
(* have theirs.  The C code types a whole statement when it is complete;   *)
(* here each node is typed when it is made.  An error: an array may be     *)
(* assigned to.                                                            *)
ArrayAssignable(n) == n.kind = "deref" /\ ~HasBase(n.lhs.ty)
IllTyped(n) ==
    \/ n.kind = "assign" /\ n.lhs.ty.kind = "array"
    \/ n.kind = "deref" /\ ~HasBase(n.lhs.ty)
AddType(n) ==
    CASE n.kind \in {"add", "sub", "mul", "div", "neg", "assign"} -> n.lhs.ty
      [] n.kind \in {"eq", "ne", "lt", "le", "num", "funcall"} -> TyInt
      [] n.kind = "var" -> n.var.ty
      [] n.kind = "addr" ->
            PointerTo(IF n.lhs.ty.kind = "array" THEN n.lhs.ty.base ELSE n.lhs.ty)
      [] n.kind = "deref" -> n.lhs.ty.base

-----------------------------------------------------------------------------
(* The token cursor.                                                       *)
Tok(s) == s.toks[s.at]
Going(s) == s.end = ""
IsKind(s, kind) == Going(s) /\ Tok(s).kind = kind
Equal(s, w) == Going(s) /\ Tok(s).text = w
OneOf(s, W) == Going(s) /\ Tok(s).text \in W
Ends(s, how) == IF Going(s) THEN [s EXCEPT !.end = how] ELSE s
Reject(s) == Ends(s, "rejected")
Advance(s) == IF Going(s) THEN [s EXCEPT !.at = @ + 1] ELSE s
Skip(s, w) == IF Equal(s, w) THEN Advance(s) ELSE Reject(s)

(* Nodes.  A parse function returns a node with the record s.              *)
NewNum(v) == [kind |-> "num", val |-> v, ty |-> TyInt]
NoNode == [kind |-> "none", ty |-> NoType]
Returns(n, s) == [node |-> n, s |-> s]
Rejected(s) == Returns(NewNum(0), Reject(s))
Typed(n, s) ==
    IF ~Going(s) \/ IllTyped(n) THEN Rejected(s)
    ELSE Returns([n EXCEPT !.ty = AddType(n)], s)
NewUnary(kind, l, s) == Typed([kind |-> kind, lhs |-> l, ty |-> NoType], s)
NewBinary(kind, l, r, s) == Typed([kind |-> kind, lhs |-> l, rhs |-> r, ty |-> NoType], s)
NewVarNode(v, s) == Typed([kind |-> "var", var |-> v, ty |-> NoType], s)

(* The lists of variables.  id tells apart the objects of one name.        *)
NewVar(name, ty, local, id) == [name |-> name, ty |-> ty, is_local |-> local, id |-> id]
NewLvar(s, name, ty) ==
    [s EXCEPT !.locals = <<NewVar(name, ty, TRUE, Len(s.locals))>> \o @]
NewGvar(s, obj) == [s EXCEPT !.globals = <<obj>> \o @]

(* find_var: the locals, then the globals, the newest first.               *)
Called(vs, name) == SelectSeq(vs, LAMBDA v : v.name = name)
FindVar(s, name) == Called(s.locals \o s.globals, name)

-----------------------------------------------------------------------------
(* Declarations.                                                           *)
RECURSIVE Declarator(_, _)
RECURSIVE TypeSuffix(_, _)
RECURSIVE ParamsFrom(_, _)
RECURSIVE Stars(_, _)

Declspec(s) ==
    IF Equal(s, "char") THEN [ty |-> TyChar, s |-> Advance(s)]
    ELSE [ty |-> TyInt, s |-> Skip(s, "int")]

(* func_params, up to the closing parenthesis.                             *)
ParamsFrom(s, ps) ==
    IF Equal(s, ")") \/ ~Going(s) THEN [params |-> ps, s |-> Advance(s)]
    ELSE LET base == Declspec(IF ps = <<>> THEN s ELSE Skip(s, ","))
             d == Declarator(base.s, base.ty)
         IN ParamsFrom(d.s, Append(ps, [name |-> d.name, ty |-> d.ty]))

TypeSuffix(s, ty) ==
    CASE Equal(s, "(") ->
            LET ps == ParamsFrom(Advance(s), <<>>) IN [ty |-> FuncType(ps.params), s |-> ps.s]
      [] Equal(s, "[") ->
            LET len == Advance(s) IN
            IF ~IsKind(len, "num") THEN [ty |-> ty, s |-> Reject(s)]
            ELSE LET t == TypeSuffix(Skip(Advance(len), "]"), ty)
                 IN [t EXCEPT !.ty = ArrayOf(@, NumberOf(Tok(len).text))]
      [] OTHER -> [ty |-> ty, s |-> s]

Stars(s, ty) ==
    IF Equal(s, "*") THEN Stars(Advance(s), PointerTo(ty)) ELSE [ty |-> ty, s |-> s]

Declarator(s, ty) ==
    LET p == Stars(s, ty) IN
    IF ~IsKind(p.s, "ident") THEN [ty |-> ty, name |-> "", s |-> Reject(p.s)]
    ELSE LET t == TypeSuffix(Advance(p.s), p.ty)
         IN [ty |-> t.ty, name |-> Tok(p.s).text, s |-> t.s]

-----------------------------------------------------------------------------
(* Expressions.  Parsed(x, s) is what the function for the nonterminal x   *)
(* returns: the functions call each other through it.                      *)
RECURSIVE Parsed(_, _)
RECURSIVE Level(_, _)
RECURSIVE LevelRest(_, _)
RECURSIVE PostfixRest(_)
RECURSIVE ArgsFrom(_, _)

(* The binary operators, from the loosest to the tightest.                 *)
Operators == <<{"==", "!="}, {"<", "<=", ">", ">="}, {"+", "-"}, {"*", "/"}>>

(* new_add and new_sub: a number next to a pointer counts elements.  A     *)
(* name of a function has neither an integer's type nor a base.            *)
Times(n, ptr, s) == NewBinary("mul", n, NewNum(ptr.ty.base.size), s).node
NewAdd(l, r, s) ==
    CASE IsInteger(l.ty) /\ IsInteger(r.ty) -> NewBinary("add", l, r, s)
      [] HasBase(l.ty) /\ HasBase(r.ty) -> Rejected(s)
      [] HasBase(l.ty) -> NewBinary("add", l, Times(r, l, s), s)
      [] HasBase(r.ty) -> NewBinary("add", r, Times(l, r, s), s)
      [] OTHER -> Returns(NewNum(0), Ends(s, "crashed"))
NewSub(l, r, s) ==
    CASE IsInteger(l.ty) /\ IsInteger(r.ty) -> NewBinary("sub", l, r, s)
      [] HasBase(l.ty) /\ IsInteger(r.ty) -> NewBinary("sub", l, Times(r, l, s), s)
      [] HasBase(l.ty) /\ HasBase(r.ty) ->
            LET bytes == [NewBinary("sub", l, r, s).node EXCEPT !.ty = TyInt]
            IN NewBinary("div", bytes, NewNum(l.ty.base.size), s)
      [] OTHER -> Rejected(s)

(* The node of an operator; > and >= change sides.                         *)
NewOperation(op, l, r, s) ==
    CASE op = "==" -> NewBinary("eq", l, r, s)
      [] op = "!=" -> NewBinary("ne", l, r, s)
      [] op = "<"  -> NewBinary("lt", l, r, s)
      [] op = "<=" -> NewBinary("le", l, r, s)
      [] op = ">"  -> NewBinary("lt", r, l, s)
      [] op = ">=" -> NewBinary("le", r, l, s)
      [] op = "+"  -> NewAdd(l, r, s)
      [] op = "-"  -> NewSub(l, r, s)
      [] op = "*"  -> NewBinary("mul", l, r, s)
      [] op = "/"  -> NewBinary("div", l, r, s)

Assignment(s) ==
    LET l == Level(1, s) IN
    IF ~Equal(l.s, "=") THEN l
    ELSE LET r == Parsed("expr", Advance(l.s)) IN NewBinary("assign", l.node, r.node, r.s)

Level(k, s) == IF k > Len(Operators) THEN Parsed("unary", s) ELSE LevelRest(k, Level(k + 1, s))

(* The operators of one level associate to the left.  An error: to the     *)
(* right.                                                                  *)
LevelRestRight(k, l) ==
    IF ~OneOf(l.s, Operators[k]) THEN l
    ELSE LET r == Level(k, Advance(l.s))
         IN NewOperation(Tok(l.s).text, l.node, r.node, r.s)
LevelRest(k, l) ==
    IF ~OneOf(l.s, Operators[k]) THEN l
    ELSE LET r == Level(k + 1, Advance(l.s))
         IN LevelRest(k, NewOperation(Tok(l.s).text, l.node, r.node, r.s))

(* funcall, up to the closing parenthesis.                                 *)
ArgsFrom(s, as) ==
    IF Equal(s, ")") \/ ~Going(s) THEN [args |-> as, s |-> Skip(s, ")")]
    ELSE LET a == Parsed("expr", IF as = <<>> THEN s ELSE Skip(s, ",")) IN ArgsFrom(a.s, Append(as, a.node))

Primary(s) ==
    CASE Equal(s, "(") -> LET e == Parsed("expr", Advance(s)) IN Returns(e.node, Skip(e.s, ")"))
      [] Equal(s, "sizeof") ->
            LET e == Parsed("unary", Advance(s)) IN Returns(NewNum(e.node.ty.size), e.s)
      [] IsKind(s, "ident") /\ Equal(Advance(s), "(") ->
            LET as == ArgsFrom(Advance(Advance(s)), <<>>)
            IN Typed([kind |-> "funcall", name |-> Tok(s).text, args |-> as.args, ty |-> NoType], as.s)
      [] IsKind(s, "ident") /\ ~Equal(Advance(s), "(") ->
            LET found == FindVar(s, Tok(s).text)
            IN IF found = <<>> THEN Rejected(s)
               ELSE NewVarNode(Head(found), Advance(s))
      [] IsKind(s, "num") -> Returns(NewNum(NumberOf(Tok(s).text)), Advance(s))
      [] OTHER -> Rejected(s)

(* postfix: a[i] is *(a + i).                                              *)
PostfixRest(a) ==
    IF ~Equal(a.s, "[") THEN a
    ELSE LET i == Parsed("expr", Advance(a.s))
             sum == NewAdd(a.node, i.node, Skip(i.s, "]"))
         IN PostfixRest(NewUnary("deref", sum.node, sum.s))

UnaryExpr(s) ==
    LET operand == Parsed("unary", Advance(s)) IN
    CASE Equal(s, "+") -> operand
      [] Equal(s, "-") -> NewUnary("neg", operand.node, operand.s)
      [] Equal(s, "&") -> NewUnary("addr", operand.node, operand.s)
      [] Equal(s, "*") -> NewUnary("deref", operand.node, operand.s)
      [] OTHER -> PostfixRest(Primary(s))

-----------------------------------------------------------------------------
(* Statements.                                                             *)
RECURSIVE StatementsFrom(_, _)
RECURSIVE DeclaratorsFrom(_, _, _, _)

BlockOf(ns) == [kind |-> "block", body |-> ns]
ExprStmtOf(n) == [kind |-> "expr_stmt", lhs |-> n]
EmptyStmt == BlockOf(<<>>)

(* declaration, up to the semicolon: each declarator makes a local, and    *)
(* its initial value is an assignment.                                     *)
Declared(d) == IF Going(d.s) THEN NewLvar(d.s, d.name, d.ty) ELSE d.s
Initialized(t, r) ==
    LET x == NewVarNode(Head(t.locals), r.s) IN NewBinary("assign", x.node, r.node, x.s)
Initializer(t) ==
    IF ~Equal(t, "=") THEN [nodes |-> <<>>, s |-> t]
    ELSE LET n == Initialized(t, Parsed("expr", Advance(t)))
         IN [nodes |-> <<ExprStmtOf(n.node)>>, s |-> n.s]
DeclaratorsFrom(s, base, first, ns) ==
    IF Equal(s, ";") \/ ~Going(s) THEN Returns(BlockOf(ns), Advance(s))
    ELSE LET i == Initializer(Declared(Declarator(IF first THEN s ELSE Skip(s, ","), base)))
         IN DeclaratorsFrom(i.s, base, FALSE, ns \o i.nodes)
Declaration(s) == LET base == Declspec(s) IN DeclaratorsFrom(base.s, base.ty, TRUE, <<>>)

ExprStmt(s) ==
    IF Equal(s, ";") THEN Returns(EmptyStmt, Advance(s))
    ELSE LET e == Parsed("expr", s) IN Returns(ExprStmtOf(e.node), Skip(e.s, ";"))

(* An expression that may be left out before the token w.                  *)
Optional(s, w) == IF Equal(s, w) THEN Returns(NoNode, s) ELSE Parsed("expr", s)

ReturnStmt(s) ==
    LET e == Parsed("expr", s) IN Returns([kind |-> "return", lhs |-> e.node], Skip(e.s, ";"))

IfStmt(s) ==
    LET c == Parsed("expr", Skip(s, "("))
        t == Parsed("stmt", Skip(c.s, ")"))
        e == IF Equal(t.s, "else") THEN Parsed("stmt", Advance(t.s)) ELSE Returns(NoNode, t.s)
    IN Returns([kind |-> "if", cond |-> c.node, then |-> t.node, els |-> e.node], e.s)

ForNode(i, c, n, b) == [kind |-> "for", init |-> i, cond |-> c, inc |-> n, then |-> b]
ForStmt(s) ==
    LET i == ExprStmt(Skip(s, "("))
        c == Optional(i.s, ";")
        n == Optional(Skip(c.s, ";"), ")")
        b == Parsed("stmt", Skip(n.s, ")"))
    IN Returns(ForNode(i.node, c.node, n.node, b.node), b.s)

WhileStmt(s) ==
    LET c == Parsed("expr", Skip(s, "("))
        b == Parsed("stmt", Skip(c.s, ")"))
    IN Returns(ForNode(NoNode, c.node, NoNode, b.node), b.s)

CompoundStmt(s) == LET ns == StatementsFrom(s, <<>>) IN Returns(BlockOf(ns.nodes), ns.s)

Statement(s) ==
    CASE Equal(s, "return") -> ReturnStmt(Advance(s))
      [] Equal(s, "if") -> IfStmt(Advance(s))
      [] Equal(s, "for") -> ForStmt(Advance(s))
      [] Equal(s, "while") -> WhileStmt(Advance(s))
      [] Equal(s, "{") -> Parsed("compound", Advance(s))
      [] OTHER -> ExprStmt(s)

IsTypename(s) == OneOf(s, {"char", "int"})
StatementsFrom(s, ns) ==
    IF Equal(s, "}") \/ ~Going(s) THEN [nodes |-> ns, s |-> Advance(s)]
    ELSE LET n == Parsed(IF IsTypename(s) THEN "declaration" ELSE "stmt", s)
         IN StatementsFrom(n.s, Append(ns, n.node))

Parsed(x, s) ==
    CASE x = "expr"        -> Assignment(s)
      [] x = "unary"       -> UnaryExpr(s)
      [] x = "stmt"        -> Statement(s)
      [] x = "declaration" -> Declaration(s)
      [] x = "compound"    -> CompoundStmt(s)

-----------------------------------------------------------------------------
(* The top level.                                                          *)
GlobalVar(name, ty, s) ==
    [name |-> name, ty |-> ty, is_local |-> FALSE, id |-> Len(s.globals), is_function |-> FALSE]

(* The function fn, complete with what is between its braces.              *)
Complete(fn, body) ==
    IF ~Going(body.s) THEN body.s
    ELSE [body.s EXCEPT !.globals = <<[fn EXCEPT !.locals = body.s.locals, !.body = body.node]>> \o Tail(@)]

(* create_param_lvars makes the last parameter first, so that the list has *)
(* them in order.  The name of the function is known in its body.          *)
FunctionFrom(s, d) ==
    LET obj == [GlobalVar(d.name, d.ty, s) EXCEPT !.is_function = TRUE]
        start == [NewGvar(d.s, obj) EXCEPT !.locals = <<>>]
        ready == FoldRight(LAMBDA p, t : NewLvar(t, p.name, p.ty), d.ty.params, start)
        fn == obj @@ [params |-> ready.locals, locals |-> <<>>, body |-> EmptyStmt]
    IN IF ~Going(d.s) THEN d.s ELSE Complete(fn, Parsed("compound", Skip(ready, "{")))

WithGlobal(d) == IF Going(d.s) THEN NewGvar(d.s, GlobalVar(d.name, d.ty, d.s)) ELSE d.s
RECURSIVE GlobalsFrom(_, _, _)
GlobalsFrom(s, base, first) ==
    IF Equal(s, ";") \/ ~Going(s) THEN Advance(s)
    ELSE GlobalsFrom(WithGlobal(Declarator(IF first THEN s ELSE Skip(s, ","), base)), base, FALSE)

(* Lookahead: a declarator whose type is a function's.                     *)
IsFunction(s) == ~Equal(s, ";") /\ Declarator(s, TyInt).ty.kind = "func"

RECURSIVE ParseFrom(_)
ParseFrom(s) ==
    IF IsKind(s, "eof") \/ ~Going(s) THEN s
    ELSE LET base == Declspec(s)
         IN ParseFrom(IF IsFunction(base.s) THEN FunctionFrom(base.s, Declarator(base.s, base.ty))
                      ELSE GlobalsFrom(base.s, base.ty, TRUE))

(* The objects of a program, the newest first, or how the parser ended.    *)
Parse(text) ==
    LET toks == Tokenize(text)
        s == [toks |-> toks, at |-> 1, locals |-> <<>>, globals |-> <<>>, end |-> ""]
    IN IF Last(toks) = BadToken THEN Reject(s) ELSE ParseFrom(s)
=============================================================================
