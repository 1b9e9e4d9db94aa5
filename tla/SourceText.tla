----------------------------- MODULE SourceText -----------------------------
(***************************************************************************)
(* The C text of a syntax tree, with no parenthesis that the grammar does  *)
(* not need.  A compiler that reads the text must build the tree again.    *)
(***************************************************************************)
EXTENDS Source, TLC

Joined(ws) == FoldLeft(LAMBDA t, w : t \o w, "", ws)
Separated(ws, sep) ==
    Joined([k \in DOMAIN ws |-> IF k = 1 THEN ws[k] ELSE sep \o ws[k]])

(* A declarator: int x, int *p, int x[3].                                  *)
Declared(v) ==
    LET ty == v[2] IN
    ty.elem \o " " \o (IF ty.kind = "ptr" THEN "*" ELSE "") \o v[1]
    \o (IF ty.kind = "array" THEN "[" \o ToString(ty.n) \o "]" ELSE "")

Sign ==
    [add |-> "+", sub |-> "-", mul |-> "*", div |-> "/", eq |-> "==", ne |-> "!=",
     lt |-> "<", le |-> "<=", assign |-> "="]

(* How tightly a node binds, from an assignment to a primary.              *)
IsIndex(n) == n.kind = "deref" /\ n.lhs.kind = "add" /\ n.lhs.lhs.kind \in {"lvar", "gvar", "num"}
IsNegative(n) == n.kind = "sub" /\ n.lhs = Num(0)
Binding(n) ==
    CASE n.kind = "assign" -> 1
      [] n.kind \in {"eq", "ne"} -> 2
      [] n.kind \in {"lt", "le"} -> 3
      [] n.kind \in {"add", "sub"} /\ ~IsNegative(n) -> 4
      [] n.kind \in {"mul", "div"} -> 5
      [] IsNegative(n) -> 6
      [] n.kind \in {"addr", "deref"} /\ ~IsIndex(n) -> 6
      [] OTHER -> 7

RECURSIVE Expr(_, _)
(* A node that binds less tightly than b is put in parentheses.            *)
Within(n, f, b) == IF Binding(n) < b THEN "(" \o Expr(n, f) \o ")" ELSE Expr(n, f)
Infix(n, f, l, r) == Within(n.lhs, f, l) \o Sign[n.kind] \o Within(n.rhs, f, r)
DeclarationOf(x, f) ==
    Declared(LET vs == f.params \o f.locals IN vs[CHOOSE k \in DOMAIN vs : vs[k][1] = x])

Expr(n, f) ==
    CASE n.kind = "num" -> ToString(n.val)
      [] n.kind = "str" -> "\"" \o n.str \o "\""
      [] n.kind \in {"lvar", "gvar"} -> IF n.is_declaration THEN DeclarationOf(n.name, f) ELSE n.name
      [] n.kind = "call" ->
            n.name \o "(" \o Separated([k \in DOMAIN n.args |-> Expr(n.args[k], f)], ",") \o ")"
      [] n.kind = "addr" -> "&" \o Within(n.lhs, f, 6)
      [] IsNegative(n) -> "-" \o Within(n.rhs, f, 6)
      [] IsIndex(n) -> Within(n.lhs.lhs, f, 7) \o "[" \o Expr(n.lhs.rhs, f) \o "]"
      [] n.kind = "deref" /\ ~IsIndex(n) -> "*" \o Within(n.lhs, f, 6)
      [] n.kind = "assign" -> Infix(n, f, 2, 1)
      [] OTHER -> Infix(n, f, Binding(n), Binding(n) + 1)

RECURSIVE Stmt(_, _)
Stmt(n, f) ==
    CASE n.kind = "return" -> "return " \o Expr(n.lhs, f) \o ";"
      [] n.kind = "block" -> "{" \o Joined([k \in DOMAIN n.body |-> Stmt(n.body[k], f)]) \o "}"
      [] n.kind = "if" ->
            "if(" \o Expr(n.cond, f) \o ")" \o Stmt(n.then, f)
            \o (IF n.els = NoElse THEN "" ELSE "else " \o Stmt(n.els, f))
      [] n.kind = "while" -> "while(" \o Expr(n.cond, f) \o ")" \o Stmt(n.then, f)
      [] n.kind = "for" ->
            "for(" \o Expr(n.init, f) \o ";" \o Expr(n.cond, f) \o ";" \o Expr(n.inc, f) \o ")"
            \o Stmt(n.then, f)
      [] n.kind = "nop" -> ""
      [] OTHER -> Expr(n, f) \o ";"

Item(i) ==
    IF i.kind = "gvar" THEN Declared(<<i.name, i.ty>>) \o ";"
    ELSE "int " \o i.name \o "("
         \o Separated([k \in DOMAIN i.params |-> Declared(i.params[k])], ",") \o ")"
         \o Stmt(i.body, i)
Text(p) == Separated([k \in DOMAIN p |-> Item(p[k])], " ")
=============================================================================
