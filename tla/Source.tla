------------------------------- MODULE Source -------------------------------
(***************************************************************************)
(* Programs of the C subset that holycc compiles, as the syntax trees that *)
(* parse.c builds.                                                         *)
(***************************************************************************)
EXTENDS Integers, Sequences, FiniteSets, SequencesExt

IntBytes == 4
PtrBytes == 8

(* Types of variables.                                                     *)
TInt == [kind |-> "int", elem |-> "int", size |-> IntBytes, n |-> 1]
TChar == [kind |-> "char", elem |-> "char", size |-> 1, n |-> 1]
TPtr == [kind |-> "ptr", elem |-> "int", size |-> PtrBytes, n |-> 1]                \* int *x
TText == [TPtr EXCEPT !.elem = "char"]                                              \* char *x
TArray(k) == [kind |-> "array", elem |-> "int", size |-> k * IntBytes, n |-> k]     \* int x[k]

(* Nodes, named after the ND_ kinds.                                       *)
Num(v) == [kind |-> "num", val |-> v]
Str(text) == [kind |-> "str", str |-> text]
Var(x) == [kind |-> "lvar", name |-> x, is_declaration |-> FALSE]
Decl(x) == [kind |-> "lvar", name |-> x, is_declaration |-> TRUE]
Binary(op, l, r) == [kind |-> op, lhs |-> l, rhs |-> r]
Unary(op, l) == [kind |-> op, lhs |-> l]
Assign(l, r) == Binary("assign", l, r)
Index(a, e) == Unary("deref", Binary("add", a, e))      \* a[e] is *(a + e)
Call(f, as) == [kind |-> "call", name |-> f, args |-> as]
Return(e) == [kind |-> "return", lhs |-> e]
Block(ss) == [kind |-> "block", body |-> ss]
If(c, t, e) == [kind |-> "if", cond |-> c, then |-> t, els |-> e]
While(c, b) == [kind |-> "while", cond |-> c, then |-> b]
For(i, c, n, b) == [kind |-> "for", init |-> i, cond |-> c, inc |-> n, then |-> b]
NoElse == [kind |-> "no_else"]      \* the NULL els of an if
Nop == [kind |-> "nop"]             \* what {} contains

(* A global variable at the top level, and a use of it.                    *)
Gvar(x, ty) == [kind |-> "gvar", name |-> x, ty |-> ty]
GlobalUse(x, ty) == [kind |-> "gvar", name |-> x, ty |-> ty, is_declaration |-> FALSE]

(* A function: parameters and other locals in the order of declaration,    *)
(* each a pair of a name and a type, and the body.                         *)
Function(f, ps, ls, b) ==
    [kind |-> "func", name |-> f, params |-> ps, locals |-> ls, body |-> b]

=============================================================================
