------------------------------ MODULE Compiler ------------------------------
(***************************************************************************)
(* The whole of holycc: main with the parser, the graph of graphgen.c and  *)
(* what gen needs to get through a node.                                   *)
(***************************************************************************)
EXTENDS Driver, FiniteSets

CONSTANT MapLimit      \* how many keys fit in a table

ASSUME CompilerAssumption == MapLimit \in Nat

P == INSTANCE Parser

(* The tokens as the parser sees them: a type, a word of its own, or what  *)
(* tokenize calls them.                                                    *)
Text(x, t) == FoldLeft(LAMBDA w, c : w \o c, "", SubSeq(x, t.loc, t.loc + t.len - 1))
KindOf(x, t) ==
    IF t.kind # "keyword" THEN t.kind
    ELSE IF Text(x, t) \in {"int", "char"} THEN "type" ELSE Text(x, t)
Tokens(x, ts) == [k \in DOMAIN ts |-> [kind |-> KindOf(x, ts[k]), text |-> Text(x, ts[k])]]

Reader(x, ts) == P!Reader(Tokens(x, ts))
AtEof(s) == P!AtEof(s)
Program(s) == P!Program(s)

(* graphgen.c.  The nodes are numbered as they are drawn; returns, blocks, *)
(* numbers, variables and assignments are, everything else is passed over. *)
(* c is the number of the last one, es the edges so far.                   *)
RECURSIVE DrawExpr(_, _, _)
RECURSIVE DrawStmt(_, _, _)
NextNumber(g) == g.c + 1
Node(g, parent) == [c |-> NextNumber(g), es |-> Append(g.es, <<parent, NextNumber(g)>>)]
DrawExpr(g, n, parent) ==
    CASE n.kind \in {"num", "lvar"} -> Node(g, parent)
      [] n.kind = "assign" ->
            DrawExpr(DrawExpr(Node(g, parent), n.lhs, NextNumber(g)), n.rhs, NextNumber(g))
      [] OTHER -> g
DrawStmt(g, n, parent) ==
    CASE n.kind = "return" -> DrawExpr(Node(g, parent), n.lhs, NextNumber(g))
      [] n.kind = "block" ->
            FoldLeft(LAMBDA h, m : DrawStmt(h, m, NextNumber(g)), Node(g, parent), n.body)
      [] OTHER -> DrawExpr(g, n, parent)
(* The count is one for the whole file.  An error: one for each function.  *)
DrawRenumbered(g, item) ==
    IF item.kind # "func" THEN g
    ELSE DrawStmt([g EXCEPT !.c = 1], item.body, 1)
Draw(g, item) ==
    IF item.kind # "func" THEN g
    ELSE DrawStmt([g EXCEPT !.c = NextNumber(g)], item.body, NextNumber(g))
Graph(items) == FoldLeft(Draw, [c |-> 0, es |-> <<>>], items)

(* Whether gen_func gets through an expression or a statement: the store   *)
(* of an assignment asks for the type of its left side, which a binary     *)
(* node, a call and a dereference do not have.                             *)
RECURSIVE GenExpr(_, _)
RECURSIVE StoresTo(_)
StoresTo(n) ==
    IF n.kind \in {"deref", "add"} THEN StoresTo(n.lhs)
    ELSE n.kind \in {"num", "lvar", "gvar", "char", "str"}
IsArray(n, f) == n.kind = "lvar" /\ \E v \in Range(f.params \o f.locals) : v[1] = n.name /\ v[2].kind = "array"
GenAssign(n, f) ==
    /\ GenExpr(n.rhs, f)
    /\ n.lhs.kind # "gvar" =>
          /\ IF n.lhs.kind = "deref" THEN StoresTo(n.lhs) ELSE n.lhs.kind \in {"num", "lvar", "char", "str"}
          /\ n.lhs.kind = "deref" => GenExpr(n.lhs, f) /\ ~IsArray(n.rhs, f)
GenExpr(n, f) ==
    CASE n.kind = "assign" -> GenAssign(n, f)
      [] n.kind \in {"return", "deref"} -> GenExpr(n.lhs, f)
      [] n.kind = "block" -> \A k \in DOMAIN n.body : GenExpr(n.body[k], f)
      [] n.kind = "call" -> \A k \in DOMAIN n.args : k <= 6 => GenExpr(n.args[k], f)
      [] n.kind = "if" -> \A m \in {n.cond, n.then, n.els} : GenExpr(m, f)
      [] n.kind = "while" -> \A m \in {n.cond, n.then} : GenExpr(m, f)
      [] n.kind = "for" -> \A m \in {n.init, n.cond, n.inc, n.then} : GenExpr(m, f)
      [] n.kind \in {"add", "sub", "mul", "div", "eq", "ne", "lt", "le"} ->
            GenExpr(n.lhs, f) /\ GenExpr(n.rhs, f)
      [] OTHER -> TRUE

(* gen: a function, whose parameters in registers must have a type, or a   *)
(* variable without an initial value.                                      *)
GenGoesThrough(item) ==
    CASE item.kind = "func" ->
            /\ \A k \in DOMAIN item.params : k <= 6 => item.params[k][2] # P!NoType
            /\ GenExpr(item.body, item)
      [] item.kind = "gvar" -> TRUE
      [] OTHER -> FALSE

-----------------------------------------------------------------------------
(* The names that a list of tokens declares at the top level: those after  *)
(* a type that is the first token or follows the end of a declaration.     *)
BraceDepth(ts, k) ==
    Cardinality({j \in 1 .. k - 1 : ts[j].text = "{"}) - Cardinality({j \in 1 .. k - 1 : ts[j].text = "}"})
Declarations(ts) ==
    SelectSeq([k \in DOMAIN ts |-> k],
              LAMBDA k : /\ ts[k].kind = "type" /\ BraceDepth(ts, k) = 0
                         /\ k = 1 \/ ts[k - 1].text \in {";", "}"})
DeclaredNames(ts) == LET ks == Declarations(ts) IN [j \in DOMAIN ks |-> ts[ks[j] + 1].text]
GlobalDeclarations(ts) ==
    SelectSeq(Declarations(ts), LAMBDA k : k + 2 \in DOMAIN ts /\ ts[k + 2].text # "(")
RepeatsAGlobal(ts) ==
    LET ks == GlobalDeclarations(ts) IN
    \E i, j \in DOMAIN ks : i < j /\ ts[ks[i] + 1] = ts[ks[j] + 1]

(* The text of a program, printed from its nodes with no more parentheses  *)
(* than C needs, is accepted and read as these nodes: the levels of        *)
(* expressions and the sides of an operator, the statement an else belongs *)
(* to, the order of arguments, parameters and locals.  Of any other text   *)
(* that is accepted, what has been parsed is what it declares, in its      *)
(* order: no declaration is passed over and none is taken for two.         *)
NameOf(item) == IF item.kind = "assign" THEN item.lhs.name ELSE item.name
ReadsBack ==
    /\ meant # NoTree => Running \/ (stage = "done" /\ code = meant)
    /\ "graph.md" \in files =>
          [k \in DOMAIN code |-> NameOf(code[k])] = DeclaredNames(reader.toks)

(* Each string literal of the file has one label in the header, and two    *)
(* that differ have two.                                                   *)
LabelsDistinct ==
    stage \in {"graph", "print", "done"} =>
        /\ reader.strs \in [DOMAIN reader.strs -> 0 .. reader.label_count - 1]
        /\ DOMAIN reader.strs = {t.text : t \in {u \in Range(reader.toks) : u.kind = "str"}}
        /\ \A x, y \in DOMAIN reader.strs : x # y => reader.strs[x] # reader.strs[y]

(* graph.md shows a forest: no node is drawn twice, and the parent of a    *)
(* node is drawn before it or is the root of its function.  That is so as  *)
(* long as the numbers fit in the names.                                   *)
GraphIsForest ==
    Len(graph) > 0 /\ Graph(code).c <= MaxGraph =>
        \A j, k \in DOMAIN graph :
            /\ graph[j][1] < graph[j][2]
            /\ j < k => graph[j][2] < graph[k][2]

(* The compiler ends, unless a global is declared twice: from then on the  *)
(* list of globals has no end, and the next name that is not in it is      *)
(* looked for without end.  Where the code leaves open what follows, so    *)
(* does this.                                                              *)
Halted == stage = "done" \/ Failed \/ Open
Ends == <>(Halted \/ (stage # "tokenize" /\ RepeatsAGlobal(reader.toks)))
=============================================================================
