----------------------------- MODULE Reference -----------------------------
(***************************************************************************)
(* What a program means in C: the reference that generated code is         *)
(* compared with, written from the language and not from a compiler.       *)
(*                                                                         *)
(* The store maps an object to the sequence of its values; an object is    *)
(* <<0, x>> for a global and <<k, x>> for a variable of the k-th active    *)
(* call.  A value is a pair: an object and an index for a pointer, NoObject*)
(* and the number for an int.  A literal is the global of its text, one    *)
(* for all its occurrences, as test_str of holycc's tests expects.         *)
(* Evaluation in a context x, which has the    *)
(* program, the function, the number of the call and the fuel left,        *)
(* returns [val, env, ok, done]; ok is FALSE when C leaves the behaviour   *)
(* undefined, when a number does not fit, or when the fuel is used up, and *)
(* then nothing is required.                                               *)
(***************************************************************************)
EXTENDS Source

CONSTANTS MinInt, MaxInt, MinChar, MaxChar

NoObject == <<0, "">>
Number(v) == <<NoObject, v>>
Unset == <<<<0, "?">>, 0>>           \* what a local holds at first
Truth(b) == IF b THEN 1 ELSE 0

Undefined == [val |-> Number(0), env |-> <<>>, ok |-> FALSE, done |-> TRUE]
Value(v, env) == [val |-> v, env |-> env, ok |-> v # Unset, done |-> FALSE]
IntResult(v, env) == [Value(Number(v), env) EXCEPT !.ok = v \in MinInt .. MaxInt]

(* Division rounds towards zero.                                           *)
Magnitude(v) == IF v < 0 THEN 0 - v ELSE v
Quotient(a, b) ==
    (IF (a < 0) = (b < 0) THEN 1 ELSE -1) * (Magnitude(a) \div Magnitude(b))

Operate(op, a, b) ==
    CASE op = "add" -> a + b
      [] op = "sub" -> a - b
      [] op = "mul" -> a * b
      [] op = "div" -> Quotient(a, b)
      [] op = "eq"  -> Truth(a = b)
      [] op = "ne"  -> Truth(a # b)
      [] op = "lt"  -> Truth(a < b)
      [] op = "le"  -> Truth(a <= b)

IsPointer(v) == v[1] # NoObject
Plus(a, b) == <<IF IsPointer(a) THEN a[1] ELSE b[1], a[2] + b[2]>>

-----------------------------------------------------------------------------
(* The objects of a function, and of the program.                          *)
Variables(f) == f.params \o f.locals
TypeOf(vs, name) == vs[CHOOSE k \in DOMAIN vs : vs[k][1] = name][2]
Names(vs) == {vs[k][1] : k \in DOMAIN vs}
Globals(p) ==
    LET gs == SelectSeq(p, LAMBDA i : i.kind = "gvar") IN [k \in DOMAIN gs |-> <<gs[k].name, gs[k].ty>>]
FunctionOf(p, name) == p[CHOOSE k \in DOMAIN p : p[k].kind = "func" /\ p[k].name = name]

IsLocal(x, name) == name \in Names(Variables(x.f))
Object(x, name) == <<IF IsLocal(x, name) THEN x.call ELSE 0, name>>
TypeIn(x, name) == TypeOf(IF IsLocal(x, name) THEN Variables(x.f) ELSE Globals(x.p), name)

(* A char holds less than an int: the types of an object's values.         *)
Fits(v, ty) == ty.elem = "char" => v[2] \in MinChar .. MaxChar

InStore(pl, env) == pl[1] \in DOMAIN env /\ pl[2] \in DOMAIN env[pl[1]]
Read(pl, env) == IF InStore(pl, env) THEN Value(env[pl[1]][pl[2]], env) ELSE Undefined

-----------------------------------------------------------------------------
RECURSIVE Eval(_, _, _)
RECURSIVE Exec(_, _, _)
RECURSIVE EvalArgs(_, _, _)

(* The place an lvalue denotes.                                            *)
Place(x, n, env) ==
    IF n.kind \in {"lvar", "gvar"} THEN Value(<<Object(x, n.name), 1>>, env) ELSE Eval(x, n.lhs, env)

EvalBinary(x, n, env) ==
    LET l == Eval(x, n.lhs, env)
        r == Eval(x, n.rhs, l.env)
    IN IF ~l.ok THEN Undefined
       ELSE IF ~r.ok \/ (n.kind = "div" /\ r.val = Number(0)) THEN Undefined
       ELSE IF IsPointer(l.val) /\ IsPointer(r.val) /\ n.kind \in {"eq", "ne"}
            THEN IntResult(Truth((l.val = r.val) = (n.kind = "eq")), r.env)
       ELSE IF IsPointer(l.val) \/ IsPointer(r.val)
            THEN IF n.kind = "add" THEN [r EXCEPT !.val = Plus(l.val, r.val)] ELSE Undefined
            ELSE IntResult(Operate(n.kind, l.val[2], r.val[2]), r.env)

EvalAssign(x, n, env) ==
    LET r == Eval(x, n.rhs, env)
        l == Place(x, n.lhs, r.env)
    IN IF ~r.ok THEN Undefined
       ELSE IF ~l.ok \/ ~InStore(l.val, l.env) THEN Undefined
       ELSE [Value(r.val, [l.env EXCEPT ![l.val[1]] = [@ EXCEPT ![l.val[2]] = r.val]])
                EXCEPT !.ok = Fits(r.val, x.types[l.val[1][2]])]

EvalVar(x, n, env) ==
    IF n.is_declaration THEN Value(Number(0), env)
    ELSE IF TypeIn(x, n.name).kind = "array" THEN Value(<<Object(x, n.name), 1>>, env)
    ELSE Read(<<Object(x, n.name), 1>>, env)

(* A call runs the body with variables of its own.                         *)
Fresh(x, f, vals) ==
    LET vs == Variables(f)
    IN [o \in {<<x.call + 1, name>> : name \in Names(vs)} |->
           LET k == CHOOSE j \in DOMAIN vs : vs[j][1] = o[2]
           IN IF k <= Len(vals) THEN <<vals[k]>> ELSE [j \in 1 .. vs[k][2].n |-> Unset]]
Merge(new, old) ==
    [o \in DOMAIN new \cup DOMAIN old |-> IF o \in DOMAIN new THEN new[o] ELSE old[o]]

Apply(x, n, env) ==
    LET as == EvalArgs(x, n.args, env)
        f == FunctionOf(x.p, n.name)
        r == Exec([x EXCEPT !.f = f, !.call = @ + 1, !.fuel = @ - 1], f.body,
                  Merge(Fresh(x, f, as.vals), as.env))
    IN IF ~as.ok THEN Undefined
       ELSE IF ~r.ok \/ ~r.done THEN Undefined
       ELSE Value(r.val, r.env)

Eval(x, n, env) ==
    CASE x.fuel = 0 -> Undefined
      [] n.kind = "num" -> IntResult(n.val, env)
      [] n.kind = "str" -> Value(<<<<0, n.str>>, 1>>, env)
      [] n.kind \in {"lvar", "gvar"} -> EvalVar(x, n, env)
      [] n.kind = "addr" -> Value(<<Object(x, n.lhs.name), 1>>, env)
      [] n.kind = "deref" -> LET a == Eval(x, n.lhs, env)
                             IN IF a.ok THEN Read(a.val, a.env) ELSE Undefined
      [] n.kind = "assign" -> EvalAssign(x, n, env)
      [] n.kind = "call" -> Apply(x, n, env)
      [] OTHER -> EvalBinary(x, n, env)

EvalArgs(x, as, env) ==
    IF as = <<>> THEN [vals |-> <<>>, env |-> env, ok |-> TRUE]
    ELSE LET h == Eval(x, Head(as), env)
             t == EvalArgs(x, Tail(as), h.env)
         IN IF ~h.ok THEN [vals |-> <<>>, env |-> env, ok |-> FALSE]
            ELSE [t EXCEPT !.vals = <<h.val>> \o @]

(* Exec sets done when the statement returned from the function.           *)
Goes(env) == Value(Number(0), env)
Then(x, r, n) == IF ~r.ok \/ r.done THEN r ELSE Exec(x, n, r.env)

Exec(x, n, env) ==
    CASE x.fuel = 0 -> Undefined
      [] n.kind \in {"nop", "no_else"} -> Goes(env)
      [] n.kind = "return" -> [Eval(x, n.lhs, env) EXCEPT !.done = TRUE]
      [] n.kind = "block" ->
            IF n.body = <<>> THEN Goes(env)
            ELSE Then(x, Exec(x, Head(n.body), env), Block(Tail(n.body)))
      [] n.kind = "if" ->
            LET c == Eval(x, n.cond, env)
            IN IF ~c.ok THEN Undefined
               ELSE Exec(x, IF c.val[2] # 0 THEN n.then ELSE n.els, c.env)
      [] n.kind = "while" ->
            LET c == Eval(x, n.cond, env)
            IN IF ~c.ok THEN Undefined
               ELSE IF c.val[2] = 0 THEN c
               ELSE Then([x EXCEPT !.fuel = @ - 1], Exec(x, n.then, c.env), n)
      [] n.kind = "for" ->
            Exec(x, Block(<<n.init, While(n.cond, Block(<<n.then, n.inc>>))>>), env)
      [] OTHER -> Eval(x, n, env)

(* What main returns, [val, ok]; globals start at zero.                    *)
Meaning(p, fuel) ==
    LET gs == Globals(p)
        all == gs \o FlattenSeq([k \in DOMAIN p |-> IF p[k].kind = "func" THEN Variables(p[k]) ELSE <<>>])
        main == FunctionOf(p, "main")
        x == [p |-> p, f |-> main, call |-> 0, fuel |-> fuel,
              types |-> [name \in Names(all) |-> TypeOf(all, name)]]
    IN Apply(x, Call("main", <<>>),
             [o \in {<<0, name>> : name \in Names(gs)} |-> [k \in 1 .. TypeOf(gs, o[2]).n |-> Number(0)]])
=============================================================================
