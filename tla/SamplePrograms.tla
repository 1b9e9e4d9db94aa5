--------------------------- MODULE SamplePrograms ---------------------------
(***************************************************************************)
(* Programs that the compilers are tried on, as syntax trees: every        *)
(* expression of two operators over two variables and a number, loops and  *)
(* branches, calls, pointers and arrays, global variables, chars.          *)
(***************************************************************************)
EXTENDS Source

a == Var("a")
b == Var("b")
n == Var("n")
p == Var("p")
IntVar(x) == <<x, TInt>>
Set(x, e) == Assign(Var(x), e)
New(x, e) == Assign(Decl(x), e)
Add(l, r) == Binary("add", l, r)
Sub(l, r) == Binary("sub", l, r)
Mul(l, r) == Binary("mul", l, r)
Lt(l, r) == Binary("lt", l, r)
Eq(l, r) == Binary("eq", l, r)
Ne(l, r) == Binary("ne", l, r)
Call1(f, x) == Call(f, <<x>>)
Main(ls, ss) == Function("main", <<>>, ls, Block(ss))
MainReturns(e) == Main(<<>>, <<Return(e)>>)

-----------------------------------------------------------------------------
(* Expressions.                                                            *)
Ops == <<"add", "sub", "mul", "div", "eq", "ne", "lt", "le">>
Leaves == <<a, b, Num(2)>>

(* The expressions, numbered: two operators and three leaves, the inner    *)
(* operator on the right or on the left.                                   *)
Expression(k) ==
    LET outer == Ops[(k % 8) + 1]
        inner == Ops[((k \div 8) % 8) + 1]
        x == Leaves[((k \div 64) % 3) + 1]
        y == Leaves[((k \div 192) % 3) + 1]
        z == Leaves[((k \div 576) % 3) + 1]
    IN IF k < 1728 THEN Binary(outer, x, Binary(inner, y, z))
                   ELSE Binary(outer, Binary(inner, y, z), x)
ExpressionPrograms ==
    [k \in 1 .. 500 |->
        <<Main(<<IntVar("a"), IntVar("b")>>,
               <<New("a", Num(5)), New("b", Num(3)), Return(Expression((7 * k) % 3456))>>)>>]

(* Loops and branches.                                                     *)
Counting(k) ==
    <<Main(<<IntVar("a"), IntVar("b")>>,
           <<New("a", Num(k)), New("b", Num(0)),
             While(Lt(Num(0), a),
                   Block(<<If(Eq(a, Num(2)), Set("b", Add(b, Num(7))),
                              Block(<<Set("b", Add(b, a))>>)),
                           Set("a", Sub(a, Num(1)))>>)),
             Return(b)>>)>>
(* A loop whose count is declared before it, by ds, or where it starts.     *)
LoopingFrom(k, ds, first) ==
    <<Main(<<IntVar("b"), IntVar("n")>>,
           ds \o <<New("b", Num(1)),
                   For(first, Lt(n, Num(k)), Set("n", Add(n, Num(1))),
                       If(Lt(n, Num(1)), Block(<<Nop>>), Set("b", Mul(b, n)))),
                   Return(b)>>)>>
(* A declaration in the body of a loop, as in fibonacci46 of the tests.    *)
Fibonacci(k) ==
    <<Main(<<IntVar("a"), IntVar("b"), IntVar("n"), IntVar("x"), IntVar("c")>>,
           <<New("a", Num(0)), New("b", Num(1)), New("n", Num(k)), Decl("x"),
             If(Eq(n, Num(1)), Block(<<Return(a)>>), NoElse),
             While(Lt(Num(1), n),
                   Block(<<Decl("c"), Set("c", b), Set("b", Add(a, b)),
                           Set("a", Var("c")), Set("n", Sub(n, Num(1)))>>)),
             Return(b)>>)>>
Branches(k) ==
    <<Main(<<>>, <<If(Num(k), Return(Num(11)),
                      If(Num(1), Return(Num(2)), Return(Num(0))))>>)>>
ControlPrograms ==
    [k \in 1 .. 4 |-> Counting(k - 1)] \o [k \in 1 .. 4 |-> Fibonacci(k)] \o [k \in 1 .. 2 |-> Branches(k - 1)]

(* Calls.                                                                  *)
Factorial ==
    Function("fact", <<IntVar("n")>>, <<>>,
             Block(<<If(Eq(n, Num(0)), Block(<<Return(Num(1))>>), NoElse),
                     Return(Mul(n, Call1("fact", Sub(n, Num(1)))))>>))
FibonacciTwice ==
    Function("fib", <<IntVar("n")>>, <<>>,
             Block(<<If(Lt(n, Num(2)), Return(n), NoElse),
                     Return(Add(Call1("fib", Sub(n, Num(1))), Call1("fib", Sub(n, Num(2)))))>>))
(* The arguments keep their places.                                        *)
Params(k) == [j \in 1 .. k |-> IntVar(<<"a", "b", "c", "d", "e", "f">>[j])]
Weighted(k) ==
    Function("weigh", Params(k), <<>>,
             Block(<<Return(FoldLeft(LAMBDA e, j : Add(Mul(e, Num(2)), Var(Params(k)[j][1])),
                                     Num(0), [j \in 1 .. k |-> j]))>>))
Weigh(k) ==
    <<Weighted(k),
      Main(<<IntVar("x")>>, <<Decl("x"), Set("x", Call("weigh", [j \in 1 .. k |-> Add(Num(1), Num((j * j) % 3))])),
                           Return(Var("x"))>>)>>
Accumulate ==
    <<Function("rec", <<IntVar("n"), IntVar("a")>>, <<>>,
               Block(<<If(Eq(n, Num(0)), Block(<<Return(a)>>), NoElse),
                       Return(Call("rec", <<Sub(n, Num(1)), Add(a, Num(1))>>))>>)),
      MainReturns(Call("rec", <<Num(2), Num(5)>>))>>
CallPrograms ==
    [k \in 1 .. 4 |-> <<Factorial, MainReturns(Call1("fact", Num(k - 1)))>>]
    \o [k \in 1 .. 4 |-> <<FibonacciTwice, MainReturns(Call1("fib", Num(k)))>>]
    \o [k \in 1 .. 6 |-> Weigh(k)] \o <<Accumulate>>

-----------------------------------------------------------------------------
(* Pointers and arrays.                                                    *)
ThroughPointer(x, y) ==
    <<Main(<<IntVar("a"), IntVar("b"), <<"p", TPtr>>>>,
           <<New("a", Num(x)), New("b", Num(y)), Decl("p"), Set("p", Unary("addr", a)),
             Assign(Unary("deref", p), Add(b, Num(1))),
             Set("p", Unary("addr", b)), Assign(Unary("deref", p), Num(9)),
             Return(Add(Mul(a, Num(4)), Unary("deref", p)))>>)>>
(* Every element of an array of k is written, then one is read, by an      *)
(* index, by a number to the left of it, or through a pointer.             *)
Filled(k) == [j \in 1 .. k |-> Assign(Index(Var("x"), Num(j - 1)), Num(j * j))]
Reads(j) == {Index(Var("x"), Num(j)), Index(Num(j), Var("x")), Index(p, Num(j)),
             Unary("deref", Add(p, Num(j))), Add(Index(Var("x"), Num(j)), Unary("deref", Var("x")))}
ArrayProgram(k, e) ==
    <<Main(<<IntVar("a"), <<"x", TArray(k)>>, <<"p", TPtr>>, IntVar("b")>>,
           <<New("a", Num(6)), Decl("x"), Decl("p"), New("b", Num(7)), Set("p", Var("x"))>>
           \o Filled(k) \o <<Return(Add(e, Add(a, b)))>>)>>
(* An array in a function that calls itself.                               *)
DeepArray ==
    <<Function("f", <<IntVar("n")>>, <<<<"x", TArray(2)>>>>,
               Block(<<Decl("x"), Assign(Index(Var("x"), Num(0)), n),
                       Assign(Index(Var("x"), Num(1)), Num(1)),
                       If(Lt(n, Num(1)), Return(Num(20)), NoElse),
                       Assign(Index(Var("x"), Num(1)), Call1("f", Sub(n, Num(1)))),
                       Return(Add(Unary("deref", Var("x")), Index(Var("x"), Num(1))))>>)),
      MainReturns(Call1("f", Num(2)))>>
ArrayPrograms(k) == {ArrayProgram(k, e) : e \in UNION {Reads(j) : j \in 0 .. k - 1}}
PointerPrograms ==
    FlattenSeq([x \in 1 .. 3 |-> [y \in 1 .. 2 |-> ThroughPointer(x - 1, y)]])
    \o FlattenSeq([k \in 1 .. 2 |-> FoldSet(LAMBDA q, ps : Append(ps, q), <<>>, ArrayPrograms(k + 1))])
    \o <<DeepArray>>

-----------------------------------------------------------------------------
(* Globals: case91 of the tests, two ints side by side, a global that one  *)
(* function sets and another one returns, and a pointer, which holycc's    *)
(* grammar wants to be written int q*.                                     *)
Global(x) == GlobalUse(x, TInt)
SetGlobal(x, e) == Assign(Global(x), e)
Case91 ==
    <<Gvar("g", TInt),
      Function("case91", <<>>, <<>>, Block(<<SetGlobal("g", Num(5)), Return(Global("g"))>>)),
      MainReturns(Call("case91", <<>>))>>
SideBySide(first, second) ==
    <<Gvar("g", TInt), Gvar("h", TInt),
      Main(<<>>, <<SetGlobal(first, Num(7)), SetGlobal(second, Num(9)), Return(Global(first))>>)>>
SetByCall ==
    <<Gvar("g", TInt),
      Function("set", <<IntVar("a")>>, <<>>,
               Block(<<SetGlobal("g", Mul(a, Num(3))), Return(Num(0))>>)),
      Function("get", <<>>, <<>>, Block(<<Return(Global("g"))>>)),
      Main(<<IntVar("b")>>, <<New("b", Call1("set", Num(4))), Return(Add(Call("get", <<>>), b))>>)>>
GlobalPointer ==
    <<Gvar("q", TPtr),
      Main(<<IntVar("a")>>,
           <<New("a", Num(5)), Assign(GlobalUse("q", TPtr), Unary("addr", a)), Set("a", Num(8)),
             Return(Unary("deref", GlobalUse("q", TPtr)))>>)>>

(* Chars: case94 of the tests, and chars among ints.                       *)
CharVar(x) == <<x, TChar>>
Case94 ==
    <<Function("case94", <<>>, <<CharVar("a")>>, Block(<<New("a", Num(1)), Return(a)>>)),
      Main(<<CharVar("b")>>, <<New("b", Call("case94", <<>>)),
                               If(Eq(b, Num(1)), Block(<<Return(Num(3))>>), NoElse), Return(b)>>)>>
CharsAmongInts(e) ==
    <<Main(<<CharVar("a"), IntVar("n"), CharVar("b"), IntVar("c")>>,
           <<New("a", Num(1)), New("n", Num(6)), New("b", Num(0)), New("c", Num(9)),
             Set("b", a), Set("a", Num(0)), Return(e)>>)>>

(* Literals, passed to a function that compares them, as in case92.        *)
Literals(s, t) ==
    <<Function("same", <<<<"x", TText>>, <<"y", TText>>>>, <<>>,
               Block(<<If(Eq(Var("x"), Var("y")), Block(<<Return(Num(4))>>), NoElse), Return(Num(6))>>)),
      Main(<<<<"p", TText>>, <<"z", TText>>>>,
           <<New("p", Str(s)), New("z", Str(t)), Return(Call("same", <<p, Var("z")>>))>>)>>
DataPrograms ==
    <<Case91, SideBySide("g", "h"), SideBySide("h", "g"), SetByCall, Case94,
      Literals("ab", "ab"), Literals("ab", "b")>>
    \o [k \in 1 .. 4 |-> CharsAmongInts(<<Add(a, b), Add(n, b), Mul(Var("c"), b), Lt(a, b)>>[k])]
=============================================================================
