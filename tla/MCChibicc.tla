----------------------------- MODULE MCChibicc -----------------------------
(***************************************************************************)
(* Texts for Chibicc: the sample programs with the meaning they have in C, *)
(* programs of the same kind with what holycc lacks (globals, chars,       *)
(* negative numbers, calls within arguments), the programs of              *)
(* chibicc-learn/test.sh whose features have no tree in Source, with the   *)
(* results it expects, and texts that are no programs.                     *)
(***************************************************************************)
EXTENDS Chibicc

CONSTANT Fuel     \* how deep the reference semantics follows a program

T == INSTANCE SourceText
S == INSTANCE SamplePrograms
C == INSTANCE Reference WITH
        MinInt <- -1 * (Word \div 2), MaxInt <- Word \div 2 - 1,
        MinChar <- -1 * (Byte \div 2), MaxChar <- Byte \div 2 - 1

-----------------------------------------------------------------------------
(* More trees.                                                             *)
TChar == [S!TInt EXCEPT !.elem = "char", !.size = 1]
TPtrChar == [S!TPtr EXCEPT !.elem = "char"]
TChars(k) == [S!TArray(k) EXCEPT !.elem = "char"]
Gvar(x, ty) == [kind |-> "gvar", name |-> x, ty |-> ty]
Minus(e) == S!Sub(S!Num(0), e)
F(name, ps, ls, ss) == S!Function(name, ps, ls, S!Block(ss))
At(x, e) == S!Index(S!Var(x), e)
Through(x) == S!Unary("deref", S!Var(x))
AddressOf(x) == S!Unary("addr", S!Var(x))

(* Negative numbers: the expressions again, with other values.             *)
Negative(k) ==
    <<S!Main(<<S!IntVar("a"), S!IntVar("b")>>,
             <<S!New("a", Minus(S!Num(5))), S!New("b", S!Num(3)),
               S!Return(IF k % 2 = 0 THEN Minus(S!Expression(k)) ELSE S!Expression(k))>>)>>

(* A call, a division and an assignment in the arguments of a call, with   *)
(* one or two of them pushed before it.                                    *)
Less == F("f", <<S!IntVar("a"), S!IntVar("b")>>, <<>>, <<S!Return(S!Sub(S!a, S!Mul(S!b, S!Num(2))))>>)
Holders(e) ==
    <<S!Call("f", <<S!Num(4), e>>), S!Call("f", <<e, S!Num(4)>>), S!Call("f", <<e, e>>),
      S!Sub(S!Num(1), S!Call("f", <<e, S!Num(1)>>))>>
Held == <<S!Call("f", <<S!Num(9), S!Num(2)>>), S!Binary("div", S!Num(7), S!Num(2)),
          S!Assign(S!Var("x"), S!Num(3))>>
NestedCalls ==
    FlattenSeq([k \in DOMAIN Held |-> [j \in 1 .. 4 |->
        <<Less, S!Main(<<S!IntVar("x"), S!IntVar("y")>>,
                       <<S!New("x", S!Num(1)), S!New("y", Holders(Held[k])[j]),
                         S!Return(S!Add(S!Var("x"), S!Var("y")))>>)>>]])

(* A function that changes a global and the variable of its caller.        *)
Global(first, ty) ==
    <<Gvar("g", S!TInt), Gvar("h", ty),
      F("f", <<<<"p", S!TPtr>>>>, <<>>,
        <<S!Assign(Through("p"), S!Add(Through("p"), S!Num(2))),
          S!Set("g", S!Sub(S!Var("g"), S!Num(1))), S!Return(S!Var("g"))>>),
      S!Main(<<S!IntVar("a"), <<"p", TPtrChar>>>>,
             <<S!New("a", S!Num(first)), S!Decl("p"), S!Call1("f", AddressOf("a")),
               S!Call1("f", AddressOf("g")), S!Assign(At("h", S!Num(1)), S!a),
               S!Return(S!Add(S!Mul(S!Var("g"), S!Num(4)), At("h", S!Num(1))))>>)>>
(* A local with the name of a global.                                      *)
Shadowing ==
    <<Gvar("a", S!TInt), F("f", <<>>, <<>>, <<S!Return(S!a)>>),
      S!Main(<<S!IntVar("a")>>,
             <<S!New("a", S!Num(3)), S!Set("a", S!Add(S!a, S!Call("f", <<>>))), S!Return(S!a)>>)>>

(* Chars between ints, as locals, parameters and elements of an array.     *)
CharLocals(v) ==
    <<S!Main(<<<<"x", TChar>>, S!IntVar("a"), <<"y", TChar>>, <<"z", TChars(3)>>>>,
             <<S!New("x", S!Num(v)), S!New("a", Minus(S!Num(7))), S!New("y", Minus(S!Num(v))),
               S!Decl("z"), S!Assign(At("z", S!Num(0)), S!Num(1)),
               S!Assign(At("z", S!Num(2)), S!Num(3)), S!Assign(At("z", S!Num(1)), S!Var("y")),
               S!Return(S!Add(S!Mul(S!a, At("z", S!Num(2))),
                              S!Add(S!Var("x"), S!Mul(At("z", S!Num(1)), At("z", S!Num(0))))))>>)>>
CharParams ==
    <<F("f", <<<<"x", TChar>>, S!IntVar("a"), <<"y", TChar>>>>, <<>>,
        <<S!Return(S!Sub(S!Mul(S!a, S!Var("x")), S!Var("y")))>>),
      S!MainReturns(S!Call("f", <<S!Num(2), S!Num(9), Minus(S!Num(3))>>))>>

ChibiccTrees ==
    S!ControlPrograms \o S!CallPrograms \o S!PointerPrograms
    \o [k \in 1 .. 3 |-> S!LoopingFrom(k, <<S!Decl("n")>>, S!Set("n", S!Num(0)))]
    \o [k \in 1 .. 250 |-> Negative((13 * k) % 3456)]
    \o NestedCalls \o <<Global(3, S!TArray(2)), Global(2, TChars(2)), Shadowing, CharParams>>
    \o [v \in 1 .. 3 |-> CharLocals(v)]

WithMeaning(p) ==
    LET m == C!Meaning(p, Fuel)
    IN [text |-> T!Text(p), expected |-> IF m.ok THEN m.val[2] ELSE Undetermined]

-----------------------------------------------------------------------------
(* From test.sh, with smaller numbers where a char holds them.             *)
Tests == {
    <<"int main() { return 5+20-4; }", 21>>,
    <<"int main() { return - - +10; }", 10>>,
    <<"int main() { return 1>0; }", 1>>,
    <<"int main() { return 1>=2; }", 0>>,
    <<"int main() { return 1; 2; 3; }", 1>>,
    <<"int main() { int a; int b; a=b=3; return a+b; }", 6>>,
    <<"int main() { int foo123=3; int bar=5; return foo123+bar; }", 8>>,
    <<"int main() { if (1-1) return 2; return 3; }", 3>>,
    <<"int main() { int i=0; int j=0; for (i=0; i<=4; i=i+1) j=i+j; return j; }", 10>>,
    <<"int main() { for (;;) return 3; return 5; }", 3>>,
    <<"int main() { {1; {2;} return 3;} }", 3>>,
    <<"int main() { ;;; return 5; }", 5>>,
    <<"int main() { int x=3; int *y=&x; int **z=&y; return **z; }", 3>>,
    <<"int main() { int x=3; int y=5; return *(&x+1); }", 5>>,
    <<"int main() { int x=3; int y=5; return *(&y-1); }", 3>>,
    <<"int main() { int x=3; int y=5; return *(&x-(-1)); }", 5>>,
    <<"int main() { int x=3; int y=5; *(&y-2+1)=7; return x; }", 7>>,
    <<"int main() { int x=3; return (&x+2)-&x+3; }", 5>>,
    <<"int main() { int x=3, y=5; return x+y; }", 8>>,
    <<"int main() { return add2(3,4); } int add2(int x, int y) { return x+y; }", 7>>,
    <<"int main() { return fib(3); } int fib(int x) { if (x<=1) return 1; return fib(x-1) + fib(x-2); }", 3>>,
    <<"int main() { return add6(1,2,add6(3,4,5,6,7,8),9,10,11); } int add6(int a, int b, int c, int d, int e, int f) { return a+b+c+d+e+f; }", 66>>,
    <<"int main() { int x[2]; int *y=&x; *y=3; return *x; }", 3>>,
    <<"int main() { int x[2][3]; int *y=x; *(y+3)=3; return **(x+1); }", 3>>,
    <<"int main() { int x[2][3]; int *y=x; *(y+5)=5; return *(*(x+1)+2); }", 5>>,
    <<"int main() { int x[3]; *x=3; x[1]=4; 2[x]=5; return *(x+2); }", 5>>,
    <<"int main() { int x[2][3]; int *y=x; y[4]=4; return x[1][1]; }", 4>>,
    <<"int main() { int x[3][4]; return sizeof(*x); }", 32>>,
    <<"int main() { int x[3][4]; return sizeof **x + 1; }", 9>>,
    <<"int main() { int x=1; sizeof(x=2); return x; }", 1>>,
    <<"int x, y; int main() { x=3; y=4; return x+y; }", 7>>,
    <<"int x[4]; int main() { x[0]=0; x[1]=1; x[2]=2; x[3]=3; return x[2]; }", 2>>,
    <<"int main() { char x[10]; return sizeof(x); }", 10>>,
    <<"int main() { return sub_char(3, 1, 1); } int sub_char(char a, char b, char c) { return a-b-c; }", 1>>,
    <<"int main() { { int x = 2; } return x; }", 2>>}

(* Texts that are no programs of the language that is compiled.            *)
NoPrograms == {
    "int main() { int *p; int *q; return p+q; }",
    "int main() { int *p; return 1-p; }",
    "int main() { int x[2]; int y[2]; x=y; return 0; }",
    "int main() { int x; return *x; }",
    "int main() { 1=2; return 0; }",
    "int main() { int x; int y; x+y=2; return 0; }",
    "int main() { return &1; }",
    "int main() { return y; }",
    "int main() { int x[2]; return x[0][1]; }",
    "int main() { return 1 }",
    "int main() { return 0; ",
    "int main() { for (int i=0;;) return 1; }",
    "int main() { else return 1; }",
    "int main() { return (1; }",
    "int main() { int x[; }",
    "int main() { char char; }",
    "int x=3; int main() { return x; }",
    "int f(); int main() { return 0; }",
    "int f(int x int y) { return x; }",
    "main() { return 0; }",
    "int main() { return 1 @ 2; }",
    "int main() { return f(1 2); }",
    "int main() { return 0; } }"}

MCPrograms ==
    {WithMeaning(p) : p \in Range(ChibiccTrees)}
    \cup {[text |-> t[1], expected |-> t[2]] : t \in Tests}
    \cup {[text |-> t, expected |-> IllFormed] : t \in NoPrograms}
=============================================================================
