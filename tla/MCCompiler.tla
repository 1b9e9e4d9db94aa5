----------------------------- MODULE MCCompiler -----------------------------
(***************************************************************************)
(* Files for Compiler.  The texts of the sample programs, with the trees   *)
(* they are printed from; the same texts with a character missing; what    *)
(* else the language has; and everything that up to four fragments spell   *)
(* when they are written one after the other, so that comments, literals,  *)
(* words and operators meet at every boundary.                             *)
(***************************************************************************)
EXTENDS Compiler

T == INSTANCE SourceText
S == INSTANCE SamplePrograms

Chars(text) == [k \in 1 .. Len(text) |-> SubSeq(text, k, k)] \o <<Newline>>
Alone(fs) == {[file |-> file, code |-> NoTree] : file \in fs}

-----------------------------------------------------------------------------
Fragments ==
    {<<"i", "f">>, <<"a">>, <<"1">>, <<"_">>, <<" ">>, <<Newline>>,
     <<"/">>, <<"*">>, LineOpen, BlockOpen, BlockClose,
     <<"=">>, <<"!">>, <<Quote>>, <<Tick>>, <<"#">>}
File(fs) == FlattenSeq(fs) \o <<Newline>>
Words(w) == {<<w>>, <<w, <<"a">>>>, <<<<"a">>, w>>, <<w, <<"1">>>>, <<w, <<"_">>>>, <<w, w>>}
Spelled ==
    {File(fs) : fs \in UNION {[1 .. k -> Fragments] : k \in 0 .. 4}}
    \cup {File(fs) : fs \in UNION {Words(w) : w \in Keywords}}
    \cup {File(<<<<"a">>, <<c>>, <<"1">>>>) : c \in Blank}

-----------------------------------------------------------------------------
Programs ==
    S!ControlPrograms \o S!CallPrograms \o S!PointerPrograms \o S!DataPrograms
    \o [k \in 1 .. 3 |-> S!LoopingFrom(k, <<>>, S!New("n", S!Num(0)))]
    \o [k \in 1 .. 50 |-> S!ExpressionPrograms[10 * k]]
Printed == {[file |-> Chars(T!Text(q)), code |-> q] : q \in Range(Programs)}

Others == {
    "int a91; int case91() { a91 = 5; return a91; } int main() { test(5, case91()); }",
    "char f() { char a = 'a'; return a; } int main() { char *x = \"ab\"; char *y = \"ab\"; char *z = \"b\"; g(x, y); return sizeof(z); }",
    "int x; int x; int y; int main() { return x; }",
    "int x; int x; int main() { int a; return x; }",
    "int x; int y; int x; int y; int main() { return x + y; }",
    "int x = 5; int main() { return x; }",
    "int main() { return 1; } int x = 5;",
    "int x[3]; int main() { return x[0]; }",
    "int *p; int main() { return 1; }",
    "int p*; int main() { int a = 3; p = &a; return *p; }",
    "int main() { return y; }",
    "int main() { int a; return y; }",
    "int main() { 1 + 2 = 3; }",
    "int main() { return sizeof(int); }",
    "int f(int a = 1) { return a; }",
    "int main() { int a; int b; int c; int d; int e; int f; int g; int h; int i; int j; int k; int l; int m; return 1; }",
    "int a; int b; int c; int d; int e;",
    "int a; int b; int c; int d; int e; int f;",
    "int main() { 1=1; 1=1; 1=1; 1=1; 1=1; 1=1; 1=1; 1=1; 1=1; 1=1; 1=1; 1=1; 1=1; }",
    "int main() { int a; a = b = 1; }",
    "int main() { return f(-1); }",
    "int main() {\treturn\f1;\r\n}",
    "int main() { return 1; } /* the end *",
    "int main() { return 1"}

Spoiled(file) == {RemoveAt(file, k) : k \in 1 .. Len(file) - 1}
Whole == {Chars(t) : t \in Others} \cup {q.file : q \in {r \in Printed : Len(r.file) \in 90 .. 110}}
MCTexts == Printed \cup Alone(Spelled \cup Whole \cup UNION {Spoiled(file) : file \in Whole})
MCInputs == {t.file : t \in MCTexts}
=============================================================================
