------------------------------ MODULE Assembly ------------------------------
(***************************************************************************)
(* The instructions that the two compilers print.  holycc writes them in   *)
(* Intel syntax with the destination first, chibicc-learn in AT&T syntax   *)
(* with the destination last; here an instruction is a tuple of its kind   *)
(* and what varies in the code that is printed, destination first.         *)
(***************************************************************************)

(* A width w says whether the other operand is a byte (1), half a register *)
(* (4) or a register (8).                                                  *)
Push(r) == <<"push", r>>
PushImm(v) == <<"push_imm", v>>
Pop(r) == <<"pop", r>>
Mov(d, r) == <<"mov", d, r>>
MovImm(d, v) == <<"mov_imm", d, v>>
SubImm(r, v) == <<"sub_imm", r, v>>
LeaFrame(d) == <<"lea_frame", d>>        \* lea d(%rbp), %rax
LeaSymbol(x) == <<"lea_symbol", x>>      \* lea x(%rip), %rax
Load(w) == <<"load", w>>                 \* mov rax, [rax], or half of it
LoadSigned(w, r) == <<"load_signed", w, r>>    \* movsbq (%rax), %rax; movsx eax, [rax]
StoreAt(b, d, r, w) == <<"store", b, d, r, w>>    \* mov [b + d], r
Store(r, w) == StoreAt("rax", 0, r, w)
LoadSymbol(x) == <<"load_symbol", x>>    \* mov rax, [rip+x]
StoreSymbol(x, w) == <<"store_symbol", x, w>>    \* mov [rip+x], rax, or part of it
PushSymbol(x) == <<"push_symbol", x>>    \* push [rip+x]
Neg == <<"neg">>                         \* neg rax
Alu(op) == <<"alu", op>>                 \* op rax, rdi
Cqo == <<"cqo">>
Idiv == <<"idiv">>                       \* idiv rdi
Cmp == <<"cmp">>                         \* cmp rax, rdi
CmpZero == <<"cmp_zero">>                \* cmp rax, 0
SetByte(cc) == <<"set", cc>>             \* setcc al
MovZeroExtend == <<"movzb">>             \* movzb rax, al
Jmp(l) == <<"jmp", l>>
Je(l) == <<"je", l>>
Label(l) == <<"label", l>>
CallTo(f) == <<"call", f>>
Ret == <<"ret">>
NoOperation == <<"nop">>

(* The label a statement makes from a word and its number, and the label   *)
(* of a function.  count numbers the statements; here the path c to the    *)
(* statement in the program is the number.                                 *)
LabelOf(word, c) == <<word, c>>
Entry(f) == <<f, <<>>>>

(* What .data holds: a symbol, its bytes, and the number it starts with.   *)
Datum(x, w, v) == [name |-> x, size |-> w, val |-> v]
=============================================================================
