------------------------------ MODULE Machine ------------------------------
(***************************************************************************)
(* The code that codegen.c prints for a program, run on the processor, and *)
(* what must hold of it.                                                   *)
(***************************************************************************)
EXTENDS CodeGen, Discipline

CONSTANTS
    Programs,     \* the programs that are compiled and run, a sequence
    Fuel          \* how deep the reference semantics follows a program

ASSUME MachineAssumption ==
    \A k \in DOMAIN Programs : \E j \in DOMAIN Programs[k] : Programs[k][j].name = "main"

(* The generated code loads an int without its sign, so C is followed as   *)
(* long as no number is negative.                                          *)
C == INSTANCE Reference WITH
        MinInt <- 0, MaxInt <- Byte ^ IntBytes \div 2 - 1,
        MinChar <- 0, MaxChar <- Byte \div 2 - 1
Meanings == [k \in DOMAIN Programs |-> C!Meaning(Programs[k], Fuel)]
TheFunction(k, f) ==
    Programs[k][CHOOSE j \in DOMAIN Programs[k] : Programs[k][j].name = f]

HasArray(f) == \E k \in DOMAIN f.locals : f.locals[k][2].kind = "array"

(* What the properties have to know of the k-th program: it is the value   *)
(* of prog.                                                                *)
Knowledge(k) ==
    LET fs == OfKind(Programs[k], "func")
    IN [number |-> k,
        frames |-> [f \in {g.name : g \in Range(fs)} |-> TotalOffset(TheFunction(k, f))],
        arrays |-> {f.name : f \in {g \in Range(fs) : HasArray(g)}}]

Init ==
    \E k \in DOMAIN Programs :
        /\ prog = Knowledge(k)
        /\ Boot(Compile(Programs[k]), DataOf(Programs[k], code))

Next == Run \/ Stopped

Spec == Init /\ [][Next]_vars

(* The processor goes on running.                                          *)
FairSpec == Spec /\ WF_vars(Run)

-----------------------------------------------------------------------------
Defined == Meanings[prog.number].ok

(* A program with a meaning in C ends normally and main returns the int    *)
(* that C says (the code that gen produces for the whole program is        *)
(* right).                                                                 *)
ResultCorrect ==
    status # "running" /\ Defined =>
        status = "halted" /\ regs.rax % Byte ^ IntBytes = Meanings[prog.number].val[2]

(* The bytes of one variable, an array with all its elements.              *)
VariableBytes(c, v) == Addresses(Base(c) - v.offset, v.ty.size)
Variables(c) == LET fr == FrameOf(TheFunction(prog.number, c.name)) IN {fr[x] : x \in DOMAIN fr}

(* A store writes within one variable of the function that runs, or within *)
(* the global it names: never into a neighbour, the saved rbp or the       *)
(* return address.                                                         *)
StoresHitOneVariable ==
    /\ Executes({"store"}) =>
          \E v \in Variables(Current) : Touched \subseteq VariableBytes(Current, v)
    /\ Executes({"store_symbol"}) =>
          \E d \in Range(data) :
             d.name = code[pc][2] /\ Touched \subseteq Addresses(Symbol, d.size)

(* A program with a meaning in C ends.                                     *)
Terminates == Defined ~> status # "running"
=============================================================================
