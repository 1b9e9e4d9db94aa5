------------------------------ MODULE Chibicc ------------------------------
(***************************************************************************)
(* The compiler of chibicc-learn, from the text of a program to the end of *)
(* its run on the processor, and what must hold of it.                     *)
(***************************************************************************)
EXTENDS ChibiccCodeGen, Discipline

CONSTANTS
    Programs,     \* what is compiled, a set of [text, expected]
    Undetermined, \* expected where C does not say how the program ends
    IllFormed     \* expected where the text is no program

(* What the properties have to know of a program p and its objects: it is  *)
(* the value of prog.                                                      *)
Knowledge(p, objs) ==
    LET fs == Range(Functions(objs))
    IN [text |-> p.text,
        locals |-> [f \in {o.name : o \in fs} |-> (CHOOSE o \in fs : o.name = f).locals],
        frames |-> [f \in {o.name : o \in fs} |-> SizeOf((CHOOSE o \in fs : o.name = f).locals)],
        arrays |-> {},
        globals |-> Variable(objs), expected |-> p.expected]
Compilation(p, c) == [known |-> Knowledge(p, c.objs), out |-> c]
Compilations == {Compilation(p, Compiled(p.text)) : p \in Programs}

Init ==
    \E c \in Compilations :
        /\ prog = c.known
        /\ IF c.out.end = "compiled" THEN Boot(c.out.code, c.out.data) ELSE NotRun(c.out.end)
Next == Run \/ Stopped
Spec == Init /\ [][Next]_vars

(* The processor goes on running.                                          *)
FairSpec == Spec /\ WF_vars(Run)

-----------------------------------------------------------------------------
Expected == prog.expected

(* main returns the number that the program has in C: the grammar, the     *)
(* types, the scaling of pointers and the code all keep its meaning.       *)
ResultCorrect ==
    status # "running" /\ Expected \notin {Undetermined, IllFormed} =>
        status = "halted" /\ Signed(regs.rax) = Expected

(* A text that is no program is refused with a message; the compiler       *)
(* neither crashes, nor trips over its assertion on depth, nor lets the    *)
(* program run.                                                            *)
IllFormedRefused == Expected = IllFormed => status = "rejected"

FunctionOf(c) == [locals |-> prog.locals[c.name]]

(* The places where one element of a variable lies, as an address and a    *)
(* width: an array has one for each of its elements.                       *)
RECURSIVE ElementType(_)
ElementType(ty) == IF ty.kind = "array" THEN ElementType(ty.base) ELSE ty
Elements(a, ty) ==
    LET w == ElementType(ty).size IN {<<a + w * k, w>> : k \in 0 .. ty.size \div w - 1}
LocalElements(c) ==
    UNION {Elements(Base(c) + Offset(FunctionOf(c), v), v.ty) : v \in Range(FunctionOf(c).locals)}
GlobalElements == UNION {Elements(SymbolAddress(v.name), v.ty) : v \in Range(prog.globals)}

(* A load or a store reads or writes exactly one element of a variable of  *)
(* an active call, or of a global: the width of the access is the width of *)
(* the object, and an index counts objects and not bytes.                  *)
AccessesOneElement ==
    Executes({"load", "load_signed", "store"}) /\ Expected # Undetermined =>
        \E e \in GlobalElements \cup UNION {LocalElements(calls[k]) : k \in DOMAIN calls} :
            Touched = Addresses(e[1], e[2])

(* A program with a meaning in C ends.                                     *)
Terminates == Expected # Undetermined ~> status # "running"
=============================================================================
