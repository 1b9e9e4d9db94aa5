----------------------------- MODULE Discipline -----------------------------
(***************************************************************************)
(* How the two compilers use the stack, as a property of the printed text: *)
(* the shape that the frame of the running function has at each place.  A  *)
(* function is called at its label, saves rbp, makes rbp the base of its   *)
(* frame, pushes and pops in its body, and gives all this back before it   *)
(* returns.  Along a body the words pushed are counted as chibicc-learn    *)
(* counts them in depth: once, from the first line to the last.            *)
(***************************************************************************)
EXTENDS Processor, FiniteSets

(* A shape: how far the function is, and how many words it has pushed onto *)
(* its frame.  A place is dead when no control gets there.                 *)
Phases == {"called", "entry", "saved", "body", "leaving", "left", "dead"}
Shape(phase, height) == [phase |-> phase, height |-> height]

Pushes == {"push", "push_imm", "push_symbol"}
Plain == {"lea_frame", "lea_symbol", "load", "load_signed", "store", "load_symbol",
          "store_symbol", "neg", "alu", "cqo", "idiv", "cmp", "cmp_zero", "set", "movzb",
          "label", "nop", "jmp", "je", "call"}
StackRegisters == {"rsp", "rbp"}

(* What may be printed in a body where the height is h.                    *)
AllowedInBody(i, h) ==
    \/ i[1] \in Plain \cup Pushes
    \/ i[1] = "pop" /\ i[2] \notin StackRegisters /\ h > 0
    \/ i[1] \in {"mov", "mov_imm", "sub_imm"} /\ i[2] \notin StackRegisters
    \/ i[1] = "sub_imm" /\ i[2] = "rsp" /\ i[3] \in Nat
    \/ i = Mov("rsp", "rbp")
Allowed(i, s) ==
    CASE s.phase = "called" -> i[1] = "label"
      [] s.phase = "entry" -> i = Push("rbp")
      [] s.phase = "saved" -> i = Mov("rbp", "rsp")
      [] s.phase = "body" -> AllowedInBody(i, s.height)
      [] s.phase = "leaving" -> i = Pop("rbp")
      [] s.phase = "left" -> i = Ret
      [] OTHER -> FALSE

(* The shape after an instruction.                                         *)
AfterInBody(i, h) ==
    CASE i[1] \in Pushes -> Shape("body", h + 1)
      [] i[1] = "pop" -> Shape("body", h - 1)
      [] i = Mov("rsp", "rbp") -> Shape("leaving", 0)
      [] OTHER -> Shape("body", h)
After(i, s) ==
    CASE s.phase = "called" -> Shape("entry", 0)
      [] s.phase = "entry" -> Shape("saved", 0)
      [] s.phase = "saved" -> Shape("body", 0)
      [] s.phase = "body" -> AfterInBody(i, s.height)
      [] OTHER -> Shape("left", 0)

-----------------------------------------------------------------------------
(* Whether the text in code has the shapes that are given: on every way    *)
(* that leads to a place, by falling through, by a jump or by a call.      *)
LeadsTo(shape, l, s) ==
    /\ Target(l) \in DOMAIN code /\ code[Target(l)] = Label(l)
    /\ shape[Target(l)] = s
ShapesAgree(shape, k) ==
    LET i == code[k] IN
    /\ Allowed(i, shape[k])
    /\ i[1] \notin {"jmp", "ret"} => k + 1 \in DOMAIN code /\ shape[k + 1] = After(i, shape[k])
    /\ i[1] \in {"jmp", "je"} => LeadsTo(shape, i[2], shape[k])
    /\ i[1] = "call" => LeadsTo(shape, Entry(i[2]), Shape("called", 0))
WellStacked(shape) ==
    /\ code \in Seq(Range(code)) /\ Len(code) < Word
    /\ DataSize(data) \in Nat
    /\ shape \in [DOMAIN code -> [phase : Phases, height : Nat]]
    /\ LeadsTo(shape, Entry("main"), Shape("called", 0))
    /\ \A k \in DOMAIN code : shape[k].phase # "dead" => ShapesAgree(shape, k)

(* The shapes that the text itself suggests: what surrounds a place tells  *)
(* how far the function is, and the height is what was pushed and not yet  *)
(* popped since the body began, as depth of chibicc-learn has it.  Control *)
(* gets to a place from above or by a jump.                                *)
IsEntry(k) == k \in DOMAIN code /\ code[k][1] = "label" /\ code[k][2][2] = <<>>
IsLeave(k) == k \in DOMAIN code /\ code[k] = Mov("rsp", "rbp")
BodyStart(k) == CHOOSE b \in 1 .. k : IsEntry(b - 3) /\ \A j \in b - 2 .. k : ~IsEntry(j)
CountedHeight(k) ==
    LET before == BodyStart(k) .. k - 1
    IN Cardinality({j \in before : code[j][1] \in Pushes})
       - Cardinality({j \in before : code[j][1] = "pop" /\ code[j] # Pop("rbp")})
Stops(k) == code[k][1] \in {"jmp", "ret"}
LineEnd(k) ==
    CHOOSE e \in k .. Len(code) : (Stops(e) \/ e = Len(code)) /\ \A j \in k .. e - 1 : ~Stops(j)
ReachedFrom(starts) == UNION {k .. LineEnd(k) : k \in starts}
JumpedTo(places) == {Target(code[j][2]) : j \in {k \in places : code[k][1] \in {"jmp", "je"}}}
LiveFrom[starts \in SUBSET DOMAIN code] ==
    LET more == starts \cup JumpedTo(ReachedFrom(starts))
    IN IF more = starts THEN ReachedFrom(starts) ELSE LiveFrom[more]
TextShapes ==
    [k \in DOMAIN code |->
        CASE k \notin LiveFrom[{j \in DOMAIN code : IsEntry(j)}] -> Shape("dead", 0)
          [] IsEntry(k) -> Shape("called", 0)
          [] IsEntry(k - 1) -> Shape("entry", 0)
          [] IsEntry(k - 2) -> Shape("saved", 0)
          [] IsLeave(k - 1) -> Shape("leaving", 0)
          [] IsLeave(k - 2) -> Shape("left", 0)
          [] OTHER -> Shape("body", CountedHeight(k))]

(* The function to which the instruction at k belongs: that of the last    *)
(* entry up to there.  Only a call and a ret lead from one to another.     *)
FunctionAt(k) ==
    LET entry == CHOOSE b \in 1 .. k : IsEntry(b) /\ \A j \in b + 1 .. k : ~IsEntry(j)
    IN code[entry][2][1]
StaysInside(shape) ==
    \A k \in DOMAIN code : shape[k].phase # "dead" =>
        /\ code[k][1] \notin {"jmp", "ret"} => FunctionAt(k + 1) = FunctionAt(k)
        /\ code[k][1] \in {"jmp", "je"} => FunctionAt(Target(code[k][2])) = FunctionAt(k)

(* What may be asked of a text besides: that between two statements        *)
(* nothing is pushed (but in prog.arrays, functions whose declarations     *)
(* leave words behind), that a je follows its comparison, and that frames  *)
(* are made of multiples of 16.                                            *)
EndsStatement(i) == i[1] \in {"label", "nop"} \/ i = Mov("rsp", "rbp")
StatementsBare(shape) ==
    \A k \in DOMAIN code :
        /\ shape[k].phase = "body" /\ EndsStatement(code[k])
        /\ FunctionAt(k) \notin prog.arrays
        => shape[k].height = 0
TestsStand ==
    \A k \in DOMAIN code :
        code[k][1] = "je" => k - 1 \in DOMAIN code /\ code[k - 1] = CmpZero
FramesAligned ==
    \A k \in DOMAIN code : code[k][1] = "sub_imm" /\ code[k][2] = "rsp" => code[k][3] % 16 = 0

(* prog.frames has for each function how many bytes its variables take     *)
(* below the base of the frame.  A function begins with the prologue,      *)
(* which makes room for them.                                              *)
GivesFrame(k) ==
    LET made == code[k + 3] IN
    /\ code[k + 1] = Push("rbp") /\ code[k + 2] = Mov("rbp", "rsp")
    /\ made[1] = "sub_imm" /\ made[2] = "rsp" /\ made[3] \in Nat
    /\ prog.frames[code[k][2][1]] \in 0 .. made[3]
FramesGiven == \A k \in DOMAIN code : IsEntry(k) => k + 3 \in DOMAIN code /\ GivesFrame(k)

(* The operands of an instruction are what the processor knows, symbols    *)
(* lie in its memory, and this is made of bytes.                           *)
Widths == {1, 4, 8}
OperandsFormed(i) ==
    /\ i[1] \in {"push", "pop"} => i[2] \in RegisterNames
    /\ i[1] = "mov" => i[2] \in RegisterNames /\ i[3] \in RegisterNames
    /\ i[1] \in {"mov_imm", "sub_imm"} => i[2] \in RegisterNames /\ i[3] \in Int
    /\ i[1] \in {"push_imm", "lea_frame"} => i[2] \in Int
    /\ i[1] \in {"lea_symbol", "load_symbol", "store_symbol", "push_symbol"} =>
          SymbolAddress(i[2]) \in 0 .. Word - 1
    /\ i[1] \in {"load", "load_signed"} => i[2] \in Widths
    /\ i[1] = "load_signed" => i[3] \in Widths /\ i[2] <= i[3]
    /\ i[1] = "store" =>
          i[2] \in RegisterNames /\ i[3] \in Int /\ i[4] \in RegisterNames /\ i[5] \in Widths
    /\ i[1] = "store_symbol" => i[3] \in Widths
    /\ i[1] = "alu" => i[2] \in {"add", "sub", "mul"}
    /\ i[1] = "set" => i[2] \in {"eq", "ne", "lt", "le"}
TextFormed == \A k \in DOMAIN code : OperandsFormed(code[k])

-----------------------------------------------------------------------------
(* The bytes of the variables of an active call, and of the globals.       *)
Base(c) == c.rsp - WordBytes
LocalBytes(c) == Addresses(Base(c) - prog.frames[c.name], prog.frames[c.name])
GlobalBytes == Addresses(Top, DataSize(data))

(* A store writes to variables of an active call, or to globals.           *)
StoresHitVariables ==
    Executes({"store", "store_symbol"}) =>
        \/ Touched \subseteq GlobalBytes
        \/ \E k \in DOMAIN calls : Touched \subseteq LocalBytes(calls[k])

(* A frame or a padding fits below rsp.                                    *)
StackHolds == Executes({"sub_imm"}) /\ code[pc][2] = "rsp" => code[pc][3] <= regs.rsp
Careful == StoresHitVariables /\ StackHolds

(* The text of a compiled program is well formed and well stacked, each of *)
(* its functions keeps to itself and makes room for its variables, nothing *)
(* is pushed between its statements, each of its tests stands next to its  *)
(* branch, and when it runs, what it stores through an address that it     *)
(* computes goes to its variables.                                         *)
AtStart == status = "running" /\ Len(calls) = 1 /\ pc = Target(Entry("main"))
Disciplined ==
    /\ AtStart => TextFormed /\ MemoryTyped
    /\ AtStart => FramesGiven /\ TestsStand
    /\ AtStart => \E shape \in {TextShapes} :
                     WellStacked(shape) /\ StaysInside(shape) /\ StatementsBare(shape)
    /\ Careful

(* Besides, that holds of all its functions, and its frames are multiples  *)
(* of 16.                                                                  *)
Tidy == Disciplined /\ (AtStart => prog.arrays = {} /\ FramesAligned)

(* NothingLeft, but for functions with an array: its declaration prints    *)
(* two pushes and its statement pops one.                                  *)
NothingLeftButArrays == NothingLeft \/ Current.name \in prog.arrays

(* No push or call writes over a local variable of any active call.        *)
PushesSpareLocals ==
    Executes(Pushes \cup {"call"}) =>
        \A k \in DOMAIN calls :
            Addresses(regs.rsp - WordBytes, WordBytes) \cap LocalBytes(calls[k]) = {}

(* No store writes over the return address or the saved rbp of an active   *)
(* call.                                                                   *)
LinkBytes == UNION {Addresses(calls[k].rsp - WordBytes, 2 * WordBytes) : k \in DOMAIN calls}
StoresSpareLinks == Executes({"store", "store_symbol"}) => Touched \cap LinkBytes = {}
=============================================================================
