----------------------------- MODULE Processor -----------------------------
(***************************************************************************)
(* The processor running what a compiler printed: the instructions of      *)
(* Assembly on registers, flags and a byte-addressed memory that holds the *)
(* stack and above it the data section.  A byte has Byte values, so that a *)
(* register has Byte^8; everything else has the sizes of the real machine. *)
(* main is entered as the C runtime enters it.  The variable calls is not  *)
(* in the machine: it remembers what every active call was promised.       *)
(***************************************************************************)
EXTENDS Assembly, Integers, Sequences, SequencesExt

CONSTANTS
    Byte,         \* the values of a byte
    Fill,         \* what memory and the registers may hold at the start
    StackSize     \* bytes of memory for the stack

WordBytes == 8

(* Place[w + 1] is how many values w bytes have.                           *)
Place ==
    LET two == Byte * Byte
        four == two * two
    IN <<1, Byte, two, two * Byte, four, four * Byte, four * two, four * two * Byte, four * four>>
Word == Place[WordBytes + 1]

ASSUME ProcessorAssumption ==
    /\ StackSize \in Nat \ {0} /\ StackSize % 16 = 0
    /\ Byte \in Nat \ {0, 1} /\ Byte % 2 = 0
    /\ 2 * StackSize < Word
    /\ Fill \subseteq 0 .. Byte - 1

VARIABLES
    prog,         \* which program runs
    code, data,   \* what the compiler printed for it, loaded once
    pc,           \* the position in code; 0 is the C runtime
    regs, mem,
    flags,        \* ZF, and SF # OF
    status,       \* running, halted or fault, or what the compiler ended in
    calls         \* the active calls, the innermost last

loaded == <<prog, code, data>>
vars == <<loaded, pc, regs, mem, flags, status, calls>>

RegisterNames == {"rax", "rdi", "rsi", "rdx", "rcx", "r8", "r9", "rsp", "rbp"}

Op == code[pc][1]
Target(l) == CHOOSE k \in DOMAIN code : code[k] = Label(l)

Signed(v) == IF v >= Word \div 2 THEN v - Word ELSE v
Wrap(v) == v % Word

Addresses(a, w) == a .. a + w - 1
ByteOf(v, k) == (v \div Place[k + 1]) % Byte
ReadTwo(m, a) == m[a] + Byte * m[a + 1]
ReadFour(m, a) == ReadTwo(m, a) + Place[3] * ReadTwo(m, a + 2)
ReadFrom(m, a, w) ==
    CASE w = 1 -> m[a]
      [] w = 4 -> ReadFour(m, a)
      [] w = 8 -> ReadFour(m, a) + Place[5] * ReadFour(m, a + 4)
WriteTo(m, a, w, v) ==
    [b \in DOMAIN m |-> IF b \in Addresses(a, w) THEN ByteOf(v, b - a) ELSE m[b]]

-----------------------------------------------------------------------------
(* The call of main by the runtime, which keeps rsp a multiple of 16 at    *)
(* the call.                                                               *)
Bottom == StackSize                 \* nothing is mapped below
Top == Bottom + StackSize
StartRsp == Top - WordBytes

(* The data section lies above the stack.  The rest of its page is mapped  *)
(* too.                                                                    *)
PageRest(d) == IF d = <<>> THEN 0 ELSE WordBytes
DataSize(d) == FoldLeft(LAMBDA t, x : t + x.size, 0, d)
SymbolAddress(name) ==
    LET k == CHOOSE j \in DOMAIN data : data[j].name = name
    IN Top + DataSize(SubSeq(data, 1, k - 1))
InitialData(d) ==
    FlattenSeq([k \in DOMAIN d |->
        [b \in 1 .. d[k].size |-> IF b > WordBytes THEN 0 ELSE ByteOf(d[k].val, b - 1)]])

(* The program c with the data d is loaded and main is called.             *)
Boot(c, d) ==
    /\ code = c /\ data = d
    /\ pc = Target(Entry("main"))
    /\ \E g \in Fill :
          /\ regs = [r \in RegisterNames |->
                        CASE r = "rsp" -> StartRsp
                          [] r = "rbp" -> Top
                          [] OTHER -> ReadFrom([k \in 1 .. WordBytes |-> g], 1, WordBytes)]
          /\ mem = [b \in Bottom .. Top + DataSize(data) + PageRest(data) - 1 |->
                       CASE b < StartRsp \/ b >= Top + DataSize(data) -> g
                         [] b \in StartRsp .. Top - 1 -> 0
                         [] b \in Top .. Top + DataSize(data) - 1 -> InitialData(data)[b - Top + 1]]
    /\ flags = [zf |-> FALSE, lt |-> FALSE]
    /\ status = "running"
    /\ calls = <<[name |-> "main", ret |-> 0, rsp |-> StartRsp, rbp |-> Top, room |-> 0]>>

(* The compiler stopped in the state s and nothing is run.                 *)
NotRun(s) ==
    /\ code = <<>> /\ data = <<>> /\ pc = 0
    /\ regs = [r \in RegisterNames |-> 0] /\ mem = [b \in {} |-> 0]
    /\ flags = [zf |-> FALSE, lt |-> FALSE]
    /\ status = s /\ calls = <<>>

InCode == pc \in DOMAIN code
Executes(ops) == status = "running" /\ InCode /\ Op \in ops

(* The bytes of memory that the instruction at pc works on.                *)
Touched ==
    CASE Op \in {"push", "push_imm", "call"} -> Addresses(regs.rsp - WordBytes, WordBytes)
      [] Op \in {"pop", "ret"} -> Addresses(regs.rsp, WordBytes)
      [] Op = "push_symbol" ->
            Addresses(regs.rsp - WordBytes, WordBytes)
            \cup Addresses(SymbolAddress(code[pc][2]), WordBytes)
      [] Op = "load_symbol" -> Addresses(SymbolAddress(code[pc][2]), WordBytes)
      [] Op = "store_symbol" -> Addresses(SymbolAddress(code[pc][2]), code[pc][3])
      [] Op \in {"load", "load_signed"} -> Addresses(regs.rax, code[pc][2])
      [] Op = "store" -> Addresses(Wrap(regs[code[pc][2]] + code[pc][3]), code[pc][5])
      [] OTHER -> {}

(* idiv divides rdx:rax by rdi; cqo has made rdx the sign of rax.          *)
DivisionFails == Op = "idiv" /\ (regs.rdi = 0 \/ Signed(regs.rax) = -1 * (Word \div 2))

Faults == ~InCode \/ ~(Touched \subseteq DOMAIN mem) \/ DivisionFails

Fault ==
    /\ status = "running" /\ Faults
    /\ status' = "fault"
    /\ UNCHANGED <<loaded, pc, regs, mem, flags, calls>>

(* An instruction of one of the kinds ops that has what it needs, and goes *)
(* on to the next one.                                                     *)
Does(ops) == Executes(ops) /\ ~Faults
Step(ops) == Does(ops) /\ pc' = pc + 1 /\ UNCHANGED <<loaded, status>>

-----------------------------------------------------------------------------
PushStep ==
    /\ Step({"push", "push_imm"})
    /\ LET v == IF Op = "push" THEN regs[code[pc][2]] ELSE Wrap(code[pc][2]) IN
       /\ mem' = WriteTo(mem, regs.rsp - WordBytes, WordBytes, v)
       /\ regs' = [regs EXCEPT !.rsp = @ - WordBytes]
    /\ UNCHANGED <<flags, calls>>

PopStep ==
    /\ Step({"pop"})
    /\ regs' = [regs EXCEPT !.rsp = @ + WordBytes,
                            ![code[pc][2]] = ReadFrom(mem, regs.rsp, WordBytes)]
    /\ UNCHANGED <<mem, flags, calls>>

MovStep ==
    /\ Step({"mov", "mov_imm"})
    /\ regs' = [regs EXCEPT ![code[pc][2]] =
                   IF Op = "mov" THEN regs[code[pc][3]] ELSE Wrap(code[pc][3])]
    /\ UNCHANGED <<mem, flags, calls>>

LeaStep ==
    /\ Step({"lea_frame", "lea_symbol"})
    /\ regs' = [regs EXCEPT !.rax =
                   IF Op = "lea_frame" THEN Wrap(regs.rbp + code[pc][2])
                   ELSE SymbolAddress(code[pc][2])]
    /\ UNCHANGED <<mem, flags, calls>>

Compared(a, b) == [zf |-> a = b, lt |-> Signed(a) < Signed(b)]

(* A subtraction sets the flags.  On rsp it makes room in the frame.       *)
SubStep ==
    /\ Step({"sub_imm"})
    /\ LET r == code[pc][2] v == code[pc][3] IN
       /\ regs' = [regs EXCEPT ![r] = Wrap(@ - v)]
       /\ flags' = Compared(regs[r], v)
       /\ calls' = IF r = "rsp" THEN [calls EXCEPT ![Len(calls)].room = @ + v] ELSE calls
    /\ UNCHANGED mem

(* Half a register is written with zeros above it.  A signed byte becomes  *)
(* r bytes with its sign.                                                  *)
SignExtended(v, w, r) == IF v >= Place[w + 1] \div 2 THEN Place[r + 1] - Place[w + 1] + v ELSE v
LoadStep ==
    /\ Step({"load", "load_signed"})
    /\ LET w == code[pc][2]
           v == ReadFrom(mem, regs.rax, w)
       IN regs' = [regs EXCEPT !.rax = IF Op = "load" THEN v ELSE SignExtended(v, w, code[pc][3])]
    /\ UNCHANGED <<mem, flags, calls>>

StoreStep ==
    /\ Step({"store"})
    /\ LET a == Wrap(regs[code[pc][2]] + code[pc][3])
       IN mem' = WriteTo(mem, a, code[pc][5], regs[code[pc][4]])
    /\ UNCHANGED <<regs, flags, calls>>

Symbol == SymbolAddress(code[pc][2])
LoadSymbolStep ==
    /\ Step({"load_symbol"})
    /\ regs' = [regs EXCEPT !.rax = ReadFrom(mem, Symbol, WordBytes)]
    /\ UNCHANGED <<mem, flags, calls>>
StoreSymbolStep ==
    /\ Step({"store_symbol"})
    /\ mem' = WriteTo(mem, Symbol, code[pc][3], regs.rax)
    /\ UNCHANGED <<regs, flags, calls>>
PushSymbolStep ==
    /\ Step({"push_symbol"})
    /\ mem' = WriteTo(mem, regs.rsp - WordBytes, WordBytes, ReadFrom(mem, Symbol, WordBytes))
    /\ regs' = [regs EXCEPT !.rsp = @ - WordBytes]
    /\ UNCHANGED <<flags, calls>>

NegStep ==
    /\ Step({"neg"})
    /\ regs' = [regs EXCEPT !.rax = Wrap(0 - @)]
    /\ UNCHANGED <<mem, flags, calls>>

(* Only comparisons and sub_imm set flags that are read here.              *)
AluStep ==
    /\ Step({"alu"})
    /\ regs' = [regs EXCEPT !.rax =
          CASE code[pc][2] = "add" -> Wrap(regs.rax + regs.rdi)
            [] code[pc][2] = "sub" -> Wrap(regs.rax - regs.rdi)
            [] code[pc][2] = "mul" -> Wrap(Signed(regs.rax) * Signed(regs.rdi))]
    /\ UNCHANGED <<mem, flags, calls>>

CqoStep ==
    /\ Step({"cqo"})
    /\ regs' = [regs EXCEPT !.rdx = IF Signed(regs.rax) < 0 THEN Word - 1 ELSE 0]
    /\ UNCHANGED <<mem, flags, calls>>

(* Division rounds towards zero.                                           *)
IdivStep ==
    /\ Step({"idiv"})
    /\ LET a == Signed(regs.rax) b == Signed(regs.rdi)
           Magnitude(x) == IF x < 0 THEN 0 - x ELSE x
           sign == IF (a < 0) = (b < 0) THEN 1 ELSE -1
           q == sign * (Magnitude(a) \div Magnitude(b))
       IN regs' = [regs EXCEPT !.rax = Wrap(q), !.rdx = Wrap(a - q * b)]
    /\ UNCHANGED <<mem, flags, calls>>

CmpStep ==
    /\ Step({"cmp", "cmp_zero"})
    /\ flags' = Compared(regs.rax, IF Op = "cmp" THEN regs.rdi ELSE 0)
    /\ UNCHANGED <<regs, mem, calls>>

SetStep ==
    /\ Step({"set"})
    /\ LET cc == code[pc][2]
           holds == CASE cc = "eq" -> flags.zf [] cc = "ne" -> ~flags.zf
                      [] cc = "lt" -> flags.lt [] cc = "le" -> flags.zf \/ flags.lt
       IN regs' = [regs EXCEPT !.rax = (@ - (@ % Byte)) + (IF holds THEN 1 ELSE 0)]
    /\ UNCHANGED <<mem, flags, calls>>

MovzbStep ==
    /\ Step({"movzb"})
    /\ regs' = [regs EXCEPT !.rax = @ % Byte]
    /\ UNCHANGED <<mem, flags, calls>>

(* A label or a nop does nothing.                                          *)
PassStep ==
    /\ Step({"label", "nop"})
    /\ UNCHANGED <<regs, mem, flags, calls>>

JumpStep ==
    /\ Does({"jmp", "je"})
    /\ pc' = IF Op = "jmp" \/ flags.zf THEN Target(code[pc][2]) ELSE pc + 1
    /\ UNCHANGED <<loaded, regs, mem, flags, status, calls>>

CallStep ==
    /\ Does({"call"})
    /\ pc' = Target(Entry(code[pc][2]))
    /\ mem' = WriteTo(mem, regs.rsp - WordBytes, WordBytes, pc + 1)
    /\ regs' = [regs EXCEPT !.rsp = @ - WordBytes]
    /\ calls' = Append(calls, [name |-> code[pc][2], ret |-> pc + 1,
                               rsp |-> regs.rsp - WordBytes, rbp |-> regs.rbp, room |-> 0])
    /\ UNCHANGED <<loaded, flags, status>>

(* The return of main goes to the runtime.                                 *)
RetStep ==
    /\ Does({"ret"})
    /\ pc' = ReadFrom(mem, regs.rsp, WordBytes)
    /\ status' = IF pc' = 0 THEN "halted" ELSE "running"
    /\ regs' = [regs EXCEPT !.rsp = @ + WordBytes]
    /\ calls' = IF Len(calls) > 1 THEN Front(calls) ELSE calls
    /\ UNCHANGED <<loaded, mem, flags>>

Stopped == status # "running" /\ UNCHANGED vars

Run ==
    \/ PushStep \/ PopStep \/ MovStep \/ LeaStep \/ SubStep \/ LoadStep \/ StoreStep
    \/ LoadSymbolStep \/ StoreSymbolStep \/ PushSymbolStep
    \/ NegStep \/ AluStep \/ CqoStep \/ IdivStep \/ CmpStep \/ SetStep \/ MovzbStep
    \/ PassStep \/ JumpStep \/ CallStep \/ RetStep \/ Fault

-----------------------------------------------------------------------------
(* What every run of the processor keeps.                                  *)
MemoryTyped == \A b \in DOMAIN mem : mem[b] \in 0 .. Byte - 1
ProcessorTypeOK ==
    /\ pc \in 0 .. Len(code) + 1
    /\ regs \in [RegisterNames -> 0 .. Word - 1] /\ MemoryTyped
    /\ flags \in [zf : BOOLEAN, lt : BOOLEAN]

Current == calls[Len(calls)]

(* At every ret, rsp points at the return address of the call that is      *)
(* active and rbp is the caller's: the pushes and pops of the body and the *)
(* epilogue that the compiler prints match (holycc's gen_stmt for a        *)
(* return, chibicc's emit_text).                                           *)
ReturnsToCaller ==
    Executes({"ret"}) /\ ~Faults =>
        /\ regs.rsp = Current.rsp /\ regs.rbp = Current.rbp
        /\ ReadFrom(mem, regs.rsp, WordBytes) = Current.ret

(* Between two statements the stack holds the frame and the padding of     *)
(* adjust_rsp and nothing else: codegen.c:264 says that an expression      *)
(* leaves one value on the stack, and codegen.c:153 that the statement     *)
(* pops it.  chibicc-learn counts the pushes once along the text, where a  *)
(* loop or a branch is passed one time, and asserts that the count is 0 at *)
(* the end of a body.                                                      *)
BetweenStatements ==
    /\ Executes({"label", "nop", "mov"})
    /\ Op = "mov" => code[pc] = Mov("rsp", "rbp")
    /\ Op = "label" => code[pc][2] # Entry(Current.name)
NothingLeft == BetweenStatements => regs.rbp - regs.rsp = Current.room

(* There the stack is a multiple of 16 again when it was one at the call:  *)
(* this is what align_to of chibicc-learn is for.                          *)
StackAligned == BetweenStatements /\ Current.rsp % 16 = WordBytes => regs.rsp % 16 = 0

(* je goes to its label exactly when the value that was tested is zero.    *)
(* codegen.c:671 says that the padding of adjust_rsp is there to make je   *)
(* and jmp work; where it is emitted between the cmp and the je, its sub   *)
(* overwrites the flags.                                                   *)
BranchesOnCondition ==
    Executes({"je"}) => (flags.zf <=> regs.rax = 0)
=============================================================================
