-------------------------- MODULE DisciplineProofs --------------------------
(***************************************************************************)
(* Proofs that a well stacked text, whatever it computes, returns from     *)
(* each of its calls to the caller, leaves nothing on the stack between    *)
(* its statements, keeps the stack aligned and branches on its conditions. *)
(* They rest on the processor alone, for every size of a byte and of the   *)
(* stack: what the compilers have to do with it is that their texts are    *)
(* Disciplined, or Tidy.                                                   *)
(***************************************************************************)
EXTENDS Discipline, LeastNumber

-----------------------------------------------------------------------------
(* Two digits in the bases x and y are one digit in the base x * y.        *)
LEMMA TwoDigits ==
    ASSUME NEW u \in Nat, NEW x \in Nat \ {0}, NEW y \in Nat \ {0}
    PROVE  /\ x * y \in Nat \ {0}
           /\ (u % x) + x * ((u \div x) % y) = u % (x * y)
           /\ (u \div x) \div y = u \div (x * y)
<1>1. PICK q \in Nat, r \in 0 .. x - 1 : q = u \div x /\ r = u % x /\ u = x * q + r
    BY DivMod
<1>2. PICK p \in Nat, s \in 0 .. y - 1 : p = q \div y /\ s = q % y /\ q = y * p + s
    BY DivMod
<1>3. x * y \in Nat \ {0}
    OBVIOUS
<1>4. u = (x * y) * p + (x * s + r)
    <2>1. x * q = x * (y * p) + x * s
        BY <1>2
    <2>2. x * (y * p) = (x * y) * p
        OBVIOUS
    <2> QED
        BY <1>1, <2>1, <2>2
<1>5. x * s + r \in 0 .. x * y - 1
    <2>1. x * s + x <= x * y
        BY <1>2, MultiplesApart
    <2>2. x * s \in Nat
        OBVIOUS
    <2> QED
        BY <1>1, <1>3, <2>1, <2>2
<1>6. p = u \div (x * y) /\ x * s + r = u % (x * y)
    BY <1>3, <1>4, <1>5, DivUnique
<1> QED
    BY <1>1, <1>2, <1>3, <1>6

LEMMA Places ==
    /\ Byte \in Nat \ {0} /\ Place[1] = 1 /\ Place[2] = Byte
    /\ Place[3] \in Nat \ {0} /\ Place[3] = Byte * Byte /\ Place[4] = Place[3] * Byte
    /\ Place[5] \in Nat \ {0} /\ Place[5] = Place[3] * Place[3] /\ Place[6] = Place[5] * Byte
    /\ Place[7] = Place[5] * Place[3] /\ Place[8] = Place[5] * Place[4]
    /\ Word \in Nat \ {0} /\ Word = Place[5] * Place[5]
<1> DEFINE two == Byte * Byte
           four == two * two
<1>1. Byte \in Nat \ {0} /\ two \in Nat \ {0} /\ four \in Nat \ {0} /\ four * four \in Nat \ {0}
    BY ProcessorAssumption
<1>2. four * two * Byte = four * (two * Byte)
    BY <1>1
<1>3. Place = <<1, Byte, two, two * Byte, four, four * Byte, four * two, four * two * Byte,
               four * four>>
    BY DEF Place
<1> HIDE DEF two, four
<1>4. /\ Place[1] = 1 /\ Place[2] = Byte /\ Place[3] = two /\ Place[4] = two * Byte
      /\ Place[5] = four /\ Place[6] = four * Byte /\ Place[7] = four * two
      /\ Place[8] = four * (two * Byte) /\ Word = four * four
    BY <1>2, <1>3 DEF Word, WordBytes
<1> QED
    BY <1>1, <1>4 DEF two, four

(* The digits of a number in the base x * x are those in the base x of its *)
(* two halves.                                                             *)
LEMMA Halves ==
    ASSUME NEW u \in Nat, NEW x \in Nat \ {0}, NEW y, y = x * x
    PROVE  u \div x \in Nat /\ (u % x) + x * ((u \div x) % x) = u % y
BY DivMod, TwoDigits

LEMMA Shifted ==
    ASSUME NEW u \in Nat, NEW x \in Nat \ {0}, NEW y \in Nat \ {0}, NEW z, z = x * y
    PROVE  (u \div x) \div y = u \div z
BY TwoDigits

LEMMA TwoBytes ==
    ASSUME NEW u \in Nat, NEW m, NEW a \in Nat,
           m[a] = u % Byte, m[a + 1] = (u \div Byte) % Byte
    PROVE  ReadTwo(m, a) = u % Place[3]
<1>1. (u % Byte) + Byte * ((u \div Byte) % Byte) = u % Place[3]
    <2>1. Byte \in Nat \ {0} /\ Place[3] = Byte * Byte
        BY Places
    <2> QED
        BY <2>1, Halves, Zenon
<1> QED
    BY <1>1 DEF ReadTwo

LEMMA FourBytes ==
    ASSUME NEW u \in Nat, NEW m, NEW a \in Nat,
           m[a] = u % Byte, m[a + 1] = (u \div Byte) % Byte,
           m[a + 2] = (u \div Place[3]) % Byte, m[a + 3] = (u \div Place[4]) % Byte
    PROVE  ReadFour(m, a) = u % Place[5]
<1>1. /\ u \div Place[3] \in Nat
      /\ (u % Place[3]) + Place[3] * ((u \div Place[3]) % Place[3]) = u % Place[5]
    <2>1. Place[3] \in Nat \ {0} /\ Place[5] = Place[3] * Place[3]
        BY Places
    <2> QED
        BY <2>1, Halves, Zenon
<1>2. ReadTwo(m, a) = u % Place[3]
    BY TwoBytes
<1>3. (u \div Place[3]) \div Byte = u \div Place[4]
    <2>1. Byte \in Nat \ {0} /\ Place[3] \in Nat \ {0} /\ Place[4] = Place[3] * Byte
        BY Places
    <2> QED
        BY <2>1, Shifted
<1>4. ReadTwo(m, a + 2) = (u \div Place[3]) % Place[3]
    <2>1. a + 2 \in Nat /\ (a + 2) + 1 = a + 3
        OBVIOUS
    <2> QED
        BY <1>1, <1>3, <2>1, TwoBytes
<1> QED
    BY <1>1, <1>2, <1>4 DEF ReadFour

(* The bytes of v are in the memory m at a.                                *)
Holds(m, a, v) ==
    \A k \in 0 .. WordBytes - 1 : a + k \in DOMAIN m /\ m[a + k] = ByteOf(v, k)

(* What is written byte by byte is read back as it was.                    *)
LEMMA ReadBack ==
    ASSUME NEW m, NEW a \in Nat, NEW v \in 0 .. Word - 1, Holds(m, a, v)
    PROVE  ReadFrom(m, a, WordBytes) = v
<1>1. v \in Nat /\ v \div 1 = v /\ a + 0 = a
    BY Places
<1>2. /\ m[a + 0] = (v \div Place[1]) % Byte /\ m[a + 1] = (v \div Place[2]) % Byte
      /\ m[a + 2] = (v \div Place[3]) % Byte /\ m[a + 3] = (v \div Place[4]) % Byte
      /\ m[a + 4] = (v \div Place[5]) % Byte /\ m[a + 5] = (v \div Place[6]) % Byte
      /\ m[a + 6] = (v \div Place[7]) % Byte /\ m[a + 7] = (v \div Place[8]) % Byte
    BY DEF Holds, ByteOf, WordBytes
<1>3. ReadFour(m, a) = v % Place[5]
    BY <1>1, <1>2, Places, FourBytes
<1>4. /\ v \div Place[5] \in Nat
      /\ (v % Place[5]) + Place[5] * ((v \div Place[5]) % Place[5]) = v % Word
    BY <1>1, Places, Halves
<1>5. /\ (v \div Place[5]) \div Byte = v \div Place[6]
      /\ (v \div Place[5]) \div Place[3] = v \div Place[7]
      /\ (v \div Place[5]) \div Place[4] = v \div Place[8]
    <2>1. Place[4] \in Nat \ {0}
        BY Places
    <2> QED
        BY <1>1, <2>1, Places, Shifted
<1>6. ReadFour(m, a + 4) = (v \div Place[5]) % Place[5]
    <2>1. a + 4 \in Nat /\ (a + 4) + 1 = a + 5 /\ (a + 4) + 2 = a + 6 /\ (a + 4) + 3 = a + 7
        OBVIOUS
    <2> QED
        BY <1>2, <1>4, <1>5, <2>1, FourBytes
<1>7. v % Word = v
    <2>1. Word \in Nat \ {0}
        BY Places
    <2> QED
        BY <2>1
<1>8. ReadFrom(m, a, 8) = ReadFour(m, a) + Place[5] * ReadFour(m, a + 4)
    BY DEF ReadFrom
<1> QED
    BY <1>3, <1>4, <1>6, <1>7, <1>8 DEF WordBytes
-----------------------------------------------------------------------------
(* The invariant: of a run of a well stacked text with these shapes, what  *)
(* holds as long as it runs.                                               *)
CallRecords ==
    [name : {code[k][2] : k \in {j \in DOMAIN code : code[j][1] = "call"}} \cup {"main"},
     ret : {0} \cup DOMAIN code,
     rsp : 0 .. StartRsp, rbp : 0 .. Top, room : Nat]

(* The registers r point where the shape s has them, for the call c.       *)
Framed(r, c, s) ==
    CASE s.phase \in {"called", "entry"} ->
            r.rsp = c.rsp /\ r.rbp = c.rbp /\ c.room = 0
      [] s.phase = "saved" ->
            r.rsp = c.rsp - WordBytes /\ r.rbp = c.rbp /\ c.room = 0
      [] s.phase = "body" ->
            /\ r.rbp = c.rsp - WordBytes
            /\ r.rsp = c.rsp - WordBytes - c.room - WordBytes * s.height
      [] s.phase = "leaving" ->
            r.rbp = c.rsp - WordBytes /\ r.rsp = c.rsp - WordBytes
      [] s.phase = "left" ->
            r.rsp = c.rsp /\ r.rbp = c.rbp
      [] OTHER -> FALSE

(* The words by which the calls cs return are in the memory m, the saved   *)
(* rbp of the last one from its push to its pop.                           *)
Saves == {"saved", "body", "leaving"}
Linked(m, cs, s) ==
    \A k \in DOMAIN cs :
        /\ Holds(m, cs[k].rsp, cs[k].ret)
        /\ k < Len(cs) \/ s.phase \in Saves => Holds(m, cs[k].rsp - WordBytes, cs[k].rbp)

(* Each call but the first was made in the body of the one before, whose   *)
(* frame ends where its own begins.                                        *)
Called(caller, callee, shape) ==
    /\ callee.ret \in DOMAIN code /\ shape[callee.ret].phase = "body"
    /\ callee.ret - 1 \in DOMAIN code /\ code[callee.ret - 1][1] = "call"
    /\ callee.rbp = caller.rsp - WordBytes
    /\ callee.rsp + WordBytes =
          caller.rsp - WordBytes - caller.room - WordBytes * shape[callee.ret].height
Chained(cs, shape) ==
    cs[1].ret = 0 /\ \A k \in 1 .. Len(cs) - 1 : Called(cs[k], cs[k + 1], shape)
Spaced(cs) == \A j, k \in DOMAIN cs : j < k => cs[k].rsp + 2 * WordBytes <= cs[j].rsp

Live(shape) ==
    status = "running" =>
        /\ pc \in DOMAIN code
        /\ DOMAIN regs = RegisterNames /\ DOMAIN mem \subseteq Nat
        /\ calls \in Seq(CallRecords) /\ Len(calls) > 0
        /\ Framed(regs, Current, shape[pc]) /\ Linked(mem, calls, shape[pc])
        /\ Chained(calls, shape) /\ Spaced(calls)
        /\ shape[pc].phase = "called" => code[pc] = Label(Entry(Current.name))

-----------------------------------------------------------------------------
(* What a write does to words that are in memory.                          *)
LEMMA WriteHolds ==
    ASSUME NEW m, NEW a \in Int, NEW v, Addresses(a, WordBytes) \subseteq DOMAIN m
    PROVE  Holds(WriteTo(m, a, WordBytes, v), a, v)
BY DEF Holds, WriteTo, Addresses, WordBytes

LEMMA WriteSpares ==
    ASSUME NEW m, NEW a \in Int, NEW v, Holds(m, a, v), NEW b, NEW w, NEW x,
           Addresses(a, WordBytes) \cap Addresses(b, w) = {}
    PROVE  Holds(WriteTo(m, b, w, x), a, v)
<1>1. \A k \in 0 .. WordBytes - 1 : a + k \in Addresses(a, WordBytes)
    BY DEF Addresses, WordBytes
<1>2. \A k \in 0 .. WordBytes - 1 : a + k \notin Addresses(b, w)
    BY <1>1
<1> QED
    BY <1>2 DEF Holds, WriteTo

LEMMA WriteDomain ==
    ASSUME NEW m, NEW b, NEW w, NEW x
    PROVE  DOMAIN WriteTo(m, b, w, x) = DOMAIN m
BY DEF WriteTo

(* The numbers in the record of a call.                                    *)
LEMMA ACall ==
    ASSUME NEW cs \in Seq(CallRecords), NEW k \in DOMAIN cs
    PROVE  /\ cs[k] \in CallRecords
           /\ cs[k].rsp \in Nat /\ cs[k].rsp <= StartRsp
           /\ cs[k].rbp \in Nat /\ cs[k].rbp <= Top /\ cs[k].room \in Nat
           /\ cs[k].ret \in {0} \cup DOMAIN code
<1>1. cs[k] \in CallRecords
    OBVIOUS
<1>2. /\ cs[k].rsp \in 0 .. StartRsp /\ cs[k].rbp \in 0 .. Top
      /\ cs[k].room \in Nat /\ cs[k].ret \in {0} \cup DOMAIN code
    BY <1>1 DEF CallRecords
<1>3. StartRsp \in Int /\ Top \in Int
    BY ProcessorAssumption DEF StartRsp, Top, Bottom, WordBytes
<1> QED
    BY <1>1, <1>2, <1>3

(* A write beside the links of all calls leaves them.                      *)
LEMMA LinksSpared ==
    ASSUME NEW cs \in Seq(CallRecords), NEW m, NEW s, Linked(m, cs, s), NEW b, NEW w, NEW x,
           \A k \in DOMAIN cs :
               Addresses(cs[k].rsp - WordBytes, 2 * WordBytes) \cap Addresses(b, w) = {}
    PROVE  Linked(WriteTo(m, b, w, x), cs, s)
<1> SUFFICES ASSUME NEW k \in DOMAIN cs
             PROVE  /\ Holds(WriteTo(m, b, w, x), cs[k].rsp, cs[k].ret)
                    /\ k < Len(cs) \/ s.phase \in Saves =>
                          Holds(WriteTo(m, b, w, x), cs[k].rsp - WordBytes, cs[k].rbp)
    BY DEF Linked
<1>1. cs[k].rsp \in Nat
    BY ACall
<1>2. /\ Addresses(cs[k].rsp, WordBytes) \subseteq Addresses(cs[k].rsp - WordBytes, 2 * WordBytes)
      /\ Addresses(cs[k].rsp - WordBytes, WordBytes)
            \subseteq Addresses(cs[k].rsp - WordBytes, 2 * WordBytes)
    BY <1>1 DEF Addresses, WordBytes
<1>3. /\ Addresses(cs[k].rsp, WordBytes) \cap Addresses(b, w) = {}
      /\ Addresses(cs[k].rsp - WordBytes, WordBytes) \cap Addresses(b, w) = {}
    BY <1>2
<1>4. cs[k].rsp \in Int /\ cs[k].rsp - WordBytes \in Int
    BY <1>1 DEF WordBytes
<1> QED
    BY <1>3, <1>4, WriteSpares DEF Linked

-----------------------------------------------------------------------------
(* What the invariant says of the place that the processor has come to.    *)
LEMMA Here ==
    ASSUME NEW shape, WellStacked(shape), Live(shape), status = "running"
    PROVE  /\ Len(code) \in Nat /\ DOMAIN code = 1 .. Len(code)
           /\ Len(calls) \in Nat \ {0} /\ Len(calls) \in DOMAIN calls
           /\ DOMAIN calls = 1 .. Len(calls) /\ calls \in Seq(CallRecords)
           /\ Current.rsp \in Nat /\ Current.rsp <= StartRsp
           /\ Current.rbp \in Nat /\ Current.rbp <= Top /\ Current.room \in Nat
           /\ pc \in DOMAIN code /\ Allowed(code[pc], shape[pc])
           /\ shape[pc].phase \in Phases \ {"dead"} /\ shape[pc].height \in Nat
           /\ ShapesAgree(shape, pc) /\ Framed(regs, Current, shape[pc])
           /\ Linked(mem, calls, shape[pc])
<1>1. code \in Seq(Range(code)) /\ shape \in [DOMAIN code -> [phase : Phases, height : Nat]]
    BY DEF WellStacked
<1>2. Len(code) \in Nat /\ DOMAIN code = 1 .. Len(code)
    BY <1>1
<1>3. /\ pc \in DOMAIN code /\ Framed(regs, Current, shape[pc]) /\ Linked(mem, calls, shape[pc])
      /\ calls \in Seq(CallRecords) /\ Len(calls) > 0
    BY DEF Live
<1>4. shape[pc].phase \in Phases /\ shape[pc].height \in Nat
    BY <1>1, <1>3
<1>5. shape[pc].phase # "dead"
    BY <1>3 DEF Framed
<1>6. ShapesAgree(shape, pc)
    BY <1>3, <1>5 DEF WellStacked
<1>7. Allowed(code[pc], shape[pc])
    BY <1>6 DEF ShapesAgree
<1>8. /\ Len(calls) \in Nat \ {0} /\ Len(calls) \in DOMAIN calls
      /\ DOMAIN calls = 1 .. Len(calls)
    BY <1>3
<1>9. /\ Current.rsp \in Nat /\ Current.rsp <= StartRsp
      /\ Current.rbp \in Nat /\ Current.rbp <= Top /\ Current.room \in Nat
    BY <1>3, <1>8, ACall DEF Current
<1> QED
    BY <1>2, <1>3, <1>4, <1>5, <1>6, <1>7, <1>8, <1>9

(* Where control falls through, the next place has the shape after this    *)
(* one.                                                                    *)
LEMMA FallsThrough ==
    ASSUME NEW shape, WellStacked(shape), Live(shape), status = "running",
           Op \notin {"jmp", "ret"}
    PROVE  pc + 1 \in DOMAIN code /\ shape[pc + 1] = After(code[pc], shape[pc])
BY Here DEF ShapesAgree, Op

(* In a body, rsp is at or below the word of the saved rbp.                *)
LEMMA BodyFrame ==
    ASSUME NEW shape, WellStacked(shape), Live(shape), status = "running",
           shape[pc].phase = "body"
    PROVE  /\ regs.rbp = Current.rsp - WordBytes
           /\ regs.rsp = Current.rsp - WordBytes - Current.room - WordBytes * shape[pc].height
           /\ regs.rsp \in Int /\ regs.rsp <= Current.rsp - WordBytes /\ regs.rsp < Word
<1>1. /\ regs.rbp = Current.rsp - WordBytes
      /\ regs.rsp = Current.rsp - WordBytes - Current.room - WordBytes * shape[pc].height
    BY Here DEF Framed
<1>2. /\ Current.rsp \in Nat /\ Current.rsp <= StartRsp /\ Current.room \in Nat
      /\ shape[pc].height \in Nat
    BY Here
<1>3. StartRsp \in Nat /\ StartRsp < Word /\ Word \in Nat
    BY ProcessorAssumption, Places DEF StartRsp, Top, Bottom, WordBytes
<1> QED
    BY <1>1, <1>2, <1>3 DEF WordBytes

(* The call that runs goes on, in a frame of the shape of the next place.  *)
LEMMA GoesOn ==
    ASSUME NEW shape, WellStacked(shape), Live(shape), status = "running",
           UNCHANGED <<loaded, calls>>, pc' \in DOMAIN code, shape[pc'].phase # "called",
           DOMAIN regs' = RegisterNames, DOMAIN mem' \subseteq Nat,
           Framed(regs', Current, shape[pc']), Linked(mem', calls, shape[pc'])
    PROVE  Live(shape)'
<1>1. CallRecords' = CallRecords
    BY DEF CallRecords, loaded, StartRsp, Top, Bottom
<1>2. Chained(calls, shape) /\ Spaced(calls) /\ calls \in Seq(CallRecords) /\ Len(calls) > 0
    BY DEF Live
<1>3. Chained(calls, shape)'
    BY <1>2 DEF Chained, Called, loaded
<1> QED
    BY <1>1, <1>2, <1>3 DEF Live, Current, loaded

-----------------------------------------------------------------------------
(* The instructions that leave rsp and rbp alone stand in a body, and keep *)
(* its shape.                                                              *)
Quiet(i) ==
    \/ i[1] \in Plain \ {"label"}
    \/ i[1] \in {"mov", "mov_imm", "sub_imm"} /\ i[2] \notin StackRegisters

LEMMA QuietShape ==
    ASSUME NEW shape, WellStacked(shape), Live(shape), status = "running", Quiet(code[pc])
    PROVE  shape[pc].phase = "body" /\ After(code[pc], shape[pc]) = shape[pc]
<1>1. /\ Allowed(code[pc], shape[pc]) /\ shape[pc].phase \in Phases \ {"dead"}
      /\ shape[pc] \in [phase : Phases, height : Nat]
    BY Here DEF WellStacked
<1>2. code[pc][1] \notin {"label", "push", "pop", "ret"}
    BY DEF Quiet, Plain
<1>3. code[pc] \notin {Mov("rbp", "rsp"), Mov("rsp", "rbp")}
    BY DEF Quiet, Plain, StackRegisters, Mov
<1>4. shape[pc].phase = "body"
    BY <1>1, <1>2, <1>3 DEF Allowed, Phases, Push, Pop, Ret
<1>5. code[pc][1] \notin Pushes \cup {"pop"}
    BY DEF Quiet, Plain, Pushes
<1>6. AfterInBody(code[pc], shape[pc].height) = Shape("body", shape[pc].height)
    BY <1>3, <1>5 DEF AfterInBody
<1>7. Shape("body", shape[pc].height) = shape[pc]
    BY <1>1, <1>4 DEF Shape
<1> QED
    BY <1>4, <1>6, <1>7 DEF After

LEMMA QuietStep ==
    ASSUME NEW shape, WellStacked(shape), Live(shape), status = "running", Quiet(code[pc]),
           Op \notin {"jmp", "call"}, pc' = pc + 1, UNCHANGED <<loaded, calls>>,
           DOMAIN regs' = RegisterNames, regs'.rsp = regs.rsp, regs'.rbp = regs.rbp,
           DOMAIN mem' \subseteq Nat, Linked(mem', calls, shape[pc])
    PROVE  Live(shape)'
<1>1. shape[pc].phase = "body" /\ After(code[pc], shape[pc]) = shape[pc]
    BY QuietShape
<1>2. Op # "ret"
    BY DEF Op, Quiet, Plain
<1>3. pc + 1 \in DOMAIN code /\ shape[pc + 1] = shape[pc]
    BY <1>1, <1>2, FallsThrough
<1>4. Framed(regs', Current, shape[pc])
    BY Here DEF Framed
<1> QED
    BY <1>1, <1>3, <1>4, GoesOn

(* Such an instruction that does not write to memory.                      *)
LEMMA RegisterStep ==
    ASSUME NEW shape, WellStacked(shape), Live(shape), status = "running", Quiet(code[pc]),
           Op \notin {"jmp", "call"}, pc' = pc + 1, UNCHANGED <<loaded, calls, mem>>,
           DOMAIN regs' = RegisterNames, regs'.rsp = regs.rsp, regs'.rbp = regs.rbp
    PROVE  Live(shape)'
<1>1. DOMAIN mem' \subseteq Nat /\ Linked(mem', calls, shape[pc])
    BY DEF Live
<1> QED
    BY <1>1, QuietStep

(* The steps that change registers other than rsp and rbp.                 *)
LEMMA ComputingSteps ==
    ASSUME NEW shape, WellStacked(shape), Live(shape),
           \/ LeaStep \/ LoadStep \/ LoadSymbolStep \/ NegStep \/ AluStep \/ CqoStep
           \/ IdivStep \/ CmpStep \/ SetStep \/ MovzbStep
    PROVE  Live(shape)'
<1>1. /\ status = "running" /\ pc' = pc + 1 /\ UNCHANGED <<loaded, calls, mem>>
      /\ Op \in {"lea_frame", "lea_symbol", "load", "load_signed", "load_symbol", "neg", "alu",
                 "cqo", "idiv", "cmp", "cmp_zero", "set", "movzb"}
    BY DEF LeaStep, LoadStep, LoadSymbolStep, NegStep, AluStep, CqoStep, IdivStep, CmpStep,
           SetStep, MovzbStep, Step, Does, Executes
<1>2. DOMAIN regs = RegisterNames
    BY <1>1 DEF Live
<1>3. DOMAIN regs' = RegisterNames /\ regs'.rsp = regs.rsp /\ regs'.rbp = regs.rbp
    BY <1>2 DEF LeaStep, LoadStep, LoadSymbolStep, NegStep, AluStep, CqoStep, IdivStep, CmpStep,
                SetStep, MovzbStep, RegisterNames
<1>4. Quiet(code[pc])
    BY <1>1 DEF Quiet, Plain, Op
<1> QED
    BY <1>1, <1>3, <1>4, RegisterStep

LEMMA MovStepKeeps ==
    ASSUME NEW shape, WellStacked(shape), Live(shape), MovStep
    PROVE  Live(shape)'
<1>1. /\ status = "running" /\ Op \in {"mov", "mov_imm"} /\ pc' = pc + 1
      /\ UNCHANGED <<loaded, calls, mem>>
      /\ regs' = [regs EXCEPT ![code[pc][2]] =
                     IF Op = "mov" THEN regs[code[pc][3]] ELSE Wrap(code[pc][3])]
    BY DEF MovStep, Step, Does, Executes
<1>2. DOMAIN regs = RegisterNames /\ DOMAIN mem \subseteq Nat /\ DOMAIN regs' = RegisterNames
    BY <1>1 DEF Live
<1>3. /\ Allowed(code[pc], shape[pc]) /\ shape[pc].phase \in Phases \ {"dead"}
      /\ Framed(regs, Current, shape[pc]) /\ Linked(mem, calls, shape[pc])
      /\ Current.rsp \in Nat
    BY <1>1, Here
<1>4. pc + 1 \in DOMAIN code /\ shape[pc + 1] = After(code[pc], shape[pc])
    BY <1>1, FallsThrough
<1>5. CASE Quiet(code[pc])
    <2>1. regs'.rsp = regs.rsp /\ regs'.rbp = regs.rbp
        BY <1>1, <1>2, <1>5 DEF Quiet, Plain, StackRegisters, RegisterNames, Op
    <2> QED
        BY <1>1, <1>2, <1>5, <2>1, RegisterStep
<1>6. CASE code[pc] = Mov("rbp", "rsp")
    <2>1. shape[pc].phase = "saved"
        BY <1>3, <1>6 DEF Allowed, AllowedInBody, Plain, Pushes, StackRegisters, Phases,
                          Mov, Push, Pop, Ret
    <2>2. shape[pc + 1] = Shape("body", 0)
        BY <1>4, <2>1 DEF After
    <2>3. regs'.rbp = regs.rsp /\ regs'.rsp = regs.rsp
        BY <1>1, <1>2, <1>6 DEF Mov, RegisterNames, Op
    <2>4. Framed(regs', Current, shape[pc + 1])
        BY <1>3, <2>1, <2>2, <2>3 DEF Framed, Shape, WordBytes
    <2>5. Linked(mem, calls, shape[pc + 1])
        BY <1>3, <2>1, <2>2 DEF Linked, Saves, Shape
    <2>6. pc' \in DOMAIN code /\ shape[pc'].phase # "called" /\ DOMAIN mem' \subseteq Nat
        BY <1>1, <1>2, <1>4, <2>2 DEF Shape
    <2>7. Framed(regs', Current, shape[pc']) /\ Linked(mem', calls, shape[pc'])
        BY <1>1, <2>4, <2>5
    <2> QED
        BY <1>1, <1>2, <2>6, <2>7, GoesOn
<1>7. CASE code[pc] = Mov("rsp", "rbp")
    <2>1. shape[pc].phase = "body"
        BY <1>3, <1>7 DEF Allowed, Phases, Mov, Push, Pop, Ret
    <2>2. shape[pc + 1] = Shape("leaving", 0)
        BY <1>4, <1>7, <2>1 DEF After, AfterInBody, Mov, Pushes
    <2>3. regs'.rbp = regs.rbp /\ regs'.rsp = regs.rbp
        BY <1>1, <1>2, <1>7 DEF Mov, RegisterNames, Op
    <2>4. Framed(regs', Current, shape[pc + 1])
        BY <1>3, <2>1, <2>2, <2>3 DEF Framed, Shape
    <2>5. Linked(mem, calls, shape[pc + 1])
        BY <1>3, <2>1, <2>2 DEF Linked, Saves, Shape
    <2>6. pc' \in DOMAIN code /\ shape[pc'].phase # "called" /\ DOMAIN mem' \subseteq Nat
        BY <1>1, <1>2, <1>4, <2>2 DEF Shape
    <2>7. Framed(regs', Current, shape[pc']) /\ Linked(mem', calls, shape[pc'])
        BY <1>1, <2>4, <2>5
    <2> QED
        BY <1>1, <1>2, <2>6, <2>7, GoesOn
<1> QED
    BY <1>1, <1>3, <1>5, <1>6, <1>7
       DEF Allowed, AllowedInBody, Plain, Pushes, Phases, Quiet, Push, Pop, Ret, Mov, Op

(* A sub rsp adds to the room of the call that runs.                       *)
LEMMA RoomGrows ==
    ASSUME NEW shape, WellStacked(shape), Live(shape), SubStep, code[pc][2] = "rsp"
    PROVE  /\ code[pc][3] \in Nat /\ shape[pc].phase = "body"
           /\ calls' \in Seq(CallRecords) /\ Len(calls') = Len(calls)
           /\ Current'.room = Current.room + code[pc][3]
           /\ \A k \in DOMAIN calls :
                 /\ calls'[k].name = calls[k].name /\ calls'[k].ret = calls[k].ret
                 /\ calls'[k].rsp = calls[k].rsp /\ calls'[k].rbp = calls[k].rbp
                 /\ k # Len(calls) => calls'[k] = calls[k]
<1> DEFINE v == code[pc][3]
           c == [Current EXCEPT !.room = Current.room + v]
<1>1. /\ status = "running" /\ Op = "sub_imm"
      /\ calls' = [calls EXCEPT ![Len(calls)].room = @ + v]
    BY DEF SubStep, Step, Does, Executes
<1>2. /\ Allowed(code[pc], shape[pc]) /\ shape[pc].phase \in Phases \ {"dead"}
      /\ calls \in Seq(CallRecords) /\ Len(calls) \in Nat \ {0} /\ DOMAIN calls = 1 .. Len(calls)
      /\ Current.room \in Nat
    BY <1>1, Here
<1>3. shape[pc].phase = "body" /\ v \in Nat
    BY <1>1, <1>2
       DEF Allowed, AllowedInBody, Plain, Pushes, Phases, Push, Pop, Ret, Mov, Op, StackRegisters
<1>4. calls' = [calls EXCEPT ![Len(calls)] = c]
    BY <1>1 DEF Current
<1>5. /\ c \in CallRecords /\ c.room = Current.room + v /\ c.name = Current.name
      /\ c.ret = Current.ret /\ c.rsp = Current.rsp /\ c.rbp = Current.rbp
    <2>1. Current \in CallRecords /\ Current.room + v \in Nat
        BY <1>2, <1>3 DEF Current
    <2> QED
        BY <2>1 DEF CallRecords
<1> HIDE DEF c
<1> QED
    BY <1>2, <1>3, <1>4, <1>5 DEF Current

(* A subtraction from rsp makes room in the frame.                         *)
LEMMA SubStepKeeps ==
    ASSUME NEW shape, WellStacked(shape), Live(shape), StackHolds, SubStep
    PROVE  Live(shape)'
<1> DEFINE r == code[pc][2]
           v == code[pc][3]
<1>1. /\ status = "running" /\ Op = "sub_imm" /\ pc' = pc + 1 /\ UNCHANGED <<loaded, mem>>
      /\ regs' = [regs EXCEPT ![r] = Wrap(@ - v)]
      /\ calls' = IF r = "rsp" THEN [calls EXCEPT ![Len(calls)].room = @ + v] ELSE calls
      /\ InCode
    BY DEF SubStep, Step, Does, Executes
<1>2. DOMAIN regs = RegisterNames /\ DOMAIN mem \subseteq Nat /\ DOMAIN regs' = RegisterNames
    BY <1>1 DEF Live
<1>3. CASE r # "rsp"
    <2>1. /\ Allowed(code[pc], shape[pc]) /\ shape[pc].phase \in Phases \ {"dead"}
        BY <1>1, Here
    <2>2. Quiet(code[pc])
        BY <1>1, <1>3, <2>1
           DEF Allowed, AllowedInBody, Plain, Pushes, Phases, Quiet, Push, Pop, Ret, Mov, Op
    <2>3. regs'.rsp = regs.rsp /\ regs'.rbp = regs.rbp
        BY <1>1, <1>2, <2>2 DEF Quiet, Plain, StackRegisters, RegisterNames, Op
    <2> QED
        BY <1>1, <1>2, <1>3, <2>2, <2>3, RegisterStep
<1>4. CASE r = "rsp"
    <2>1. /\ Allowed(code[pc], shape[pc]) /\ shape[pc].phase \in Phases \ {"dead"}
          /\ shape[pc].height \in Nat /\ Framed(regs, Current, shape[pc])
          /\ Linked(mem, calls, shape[pc]) /\ calls \in Seq(CallRecords)
          /\ Len(calls) \in Nat \ {0} /\ DOMAIN calls = 1 .. Len(calls)
          /\ Current.rsp \in Nat /\ Current.rsp <= StartRsp /\ Current.room \in Nat
        BY <1>1, Here
    <2>2. shape[pc].phase = "body" /\ v \in Nat
        BY <1>1, <1>4, <2>1
           DEF Allowed, AllowedInBody, Plain, Pushes, Phases, Push, Pop, Ret, Mov, Op, StackRegisters
    <2>3. pc + 1 \in DOMAIN code /\ shape[pc + 1] = Shape("body", shape[pc].height)
        BY <1>1, <2>2, FallsThrough DEF After, AfterInBody, Pushes, Op, Mov
    <2>4. v <= regs.rsp
        BY <1>1, <1>4 DEF StackHolds, Executes
    <2>5. Wrap(regs.rsp - v) = regs.rsp - v
        <3>1. regs.rsp \in Int /\ regs.rsp < Word /\ Word \in Nat
            BY <1>1, <2>2, BodyFrame, Places
        <3> QED
            BY <2>2, <2>4, <3>1 DEF Wrap
    <2>6. regs'.rsp = regs.rsp - v /\ regs'.rbp = regs.rbp
        BY <1>1, <1>2, <1>4, <2>5 DEF RegisterNames
    <2>7. /\ calls' \in Seq(CallRecords) /\ Len(calls') = Len(calls)
          /\ Current'.room = Current.room + v
          /\ \A k \in DOMAIN calls :
                /\ calls'[k].name = calls[k].name /\ calls'[k].ret = calls[k].ret
                /\ calls'[k].rsp = calls[k].rsp /\ calls'[k].rbp = calls[k].rbp
                /\ k # Len(calls) => calls'[k] = calls[k]
        BY <1>1, <1>4, RoomGrows
    <2>8. Framed(regs', Current', shape[pc + 1])
        <3>1. Current'.rsp = Current.rsp
            BY <2>1, <2>7 DEF Current
        <3>2. /\ regs.rbp = Current.rsp - WordBytes
              /\ regs.rsp = Current.rsp - WordBytes - Current.room - WordBytes * shape[pc].height
            BY <1>1, <2>2, BodyFrame
        <3>3. shape[pc + 1].phase = "body" /\ shape[pc + 1].height = shape[pc].height
            BY <2>3 DEF Shape
        <3>4. /\ regs'.rbp = Current'.rsp - WordBytes
              /\ regs'.rsp = Current'.rsp - WordBytes - Current'.room - WordBytes * shape[pc].height
            <4>1. Current.rsp \in Nat /\ Current.room \in Nat /\ shape[pc].height \in Nat
                BY <2>1
            <4>2. /\ Current'.room = Current.room + v /\ Current'.rsp = Current.rsp
                  /\ regs'.rsp = regs.rsp - v /\ regs'.rbp = regs.rbp
                BY <2>6, <2>7, <3>1
            <4>3. v \in Nat
                BY <2>2
            <4> HIDE DEF v
            <4> QED
                BY <3>2, <4>1, <4>2, <4>3 DEF WordBytes
        <3> QED
            BY <3>3, <3>4 DEF Framed
    <2>9. Linked(mem', calls', shape[pc + 1])
        <3>1. DOMAIN calls' = DOMAIN calls
            BY <2>1, <2>7
        <3> QED
            BY <1>1, <2>1, <2>2, <2>3, <2>7, <3>1 DEF Linked, Saves, Shape
    <2>10. Chained(calls, shape) /\ Spaced(calls)
        BY <1>1 DEF Live
    <2>11. Chained(calls', shape)
        <3>1. calls'[1].ret = 0
            BY <2>1, <2>7, <2>10 DEF Chained
        <3>2. ASSUME NEW k \in 1 .. Len(calls) - 1
              PROVE  Called(calls'[k], calls'[k + 1], shape)
            <4>1. k \in DOMAIN calls
                BY <2>1
            <4>2. k + 1 \in DOMAIN calls
                BY <2>1
            <4>3. k # Len(calls)
                <5>1. Len(calls) \in Nat
                    BY <2>1
                <5> QED
                    BY <5>1
            <4>4. Called(calls[k], calls[k + 1], shape)
                BY <2>10 DEF Chained
            <4> QED
                BY <2>7, <4>1, <4>2, <4>3, <4>4 DEF Called
        <3> QED
            BY <2>7, <3>1, <3>2 DEF Chained
    <2>12. Spaced(calls')
        BY <2>1, <2>7, <2>10 DEF Spaced
    <2>13. CallRecords' = CallRecords /\ Chained(calls, shape)' = Chained(calls', shape)
        BY <1>1 DEF CallRecords, loaded, StartRsp, Top, Bottom, Chained, Called
    <2> QED
        BY <1>1, <1>2, <2>1, <2>3, <2>7, <2>8, <2>9, <2>11, <2>12, <2>13 DEF Live, Shape, loaded
<1> QED
    BY <1>3, <1>4

-----------------------------------------------------------------------------
(* The links of the active calls lie above what runs.                      *)
LEMMA OthersAbove ==
    ASSUME NEW shape, WellStacked(shape), Live(shape), status = "running",
           NEW k \in DOMAIN calls
    PROVE  /\ calls[k].rsp \in Nat /\ Current.rsp <= calls[k].rsp
           /\ k < Len(calls) => Current.rsp + 2 * WordBytes <= calls[k].rsp
<1>1. calls[k].rsp \in Nat /\ k \in Nat /\ k <= Len(calls) /\ Len(calls) \in DOMAIN calls
    BY Here, ACall
<1>2. k < Len(calls) => Current.rsp + 2 * WordBytes <= calls[k].rsp
    BY <1>1 DEF Live, Spaced, Current
<1>3. Current.rsp \in Nat
    BY Here
<1>4. k = Len(calls) \/ k < Len(calls)
    BY <1>1, Here
<1> QED
    BY <1>1, <1>2, <1>3, <1>4 DEF Current, WordBytes

(* A store through an address that spares the links.                       *)
LEMMA StoreSteps ==
    ASSUME NEW shape, WellStacked(shape), Live(shape), StoresSpareLinks,
           StoreStep \/ StoreSymbolStep
    PROVE  Live(shape)'
<1>1. /\ status = "running" /\ pc' = pc + 1 /\ UNCHANGED <<loaded, calls, regs>>
      /\ Op \in {"store", "store_symbol"} /\ InCode
    BY DEF StoreStep, StoreSymbolStep, Step, Does, Executes
<1>2. PICK b, w, x : mem' = WriteTo(mem, b, w, x) /\ Touched = Addresses(b, w)
    <2>1. CASE StoreStep
        BY <2>1 DEF StoreStep, Step, Does, Executes, Touched
    <2>2. CASE StoreSymbolStep
        BY <2>2 DEF StoreSymbolStep, Step, Does, Executes, Touched, Symbol
    <2> QED
        BY <2>1, <2>2
<1>3. Touched \cap LinkBytes = {}
    BY <1>1 DEF StoresSpareLinks, Executes
<1>4. \A k \in DOMAIN calls :
        Addresses(calls[k].rsp - WordBytes, 2 * WordBytes) \cap Addresses(b, w) = {}
    BY <1>2, <1>3 DEF LinkBytes
<1>5. calls \in Seq(CallRecords) /\ Linked(mem, calls, shape[pc])
    BY <1>1, Here
<1>6. Linked(mem', calls, shape[pc])
    BY <1>2, <1>4, <1>5, LinksSpared
<1>7. DOMAIN mem' \subseteq Nat
    BY <1>1, <1>2, WriteDomain DEF Live
<1>8. DOMAIN regs' = RegisterNames /\ regs'.rsp = regs.rsp /\ regs'.rbp = regs.rbp
    BY <1>1 DEF Live
<1>9. Quiet(code[pc]) /\ Op \notin {"jmp", "call"}
    BY <1>1 DEF Quiet, Plain, Op
<1> QED
    BY <1>1, <1>6, <1>7, <1>8, <1>9, QuietStep

(* A label or a nop.  The label of a function is where it is called.       *)
LEMMA PassStepKeeps ==
    ASSUME NEW shape, WellStacked(shape), Live(shape), PassStep
    PROVE  Live(shape)'
<1>1. /\ status = "running" /\ pc' = pc + 1 /\ UNCHANGED <<loaded, calls, regs, mem>>
      /\ Op \in {"label", "nop"}
    BY DEF PassStep, Step, Does, Executes
<1>2. /\ Allowed(code[pc], shape[pc]) /\ shape[pc].phase \in Phases \ {"dead"}
      /\ Framed(regs, Current, shape[pc]) /\ Linked(mem, calls, shape[pc])
    BY <1>1, Here
<1>3. pc + 1 \in DOMAIN code /\ shape[pc + 1] = After(code[pc], shape[pc])
    BY <1>1, FallsThrough
<1>4. DOMAIN regs' = RegisterNames /\ DOMAIN mem' \subseteq Nat
    BY <1>1 DEF Live
<1>5. shape[pc].phase \in {"called", "body"}
    BY <1>1, <1>2 DEF Allowed, Phases, Push, Pop, Ret, Mov, Op
<1>6. CASE shape[pc].phase = "called"
    <2>1. shape[pc + 1] = Shape("entry", 0)
        BY <1>3, <1>6 DEF After
    <2>2. Framed(regs, Current, shape[pc + 1])
        BY <1>2, <1>6, <2>1 DEF Framed, Shape
    <2>3. Linked(mem, calls, shape[pc + 1])
        BY <1>2, <1>6, <2>1 DEF Linked, Saves, Shape
    <2>4. /\ pc' \in DOMAIN code /\ shape[pc'].phase # "called"
          /\ Framed(regs', Current, shape[pc']) /\ Linked(mem', calls, shape[pc'])
        BY <1>1, <1>3, <2>1, <2>2, <2>3 DEF Shape
    <2> QED
        BY <1>1, <1>4, <2>4, GoesOn
<1>7. CASE shape[pc].phase = "body"
    <2>1. shape[pc + 1] = Shape("body", shape[pc].height)
        BY <1>1, <1>3, <1>7 DEF After, AfterInBody, Pushes, Mov, Op
    <2>2. Framed(regs, Current, shape[pc + 1])
        BY <1>2, <1>7, <2>1 DEF Framed, Shape
    <2>3. Linked(mem, calls, shape[pc + 1])
        BY <1>2, <1>7, <2>1 DEF Linked, Saves, Shape
    <2>4. /\ pc' \in DOMAIN code /\ shape[pc'].phase # "called"
          /\ Framed(regs', Current, shape[pc']) /\ Linked(mem', calls, shape[pc'])
        BY <1>1, <1>3, <2>1, <2>2, <2>3 DEF Shape
    <2> QED
        BY <1>1, <1>4, <2>4, GoesOn
<1> QED
    BY <1>5, <1>6, <1>7

(* A jump goes to a place of the same shape.                               *)
LEMMA JumpStepKeeps ==
    ASSUME NEW shape, WellStacked(shape), Live(shape), JumpStep
    PROVE  Live(shape)'
<1>1. /\ status = "running" /\ UNCHANGED <<loaded, calls, regs, mem>> /\ Op \in {"jmp", "je"}
      /\ pc' = IF Op = "jmp" \/ flags.zf THEN Target(code[pc][2]) ELSE pc + 1
    BY DEF JumpStep, Does, Executes
<1>2. Framed(regs, Current, shape[pc]) /\ Linked(mem, calls, shape[pc]) /\ ShapesAgree(shape, pc)
    BY <1>1, Here
<1>3. shape[pc].phase = "body" /\ After(code[pc], shape[pc]) = shape[pc]
    <2>1. Quiet(code[pc])
        BY <1>1 DEF Quiet, Plain, Op
    <2> QED
        BY <1>1, <2>1, QuietShape
<1>4. pc' \in DOMAIN code /\ shape[pc'] = shape[pc]
    <2>1. CASE Op = "jmp" \/ flags.zf
        <3>1. LeadsTo(shape, code[pc][2], shape[pc])
            BY <1>1, <1>2 DEF ShapesAgree, Op
        <3> QED
            BY <1>1, <2>1, <3>1 DEF LeadsTo
    <2>2. CASE ~(Op = "jmp" \/ flags.zf)
        BY <1>1, <1>3, <2>2, FallsThrough
    <2> QED
        BY <2>1, <2>2
<1>5. DOMAIN regs' = RegisterNames /\ DOMAIN mem' \subseteq Nat
    BY <1>1 DEF Live
<1>6. /\ shape[pc'].phase # "called"
      /\ Framed(regs', Current, shape[pc']) /\ Linked(mem', calls, shape[pc'])
    BY <1>1, <1>2, <1>3, <1>4
<1> QED
    BY <1>1, <1>4, <1>5, <1>6, GoesOn

-----------------------------------------------------------------------------
(* The word below rsp lies beside the links, in a body, and at the entry   *)
(* of a function it is beside the links there are.                         *)
LEMMA PushSpares ==
    ASSUME NEW shape, WellStacked(shape), Live(shape), status = "running",
           shape[pc].phase = "body", NEW x
    PROVE  Linked(WriteTo(mem, regs.rsp - WordBytes, WordBytes, x), calls, shape[pc])
<1>1. regs.rsp \in Int /\ regs.rsp <= Current.rsp - WordBytes
    BY BodyFrame
<1>2. ASSUME NEW k \in DOMAIN calls
      PROVE  Addresses(calls[k].rsp - WordBytes, 2 * WordBytes)
                \cap Addresses(regs.rsp - WordBytes, WordBytes) = {}
    <2>1. calls[k].rsp \in Nat /\ Current.rsp <= calls[k].rsp /\ Current.rsp \in Nat
        BY OthersAbove, Here
    <2> QED
        BY <1>1, <2>1 DEF Addresses, WordBytes
<1>3. calls \in Seq(CallRecords) /\ Linked(mem, calls, shape[pc])
    BY Here
<1> QED
    BY <1>2, <1>3, LinksSpared

(* A step that pushes x.                                                   *)
LEMMA PushKeeps ==
    ASSUME NEW shape, WellStacked(shape), Live(shape), status = "running", NEW x,
           Op \in Pushes, Op = "push" => x = regs[code[pc][2]],
           Addresses(regs.rsp - WordBytes, WordBytes) \subseteq DOMAIN mem,
           pc' = pc + 1, UNCHANGED <<loaded, calls>>,
           mem' = WriteTo(mem, regs.rsp - WordBytes, WordBytes, x),
           regs' = [regs EXCEPT !.rsp = @ - WordBytes]
    PROVE  Live(shape)'
<1>1. /\ Allowed(code[pc], shape[pc]) /\ shape[pc].phase \in Phases \ {"dead"}
      /\ shape[pc].height \in Nat
      /\ Framed(regs, Current, shape[pc]) /\ Linked(mem, calls, shape[pc])
      /\ Current.rsp \in Nat /\ Current.room \in Nat
    BY Here
<1>2. pc + 1 \in DOMAIN code /\ shape[pc + 1] = After(code[pc], shape[pc])
    BY FallsThrough DEF Pushes
<1>3. DOMAIN regs = RegisterNames /\ DOMAIN mem \subseteq Nat
    BY DEF Live
<1>4. /\ DOMAIN regs' = RegisterNames /\ regs'.rsp = regs.rsp - WordBytes
      /\ regs'.rbp = regs.rbp /\ DOMAIN mem' \subseteq Nat
    BY <1>3, WriteDomain DEF RegisterNames
<1>5. shape[pc].phase = "body" \/ (shape[pc].phase = "entry" /\ code[pc] = Push("rbp"))
    BY <1>1 DEF Allowed, Phases, Pushes, Push, Pop, Ret, Mov, Op
<1>6. CASE shape[pc].phase = "body"
    <2>1. shape[pc + 1] = Shape("body", shape[pc].height + 1)
        BY <1>2, <1>6 DEF After, AfterInBody, Op, Pushes, Mov
    <2>2. /\ regs.rbp = Current.rsp - WordBytes
          /\ regs.rsp = Current.rsp - WordBytes - Current.room - WordBytes * shape[pc].height
        BY <1>6, BodyFrame
    <2>3. regs'.rsp = Current.rsp - WordBytes - Current.room - WordBytes * (shape[pc].height + 1)
        BY <1>1, <1>4, <2>2 DEF WordBytes
    <2>4. Framed(regs', Current, shape[pc + 1])
        BY <1>4, <2>1, <2>2, <2>3 DEF Framed, Shape
    <2>5. Linked(mem', calls, shape[pc])
        BY <1>6, PushSpares
    <2>6. Linked(mem', calls, shape[pc + 1])
        BY <1>6, <2>1, <2>5 DEF Linked, Shape
    <2>7. /\ pc' \in DOMAIN code /\ shape[pc'].phase # "called"
          /\ Framed(regs', Current, shape[pc']) /\ Linked(mem', calls, shape[pc'])
        BY <1>2, <2>1, <2>4, <2>6 DEF Shape
    <2> QED
        BY <1>4, <2>7, GoesOn
<1>7. CASE shape[pc].phase = "entry" /\ code[pc] = Push("rbp")
    <2>1. shape[pc + 1] = Shape("saved", 0)
        BY <1>2, <1>7 DEF After
    <2>2. regs.rsp = Current.rsp /\ regs.rbp = Current.rbp /\ Current.room = 0
        BY <1>1, <1>7 DEF Framed
    <2>3. x = Current.rbp
        BY <1>7, <2>2 DEF Push, Op
    <2>4. Framed(regs', Current, shape[pc + 1])
        BY <1>4, <2>1, <2>2 DEF Framed, Shape
    <2>5. ASSUME NEW k \in DOMAIN calls
          PROVE  /\ Holds(mem', calls[k].rsp, calls[k].ret)
                 /\ Holds(mem', calls[k].rsp - WordBytes, calls[k].rbp)
        <3>1. /\ calls[k].rsp \in Nat /\ Current.rsp <= calls[k].rsp
              /\ k < Len(calls) => Current.rsp + 2 * WordBytes <= calls[k].rsp
            BY OthersAbove
        <3>2. Holds(mem', calls[k].rsp, calls[k].ret)
            <4>1. Addresses(calls[k].rsp, WordBytes)
                    \cap Addresses(regs.rsp - WordBytes, WordBytes) = {}
                BY <1>1, <2>2, <3>1 DEF Addresses, WordBytes
            <4>2. Holds(mem, calls[k].rsp, calls[k].ret)
                BY <1>1 DEF Linked
            <4> QED
                BY <3>1, <4>1, <4>2, WriteSpares
        <3>3. CASE k = Len(calls)
            <4>1. Holds(mem', regs.rsp - WordBytes, x)
                <5>1. regs.rsp - WordBytes \in Int
                    BY <1>1, <2>2 DEF WordBytes
                <5> QED
                    BY <5>1, WriteHolds
            <4> QED
                BY <2>2, <2>3, <3>2, <3>3, <4>1 DEF Current
        <3>4. CASE k < Len(calls)
            <4>1. Addresses(calls[k].rsp - WordBytes, WordBytes)
                    \cap Addresses(regs.rsp - WordBytes, WordBytes) = {}
                BY <1>1, <2>2, <3>1, <3>4 DEF Addresses, WordBytes
            <4>2. Holds(mem, calls[k].rsp - WordBytes, calls[k].rbp)
                BY <1>1, <3>4 DEF Linked
            <4>3. calls[k].rsp - WordBytes \in Int
                BY <3>1 DEF WordBytes
            <4> QED
                BY <3>2, <4>1, <4>2, <4>3, WriteSpares
        <3>5. k = Len(calls) \/ k < Len(calls)
            BY Here
        <3> QED
            BY <3>3, <3>4, <3>5
    <2>6. Linked(mem', calls, shape[pc + 1])
        BY <2>5 DEF Linked
    <2>7. /\ pc' \in DOMAIN code /\ shape[pc'].phase # "called"
          /\ Framed(regs', Current, shape[pc']) /\ Linked(mem', calls, shape[pc'])
        BY <1>2, <2>1, <2>4, <2>6 DEF Shape
    <2> QED
        BY <1>4, <2>7, GoesOn
<1> QED
    BY <1>5, <1>6, <1>7

LEMMA PushSteps ==
    ASSUME NEW shape, WellStacked(shape), Live(shape), PushStep \/ PushSymbolStep
    PROVE  Live(shape)'
<1>1. CASE PushStep
    <2> DEFINE x == IF Op = "push" THEN regs[code[pc][2]] ELSE Wrap(code[pc][2])
    <2>1. /\ status = "running" /\ Op \in {"push", "push_imm"} /\ ~Faults
          /\ pc' = pc + 1 /\ UNCHANGED <<loaded, calls>>
          /\ mem' = WriteTo(mem, regs.rsp - WordBytes, WordBytes, x)
          /\ regs' = [regs EXCEPT !.rsp = @ - WordBytes]
        BY <1>1 DEF PushStep, Step, Does, Executes
    <2>2. Addresses(regs.rsp - WordBytes, WordBytes) \subseteq DOMAIN mem
        BY <2>1 DEF Faults, Touched
    <2>3. Op \in Pushes /\ (Op = "push" => x = regs[code[pc][2]])
        BY <2>1 DEF Pushes
    <2> HIDE DEF x
    <2> QED
        BY <2>1, <2>2, <2>3, PushKeeps
<1>2. CASE PushSymbolStep
    <2> DEFINE x == ReadFrom(mem, Symbol, WordBytes)
    <2>1. /\ status = "running" /\ Op = "push_symbol" /\ ~Faults
          /\ pc' = pc + 1 /\ UNCHANGED <<loaded, calls>>
          /\ mem' = WriteTo(mem, regs.rsp - WordBytes, WordBytes, x)
          /\ regs' = [regs EXCEPT !.rsp = @ - WordBytes]
        BY <1>2 DEF PushSymbolStep, Step, Does, Executes
    <2>2. Addresses(regs.rsp - WordBytes, WordBytes) \subseteq DOMAIN mem
        BY <2>1 DEF Faults, Touched
    <2>3. Op \in Pushes /\ (Op = "push" => x = regs[code[pc][2]])
        BY <2>1 DEF Pushes
    <2> HIDE DEF x
    <2> QED
        BY <2>1, <2>2, <2>3, PushKeeps
<1> QED
    BY <1>1, <1>2

(* A pop in the body gives back a word that was pushed, and the one of the *)
(* epilogue the rbp of the caller.                                         *)
LEMMA PopStepKeeps ==
    ASSUME NEW shape, WellStacked(shape), Live(shape), PopStep
    PROVE  Live(shape)'
<1>1. /\ status = "running" /\ Op = "pop" /\ pc' = pc + 1 /\ UNCHANGED <<loaded, calls, mem>>
      /\ regs' = [regs EXCEPT !.rsp = @ + WordBytes,
                              ![code[pc][2]] = ReadFrom(mem, regs.rsp, WordBytes)]
    BY DEF PopStep, Step, Does, Executes
<1>2. /\ Allowed(code[pc], shape[pc]) /\ shape[pc].phase \in Phases \ {"dead"}
      /\ shape[pc].height \in Nat
      /\ Framed(regs, Current, shape[pc]) /\ Linked(mem, calls, shape[pc])
      /\ Current.rsp \in Nat /\ Current.room \in Nat
    BY <1>1, Here
<1>3. pc + 1 \in DOMAIN code /\ shape[pc + 1] = After(code[pc], shape[pc])
    BY <1>1, FallsThrough
<1>4. DOMAIN regs = RegisterNames /\ DOMAIN mem \subseteq Nat
    BY <1>1 DEF Live
<1>5. DOMAIN regs' = RegisterNames /\ DOMAIN mem' \subseteq Nat
    BY <1>1, <1>4
<1>6. \/ shape[pc].phase = "body" /\ code[pc][2] \notin StackRegisters /\ shape[pc].height > 0
      \/ shape[pc].phase = "leaving" /\ code[pc] = Pop("rbp")
    BY <1>1, <1>2 DEF Allowed, AllowedInBody, Phases, Plain, Pushes, Push, Pop, Ret, Mov, Op
<1>7. CASE shape[pc].phase = "body" /\ code[pc][2] \notin StackRegisters /\ shape[pc].height > 0
    <2>1. shape[pc + 1] = Shape("body", shape[pc].height - 1)
        BY <1>1, <1>3, <1>7 DEF After, AfterInBody, Op, Pushes, Mov
    <2>2. /\ regs.rbp = Current.rsp - WordBytes
          /\ regs.rsp = Current.rsp - WordBytes - Current.room - WordBytes * shape[pc].height
        BY <1>1, <1>7, BodyFrame
    <2>3. regs'.rsp = regs.rsp + WordBytes /\ regs'.rbp = regs.rbp
        BY <1>1, <1>4, <1>7 DEF RegisterNames, StackRegisters
    <2>4. regs'.rsp = Current.rsp - WordBytes - Current.room - WordBytes * (shape[pc].height - 1)
        BY <1>2, <2>2, <2>3 DEF WordBytes
    <2>5. Framed(regs', Current, shape[pc + 1])
        BY <2>1, <2>2, <2>3, <2>4 DEF Framed, Shape
    <2>6. Linked(mem, calls, shape[pc + 1])
        BY <1>2, <1>7, <2>1 DEF Linked, Shape
    <2>7. /\ pc' \in DOMAIN code /\ shape[pc'].phase # "called"
          /\ Framed(regs', Current, shape[pc']) /\ Linked(mem', calls, shape[pc'])
        BY <1>1, <1>3, <2>1, <2>5, <2>6 DEF Shape
    <2> QED
        BY <1>1, <1>5, <2>7, GoesOn
<1>8. CASE shape[pc].phase = "leaving" /\ code[pc] = Pop("rbp")
    <2>1. shape[pc + 1] = Shape("left", 0)
        BY <1>3, <1>8 DEF After
    <2>2. regs.rsp = Current.rsp - WordBytes
        BY <1>2, <1>8 DEF Framed
    <2>3. Holds(mem, Current.rsp - WordBytes, Current.rbp)
        BY <1>1, <1>2, <1>8, Here DEF Linked, Saves, Current
    <2>4. Current.rsp - WordBytes \in Nat
        <3>1. Current.rsp - WordBytes + 0 \in DOMAIN mem
            BY <2>3 DEF Holds, WordBytes
        <3>2. Current.rsp - WordBytes + 0 = Current.rsp - WordBytes
            BY <1>2 DEF WordBytes
        <3> QED
            BY <1>4, <3>1, <3>2
    <2>5. Current.rbp \in 0 .. Word - 1
        <3>1. Top \in Nat /\ Top < Word /\ Word \in Nat
            BY ProcessorAssumption, Places DEF Top, Bottom
        <3>2. Current.rbp \in Nat /\ Current.rbp <= Top
            BY <1>1, Here
        <3> QED
            BY <3>1, <3>2
    <2>6. ReadFrom(mem, regs.rsp, WordBytes) = Current.rbp
        BY <2>2, <2>3, <2>4, <2>5, ReadBack
    <2>7. regs'.rsp = Current.rsp /\ regs'.rbp = Current.rbp
        <3>1. regs'.rsp = regs.rsp + WordBytes /\ regs'.rbp = ReadFrom(mem, regs.rsp, WordBytes)
            BY <1>1, <1>4, <1>8 DEF RegisterNames, Pop
        <3> QED
            BY <1>2, <2>2, <2>6, <3>1 DEF WordBytes
    <2>8. Framed(regs', Current, shape[pc + 1])
        BY <2>1, <2>7 DEF Framed, Shape
    <2>9. Linked(mem, calls, shape[pc + 1])
        BY <1>2, <2>1 DEF Linked, Shape, Saves
    <2>10. /\ pc' \in DOMAIN code /\ shape[pc'].phase # "called"
           /\ Framed(regs', Current, shape[pc']) /\ Linked(mem', calls, shape[pc'])
        BY <1>1, <1>3, <2>1, <2>8, <2>9 DEF Shape
    <2> QED
        BY <1>1, <1>5, <2>10, GoesOn
<1> QED
    BY <1>6, <1>7, <1>8

(* A call pushes the place after it and begins at the label of a function. *)
LEMMA CallStepKeeps ==
    ASSUME NEW shape, WellStacked(shape), Live(shape), CallStep
    PROVE  Live(shape)'
<1> DEFINE n == Len(calls)
           new == [name |-> code[pc][2], ret |-> pc + 1,
                   rsp |-> regs.rsp - WordBytes, rbp |-> regs.rbp, room |-> 0]
<1>1. /\ status = "running" /\ Op = "call" /\ ~Faults /\ UNCHANGED <<loaded, status>>
      /\ pc' = Target(Entry(code[pc][2]))
      /\ mem' = WriteTo(mem, regs.rsp - WordBytes, WordBytes, pc + 1)
      /\ regs' = [regs EXCEPT !.rsp = @ - WordBytes]
      /\ calls' = Append(calls, new)
    BY DEF CallStep, Does, Executes
<1>2. /\ n \in Nat \ {0} /\ DOMAIN calls = 1 .. n /\ calls \in Seq(CallRecords)
      /\ Current.rsp \in Nat /\ Current.rsp <= StartRsp /\ pc \in DOMAIN code
      /\ DOMAIN code = 1 .. Len(code) /\ Len(code) \in Nat
      /\ ShapesAgree(shape, pc)
    BY <1>1, Here
<1>3. DOMAIN regs = RegisterNames /\ DOMAIN mem \subseteq Nat /\ Chained(calls, shape) /\ Spaced(calls)
    BY <1>1 DEF Live
<1>4. shape[pc].phase = "body" /\ shape[pc + 1] = shape[pc] /\ pc + 1 \in DOMAIN code
    <2>1. Quiet(code[pc])
        BY <1>1 DEF Quiet, Plain, Op
    <2> QED
        BY <1>1, <2>1, QuietShape, FallsThrough
<1>5. /\ pc' \in DOMAIN code /\ code[pc'] = Label(Entry(code[pc][2]))
      /\ shape[pc'] = Shape("called", 0)
    BY <1>1, <1>2 DEF ShapesAgree, LeadsTo, Op
<1>6. /\ regs.rbp = Current.rsp - WordBytes
      /\ regs.rsp = Current.rsp - WordBytes - Current.room - WordBytes * shape[pc].height
      /\ regs.rsp \in Int /\ regs.rsp <= Current.rsp - WordBytes
    BY <1>1, <1>4, BodyFrame
<1>7. Addresses(regs.rsp - WordBytes, WordBytes) \subseteq DOMAIN mem
    BY <1>1 DEF Faults, Touched
<1>8. regs.rsp - WordBytes \in Nat
    <2>1. regs.rsp - WordBytes \in Addresses(regs.rsp - WordBytes, WordBytes)
        BY <1>6 DEF Addresses, WordBytes
    <2> QED
        BY <1>3, <1>7, <2>1
<1>9. new \in CallRecords
    <2>1. code[pc][2] \in {code[k][2] : k \in {j \in DOMAIN code : code[j][1] = "call"}}
        BY <1>1, <1>2 DEF Op
    <2>2. StartRsp \in Int /\ Top \in Int /\ StartRsp <= Top
        BY ProcessorAssumption DEF StartRsp, Top, Bottom, WordBytes
    <2>3. regs.rsp - WordBytes \in 0 .. StartRsp /\ regs.rbp \in 0 .. Top
        BY <1>2, <1>6, <1>8, <2>2 DEF WordBytes
    <2> QED
        BY <1>4, <2>1, <2>3 DEF CallRecords
<1> HIDE DEF new
<1>10. /\ calls' \in Seq(CallRecords) /\ Len(calls') = n + 1 /\ calls'[n + 1] = new
       /\ \A k \in 1 .. n : calls'[k] = calls[k]
    BY <1>1, <1>2, <1>9
<1>11. /\ new.name = code[pc][2] /\ new.ret = pc + 1 /\ new.rsp = regs.rsp - WordBytes
       /\ new.rbp = regs.rbp /\ new.room = 0
    BY DEF new
<1>12. DOMAIN regs' = RegisterNames /\ DOMAIN mem' \subseteq Nat
    BY <1>1, <1>3, WriteDomain
<1>13. Framed(regs', new, shape[pc'])
    BY <1>1, <1>3, <1>5, <1>11 DEF Framed, Shape, RegisterNames
<1>14. Linked(mem', calls', shape[pc'])
    <2>1. Linked(mem', calls, shape[pc])
        BY <1>1, <1>4, PushSpares
    <2>2. Holds(mem', new.rsp, new.ret)
        <3>1. regs.rsp - WordBytes \in Int
            BY <1>8
        <3>2. Holds(mem', regs.rsp - WordBytes, pc + 1)
            BY <1>1, <1>7, <3>1, WriteHolds
        <3> QED
            BY <1>11, <3>2
    <2>3. shape[pc'].phase \notin Saves
        BY <1>5 DEF Shape, Saves
    <2>4. ASSUME NEW k \in 1 .. n
          PROVE  /\ Holds(mem', calls[k].rsp, calls[k].ret)
                 /\ Holds(mem', calls[k].rsp - WordBytes, calls[k].rbp)
        BY <1>2, <1>4, <2>1 DEF Linked, Saves
    <2>5. DOMAIN calls' = 1 .. n + 1
        BY <1>2, <1>10
    <2>6. \A k \in DOMAIN calls' : k \in 1 .. n \/ k = n + 1
        BY <1>2, <2>5
    <2>7. ~(n + 1 < Len(calls'))
        BY <1>2, <1>10
    <2> QED
        BY <1>10, <2>2, <2>3, <2>4, <2>6, <2>7 DEF Linked
<1>15. Chained(calls', shape)
    <2>1. calls'[1].ret = 0
        BY <1>2, <1>3, <1>10 DEF Chained
    <2>2. Called(Current, new, shape)
        BY <1>1, <1>2, <1>4, <1>6, <1>11 DEF Called, Op, WordBytes
    <2>3. ASSUME NEW k \in 1 .. Len(calls') - 1
          PROVE  Called(calls'[k], calls'[k + 1], shape)
        <3>1. CASE k = n
            BY <1>2, <1>10, <2>2, <3>1 DEF Current
        <3>2. CASE k \in 1 .. n - 1
            <4>1. k \in 1 .. n
                BY <1>2, <3>2
            <4>2. k + 1 \in 1 .. n
                BY <1>2, <3>2
            <4> QED
                BY <1>3, <1>10, <3>2, <4>1, <4>2 DEF Chained
        <3> QED
            BY <1>2, <1>10, <3>1, <3>2
    <2> QED
        BY <2>1, <2>3 DEF Chained
<1>16. Spaced(calls')
    <2>1. \A k \in 1 .. n : calls[k].rsp \in Nat /\ Current.rsp <= calls[k].rsp
        BY <1>1, <1>2, OthersAbove
    <2>2. \A k \in 1 .. n : new.rsp + 2 * WordBytes <= calls[k].rsp
        BY <1>2, <1>6, <1>11, <2>1 DEF WordBytes
    <2>3. DOMAIN calls' = 1 .. n + 1
        BY <1>2, <1>10
    <2> SUFFICES ASSUME NEW j \in 1 .. n + 1, NEW k \in 1 .. n + 1, j < k
                 PROVE  calls'[k].rsp + 2 * WordBytes <= calls'[j].rsp
        BY <2>3 DEF Spaced
    <2>4. j \in 1 .. n
        BY <1>2
    <2>5. CASE k = n + 1
        BY <1>10, <2>2, <2>4, <2>5
    <2>6. CASE k \in 1 .. n
        BY <1>2, <1>3, <1>10, <2>4, <2>6 DEF Spaced
    <2> QED
        BY <1>2, <2>5, <2>6
<1>17. CallRecords' = CallRecords /\ Chained(calls, shape)' = Chained(calls', shape)
    BY <1>1 DEF CallRecords, loaded, StartRsp, Top, Bottom, Chained, Called
<1>18. Current' = new
    BY <1>10 DEF Current
<1> QED
    BY <1>1, <1>2, <1>5, <1>10, <1>11, <1>12, <1>13, <1>14, <1>15, <1>16, <1>17, <1>18
       DEF Live, loaded

-----------------------------------------------------------------------------
(* Where a return finds rsp, rbp and the return address.                   *)
LEMMA Returning ==
    ASSUME NEW shape, WellStacked(shape), Live(shape), status = "running", Op = "ret"
    PROVE  /\ shape[pc].phase = "left" /\ regs.rsp = Current.rsp /\ regs.rbp = Current.rbp
           /\ ReadFrom(mem, regs.rsp, WordBytes) = Current.ret
<1>1. /\ Allowed(code[pc], shape[pc]) /\ shape[pc].phase \in Phases \ {"dead"}
      /\ Framed(regs, Current, shape[pc]) /\ Linked(mem, calls, shape[pc])
      /\ Len(calls) \in DOMAIN calls /\ calls \in Seq(CallRecords)
      /\ Current.rsp \in Nat /\ DOMAIN code = 1 .. Len(code) /\ Len(code) \in Nat
    BY Here
<1>2. shape[pc].phase = "left"
    BY <1>1 DEF Allowed, AllowedInBody, Phases, Plain, Pushes, Push, Pop, Mov, Op
<1>3. regs.rsp = Current.rsp /\ regs.rbp = Current.rbp
    BY <1>1, <1>2 DEF Framed
<1>4. Holds(mem, Current.rsp, Current.ret)
    BY <1>1 DEF Linked, Current
<1>5. Current.ret \in 0 .. Word - 1
    <2>1. Current.ret \in {0} \cup DOMAIN code
        BY <1>1, ACall DEF Current
    <2>2. Len(code) < Word /\ Word \in Nat \ {0}
        BY Places DEF WellStacked
    <2> QED
        BY <1>1, <2>1, <2>2
<1> QED
    BY <1>1, <1>2, <1>3, <1>4, <1>5, ReadBack

(* A return goes on where the call was made, in the frame of the caller;   *)
(* the first one ends the run.                                             *)
LEMMA RetStepKeeps ==
    ASSUME NEW shape, WellStacked(shape), Live(shape), RetStep
    PROVE  Live(shape)'
<1> DEFINE n == Len(calls)
<1>1. /\ status = "running" /\ Op = "ret" /\ UNCHANGED <<loaded, mem>>
      /\ pc' = ReadFrom(mem, regs.rsp, WordBytes)
      /\ status' = IF pc' = 0 THEN "halted" ELSE "running"
      /\ regs' = [regs EXCEPT !.rsp = @ + WordBytes]
      /\ calls' = IF n > 1 THEN Front(calls) ELSE calls
    BY DEF RetStep, Does, Executes
<1>2. /\ n \in Nat \ {0} /\ DOMAIN calls = 1 .. n /\ calls \in Seq(CallRecords)
      /\ Linked(mem, calls, shape[pc])
    BY <1>1, Here
<1>3. /\ regs.rsp = Current.rsp /\ regs.rbp = Current.rbp /\ pc' = Current.ret
    BY <1>1, Returning
<1>4. DOMAIN regs = RegisterNames /\ DOMAIN mem \subseteq Nat /\ Chained(calls, shape) /\ Spaced(calls)
    BY <1>1 DEF Live
<1>5. CASE n = 1
    <2>1. pc' = 0
        BY <1>3, <1>4, <1>5 DEF Chained, Current
    <2> QED
        BY <1>1, <2>1 DEF Live
<1>6. CASE n > 1
    <2> DEFINE caller == calls[n - 1]
    <2>1. Called(caller, Current, shape)
        <3>1. n - 1 \in 1 .. n - 1 /\ (n - 1) + 1 = n
            BY <1>2, <1>6
        <3> QED
            BY <1>4, <3>1 DEF Chained, Current
    <2>2. pc' \in DOMAIN code /\ shape[pc'].phase = "body"
        BY <1>3, <2>1 DEF Called
    <2>3. /\ calls' \in Seq(CallRecords) /\ Len(calls') = n - 1 /\ DOMAIN calls' = 1 .. n - 1
          /\ \A k \in 1 .. n - 1 : calls'[k] = calls[k]
        BY <1>1, <1>2, <1>6 DEF Front
    <2>4. Current' = caller
        BY <1>2, <1>6, <2>3 DEF Current
    <2>5. caller.rsp \in Nat /\ caller.room \in Nat /\ Current.rsp \in Nat
        BY <1>1, <1>2, <1>6, ACall, Here
    <2>6. /\ regs'.rsp = regs.rsp + WordBytes /\ regs'.rbp = regs.rbp
          /\ DOMAIN regs' = RegisterNames /\ DOMAIN mem' \subseteq Nat
        BY <1>1, <1>4 DEF RegisterNames
    <2>7. Framed(regs', caller, shape[pc'])
        <3>1. /\ regs'.rbp = caller.rsp - WordBytes
              /\ regs'.rsp = caller.rsp - WordBytes - caller.room - WordBytes * shape[pc'].height
            BY <1>3, <2>1, <2>6 DEF Called
        <3> QED
            BY <2>2, <3>1 DEF Framed
    <2>8. Linked(mem', calls', shape[pc'])
        <3>1. ASSUME NEW k \in 1 .. n - 1
              PROVE  /\ Holds(mem, calls[k].rsp, calls[k].ret)
                     /\ Holds(mem, calls[k].rsp - WordBytes, calls[k].rbp)
            <4>1. k \in 1 .. n
                BY <1>2
            <4>2. k < n
                BY <1>2
            <4> QED
                BY <1>2, <4>1, <4>2 DEF Linked
        <3>2. mem' = mem
            BY <1>1
        <3>3. \A k \in DOMAIN calls' :
                /\ Holds(mem', calls'[k].rsp, calls'[k].ret)
                /\ Holds(mem', calls'[k].rsp - WordBytes, calls'[k].rbp)
            BY <2>3, <3>1, <3>2
        <3> QED
            BY <3>3 DEF Linked
    <2>9. Chained(calls', shape)
        <3>1. calls'[1].ret = 0
            BY <1>2, <1>4, <1>6, <2>3 DEF Chained
        <3>2. ASSUME NEW k \in 1 .. Len(calls') - 1
              PROVE  Called(calls'[k], calls'[k + 1], shape)
            <4>1. k \in 1 .. n - 1
                BY <1>2, <2>3
            <4>2. k + 1 \in 1 .. n - 1
                BY <1>2, <2>3
            <4> QED
                BY <1>4, <2>3, <4>1, <4>2 DEF Chained
        <3> QED
            BY <3>1, <3>2 DEF Chained
    <2>10. Spaced(calls')
        <3> SUFFICES ASSUME NEW j \in 1 .. n - 1, NEW k \in 1 .. n - 1, j < k
                     PROVE  calls'[k].rsp + 2 * WordBytes <= calls'[j].rsp
            BY <2>3 DEF Spaced
        <3>1. j \in DOMAIN calls /\ k \in DOMAIN calls
            BY <1>2
        <3>2. calls[k].rsp + 2 * WordBytes <= calls[j].rsp
            BY <1>4, <3>1 DEF Spaced
        <3> QED
            BY <2>3, <3>2
    <2>11. CallRecords' = CallRecords /\ Chained(calls, shape)' = Chained(calls', shape)
        BY <1>1 DEF CallRecords, loaded, StartRsp, Top, Bottom, Chained, Called
    <2>12. Len(calls') > 0
        BY <1>2, <1>6, <2>3
    <2> HIDE DEF caller
    <2> QED
        BY <1>1, <2>2, <2>3, <2>4, <2>6, <2>7, <2>8, <2>9, <2>10, <2>11, <2>12 DEF Live, loaded
<1> QED
    BY <1>2, <1>5, <1>6

(* The text does not change, and what has ended stays as it is.            *)
LEMMA Frozen ==
    ASSUME [Run \/ Stopped]_vars
    PROVE  UNCHANGED loaded /\ (status # "running" => UNCHANGED vars)
BY DEF Run, Stopped, vars, loaded, PushStep, PopStep, MovStep, LeaStep, SubStep, LoadStep,
       StoreStep, LoadSymbolStep, StoreSymbolStep, PushSymbolStep, NegStep, AluStep, CqoStep,
       IdivStep, CmpStep, SetStep, MovzbStep, PassStep, JumpStep, CallStep, RetStep, Fault,
       Step, Does, Executes

LEMMA TextStays ==
    ASSUME NEW shape, WellStacked(shape), UNCHANGED loaded
    PROVE  WellStacked(shape)'
<1>1. code' = code /\ data' = data
    BY DEF loaded
<1>2. ASSUME NEW l PROVE Target(l)' = Target(l)
    BY <1>1 DEF Target
<1>3. ASSUME NEW l, NEW s, LeadsTo(shape, l, s) PROVE LeadsTo(shape, l, s)'
    BY <1>1, <1>2, <1>3 DEF LeadsTo
<1>4. ASSUME NEW k, ShapesAgree(shape, k) PROVE ShapesAgree(shape, k)'
    BY <1>1, <1>3, <1>4 DEF ShapesAgree
<1> QED
    BY <1>1, <1>3, <1>4 DEF WellStacked

(* No step of the processor breaks the invariant.                          *)
LEMMA LiveStep ==
    ASSUME NEW shape, WellStacked(shape), Live(shape), StoresSpareLinks, StackHolds,
           [Run \/ Stopped]_vars
    PROVE  WellStacked(shape)' /\ Live(shape)'
<1>1. UNCHANGED loaded
    BY Frozen
<1>2. WellStacked(shape)'
    BY <1>1, TextStays
<1> SUFFICES Live(shape)'
    BY <1>2
<1>3. CASE UNCHANGED vars
    BY <1>3 DEF vars, loaded, Live, CallRecords, StartRsp, Top, Bottom, Current, Chained, Called
<1>4. CASE Fault
    BY <1>4 DEF Fault, Live
<1>5. CASE PushStep \/ PushSymbolStep
    BY <1>5, PushSteps
<1>6. CASE PopStep
    BY <1>6, PopStepKeeps
<1>7. CASE MovStep
    BY <1>7, MovStepKeeps
<1>8. CASE SubStep
    BY <1>8, SubStepKeeps
<1>9. CASE \/ LeaStep \/ LoadStep \/ LoadSymbolStep \/ NegStep \/ AluStep \/ CqoStep
           \/ IdivStep \/ CmpStep \/ SetStep \/ MovzbStep
    BY <1>9, ComputingSteps
<1>10. CASE StoreStep \/ StoreSymbolStep
    BY <1>10, StoreSteps
<1>11. CASE PassStep
    BY <1>11, PassStepKeeps
<1>12. CASE JumpStep
    BY <1>12, JumpStepKeeps
<1>13. CASE CallStep
    BY <1>13, CallStepKeeps
<1>14. CASE RetStep
    BY <1>14, RetStepKeeps
<1> QED
    BY <1>3, <1>4, <1>5, <1>6, <1>7, <1>8, <1>9, <1>10, <1>11, <1>12, <1>13, <1>14
       DEF Run, Stopped

-----------------------------------------------------------------------------
(* The call of main by the runtime.                                        *)
LEMMA LiveAtBoot ==
    ASSUME NEW shape, WellStacked(shape), Boot(code, data)
    PROVE  Live(shape)
<1> DEFINE first == [name |-> "main", ret |-> 0, rsp |-> StartRsp, rbp |-> Top, room |-> 0]
<1>1. PICK g \in Fill :
        /\ regs = [r \in RegisterNames |->
                      CASE r = "rsp" -> StartRsp
                        [] r = "rbp" -> Top
                        [] OTHER -> ReadFrom([k \in 1 .. WordBytes |-> g], 1, WordBytes)]
        /\ mem = [b \in Bottom .. Top + DataSize(data) + PageRest(data) - 1 |->
                     CASE b < StartRsp \/ b >= Top + DataSize(data) -> g
                       [] b \in StartRsp .. Top - 1 -> 0
                       [] b \in Top .. Top + DataSize(data) - 1 -> InitialData(data)[b - Top + 1]]
    BY DEF Boot
<1>2. pc = Target(Entry("main")) /\ calls = <<first>>
    BY DEF Boot
<1>3. pc \in DOMAIN code /\ code[pc] = Label(Entry("main")) /\ shape[pc] = Shape("called", 0)
    BY <1>2 DEF WellStacked, LeadsTo
<1>4. /\ StackSize \in Nat /\ StackSize >= 16 /\ Bottom = StackSize /\ Top = StackSize + StackSize
      /\ StartRsp = Top - 8 /\ StartRsp \in Nat /\ Top \in Nat /\ Bottom <= StartRsp
    BY ProcessorAssumption DEF Bottom, Top, StartRsp, WordBytes
<1>5. DataSize(data) \in Nat /\ PageRest(data) \in Nat
    BY DEF WellStacked, PageRest, WordBytes
<1>6. DOMAIN regs = RegisterNames /\ regs.rsp = StartRsp /\ regs.rbp = Top
    BY <1>1 DEF RegisterNames
<1>7. DOMAIN mem \subseteq Nat
    BY <1>1, <1>4, <1>5
<1>8. \A b \in StartRsp .. Top - 1 : b \in DOMAIN mem /\ mem[b] = 0
    BY <1>1, <1>4, <1>5
<1>9. Holds(mem, StartRsp, 0)
    <2>1. ASSUME NEW k \in 0 .. WordBytes - 1
          PROVE  ByteOf(0, k) = 0 /\ StartRsp + k \in StartRsp .. Top - 1
        <3>1. Place[k + 1] \in Nat \ {0} /\ Byte \in Nat \ {0}
            <4>1. k + 1 \in {1, 2, 3, 4, 5, 6, 7, 8}
                BY DEF WordBytes
            <4>2. \A x, y \in Nat \ {0} : x * y \in Nat \ {0}
                OBVIOUS
            <4>3. /\ Place[1] \in Nat \ {0} /\ Place[2] \in Nat \ {0} /\ Place[3] \in Nat \ {0}
                  /\ Place[5] \in Nat \ {0} /\ Byte \in Nat \ {0}
                BY Places
            <4>4. Place[4] \in Nat \ {0} /\ Place[6] \in Nat \ {0} /\ Place[7] \in Nat \ {0}
                BY <4>2, <4>3, Places
            <4>5. Place[8] \in Nat \ {0}
                BY <4>2, <4>3, <4>4, Places
            <4> QED
                BY <4>1, <4>3, <4>4, <4>5
        <3>2. 0 \div Place[k + 1] = 0 /\ 0 % Byte = 0
            BY <3>1
        <3> QED
            BY <1>4, <3>2 DEF ByteOf, WordBytes
    <2> QED
        BY <1>8, <2>1 DEF Holds
<1>10. first \in CallRecords
    BY <1>4 DEF CallRecords
<1>11. /\ first.name = "main" /\ first.ret = 0 /\ first.rsp = StartRsp /\ first.rbp = Top
       /\ first.room = 0
    OBVIOUS
<1> HIDE DEF first
<1>12. /\ calls \in Seq(CallRecords) /\ Len(calls) = 1 /\ DOMAIN calls = {1} /\ calls[1] = first
       /\ Current = first
    BY <1>2, <1>10 DEF Current
<1>13. Framed(regs, Current, shape[pc])
    BY <1>3, <1>6, <1>11, <1>12 DEF Framed, Shape
<1>14. Linked(mem, calls, shape[pc])
    BY <1>3, <1>9, <1>11, <1>12 DEF Linked, Saves, Shape
<1>15. Chained(calls, shape) /\ Spaced(calls)
    BY <1>11, <1>12 DEF Chained, Spaced
<1> QED
    BY <1>3, <1>6, <1>7, <1>11, <1>12, <1>13, <1>14, <1>15 DEF Live

-----------------------------------------------------------------------------
(* The runs of the processor: of a program that was loaded, or of none     *)
(* when the compiler stopped.                                              *)
Started == Boot(code, data) \/ (status # "running" /\ NotRun(status))
Runs == Started /\ [][Run \/ Stopped]_vars

-----------------------------------------------------------------------------
(* Every active call has made room for its variables, but for the last one *)
(* while it is in its prologue.                                            *)
InPrologue(c) == pc \in Target(Entry(c.name)) .. Target(Entry(c.name)) + 3
HasRoom(k, shape) ==
    /\ LeadsTo(shape, Entry(calls[k].name), Shape("called", 0))
    /\ \/ prog.frames[calls[k].name] \in 0 .. calls[k].room
       \/ k = Len(calls) /\ InPrologue(calls[k])
RoomsMade(shape) == status = "running" => \A k \in DOMAIN calls : HasRoom(k, shape)

(* The prologue of the function f.                                         *)
LEMMA PrologueOf ==
    ASSUME FramesGiven, NEW shape, WellStacked(shape), NEW f, LeadsTo(shape, Entry(f), Shape("called", 0))
    PROVE  LET b == Target(Entry(f)) IN
           /\ b \in Nat /\ b + 3 \in DOMAIN code
           /\ code[b] = Label(Entry(f)) /\ code[b + 1] = Push("rbp") /\ code[b + 2] = Mov("rbp", "rsp")
           /\ code[b + 3][1] = "sub_imm" /\ code[b + 3][2] = "rsp" /\ code[b + 3][3] \in Nat
           /\ prog.frames[f] \in 0 .. code[b + 3][3]
<1> DEFINE b == Target(Entry(f))
<1>1. b \in DOMAIN code /\ code[b] = Label(Entry(f))
    BY DEF LeadsTo
<1>2. code[b][1] = "label" /\ code[b][2] = <<f, <<>>>> /\ code[b][2][2] = <<>> /\ code[b][2][1] = f
    BY <1>1 DEF Label, Entry
<1>3. IsEntry(b)
    BY <1>1, <1>2 DEF IsEntry
<1>4. b + 3 \in DOMAIN code /\ GivesFrame(b)
    BY <1>1, <1>3 DEF FramesGiven
<1>5. b \in Nat
    BY <1>1 DEF WellStacked
<1> QED
    BY <1>1, <1>2, <1>4, <1>5 DEF GivesFrame

(* No step breaks this: a prologue is left by its sub rsp only.            *)
LEMMA RoomsMadeStep ==
    ASSUME FramesGiven, NEW shape, WellStacked(shape), Live(shape), RoomsMade(shape),
           [Run \/ Stopped]_vars
    PROVE  RoomsMade(shape)'
<1> SUFFICES ASSUME status' = "running"
             PROVE  \A k \in DOMAIN calls' : HasRoom(k, shape)'
    BY DEF RoomsMade
<1>1. status = "running" /\ UNCHANGED loaded
    BY Frozen DEF vars
<1>2. prog' = prog /\ code' = code
    BY <1>1 DEF loaded
<1>3. \A l : Target(l)' = Target(l)
    BY <1>2 DEF Target
<1>4. \A l, s : LeadsTo(shape, l, s)' <=> LeadsTo(shape, l, s)
    BY <1>2, <1>3 DEF LeadsTo
<1>5. \A k \in DOMAIN calls : HasRoom(k, shape)
    BY <1>1 DEF RoomsMade
<1>6. /\ Len(calls) \in DOMAIN calls /\ DOMAIN calls = 1 .. Len(calls) /\ calls \in Seq(CallRecords)
      /\ Len(calls) \in Nat \ {0} /\ pc \in DOMAIN code /\ Current = calls[Len(calls)]
      /\ Current.room \in Nat
    BY <1>1, Here DEF Current
<1> DEFINE b == Target(Entry(Current.name))
<1>7. /\ b \in Nat /\ b + 3 \in DOMAIN code
      /\ code[b] = Label(Entry(Current.name)) /\ code[b + 1] = Push("rbp")
      /\ code[b + 2] = Mov("rbp", "rsp")
      /\ code[b + 3][1] = "sub_imm" /\ code[b + 3][2] = "rsp" /\ code[b + 3][3] \in Nat
      /\ prog.frames[Current.name] \in 0 .. code[b + 3][3]
    BY <1>5, <1>6, PrologueOf DEF HasRoom
<1>8. InPrologue(Current) => pc = b \/ pc = b + 1 \/ pc = b + 2 \/ pc = b + 3
    BY <1>7 DEF InPrologue
<1>9. /\ InPrologue(Current) /\ Op # "sub_imm" => pc + 1 \in b .. b + 3
      /\ InPrologue(Current) => Op \in {"label", "push", "mov", "sub_imm"}
      /\ InPrologue(Current) /\ Op = "sub_imm" => pc = b + 3
    BY <1>7, <1>8 DEF Op, Label, Push, Mov
<1>10. CASE UNCHANGED <<pc, calls>>
    BY <1>2, <1>3, <1>4, <1>5, <1>10 DEF HasRoom, InPrologue
<1>11. CASE Op # "sub_imm" /\ pc' = pc + 1 /\ UNCHANGED calls
    <2> SUFFICES ASSUME NEW k \in DOMAIN calls
                 PROVE  HasRoom(k, shape)'
        BY <1>11
    <2>1. HasRoom(k, shape)
        BY <1>5
    <2>2. k = Len(calls) /\ InPrologue(calls[k]) => InPrologue(calls[k])'
        BY <1>3, <1>6, <1>9, <1>11 DEF InPrologue
    <2> QED
        BY <1>2, <1>4, <1>11, <2>1, <2>2 DEF HasRoom
<1>12. CASE SubStep
    <2>1. Op = "sub_imm" /\ pc' = pc + 1
        BY <1>12 DEF SubStep, Step, Does, Executes
    <2>2. CASE code[pc][2] = "rsp"
        <3> DEFINE v == code[pc][3]
        <3>2. v \in Nat
            BY <1>12, <2>2, RoomGrows
        <3>3. /\ DOMAIN calls' = DOMAIN calls /\ Len(calls') = Len(calls)
              /\ \A k \in DOMAIN calls : calls'[k].name = calls[k].name
              /\ \A k \in DOMAIN calls : k # Len(calls) => calls'[k].room = calls[k].room
              /\ calls'[Len(calls)].room = Current.room + v
            BY <1>6, <1>12, <2>2, RoomGrows DEF Current
        <3>4. InPrologue(Current) => prog.frames[Current.name] \in 0 .. v
            BY <1>7, <1>9, <2>1
        <3> SUFFICES ASSUME NEW k \in DOMAIN calls
                     PROVE  HasRoom(k, shape)'
            BY <3>3
        <3>5. HasRoom(k, shape)
            BY <1>5
        <3>6. CASE k = Len(calls)
            <4>1. prog.frames[Current.name] \in 0 .. Current.room + v
                BY <1>6, <3>2, <3>4, <3>5, <3>6 DEF HasRoom
            <4> QED
                BY <1>2, <1>4, <1>6, <3>3, <3>5, <3>6, <4>1 DEF HasRoom
        <3>7. CASE k # Len(calls)
            BY <1>2, <1>4, <3>3, <3>5, <3>7 DEF HasRoom
        <3> QED
            BY <3>6, <3>7
    <2>3. CASE code[pc][2] # "rsp"
        <3>1. ~InPrologue(Current) /\ calls' = calls
            BY <1>7, <1>9, <1>12, <2>1, <2>3 DEF SubStep
        <3> QED
            BY <1>2, <1>4, <1>5, <1>6, <3>1 DEF HasRoom
    <2> QED
        BY <2>2, <2>3
<1>13. CASE JumpStep
    <2>1. Op \in {"jmp", "je"} /\ UNCHANGED calls
        BY <1>13 DEF JumpStep, Does, Executes
    <2>2. ~InPrologue(Current)
        BY <1>9, <2>1
    <2> QED
        BY <1>2, <1>4, <1>5, <1>6, <2>1, <2>2 DEF HasRoom
<1>14. CASE CallStep
    <2>1. Op = "call" /\ pc' = Target(Entry(code[pc][2]))
        BY <1>14 DEF CallStep, Does, Executes
    <2>2. PICK new : calls' = Append(calls, new) /\ new.name = code[pc][2]
        BY <1>14 DEF CallStep
    <2>3. ~InPrologue(Current)
        BY <1>9, <2>1
    <2>4. LeadsTo(shape, Entry(code[pc][2]), Shape("called", 0))
        BY <1>1, <2>1, Here DEF ShapesAgree, Op
    <2>5. /\ DOMAIN calls' = 1 .. Len(calls) + 1 /\ Len(calls') = Len(calls) + 1
          /\ calls'[Len(calls) + 1] = new /\ \A k \in DOMAIN calls : calls'[k] = calls[k]
        BY <1>6, <2>2
    <2> SUFFICES ASSUME NEW k \in 1 .. Len(calls) + 1
                 PROVE  HasRoom(k, shape)'
        BY <2>5
    <2>6. CASE k \in DOMAIN calls
        <3>1. HasRoom(k, shape) /\ prog.frames[calls[k].name] \in 0 .. calls[k].room
            BY <1>5, <1>6, <2>3, <2>6 DEF HasRoom
        <3> QED
            BY <1>2, <1>4, <2>5, <2>6, <3>1 DEF HasRoom
    <2>7. CASE k = Len(calls) + 1
        <3>1. calls'[k].name = code[pc][2] /\ k = Len(calls')
            BY <2>2, <2>5, <2>7
        <3>2. InPrologue(calls[k])'
            <4>1. Target(Entry(code[pc][2])) \in Nat
                BY <2>4, PrologueOf
            <4> QED
                BY <1>3, <2>1, <3>1, <4>1 DEF InPrologue
        <3> QED
            BY <1>4, <2>4, <3>1, <3>2 DEF HasRoom
    <2> QED
        BY <1>6, <2>6, <2>7
<1>15. CASE RetStep
    <2>1. Op = "ret" /\ calls' = IF Len(calls) > 1 THEN Front(calls) ELSE calls
        BY <1>15 DEF RetStep, Does, Executes
    <2>2. ~InPrologue(Current)
        BY <1>9, <2>1
    <2>3. DOMAIN calls' \subseteq DOMAIN calls /\ \A k \in DOMAIN calls' : calls'[k] = calls[k]
        <3>1. CASE Len(calls) > 1
            <4>1. calls' = [k \in 1 .. Len(calls) - 1 |-> calls[k]]
                BY <1>6, <2>1, <3>1 DEF Front
            <4> QED
                BY <1>6, <4>1
        <3>2. CASE ~(Len(calls) > 1)
            BY <2>1, <3>2
        <3> QED
            BY <3>1, <3>2
    <2>4. \A k \in DOMAIN calls : prog.frames[calls[k].name] \in 0 .. calls[k].room
        BY <1>5, <1>6, <2>2 DEF HasRoom
    <2> QED
        BY <1>2, <1>4, <1>5, <2>3, <2>4 DEF HasRoom
<1> QED
    BY <1>10, <1>11, <1>12, <1>13, <1>14, <1>15
       DEF Run, Stopped, vars, PushStep, PopStep, MovStep, LeaStep, LoadStep, StoreStep,
           LoadSymbolStep, StoreSymbolStep, PushSymbolStep, NegStep, AluStep, CqoStep, IdivStep,
           CmpStep, SetStep, MovzbStep, PassStep, Fault, Step, Does, Executes

LEMMA RoomsMadeAtBoot ==
    ASSUME FramesGiven, NEW shape, WellStacked(shape), Boot(code, data)
    PROVE  RoomsMade(shape)
<1>1. LeadsTo(shape, Entry("main"), Shape("called", 0))
    BY DEF WellStacked
<1>2. Target(Entry("main")) \in Nat
    BY <1>1, PrologueOf
<1>3. Len(calls) = 1 /\ DOMAIN calls = {1} /\ calls[1].name = "main" /\ pc = Target(Entry("main"))
    BY DEF Boot
<1> QED
    BY <1>1, <1>2, <1>3 DEF RoomsMade, HasRoom, InPrologue

(* So it holds as long as the program runs.                                *)
Roomy == \E shape : WellStacked(shape) /\ Live(shape) /\ RoomsMade(shape)
RoomyWhileRunning == status = "running" => FramesGiven /\ Roomy

(* The room of a call lies above the frames of the calls that it made.     *)
LEMMA RoomAboveRsp ==
    ASSUME NEW shape, WellStacked(shape), Live(shape), status = "running",
           NEW k \in DOMAIN calls, NEW j \in DOMAIN calls, k < j
    PROVE  calls[j].rsp + WordBytes <= calls[k].rsp - WordBytes - calls[k].room
<1>1. /\ Len(calls) \in Nat /\ DOMAIN calls = 1 .. Len(calls) /\ calls \in Seq(CallRecords)
    BY Here
<1>2. k + 1 \in DOMAIN calls /\ k \in 1 .. Len(calls) - 1 /\ (j = k + 1 \/ k + 1 < j)
    BY <1>1
<1>3. Called(calls[k], calls[k + 1], shape)
    BY <1>2 DEF Live, Chained
<1>4. calls[k].rsp \in Nat /\ calls[k].room \in Nat /\ calls[k + 1].rsp \in Nat /\ calls[j].rsp \in Nat
    BY <1>1, <1>2, ACall
<1>5. calls[j].rsp <= calls[k + 1].rsp
    <2>1. k + 1 < j => calls[j].rsp + 2 * WordBytes <= calls[k + 1].rsp
        BY <1>2 DEF Live, Spaced
    <2> QED
        BY <1>2, <1>4, <2>1 DEF WordBytes
<1>6. PICK h \in Nat :
        calls[k + 1].rsp + WordBytes = calls[k].rsp - WordBytes - calls[k].room - WordBytes * h
    BY <1>3 DEF Called, WellStacked
<1> QED
    BY <1>4, <1>5, <1>6 DEF WordBytes

(* A store that hits variables spares the words by which the calls return: *)
(* these lie beside the rooms, and below the globals.                      *)
LEMMA VariablesBesideLinks ==
    ASSUME FramesGiven, NEW shape, WellStacked(shape), Live(shape), RoomsMade(shape),
           StoresHitVariables
    PROVE  StoresSpareLinks
<1> SUFFICES ASSUME Executes({"store", "store_symbol"}), NEW j \in DOMAIN calls
             PROVE  Touched \cap Addresses(calls[j].rsp - WordBytes, 2 * WordBytes) = {}
    BY DEF StoresSpareLinks, LinkBytes
<1>1. status = "running" /\ Op \in {"store", "store_symbol"}
    BY DEF Executes
<1>2. /\ Len(calls) \in Nat /\ DOMAIN calls = 1 .. Len(calls) /\ calls \in Seq(CallRecords)
      /\ Len(calls) \in DOMAIN calls
    BY <1>1, Here
<1>3. calls[j].rsp \in Nat /\ calls[j].rsp <= StartRsp
    BY <1>2, ACall
<1>4. CASE Touched \subseteq GlobalBytes
    <2>1. Top \in Nat /\ StartRsp = Top - WordBytes
        BY ProcessorAssumption DEF StartRsp, Top, Bottom
    <2> QED
        BY <1>3, <1>4, <2>1 DEF GlobalBytes, Addresses, WordBytes
<1>5. ASSUME NEW k \in DOMAIN calls, Touched \subseteq LocalBytes(calls[k])
      PROVE  Touched \cap Addresses(calls[j].rsp - WordBytes, 2 * WordBytes) = {}
    <2>1. prog.frames[calls[k].name] \in 0 .. calls[k].room
        <3>1. HasRoom(k, shape)
            BY <1>1 DEF RoomsMade
        <3>2. ~InPrologue(calls[k]) \/ k # Len(calls)
            <4> DEFINE b == Target(Entry(calls[k].name))
            <4>1. /\ b \in Nat /\ code[b] = Label(Entry(calls[k].name)) /\ code[b + 1] = Push("rbp")
                  /\ code[b + 2] = Mov("rbp", "rsp") /\ code[b + 3][1] = "sub_imm"
                BY <3>1, PrologueOf DEF HasRoom
            <4>2. InPrologue(calls[k]) => pc = b \/ pc = b + 1 \/ pc = b + 2 \/ pc = b + 3
                BY <4>1 DEF InPrologue
            <4> QED
                BY <1>1, <4>1, <4>2 DEF Op, Label, Push, Mov
        <3> QED
            BY <3>1, <3>2 DEF HasRoom
    <2>2. calls[k].rsp \in Nat /\ calls[k].room \in Nat
        BY <1>2, ACall
    <2>3. CASE j = k
        BY <1>5, <2>1, <2>2, <2>3 DEF LocalBytes, Base, Addresses, WordBytes
    <2>4. CASE j < k
        <3>1. calls[k].rsp + 2 * WordBytes <= calls[j].rsp
            BY <2>4, <1>1 DEF Live, Spaced
        <3> QED
            BY <1>3, <1>5, <2>1, <2>2, <3>1 DEF LocalBytes, Base, Addresses, WordBytes
    <2>5. CASE k < j
        <3>1. calls[j].rsp + WordBytes <= calls[k].rsp - WordBytes - calls[k].room
            BY <1>1, <2>5, RoomAboveRsp
        <3> QED
            BY <1>3, <1>5, <2>1, <2>2, <3>1 DEF LocalBytes, Base, Addresses, WordBytes
    <2> QED
        BY <1>2, <2>3, <2>4, <2>5
<1> QED
    BY <1>4, <1>5 DEF StoresHitVariables

LEMMA RoomyAlways == Runs /\ []Disciplined => []RoomyWhileRunning
<1>1. Started /\ Disciplined => RoomyWhileRunning
    <2> SUFFICES ASSUME Started, Disciplined, status = "running"
                 PROVE  FramesGiven /\ Roomy
        BY DEF RoomyWhileRunning
    <2>1. Boot(code, data) /\ AtStart
        <3>1. Boot(code, data)
            BY DEF Started
        <3>2. pc = Target(Entry("main")) /\ Len(calls) = 1
            BY <3>1 DEF Boot
        <3> QED
            BY <3>1, <3>2 DEF AtStart
    <2>2. FramesGiven /\ \E shape : WellStacked(shape)
        BY <2>1 DEF Disciplined
    <2> QED
        BY <2>1, <2>2, LiveAtBoot, RoomsMadeAtBoot DEF Roomy
<1>2. RoomyWhileRunning /\ Disciplined /\ [Run \/ Stopped]_vars => RoomyWhileRunning'
    <2> SUFFICES ASSUME RoomyWhileRunning, Disciplined, [Run \/ Stopped]_vars, status' = "running"
                 PROVE  (FramesGiven /\ Roomy)'
        BY DEF RoomyWhileRunning
    <2>1. status = "running" /\ code' = code /\ prog' = prog
        BY Frozen DEF vars, loaded
    <2>2. PICK shape : WellStacked(shape) /\ Live(shape) /\ RoomsMade(shape)
        BY <2>1 DEF RoomyWhileRunning, Roomy
    <2>3. FramesGiven
        BY <2>1 DEF RoomyWhileRunning
    <2>4. StoresSpareLinks /\ StackHolds
        BY <2>2, <2>3, VariablesBesideLinks DEF Disciplined, Careful
    <2>5. (WellStacked(shape) /\ Live(shape) /\ RoomsMade(shape))'
        BY <2>2, <2>3, <2>4, LiveStep, RoomsMadeStep
    <2>6. FramesGiven'
        BY <2>1, <2>3 DEF FramesGiven, GivesFrame, IsEntry
    <2> QED
        BY <2>5, <2>6 DEF Roomy
<1> QED
    BY <1>1, <1>2, PTL DEF Runs

(* What stands as long as the program runs.                                *)
Standing == \E shape : WellStacked(shape) /\ Live(shape)
StandsWhileRunning == status = "running" => Standing

LEMMA StandsAlways == Runs /\ []Disciplined => []StandsWhileRunning
<1>1. RoomyWhileRunning => StandsWhileRunning
    BY DEF RoomyWhileRunning, Roomy, StandsWhileRunning, Standing
<1> QED
    BY <1>1, RoomyAlways, PTL

(* No store of a disciplined program writes over the return address or the *)
(* saved rbp of an active call: a program whose stores go to its variables *)
(* cannot change where its calls return.                                   *)
THEOREM LinksStaySpared == Runs /\ []Disciplined => []StoresSpareLinks
<1>1. RoomyWhileRunning /\ Disciplined => StoresSpareLinks
    <2> SUFFICES ASSUME RoomyWhileRunning, Disciplined, status = "running"
                 PROVE  StoresSpareLinks
        BY DEF StoresSpareLinks, Executes
    <2>1. FramesGiven /\ StoresHitVariables
        BY DEF RoomyWhileRunning, Disciplined, Careful
    <2>2. PICK shape : WellStacked(shape) /\ Live(shape) /\ RoomsMade(shape)
        BY DEF RoomyWhileRunning, Roomy
    <2> QED
        BY <2>1, <2>2, VariablesBesideLinks
<1> QED
    BY <1>1, RoomyAlways, PTL

(* Every call of a disciplined program, in every run of it, returns to its *)
(* caller: at the ret, rsp points to the address that the call pushed, and *)
(* rbp is the caller's again.                                              *)
THEOREM CallsReturn == Runs /\ []Disciplined => []ReturnsToCaller
<1>1. StandsWhileRunning => ReturnsToCaller
    <2> SUFFICES ASSUME StandsWhileRunning, Executes({"ret"})
                 PROVE  /\ regs.rsp = Current.rsp /\ regs.rbp = Current.rbp
                        /\ ReadFrom(mem, regs.rsp, WordBytes) = Current.ret
        BY DEF ReturnsToCaller
    <2>1. PICK shape : WellStacked(shape) /\ Live(shape)
        BY DEF Standing, StandsWhileRunning, Executes
    <2> QED
        BY <2>1, Returning DEF Executes
<1> QED
    BY <1>1, StandsAlways, PTL

(* A disciplined program never leaves its text while it runs: it executes  *)
(* nothing that was not printed as an instruction of it.                   *)
StaysInText == status = "running" => InCode
THEOREM ControlStays == Runs /\ []Disciplined => []StaysInText
<1>1. StandsWhileRunning => StaysInText
    BY DEF StandsWhileRunning, Standing, Live, StaysInText, InCode
<1> QED
    BY <1>1, StandsAlways, PTL

(* Control gets to a je only from the comparison that stands before it.    *)
LEMMA TestStep ==
    ASSUME Standing, TestsStand, BranchesOnCondition, [Run \/ Stopped]_vars
    PROVE  BranchesOnCondition'
<1> SUFFICES ASSUME status' = "running", Op' = "je", InCode'
             PROVE  flags'.zf <=> regs'.rax = 0
    BY DEF BranchesOnCondition, Executes
<1>1. status = "running" /\ code' = code
    BY Frozen DEF vars, loaded
<1>2. pc' \in DOMAIN code /\ code[pc'][1] = "je"
    BY <1>1 DEF InCode, Op
<1>3. pc' - 1 \in DOMAIN code /\ code[pc' - 1] = CmpZero
    BY <1>2 DEF TestsStand
<1>4. PICK shape : WellStacked(shape) /\ Live(shape)
    BY DEF Standing
<1>5. pc \in DOMAIN code /\ DOMAIN code = 1 .. Len(code) /\ Len(code) \in Nat
    BY <1>1, <1>4, Here
<1>6. CASE UNCHANGED vars
    BY <1>2, <1>6 DEF vars, BranchesOnCondition, Executes, InCode, Op, loaded
<1>7. CASE pc' = pc + 1 /\ ~UNCHANGED vars
    <2>1. pc' - 1 = pc
        BY <1>5, <1>7
    <2>2. Op = "cmp_zero"
        BY <1>3, <2>1 DEF CmpZero, Op
    <2>3. CmpStep
        BY <1>7, <2>2 DEF Run, Stopped, vars, PushStep, PopStep, MovStep, LeaStep, SubStep, LoadStep,
              StoreStep, LoadSymbolStep, StoreSymbolStep, PushSymbolStep, NegStep, AluStep, CqoStep,
              IdivStep, SetStep, MovzbStep, PassStep, JumpStep, CallStep, RetStep, Fault,
              Step, Does, Executes
    <2> QED
        BY <2>2, <2>3 DEF CmpStep, Compared
<1>8. ASSUME NEW l, LeadsTo(shape, l, shape[pc']), pc' = Target(l)
      PROVE  FALSE
    BY <1>2, <1>8 DEF LeadsTo, Label
<1>9. CASE JumpStep
    <2>1. ShapesAgree(shape, pc)
        BY <1>1, <1>4, Here
    <2>2. CASE Op = "jmp" \/ flags.zf
        <3>1. Op \in {"jmp", "je"} /\ pc' = Target(code[pc][2])
            BY <1>9, <2>2 DEF JumpStep, Does, Executes
        <3>2. LeadsTo(shape, code[pc][2], shape[pc])
            BY <2>1, <3>1 DEF ShapesAgree, Op
        <3>3. LeadsTo(shape, code[pc][2], shape[pc'])
            BY <3>1, <3>2 DEF LeadsTo
        <3> QED
            BY <1>8, <3>1, <3>3
    <2>3. CASE ~(Op = "jmp" \/ flags.zf)
        <3>1. pc' = pc + 1 /\ Op \in {"jmp", "je"}
            BY <1>9, <2>3 DEF JumpStep, Does, Executes
        <3>2. Op = "cmp_zero"
            BY <1>3, <1>5, <3>1 DEF CmpZero, Op
        <3> QED
            BY <3>1, <3>2
    <2> QED
        BY <2>2, <2>3
<1>10. CASE CallStep
    <2>1. ShapesAgree(shape, pc)
        BY <1>1, <1>4, Here
    <2>2. Op = "call" /\ pc' = Target(Entry(code[pc][2]))
        BY <1>10 DEF CallStep, Does, Executes
    <2>3. LeadsTo(shape, Entry(code[pc][2]), shape[pc'])
        BY <2>1, <2>2 DEF ShapesAgree, LeadsTo, Op
    <2> QED
        BY <1>8, <2>2, <2>3
<1>11. CASE RetStep
    <2>1. pc' = Current.ret /\ (pc' = 0 => status' = "halted")
        BY <1>1, <1>4, <1>11, Returning DEF RetStep, Does, Executes
    <2>2. Chained(calls, shape) /\ Len(calls) \in Nat \ {0}
        BY <1>1, <1>4, Here DEF Live
    <2>3. Len(calls) # 1
        BY <2>1, <2>2 DEF Chained, Current
    <2>4. Len(calls) - 1 \in 1 .. Len(calls) - 1 /\ (Len(calls) - 1) + 1 = Len(calls)
        BY <2>2, <2>3
    <2>5. Called(calls[Len(calls) - 1], Current, shape)
        BY <2>2, <2>4 DEF Chained, Current
    <2>6. code[pc' - 1][1] = "call"
        BY <2>1, <2>5 DEF Called
    <2> QED
        BY <1>3, <2>6 DEF CmpZero
<1> QED
    BY <1>1, <1>6, <1>7, <1>9, <1>10, <1>11
       DEF Run, Stopped, PushStep, PopStep, MovStep, LeaStep, SubStep, LoadStep, StoreStep,
           LoadSymbolStep, StoreSymbolStep, PushSymbolStep, NegStep, AluStep, CqoStep, IdivStep,
           CmpStep, SetStep, MovzbStep, PassStep, Fault, Step

(* A branch of a disciplined program goes to its label exactly when the    *)
(* value that was tested is zero: nothing that runs between the comparison *)
(* and the je touches the flags or rax.                                    *)
THEOREM BranchesFollowTests == Runs /\ []Disciplined => []BranchesOnCondition
<1> DEFINE Inv == status = "running" => TestsStand /\ BranchesOnCondition
<1>1. Started /\ Disciplined => Inv
    <2> SUFFICES ASSUME Started, Disciplined, status = "running"
                 PROVE  TestsStand /\ BranchesOnCondition
        OBVIOUS
    <2>1. pc = Target(Entry("main")) /\ Len(calls) = 1
        BY DEF Started, Boot
    <2>2. TestsStand /\ \E shape : WellStacked(shape)
        BY <2>1 DEF AtStart, Disciplined
    <2>3. code[pc] = Label(Entry("main"))
        BY <2>1, <2>2 DEF WellStacked, LeadsTo
    <2> QED
        BY <2>2, <2>3 DEF BranchesOnCondition, Executes, Op, Label
<1>2. Inv /\ StandsWhileRunning /\ [Run \/ Stopped]_vars => Inv'
    <2> SUFFICES ASSUME Inv, StandsWhileRunning, [Run \/ Stopped]_vars, status' = "running"
                 PROVE  TestsStand' /\ BranchesOnCondition'
        OBVIOUS
    <2>1. status = "running" /\ code' = code
        BY Frozen DEF vars, loaded
    <2>2. TestsStand'
        BY <2>1 DEF TestsStand
    <2> QED
        BY <2>1, <2>2, TestStep DEF StandsWhileRunning
<1>3. Inv => BranchesOnCondition
    BY DEF BranchesOnCondition, Executes
<1> QED
    BY <1>1, <1>2, <1>3, StandsAlways, PTL DEF Runs

-----------------------------------------------------------------------------
(* The rooms of the active frames lie above what is pushed.                *)
RoomOf(c) == Addresses(c.rsp - WordBytes - c.room, c.room)
PushesSpareRooms ==
    Executes(Pushes \cup {"call"}) =>
        \A k \in DOMAIN calls :
            Addresses(regs.rsp - WordBytes, WordBytes) \cap RoomOf(calls[k]) = {}

(* Where something is pushed, rsp is at or below the word at which the     *)
(* call that runs began, and below its room.                               *)
LEMMA PushesBelow ==
    ASSUME NEW shape, WellStacked(shape), Live(shape), status = "running",
           Op \in Pushes \cup {"call"}
    PROVE  /\ regs.rsp \in Int /\ regs.rsp <= Current.rsp /\ regs.rsp <= StartRsp
           /\ Current.room = 0 \/ regs.rsp <= Current.rsp - WordBytes - Current.room
<1>1. /\ Allowed(code[pc], shape[pc]) /\ shape[pc].phase \in Phases \ {"dead"}
      /\ Framed(regs, Current, shape[pc]) /\ shape[pc].height \in Nat
      /\ Current.rsp \in Nat /\ Current.room \in Nat /\ Current.rsp <= StartRsp
    BY Here
<1>2. StartRsp \in Int
    BY ProcessorAssumption DEF StartRsp, Top, Bottom, WordBytes
<1>3. shape[pc].phase \in {"body", "entry"}
    BY <1>1 DEF Allowed, Phases, Pushes, Push, Pop, Ret, Mov, Op
<1>4. CASE shape[pc].phase = "body"
    <2>1. regs.rsp = Current.rsp - WordBytes - Current.room - WordBytes * shape[pc].height
        BY <1>4, BodyFrame
    <2>2. regs.rsp \in Int /\ regs.rsp <= Current.rsp - WordBytes - Current.room
        BY <1>1, <2>1 DEF WordBytes
    <2> QED
        BY <1>1, <1>2, <2>2 DEF WordBytes
<1>5. CASE shape[pc].phase = "entry"
    BY <1>1, <1>2, <1>5 DEF Framed
<1> QED
    BY <1>3, <1>4, <1>5

(* No push and no call of a disciplined program writes into the room that  *)
(* an active call has made for its variables with sub rsp.                 *)
THEOREM RoomsSpared == Runs /\ []Disciplined => []PushesSpareRooms
<1>1. StandsWhileRunning => PushesSpareRooms
    <2> SUFFICES ASSUME StandsWhileRunning, Executes(Pushes \cup {"call"}), NEW k \in DOMAIN calls
                 PROVE  Addresses(regs.rsp - WordBytes, WordBytes) \cap RoomOf(calls[k]) = {}
        BY DEF PushesSpareRooms
    <2>1. PICK shape : WellStacked(shape) /\ Live(shape)
        BY DEF StandsWhileRunning, Standing, Executes
    <2>2. status = "running" /\ Op \in Pushes \cup {"call"}
        BY DEF Executes
    <2>3. /\ Allowed(code[pc], shape[pc]) /\ shape[pc].phase \in Phases \ {"dead"}
          /\ Framed(regs, Current, shape[pc]) /\ shape[pc].height \in Nat
          /\ Current.rsp \in Nat /\ Current.room \in Nat /\ Len(calls) \in Nat
          /\ calls \in Seq(CallRecords) /\ DOMAIN calls = 1 .. Len(calls)
        BY <2>1, <2>2, Here
    <2>5. /\ regs.rsp \in Int /\ regs.rsp <= Current.rsp
          /\ Current.room = 0 \/ regs.rsp <= Current.rsp - WordBytes - Current.room
        BY <2>1, <2>2, PushesBelow
    <2>6. /\ calls[k].rsp \in Nat /\ calls[k].room \in Nat
          /\ calls[k].room = 0 \/ regs.rsp <= calls[k].rsp - WordBytes - calls[k].room
        <3>1. calls[k].rsp \in Nat /\ calls[k].room \in Nat
            BY <2>3, ACall
        <3>2. CASE k = Len(calls)
            BY <2>5, <3>1, <3>2 DEF Current
        <3>3. CASE k < Len(calls)
            <4>1. Current.rsp + WordBytes <= calls[k].rsp - WordBytes - calls[k].room
                BY <2>1, <2>2, <2>3, <3>3, Here, RoomAboveRsp DEF Current
            <4> QED
                BY <2>3, <2>5, <3>1, <4>1 DEF WordBytes
        <3> QED
            BY <2>3, <3>2, <3>3
    <2> QED
        BY <2>5, <2>6 DEF RoomOf, Addresses, WordBytes
<1> QED
    BY <1>1, StandsAlways, PTL

-----------------------------------------------------------------------------
(* No push and no call of a disciplined program writes over a variable of  *)
(* an active call: the prologue of each has made enough room, and all that *)
(* is pushed later lies below it.                                          *)
THEOREM LocalsSpared == Runs /\ []Disciplined => []PushesSpareLocals
<1>1. RoomyWhileRunning /\ PushesSpareRooms => PushesSpareLocals
    <2> SUFFICES ASSUME RoomyWhileRunning, PushesSpareRooms, Executes(Pushes \cup {"call"}),
                        NEW k \in DOMAIN calls
                 PROVE  Addresses(regs.rsp - WordBytes, WordBytes) \cap LocalBytes(calls[k]) = {}
        BY DEF PushesSpareLocals
    <2>1. status = "running" /\ FramesGiven /\ Op \in Pushes \cup {"call"}
        BY DEF RoomyWhileRunning, Executes
    <2>2. PICK shape : WellStacked(shape) /\ Live(shape) /\ RoomsMade(shape)
        BY <2>1 DEF RoomyWhileRunning, Roomy
    <2>3. HasRoom(k, shape) /\ calls[k].rsp \in Nat /\ calls[k].room \in Nat
        BY <2>1, <2>2, Here, ACall DEF RoomsMade
    <2>4. CASE prog.frames[calls[k].name] \in 0 .. calls[k].room
        <3>1. LocalBytes(calls[k]) \subseteq RoomOf(calls[k])
            BY <2>3, <2>4 DEF LocalBytes, RoomOf, Base, Addresses, WordBytes
        <3> QED
            BY <3>1 DEF PushesSpareRooms
    <2>5. CASE k = Len(calls) /\ InPrologue(calls[k])
        <3> DEFINE b == Target(Entry(calls[k].name))
        <3>1. /\ b \in Nat /\ b + 3 \in DOMAIN code
              /\ code[b] = Label(Entry(calls[k].name)) /\ code[b + 1] = Push("rbp")
              /\ code[b + 2] = Mov("rbp", "rsp") /\ code[b + 3][1] = "sub_imm"
              /\ prog.frames[calls[k].name] \in Nat
            BY <2>1, <2>2, <2>3, PrologueOf DEF HasRoom
        <3>2. pc = b + 1
            BY <2>1, <2>5, <3>1 DEF InPrologue, Op, Label, Mov, Pushes
        <3>3. shape[b] = Shape("called", 0) /\ b \in DOMAIN code
            BY <2>3 DEF HasRoom, LeadsTo
        <3>4. shape[pc] = Shape("entry", 0)
            <4>1. shape[b].phase = "called" /\ code[b][1] = "label"
                BY <3>1, <3>3 DEF Label, Shape
            <4>2. ShapesAgree(shape, b)
                BY <2>2, <3>3, <4>1 DEF WellStacked
            <4>3. shape[b + 1] = After(code[b], shape[b])
                BY <4>1, <4>2 DEF ShapesAgree
            <4> QED
                BY <3>2, <4>1, <4>3 DEF After
        <3>5. regs.rsp = calls[k].rsp
            BY <2>1, <2>2, <2>5, <3>4, Here DEF Framed, Shape, Current
        <3> QED
            BY <2>3, <3>1, <3>5 DEF LocalBytes, Base, Addresses, WordBytes
    <2> QED
        BY <2>3, <2>4, <2>5 DEF HasRoom
<1> QED
    BY <1>1, RoomyAlways, RoomsSpared, PTL

(* So no step but a store changes a byte of a variable, local or global:   *)
(* calls, returns, pushes, pops, frames and paddings leave them all alone. *)
VariableBytes == GlobalBytes \cup UNION {LocalBytes(calls[k]) : k \in DOMAIN calls}
VariablesKept == \A b \in VariableBytes \cap DOMAIN mem : mem'[b] = mem[b]

THEOREM OnlyStoresChangeVariables ==
    Runs /\ []Disciplined => [][StoreStep \/ StoreSymbolStep \/ VariablesKept]_vars
<1>1. /\ StandsWhileRunning /\ PushesSpareLocals /\ [Run \/ Stopped]_vars
      => [StoreStep \/ StoreSymbolStep \/ VariablesKept]_vars
    <2> SUFFICES ASSUME StandsWhileRunning, PushesSpareLocals, Run, ~StoreStep, ~StoreSymbolStep
                 PROVE  VariablesKept
        BY DEF VariablesKept, Stopped, vars
    <2>1. CASE mem' = mem
        BY <2>1 DEF VariablesKept
    <2>2. CASE PushStep \/ PushSymbolStep \/ CallStep
        <3>1. /\ status = "running" /\ InCode /\ Op \in Pushes \cup {"call"}
              /\ \E v : mem' = WriteTo(mem, regs.rsp - WordBytes, WordBytes, v)
            BY <2>2
               DEF PushStep, PushSymbolStep, CallStep, Step, Does, Executes, Pushes
        <3> DEFINE pushed == Addresses(regs.rsp - WordBytes, WordBytes)
        <3>2. \A b \in DOMAIN mem \ pushed : mem'[b] = mem[b]
            BY <3>1 DEF WriteTo
        <3>3. PICK shape : WellStacked(shape) /\ Live(shape)
            BY <3>1 DEF StandsWhileRunning, Standing
        <3>4. pushed \cap GlobalBytes = {}
            <4>1. regs.rsp \in Int /\ regs.rsp <= StartRsp
                BY <3>1, <3>3, PushesBelow
            <4>2. Top \in Nat /\ StartRsp = Top - WordBytes
                BY ProcessorAssumption DEF StartRsp, Top, Bottom
            <4> QED
                BY <4>1, <4>2 DEF GlobalBytes, Addresses, WordBytes
        <3>5. \A k \in DOMAIN calls : pushed \cap LocalBytes(calls[k]) = {}
            BY <3>1 DEF PushesSpareLocals, Executes
        <3> QED
            BY <3>2, <3>4, <3>5 DEF VariablesKept, VariableBytes
    <2> QED
        BY <2>1, <2>2
           DEF Run, PopStep, MovStep, LeaStep, SubStep, LoadStep, LoadSymbolStep, NegStep, AluStep,
               CqoStep, IdivStep, CmpStep, SetStep, MovzbStep, PassStep, JumpStep, RetStep, Fault
<1> QED
    BY <1>1, StandsAlways, LocalsSpared, PTL DEF Runs

-----------------------------------------------------------------------------
(* The function that runs is the one that was called.                      *)
LEMMA FunctionAtEntry ==
    ASSUME NEW shape, WellStacked(shape), NEW f, NEW s, LeadsTo(shape, Entry(f), s)
    PROVE  FunctionAt(Target(Entry(f))) = f
<1> DEFINE k == Target(Entry(f))
           LastEntry(b) == IsEntry(b) /\ \A j \in b + 1 .. k : ~IsEntry(j)
<1>1. k \in DOMAIN code /\ code[k] = Label(Entry(f)) /\ k \in Nat /\ k \in 1 .. k
    BY DEF LeadsTo, WellStacked
<1>2. code[k][1] = "label" /\ code[k][2] = <<f, <<>>>> /\ code[k][2][2] = <<>> /\ code[k][2][1] = f
    BY <1>1 DEF Label, Entry
<1>3. IsEntry(k)
    BY <1>1, <1>2 DEF IsEntry
<1> HIDE DEF k
<1>4. LastEntry(k)
    BY <1>1, <1>3
<1>5. \A b \in 1 .. k : LastEntry(b) => b = k
    BY <1>1, <1>3
<1>6. (CHOOSE b \in 1 .. k : LastEntry(b)) = k
    BY <1>1, <1>4, <1>5
<1> QED
    BY <1>2, <1>6 DEF FunctionAt, k

InFunctions ==
    /\ FunctionAt(pc) = Current.name
    /\ \A k \in 1 .. Len(calls) - 1 : FunctionAt(calls[k + 1].ret) = calls[k].name

LEMMA InFunctionsStep ==
    ASSUME NEW shape, WellStacked(shape), Live(shape), StaysInside(shape), InFunctions,
           [Run \/ Stopped]_vars, status' = "running"
    PROVE  InFunctions'
<1>1. status = "running" /\ code' = code
    BY Frozen DEF vars, loaded
<1>2. \A k : FunctionAt(k)' = FunctionAt(k)
    BY <1>1 DEF FunctionAt, IsEntry
<1>3. /\ Len(calls) \in DOMAIN calls /\ DOMAIN calls = 1 .. Len(calls) /\ calls \in Seq(CallRecords)
      /\ Len(calls) \in Nat \ {0} /\ pc \in DOMAIN code /\ shape[pc].phase # "dead" /\ ShapesAgree(shape, pc)
    BY <1>1, Here
<1>4. Len(calls) \in Nat /\ 1 <= Len(calls)
    BY <1>3
<1>5. /\ Op \notin {"jmp", "ret"} => FunctionAt(pc + 1) = FunctionAt(pc)
      /\ Op \in {"jmp", "je"} => FunctionAt(Target(code[pc][2])) = FunctionAt(pc)
    BY <1>3 DEF StaysInside, Op
<1>6. CASE UNCHANGED <<pc, calls>>
    BY <1>2, <1>6 DEF InFunctions, Current
<1>7. CASE Op \notin {"jmp", "ret"} /\ pc' = pc + 1 /\ UNCHANGED calls
    BY <1>2, <1>5, <1>7 DEF InFunctions, Current
<1>8. CASE SubStep
    <2>1. Op = "sub_imm" /\ pc' = pc + 1
        BY <1>8 DEF SubStep, Step, Does, Executes
    <2>2. CASE code[pc][2] = "rsp"
        <3>1. /\ Len(calls') = Len(calls)
              /\ \A k \in DOMAIN calls : calls'[k].name = calls[k].name /\ calls'[k].ret = calls[k].ret
            BY <1>3, <1>8, <2>2, RoomGrows
        <3> QED
            BY <1>2, <1>3, <1>5, <2>1, <3>1 DEF InFunctions, Current
    <2>3. CASE code[pc][2] # "rsp"
        BY <1>7, <1>8, <2>1, <2>3 DEF SubStep
    <2> QED
        BY <2>2, <2>3
<1>9. CASE JumpStep
    <2>1. /\ Op \in {"jmp", "je"} /\ UNCHANGED calls
          /\ pc' = Target(code[pc][2]) \/ (Op = "je" /\ pc' = pc + 1)
        BY <1>9 DEF JumpStep, Does, Executes
    <2> QED
        BY <1>2, <1>5, <2>1 DEF InFunctions, Current
<1>10. CASE CallStep
    <2>1. Op = "call" /\ pc' = Target(Entry(code[pc][2]))
        BY <1>10 DEF CallStep, Does, Executes
    <2>2. PICK new : calls' = Append(calls, new) /\ new.name = code[pc][2] /\ new.ret = pc + 1
        BY <1>10 DEF CallStep
    <2>3. FunctionAt(pc') = code[pc][2]
        BY <1>3, <2>1, FunctionAtEntry DEF ShapesAgree, Op
    <2>4. /\ Len(calls') = Len(calls) + 1 /\ calls'[Len(calls) + 1] = new
          /\ \A k \in DOMAIN calls : calls'[k] = calls[k]
        BY <1>3, <2>2
    <2>5. Current' = new
        BY <2>4 DEF Current
    <2>6. \A k \in 1 .. Len(calls) - 1 : FunctionAt(calls'[k + 1].ret) = calls'[k].name
        BY <1>3, <2>4 DEF InFunctions
    <2>7. FunctionAt(calls'[Len(calls) + 1].ret) = calls'[Len(calls)].name
        BY <1>3, <1>5, <2>1, <2>2, <2>4 DEF InFunctions, Current
    <2>8. \A k \in 1 .. Len(calls) : k = Len(calls) \/ k \in 1 .. Len(calls) - 1
        BY <1>4
    <2>9. \A k \in 1 .. Len(calls') - 1 : FunctionAt(calls'[k + 1].ret) = calls'[k].name
        <3>1. Len(calls') - 1 = Len(calls)
            BY <1>4, <2>4
        <3> QED
            BY <2>6, <2>7, <2>8, <3>1
    <2> QED
        BY <1>2, <2>2, <2>3, <2>5, <2>9 DEF InFunctions
<1>11. CASE RetStep
    <2>1. pc' = Current.ret /\ (pc' = 0 => status' = "halted")
        BY <1>1, <1>11, Returning DEF RetStep, Does, Executes
    <2>2. Len(calls) > 1
        <3>1. Chained(calls, shape)
            BY <1>1 DEF Live
        <3>2. Len(calls) # 1
            BY <2>1, <3>1 DEF Chained, Current
        <3> QED
            BY <1>4, <3>2
    <2>3. calls' = [k \in 1 .. Len(calls) - 1 |-> calls[k]]
        BY <1>11, <2>2 DEF RetStep, Front
    <2>4. Len(calls') = Len(calls) - 1
        BY <1>3, <2>2, <2>3
    <2>5. Len(calls) - 1 \in 1 .. Len(calls) - 1 /\ (Len(calls) - 1) + 1 = Len(calls)
        BY <1>3, <2>2
    <2>6. Current' = calls[Len(calls) - 1]
        BY <2>3, <2>4, <2>5 DEF Current
    <2>7. FunctionAt(pc') = Current'.name
        <3>1. FunctionAt(calls[(Len(calls) - 1) + 1].ret) = calls[Len(calls) - 1].name
            BY <2>5 DEF InFunctions
        <3> QED
            BY <2>1, <2>5, <2>6, <3>1 DEF Current
    <2> QED
        BY <1>2, <1>3, <2>2, <2>3, <2>4, <2>7 DEF InFunctions
<1> QED
    BY <1>6, <1>7, <1>8, <1>9, <1>10, <1>11
       DEF Run, Stopped, vars, PushStep, PopStep, MovStep, LeaStep, LoadStep, StoreStep,
           LoadSymbolStep, StoreSymbolStep, PushSymbolStep, NegStep, AluStep, CqoStep, IdivStep,
           CmpStep, SetStep, MovzbStep, PassStep, Fault, Step, Does, Executes

(* Between two statements.                                                 *)
Bare(shape) == WellStacked(shape) /\ StaysInside(shape) /\ StatementsBare(shape) /\ Live(shape)
BareStanding == InFunctions /\ \E shape : Bare(shape)
BareWhileRunning == status = "running" => BareStanding

LEMMA BareAlways == Runs /\ []Disciplined => []BareWhileRunning
<1>1. Started /\ Disciplined => BareWhileRunning
    <2> SUFFICES ASSUME Started, Disciplined, status = "running"
                 PROVE  BareStanding
        BY DEF BareWhileRunning
    <2>1. Boot(code, data)
        BY DEF Started
    <2>2. /\ pc = Target(Entry("main")) /\ Len(calls) = 1 /\ calls[1].name = "main"
          /\ Current = calls[1]
        BY <2>1 DEF Boot, Current
    <2>3. PICK shape : WellStacked(shape) /\ StaysInside(shape) /\ StatementsBare(shape)
        BY <2>2 DEF Disciplined, AtStart
    <2>4. LeadsTo(shape, Entry("main"), Shape("called", 0))
        BY <2>3 DEF WellStacked
    <2>5. InFunctions
        BY <2>2, <2>3, <2>4, FunctionAtEntry DEF InFunctions
    <2> QED
        BY <2>1, <2>3, <2>5, LiveAtBoot DEF Bare, BareStanding
<1>2. BareWhileRunning /\ Disciplined /\ StoresSpareLinks /\ [Run \/ Stopped]_vars => BareWhileRunning'
    <2> SUFFICES ASSUME BareWhileRunning, Disciplined, StoresSpareLinks, [Run \/ Stopped]_vars,
                        status' = "running"
                 PROVE  BareStanding'
        BY DEF BareWhileRunning
    <2>1. status = "running" /\ code' = code /\ prog' = prog
        BY Frozen DEF vars, loaded
    <2>2. PICK shape : Bare(shape)
        BY <2>1 DEF BareWhileRunning, BareStanding
    <2>3. WellStacked(shape)' /\ Live(shape)'
        BY <2>2, LiveStep DEF Bare, Disciplined, Careful
    <2>4. InFunctions'
        BY <2>1, <2>2, InFunctionsStep DEF Bare, BareWhileRunning, BareStanding
    <2>5. (\A k : FunctionAt(k)' = FunctionAt(k)) /\ \A l : Target(l)' = Target(l)
        BY <2>1 DEF FunctionAt, IsEntry, Target
    <2>6. StaysInside(shape)' /\ StatementsBare(shape)'
        BY <2>1, <2>2, <2>5 DEF Bare, StaysInside, StatementsBare
    <2> QED
        BY <2>3, <2>4, <2>6 DEF Bare, BareStanding
<1> QED
    BY <1>1, <1>2, LinksStaySpared, PTL DEF Runs

(* A disciplined program executes a function only on behalf of the call    *)
(* that is active: it never runs from one function into the next, and      *)
(* comes back into a function at the place where that made its call.       *)
RunsWhatWasCalled == status = "running" => FunctionAt(pc) = Current.name
THEOREM ControlInFunction == Runs /\ []Disciplined => []RunsWhatWasCalled
<1>1. BareWhileRunning => RunsWhatWasCalled
    BY DEF BareWhileRunning, BareStanding, InFunctions, RunsWhatWasCalled
<1> QED
    BY <1>1, BareAlways, PTL

LEMMA BareFrame ==
    ASSUME BareStanding, BetweenStatements, Current.name \notin prog.arrays
    PROVE  /\ regs.rbp - regs.rsp = Current.room
           /\ regs.rsp = Current.rsp - WordBytes - Current.room
           /\ Current.rsp \in Nat /\ Current.room \in Nat
<1>1. PICK shape : WellStacked(shape) /\ StatementsBare(shape) /\ Live(shape)
    BY DEF BareStanding, Bare
<1>2. /\ status = "running" /\ Op \in {"label", "nop", "mov"}
      /\ Op = "mov" => code[pc] = Mov("rsp", "rbp")
      /\ Op = "label" => code[pc][2] # Entry(Current.name)
    BY DEF BetweenStatements, Executes
<1>3. /\ Allowed(code[pc], shape[pc]) /\ shape[pc].phase \in Phases \ {"dead"}
      /\ pc \in DOMAIN code /\ Current.rsp \in Nat /\ Current.room \in Nat
    BY <1>1, <1>2, Here
<1>4. shape[pc].phase # "called"
    <2>1. shape[pc].phase = "called" => code[pc] = Label(Entry(Current.name))
        BY <1>1, <1>2 DEF Live
    <2>2. shape[pc].phase = "called" => Op = "label"
        BY <1>3 DEF Allowed, Op
    <2> QED
        BY <1>2, <2>1, <2>2 DEF Label
<1>5. shape[pc].phase = "body"
    BY <1>2, <1>3, <1>4 DEF Allowed, Phases, Push, Pop, Ret, Mov, Op
<1>6. shape[pc].height = 0
    <2>1. FunctionAt(pc) \notin prog.arrays
        BY DEF BareStanding, InFunctions
    <2> QED
        BY <1>1, <1>2, <1>3, <1>5, <2>1 DEF StatementsBare, EndsStatement, Op
<1>7. /\ regs.rbp = Current.rsp - WordBytes
      /\ regs.rsp = Current.rsp - WordBytes - Current.room - WordBytes * shape[pc].height
    BY <1>1, <1>2, <1>5, BodyFrame
<1> QED
    BY <1>3, <1>6, <1>7 DEF WordBytes

(* Between two statements of a disciplined program nothing but its frame   *)
(* and its padding is on the stack, on every path that leads there, but in *)
(* functions that declare an array for holycc: that each statement pops    *)
(* what it pushed, counted along the text, holds of every run.             *)
THEOREM StatementsLeaveNothing == Runs /\ []Disciplined => []NothingLeftButArrays
<1>1. BareWhileRunning => NothingLeftButArrays
    <2> SUFFICES ASSUME BareWhileRunning, BetweenStatements, Current.name \notin prog.arrays
                 PROVE  regs.rbp - regs.rsp = Current.room
        BY DEF NothingLeftButArrays, NothingLeft
    <2>1. status = "running" /\ BareStanding
        BY DEF BareWhileRunning, BetweenStatements, Executes
    <2> QED
        BY <2>1, BareFrame
<1> QED
    BY <1>1, BareAlways, PTL

(* Tidiness lasts: it speaks of the text alone.                            *)
TidyText == status = "running" => prog.arrays = {} /\ FramesAligned
LEMMA TidyAlways == Runs /\ []Tidy => []TidyText
<1>1. Started /\ Tidy => TidyText
    BY DEF Started, Boot, Tidy, AtStart, TidyText
<1>2. TidyText /\ [Run \/ Stopped]_vars => TidyText'
    BY Frozen DEF vars, loaded, TidyText, FramesAligned
<1> QED
    BY <1>1, <1>2, PTL DEF Runs

(* In a tidy program that holds of all functions: what chibicc-learn       *)
(* asserts of depth for the text from its first line to its last holds of  *)
(* every run, loops and branches included.                                 *)
THEOREM NothingLeftAtAll == Runs /\ []Tidy => []NothingLeft
<1>1. NothingLeftButArrays /\ TidyText => NothingLeft
    BY DEF NothingLeftButArrays, TidyText, NothingLeft, BetweenStatements, Executes
<1>2. Tidy => Disciplined
    BY DEF Tidy
<1> QED
    BY <1>1, <1>2, StatementsLeaveNothing, TidyAlways, PTL

(* The rooms are multiples of 16, as the frames and the paddings are that  *)
(* they are made of.                                                       *)
RoomsAligned == status = "running" => \A k \in DOMAIN calls : calls[k].room % 16 = 0

LEMMA RoomsAlignedStep ==
    ASSUME BareStanding, FramesAligned, RoomsAligned, [Run \/ Stopped]_vars
    PROVE  RoomsAligned'
<1> SUFFICES ASSUME status' = "running", NEW k \in DOMAIN calls'
             PROVE  calls'[k].room % 16 = 0
    BY DEF RoomsAligned
<1>1. status = "running"
    BY Frozen DEF vars
<1>2. PICK shape : WellStacked(shape) /\ Live(shape)
    BY DEF BareStanding, Bare
<1>3. /\ Len(calls) \in Nat \ {0} /\ DOMAIN calls = 1 .. Len(calls) /\ calls \in Seq(CallRecords)
      /\ pc \in DOMAIN code /\ Current.room \in Nat /\ Current \in CallRecords
      /\ Allowed(code[pc], shape[pc]) /\ shape[pc].phase \in Phases \ {"dead"}
    BY <1>1, <1>2, Here, ACall DEF Current
<1>4. CASE calls' = calls
    BY <1>1, <1>4 DEF RoomsAligned
<1>5. CASE SubStep /\ code[pc][2] = "rsp"
    <2> DEFINE v == code[pc][3]
    <2>1. Op = "sub_imm" /\ calls' = [calls EXCEPT ![Len(calls)].room = @ + v]
        BY <1>5 DEF SubStep, Step, Does, Executes
    <2>2. v \in Nat /\ v % 16 = 0
        BY <1>3, <1>5, <2>1
           DEF Allowed, AllowedInBody, Plain, Pushes, Phases, Push, Pop, Ret, Mov, Op, StackRegisters,
               FramesAligned
    <2> HIDE DEF v
    <2>3. Current.room % 16 = 0
        BY <1>1, <1>3 DEF RoomsAligned, Current
    <2>4. (Current.room + v) % 16 = 0
        BY <1>3, <2>2, <2>3
    <2>5. calls' = [calls EXCEPT ![Len(calls)] = [Current EXCEPT !.room = Current.room + v]]
        BY <2>1 DEF Current
    <2>6. [Current EXCEPT !.room = Current.room + v].room = Current.room + v
        BY <1>3 DEF CallRecords
    <2> QED
        BY <1>1, <1>3, <2>4, <2>5, <2>6 DEF RoomsAligned
<1>6. CASE CallStep
    <2>1. PICK new : calls' = Append(calls, new) /\ new.room = 0
        BY <1>6 DEF CallStep
    <2>2. (k \in 1 .. Len(calls) /\ calls'[k] = calls[k]) \/ calls'[k] = new
        BY <1>3, <2>1
    <2> QED
        BY <1>1, <1>3, <2>1, <2>2 DEF RoomsAligned
<1>7. CASE RetStep /\ calls' = Front(calls)
    <2>1. k \in DOMAIN calls /\ calls'[k] = calls[k]
        BY <1>3, <1>7 DEF Front
    <2> QED
        BY <1>1, <2>1 DEF RoomsAligned
<1> QED
    BY <1>4, <1>5, <1>6, <1>7
       DEF Run, Stopped, vars, PushStep, PopStep, MovStep, LeaStep, SubStep, LoadStep, StoreStep,
           LoadSymbolStep, StoreSymbolStep, PushSymbolStep, NegStep, AluStep, CqoStep, IdivStep,
           CmpStep, SetStep, MovzbStep, PassStep, JumpStep, RetStep, Fault, Step

(* Where the stack of a tidy program was a multiple of 16 at a call, it is *)
(* one between all statements of the function: align_to is enough.         *)
THEOREM StackStaysAligned == Runs /\ []Tidy => []StackAligned
<1>1. Started => RoomsAligned
    BY DEF Started, Boot, RoomsAligned
<1>2. RoomsAligned /\ TidyText /\ BareWhileRunning /\ [Run \/ Stopped]_vars => RoomsAligned'
    <2> SUFFICES ASSUME RoomsAligned, TidyText, BareWhileRunning, [Run \/ Stopped]_vars, status' = "running"
                 PROVE  RoomsAligned'
        BY DEF RoomsAligned
    <2>1. status = "running"
        BY Frozen DEF vars
    <2> QED
        BY <2>1, RoomsAlignedStep DEF BareWhileRunning, TidyText
<1>3. RoomsAligned /\ TidyText /\ BareWhileRunning => StackAligned
    <2> SUFFICES ASSUME RoomsAligned, TidyText, BareWhileRunning, BetweenStatements,
                        Current.rsp % 16 = WordBytes
                 PROVE  regs.rsp % 16 = 0
        BY DEF StackAligned
    <2>1. status = "running" /\ BareStanding /\ prog.arrays = {}
        BY DEF BareWhileRunning, BetweenStatements, Executes, TidyText
    <2>2. regs.rsp = Current.rsp - WordBytes - Current.room /\ Current.rsp \in Nat /\ Current.room \in Nat
        BY <2>1, BareFrame
    <2>3. Current.room % 16 = 0
        <3>1. PICK shape : WellStacked(shape) /\ Live(shape)
            BY <2>1 DEF BareStanding, Bare
        <3> QED
            BY <2>1, <3>1, Here DEF RoomsAligned, Current
    <2> QED
        BY <2>2, <2>3 DEF WordBytes
<1>4. Tidy => Disciplined
    BY DEF Tidy
<1> QED
    BY <1>1, <1>2, <1>3, <1>4, BareAlways, TidyAlways, PTL DEF Runs

-----------------------------------------------------------------------------
(* The registers, the memory and the flags have their types.               *)
LEMMA WidthsOf ==
    /\ \A k \in 0 .. WordBytes : Place[k + 1] \in Nat \ {0}
    /\ \A w \in Widths : Place[w + 1] \in Nat \ {0} /\ Byte <= Place[w + 1] /\ Place[w + 1] <= Word
    /\ \A w, r \in Widths : w <= r => Place[w + 1] <= Place[r + 1]
<1>1. \A x, y \in Nat \ {0} : x * y \in Nat \ {0} /\ x <= x * y
    <2> SUFFICES ASSUME NEW x \in Nat \ {0}, NEW y \in Nat \ {0}
                 PROVE  x * y \in Nat \ {0} /\ x <= x * y
        OBVIOUS
    <2>1. PICK z \in Nat : y = z + 1
        BY y - 1 \in Nat
    <2>2. x * y = x * z + x /\ x * z \in Nat
        BY <2>1
    <2> QED
        BY <2>2
<1>2. /\ Place[1] = 1 /\ Place[2] = Byte /\ Byte \in Nat \ {0} /\ Place[3] \in Nat \ {0}
      /\ Place[5] \in Nat \ {0} /\ Place[9] = Word /\ Word \in Nat \ {0}
    BY Places DEF Word, WordBytes
<1>3. Place[4] \in Nat \ {0} /\ Place[6] \in Nat \ {0} /\ Place[7] \in Nat \ {0}
    BY <1>1, <1>2, Places
<1>4. Place[8] \in Nat \ {0}
    BY <1>1, <1>2, <1>3, Places
<1>5. \A k \in 0 .. WordBytes : Place[k + 1] \in Nat \ {0}
    <2> TAKE k \in 0 .. WordBytes
    <2>1. k + 1 \in {1, 2, 3, 4, 5, 6, 7, 8, 9}
        BY DEF WordBytes
    <2> QED
        BY <1>2, <1>3, <1>4, <2>1
<1>6. Byte <= Place[3] /\ Place[3] <= Place[5] /\ Place[5] <= Word
    <2>1. Place[3] = Byte * Byte /\ Place[5] = Place[3] * Place[3] /\ Word = Place[5] * Place[5]
        BY Places
    <2> QED
        BY <1>1, <1>2, <2>1
<1>7. Byte <= Place[5] /\ Byte <= Word
    BY <1>2, <1>6
<1>8. \A w \in Widths : w + 1 \in {2, 5, 9} /\ (w = 1 \/ w = 4 \/ w = 8)
    BY DEF Widths
<1> QED
    BY <1>2, <1>5, <1>6, <1>7, <1>8 DEF Widths

LEMMA Wrapped ==
    ASSUME NEW x \in Int
    PROVE  Wrap(x) \in 0 .. Word - 1
BY Places DEF Wrap

LEMMA SignedInt ==
    ASSUME NEW v \in 0 .. Word - 1
    PROVE  Signed(v) \in Int
BY Places DEF Signed

(* Two digits in the base d.                                               *)
LEMMA Combined ==
    ASSUME NEW d \in Nat \ {0}, NEW e \in Nat \ {0}, NEW x \in 0 .. d - 1, NEW y \in 0 .. e - 1
    PROVE  x + d * y \in 0 .. (d * e) - 1
<1>1. d * y + d <= d * e
    BY MultiplesApart
<1>2. d * y \in Nat /\ d * e \in Nat
    OBVIOUS
<1> QED
    BY <1>1, <1>2

LEMMA ReadTyped ==
    ASSUME NEW m, NEW a \in Int, NEW w \in Widths, Addresses(a, w) \subseteq DOMAIN m,
           \A b \in DOMAIN m : m[b] \in 0 .. Byte - 1
    PROVE  ReadFrom(m, a, w) \in 0 .. Place[w + 1] - 1
<1>1. \A k \in Int : a <= k /\ k <= a + w - 1 => m[k] \in 0 .. Byte - 1
    BY DEF Addresses, Widths
<1>2. /\ Byte \in Nat \ {0} /\ Place[2] = Byte /\ Place[3] \in Nat \ {0} /\ Place[3] = Byte * Byte
      /\ Place[5] \in Nat \ {0} /\ Place[5] = Place[3] * Place[3]
      /\ Word = Place[5] * Place[5] /\ Place[9] = Word
    BY Places DEF Word, WordBytes
<1>3. \A k \in Int : a <= k /\ k + 1 <= a + w - 1 => ReadTwo(m, k) \in 0 .. Place[3] - 1
    <2> SUFFICES ASSUME NEW k \in Int, a <= k, k + 1 <= a + w - 1
                 PROVE  m[k] + Byte * m[k + 1] \in 0 .. (Byte * Byte) - 1
        BY <1>2 DEF ReadTwo
    <2>1. m[k] \in 0 .. Byte - 1 /\ m[k + 1] \in 0 .. Byte - 1
        BY <1>1 DEF Widths
    <2> QED
        BY <1>2, <2>1, Combined
<1>4. \A k \in Int : a <= k /\ k + 3 <= a + w - 1 => ReadFour(m, k) \in 0 .. Place[5] - 1
    <2> SUFFICES ASSUME NEW k \in Int, a <= k, k + 3 <= a + w - 1
                 PROVE  ReadTwo(m, k) + Place[3] * ReadTwo(m, k + 2) \in 0 .. (Place[3] * Place[3]) - 1
        BY <1>2 DEF ReadFour
    <2>1. ReadTwo(m, k) \in 0 .. Place[3] - 1 /\ ReadTwo(m, k + 2) \in 0 .. Place[3] - 1
        BY <1>3 DEF Widths
    <2> QED
        BY <1>2, <2>1, Combined
<1>5. CASE w = 1
    BY <1>1, <1>2, <1>5 DEF ReadFrom
<1>6. CASE w = 4
    BY <1>4, <1>6 DEF ReadFrom
<1>7. CASE w = 8
    <2>1. ReadFour(m, a) \in 0 .. Place[5] - 1 /\ ReadFour(m, a + 4) \in 0 .. Place[5] - 1
        BY <1>4, <1>7
    <2>2. ReadFour(m, a) + Place[5] * ReadFour(m, a + 4) \in 0 .. (Place[5] * Place[5]) - 1
        BY <1>2, <2>1, Combined
    <2> QED
        BY <1>2, <1>7, <2>2 DEF ReadFrom
<1> QED
    BY <1>5, <1>6, <1>7 DEF Widths

LEMMA WriteTyped ==
    ASSUME NEW m, NEW a \in Int, NEW w \in Widths, NEW v \in Nat,
           \A b \in DOMAIN m : m[b] \in 0 .. Byte - 1,
           NEW b \in DOMAIN m
    PROVE  WriteTo(m, a, w, v)[b] \in 0 .. Byte - 1
<1>1. CASE b \in Addresses(a, w)
    <2>1. b - a \in 0 .. WordBytes
        BY <1>1 DEF Addresses, Widths, WordBytes
    <2>2. Place[(b - a) + 1] \in Nat \ {0} /\ Byte \in Nat \ {0}
        BY <2>1, WidthsOf, Places
    <2>3. v \div Place[(b - a) + 1] \in Nat
        BY <2>2
    <2>4. ByteOf(v, b - a) \in 0 .. Byte - 1
        BY <2>2, <2>3 DEF ByteOf
    <2> QED
        BY <1>1, <2>4 DEF WriteTo
<1>2. CASE b \notin Addresses(a, w)
    BY <1>2 DEF WriteTo
<1> QED
    BY <1>1, <1>2

Typed ==
    /\ regs \in [RegisterNames -> 0 .. Word - 1] /\ MemoryTyped
    /\ flags \in [zf : BOOLEAN, lt : BOOLEAN]

(* What an instruction may rely on.                                        *)
LEMMA Instructed ==
    ASSUME NEW shape, WellStacked(shape), Live(shape), TextFormed, status = "running"
    PROVE  OperandsFormed(code[pc])
BY Here DEF TextFormed

LEMMA ComparedTyped ==
    ASSUME NEW x, NEW y
    PROVE  Compared(x, y) \in [zf : BOOLEAN, lt : BOOLEAN]
BY DEF Compared

(* A word that is pushed lies in memory.                                   *)
LEMMA RoomForWord ==
    ASSUME Addresses(regs.rsp - WordBytes, WordBytes) \subseteq DOMAIN mem,
           DOMAIN mem \subseteq Nat, regs.rsp \in 0 .. Word - 1
    PROVE  regs.rsp - WordBytes \in 0 .. Word - 1
<1>1. regs.rsp - WordBytes \in Addresses(regs.rsp - WordBytes, WordBytes)
    BY Places DEF Addresses, WordBytes
<1> QED
    BY <1>1, Places DEF WordBytes

LEMMA PushTyped ==
    ASSUME NEW shape, WellStacked(shape), Live(shape), TextFormed, Typed,
           PushStep \/ PushSymbolStep
    PROVE  Typed'
<1>1. /\ status = "running" /\ ~Faults /\ Op \in Pushes
      /\ regs' = [regs EXCEPT !.rsp = @ - WordBytes] /\ flags' = flags
    BY DEF PushStep, PushSymbolStep, Step, Does, Executes, Pushes
<1>2. OperandsFormed(code[pc]) /\ DOMAIN mem \subseteq Nat /\ regs.rsp \in 0 .. Word - 1
    BY <1>1, Instructed DEF Live, Typed, RegisterNames
<1>3. Addresses(regs.rsp - WordBytes, WordBytes) \subseteq DOMAIN mem
    BY <1>1 DEF Faults, Touched, Pushes
<1>4. regs.rsp - WordBytes \in 0 .. Word - 1 /\ regs.rsp - WordBytes \in Int
    BY <1>2, <1>3, RoomForWord, Places
<1>5. regs' \in [RegisterNames -> 0 .. Word - 1]
    BY <1>1, <1>4 DEF Typed
<1>6. PICK v \in Nat : mem' = WriteTo(mem, regs.rsp - WordBytes, WordBytes, v)
    <2>1. CASE PushStep /\ Op = "push"
        <3>1. mem' = WriteTo(mem, regs.rsp - WordBytes, WordBytes, regs[code[pc][2]])
            BY <2>1 DEF PushStep
        <3>2. regs[code[pc][2]] \in Nat
            BY <1>2, <2>1, Places DEF Typed, OperandsFormed, Op
        <3> QED
            BY <3>1, <3>2
    <2>2. CASE PushStep /\ Op # "push"
        <3>1. mem' = WriteTo(mem, regs.rsp - WordBytes, WordBytes, Wrap(code[pc][2]))
            BY <2>2 DEF PushStep
        <3>2. Op = "push_imm"
            BY <2>2 DEF PushStep, Step, Does, Executes
        <3>3. Wrap(code[pc][2]) \in 0 .. Word - 1
            BY <1>2, <3>2, Wrapped DEF OperandsFormed, Op
        <3> QED
            BY <3>1, <3>3, Places
    <2>3. CASE PushSymbolStep
        <3>1. mem' = WriteTo(mem, regs.rsp - WordBytes, WordBytes, ReadFrom(mem, Symbol, WordBytes))
            BY <2>3 DEF PushSymbolStep
        <3>2. Op = "push_symbol"
            BY <2>3 DEF PushSymbolStep, Step, Does, Executes
        <3>3. Addresses(Symbol, WordBytes) \subseteq DOMAIN mem
            BY <1>1, <3>2 DEF Faults, Touched, Symbol
        <3>4. ReadFrom(mem, Symbol, WordBytes) \in 0 .. Word - 1
            <4>1. WordBytes \in Widths /\ Place[WordBytes + 1] = Word
                BY DEF Widths, WordBytes, Word
            <4>2. Symbol \in Int
                BY <1>2, <3>2, Places DEF Symbol, OperandsFormed, Op
            <4> QED
                BY <3>3, <4>1, <4>2, ReadTyped DEF Typed, MemoryTyped
        <3> QED
            BY <3>1, <3>4, Places
    <2> QED
        BY <2>1, <2>2, <2>3
<1>7. MemoryTyped'
    <2>1. WordBytes \in Widths /\ \A b \in DOMAIN mem : mem[b] \in 0 .. Byte - 1
        BY DEF Widths, WordBytes, Typed, MemoryTyped
    <2>2. DOMAIN mem' = DOMAIN mem
        BY <1>6, WriteDomain
    <2> QED
        BY <1>4, <1>6, <2>1, <2>2, WriteTyped, Zenon DEF MemoryTyped
<1> QED
    BY <1>1, <1>5, <1>7 DEF Typed

(* Where a pop or a ret stands, rsp is a word below the top.               *)
LEMMA PopsBelowTop ==
    ASSUME NEW shape, WellStacked(shape), Live(shape), TextFormed, Typed, status = "running",
           Op \in {"pop", "ret"}
    PROVE  regs.rsp + WordBytes \in 0 .. Word - 1
<1>1. /\ Allowed(code[pc], shape[pc]) /\ shape[pc].phase \in Phases \ {"dead"}
      /\ shape[pc].height \in Nat /\ Framed(regs, Current, shape[pc])
      /\ Current.rsp \in Nat /\ Current.room \in Nat /\ Current.rsp <= StartRsp
    BY Here
<1>2. shape[pc].phase \in {"body", "leaving", "left"}
    BY <1>1 DEF Allowed, Phases, Push, Mov, Op
<1>3. regs.rsp <= Current.rsp
    <2>1. CASE shape[pc].phase = "body"
        <3>1. regs.rsp = Current.rsp - WordBytes - Current.room - WordBytes * shape[pc].height
            BY <2>1, BodyFrame
        <3> QED
            BY <1>1, <3>1 DEF WordBytes
    <2>2. CASE shape[pc].phase = "leaving"
        BY <1>1, <2>2 DEF Framed, WordBytes
    <2>3. CASE shape[pc].phase = "left"
        BY <1>1, <2>3 DEF Framed
    <2> QED
        BY <1>2, <2>1, <2>2, <2>3
<1>4. regs.rsp \in 0 .. Word - 1
    BY DEF Typed, RegisterNames
<1>5. StartRsp \in Int /\ StartRsp + WordBytes < Word /\ Word \in Nat
    BY ProcessorAssumption, Places DEF StartRsp, Top, Bottom, WordBytes
<1>6. regs.rsp <= StartRsp
    BY <1>1, <1>3, <1>4, <1>5
<1> QED
    BY <1>4, <1>5, <1>6 DEF WordBytes

LEMMA PopTyped ==
    ASSUME NEW shape, WellStacked(shape), Live(shape), TextFormed, Typed, PopStep
    PROVE  Typed'
<1>1. /\ status = "running" /\ ~Faults /\ Op = "pop" /\ mem' = mem /\ flags' = flags
      /\ regs' = [regs EXCEPT !.rsp = @ + WordBytes,
                              ![code[pc][2]] = ReadFrom(mem, regs.rsp, WordBytes)]
    BY DEF PopStep, Step, Does, Executes
<1>2. regs.rsp + WordBytes \in 0 .. Word - 1 /\ regs.rsp \in Int
    BY <1>1, PopsBelowTop DEF Typed, RegisterNames
<1>3. ReadFrom(mem, regs.rsp, WordBytes) \in 0 .. Word - 1
    <2>1. WordBytes \in Widths /\ Place[WordBytes + 1] = Word
        BY DEF Widths, WordBytes, Word
    <2>2. Addresses(regs.rsp, WordBytes) \subseteq DOMAIN mem
        BY <1>1 DEF Faults, Touched
    <2> QED
        BY <1>2, <2>1, <2>2, ReadTyped DEF Typed, MemoryTyped
<1> QED
    BY <1>1, <1>2, <1>3 DEF Typed, MemoryTyped

LEMMA StoreTyped ==
    ASSUME NEW shape, WellStacked(shape), Live(shape), TextFormed, Typed,
           StoreStep \/ StoreSymbolStep
    PROVE  Typed'
<1>1. /\ status = "running" /\ ~Faults /\ regs' = regs /\ flags' = flags
      /\ Op \in {"store", "store_symbol"}
    BY DEF StoreStep, StoreSymbolStep, Step, Does, Executes
<1>2. OperandsFormed(code[pc])
    BY <1>1, Instructed
<1>3. PICK a \in Int, w \in Widths, v \in Nat : mem' = WriteTo(mem, a, w, v)
    <2>1. CASE StoreStep
        <3>1. Op = "store"
            BY <2>1 DEF StoreStep, Step, Does, Executes
        <3> DEFINE a == Wrap(regs[code[pc][2]] + code[pc][3])
        <3>2. mem' = WriteTo(mem, a, code[pc][5], regs[code[pc][4]])
            BY <2>1 DEF StoreStep
        <3>3. code[pc][5] \in Widths /\ regs[code[pc][4]] \in Nat
            BY <1>2, <3>1, Places DEF Typed, OperandsFormed, Op
        <3>4. a \in Int
            <4>1. regs[code[pc][2]] \in Int /\ code[pc][3] \in Int
                BY <1>2, <3>1, Places DEF Typed, OperandsFormed, Op
            <4>2. a \in 0 .. Word - 1
                BY <4>1, Wrapped
            <4> QED
                BY <4>2, Places
        <3> QED
            BY <3>2, <3>3, <3>4
    <2>2. CASE StoreSymbolStep
        <3>1. Op = "store_symbol"
            BY <2>2 DEF StoreSymbolStep, Step, Does, Executes
        <3>2. mem' = WriteTo(mem, Symbol, code[pc][3], regs.rax)
            BY <2>2 DEF StoreSymbolStep
        <3>3. code[pc][3] \in Widths /\ regs.rax \in Nat
            BY <1>2, <3>1, Places DEF Typed, OperandsFormed, Op, RegisterNames
        <3>4. Symbol \in Int
            BY <1>2, <3>1, Places DEF Symbol, OperandsFormed, Op
        <3> QED
            BY <3>2, <3>3, <3>4
    <2> QED
        BY <2>1, <2>2
<1>4. MemoryTyped'
    <2>1. \A b \in DOMAIN mem : mem[b] \in 0 .. Byte - 1
        BY DEF Typed, MemoryTyped
    <2>2. DOMAIN mem' = DOMAIN mem
        BY <1>3, WriteDomain
    <2> QED
        BY <1>3, <2>1, <2>2, WriteTyped, Zenon DEF MemoryTyped
<1> QED
    BY <1>1, <1>4 DEF Typed

(* The instructions that compute something in a register.                  *)
LEMMA ByteSet ==
    ASSUME NEW v \in 0 .. Word - 1, NEW c \in {0, 1}
    PROVE  (v - (v % Byte)) + c \in 0 .. Word - 1
<1>1. PICK d \in Nat : Word = Byte * d
    <2>1. /\ Byte \in Nat /\ Place[3] \in Nat /\ Place[5] \in Nat
          /\ Place[3] = Byte * Byte /\ Place[5] = Place[3] * Place[3] /\ Word = Place[5] * Place[5]
        BY Places
    <2>2. \A x, y, z \in Nat : x * y \in Nat /\ (x * y) * z = x * (y * z)
        OBVIOUS
    <2>3. Byte * Place[3] \in Nat /\ Place[5] = Byte * (Byte * Place[3])
        BY <2>1, <2>2
    <2>4. Word = Byte * ((Byte * Place[3]) * Place[5]) /\ (Byte * Place[3]) * Place[5] \in Nat
        BY <2>1, <2>2, <2>3
    <2> QED
        BY <2>4
<1>2. Byte \in Nat \ {0, 1} /\ Word \in Nat /\ v \in Nat
    BY ProcessorAssumption, Places
<1>3. PICK q \in Nat, m \in 0 .. Byte - 1 : m = v % Byte /\ v = Byte * q + m
    BY <1>2, DivMod
<1>4. Byte * q \in Nat /\ Byte * q = v - m
    BY <1>2, <1>3
<1>5. Byte * q + Byte <= Word
    <2>1. CASE q + 1 <= d
        BY <1>1, <1>2, <2>1, MultiplesApart
    <2>2. CASE ~(q + 1 <= d)
        <3>1. d <= q
            BY <2>2
        <3>2. Byte * d <= Byte * q
            <4>1. CASE d = q
                BY <1>2, <1>4, <4>1
            <4>2. CASE d + 1 <= q
                BY <1>2, <4>2, MultiplesApart
            <4> QED
                BY <3>1, <4>1, <4>2
        <3> QED
            BY <1>1, <1>2, <1>3, <1>4, <3>2
    <2> QED
        BY <2>1, <2>2
<1> QED
    BY <1>2, <1>3, <1>4, <1>5

LEMMA ExtendedTyped ==
    ASSUME NEW w \in Widths, NEW r \in Widths, w <= r, NEW v \in 0 .. Place[w + 1] - 1
    PROVE  SignExtended(v, w, r) \in 0 .. Word - 1
<1>1. /\ Place[w + 1] \in Nat /\ Place[r + 1] \in Nat /\ Place[w + 1] <= Place[r + 1]
      /\ Place[r + 1] <= Word /\ Word \in Nat
    BY WidthsOf, Places
<1> QED
    BY <1>1 DEF SignExtended

LEMMA Divided ==
    ASSUME NEW x \in 0 .. Word - 1, NEW y \in 0 .. Word - 1, y # 0, IdivStep,
           regs.rax = x, regs.rdi = y
    PROVE  \E q, m \in 0 .. Word - 1 : regs' = [regs EXCEPT !.rax = q, !.rdx = m]
<1> DEFINE a == Signed(x)
           b == Signed(y)
           Magnitude(z) == IF z < 0 THEN 0 - z ELSE z
           sign == IF (a < 0) = (b < 0) THEN 1 ELSE -1
           q == sign * (Magnitude(a) \div Magnitude(b))
<1>1. regs' = [regs EXCEPT !.rax = Wrap(q), !.rdx = Wrap(a - q * b)]
    BY DEF IdivStep
<1>2. a \in Int /\ b \in Int
    BY SignedInt
<1>3. b # 0
    BY Places DEF Signed
<1>4. Magnitude(a) \in Nat /\ Magnitude(b) \in Nat \ {0}
    BY <1>2, <1>3
<1>5. Magnitude(a) \div Magnitude(b) \in Int /\ sign \in {1, -1}
    BY <1>4
<1>6. q \in Int
    BY <1>5
<1>7. q * b \in Int
    BY <1>2, <1>6
<1>8. a - q * b \in Int
    BY <1>2, <1>7
<1>9. Wrap(q) \in 0 .. Word - 1 /\ Wrap(a - q * b) \in 0 .. Word - 1
    BY <1>6, <1>8, Wrapped
<1> QED
    BY <1>1, <1>9

LEMMA LoadTyped ==
    ASSUME NEW shape, WellStacked(shape), Live(shape), TextFormed, Typed,
           LoadStep \/ LoadSymbolStep
    PROVE  \E v \in 0 .. Word - 1 : regs' = [regs EXCEPT !.rax = v]
<1>1. status = "running" /\ ~Faults
    BY DEF LoadStep, LoadSymbolStep, Step, Does, Executes
<1>2. OperandsFormed(code[pc]) /\ \A b \in DOMAIN mem : mem[b] \in 0 .. Byte - 1
    BY <1>1, Instructed DEF Typed, MemoryTyped
<1>3. CASE LoadStep
    <2> DEFINE w == code[pc][2]
               v == ReadFrom(mem, regs.rax, w)
    <2>1. /\ Op \in {"load", "load_signed"}
          /\ regs' = [regs EXCEPT !.rax = IF Op = "load" THEN v
                                          ELSE SignExtended(v, w, code[pc][3])]
        BY <1>3 DEF LoadStep, Step, Does, Executes
    <2>2. w \in Widths /\ regs.rax \in Int /\ Addresses(regs.rax, w) \subseteq DOMAIN mem
        BY <1>1, <1>2, <2>1, Places DEF OperandsFormed, Op, Faults, Touched, Typed, RegisterNames
    <2>3. v \in 0 .. Place[w + 1] - 1
        BY <1>2, <2>2, ReadTyped
    <2>4. CASE Op = "load"
        <3>1. v \in 0 .. Word - 1
            BY <2>2, <2>3, WidthsOf, Places
        <3> QED
            BY <2>1, <2>4, <3>1
    <2>5. CASE Op = "load_signed"
        <3>1. code[pc][3] \in Widths /\ w <= code[pc][3]
            BY <1>2, <2>5 DEF OperandsFormed, Op
        <3>2. SignExtended(v, w, code[pc][3]) \in 0 .. Word - 1
            BY <2>2, <2>3, <3>1, ExtendedTyped
        <3> QED
            BY <2>1, <2>5, <3>2
    <2> QED
        BY <2>1, <2>4, <2>5
<1>4. CASE LoadSymbolStep
    <2>1. Op = "load_symbol" /\ regs' = [regs EXCEPT !.rax = ReadFrom(mem, Symbol, WordBytes)]
        BY <1>4 DEF LoadSymbolStep, Step, Does, Executes
    <2>2. Symbol \in Int /\ Addresses(Symbol, WordBytes) \subseteq DOMAIN mem
        BY <1>1, <1>2, <2>1, Places DEF OperandsFormed, Op, Faults, Touched, Symbol
    <2>3. WordBytes \in Widths /\ Place[WordBytes + 1] = Word
        BY DEF Widths, WordBytes, Word
    <2>4. ReadFrom(mem, Symbol, WordBytes) \in 0 .. Word - 1
        BY <1>2, <2>2, <2>3, ReadTyped
    <2> QED
        BY <2>1, <2>4
<1> QED
    BY <1>3, <1>4

LEMMA ComputingTyped ==
    ASSUME NEW shape, WellStacked(shape), Live(shape), TextFormed, Typed,
           \/ MovStep \/ LeaStep \/ NegStep \/ AluStep \/ CqoStep \/ SetStep \/ MovzbStep
    PROVE  \E r \in RegisterNames, v \in 0 .. Word - 1 : regs' = [regs EXCEPT ![r] = v]
<1>1. status = "running"
    BY DEF MovStep, LeaStep, NegStep, AluStep, CqoStep, SetStep, MovzbStep, Step, Does, Executes
<1>2. /\ OperandsFormed(code[pc]) /\ Word \in Nat \ {0}
      /\ \A r \in RegisterNames : regs[r] \in 0 .. Word - 1 /\ regs[r] \in Int
      /\ {"rax", "rdi", "rdx", "rbp"} \subseteq RegisterNames
    BY <1>1, Instructed, Places DEF Typed, RegisterNames
<1>3. CASE MovStep
    <2> DEFINE v == IF Op = "mov" THEN regs[code[pc][3]] ELSE Wrap(code[pc][3])
    <2>1. Op \in {"mov", "mov_imm"} /\ regs' = [regs EXCEPT ![code[pc][2]] = v]
        BY <1>3 DEF MovStep, Step, Does, Executes
    <2>2. code[pc][2] \in RegisterNames /\ v \in 0 .. Word - 1
        BY <1>2, <2>1, Wrapped DEF OperandsFormed, Op
    <2> QED
        BY <2>1, <2>2
<1>4. CASE LeaStep
    <2> DEFINE v == IF Op = "lea_frame" THEN Wrap(regs.rbp + code[pc][2])
                    ELSE SymbolAddress(code[pc][2])
    <2>1. Op \in {"lea_frame", "lea_symbol"} /\ regs' = [regs EXCEPT !.rax = v]
        BY <1>4 DEF LeaStep, Step, Does, Executes
    <2>2. CASE Op = "lea_frame"
        <3>1. regs.rbp + code[pc][2] \in Int
            BY <1>2, <2>2 DEF OperandsFormed, Op
        <3>2. v \in 0 .. Word - 1
            BY <2>2, <3>1, Wrapped
        <3> QED
            BY <1>2, <2>1, <3>2
    <2>3. CASE Op = "lea_symbol"
        <3>1. v \in 0 .. Word - 1
            BY <1>2, <2>3 DEF OperandsFormed, Op
        <3> QED
            BY <1>2, <2>1, <3>1
    <2> QED
        BY <2>1, <2>2, <2>3
<1>5. CASE NegStep
    <2>1. regs' = [regs EXCEPT !.rax = Wrap(0 - @)]
        BY <1>5 DEF NegStep
    <2>2. 0 - regs.rax \in Int
        BY <1>2
    <2>3. Wrap(0 - regs.rax) \in 0 .. Word - 1
        BY <2>2, Wrapped
    <2> QED
        BY <1>2, <2>1, <2>3
<1>6. CASE AluStep
    <2>1. /\ Op = "alu"
          /\ regs' = [regs EXCEPT !.rax =
                CASE code[pc][2] = "add" -> Wrap(regs.rax + regs.rdi)
                  [] code[pc][2] = "sub" -> Wrap(regs.rax - regs.rdi)
                  [] code[pc][2] = "mul" -> Wrap(Signed(regs.rax) * Signed(regs.rdi))]
        BY <1>6 DEF AluStep, Step, Does, Executes
    <2>2. code[pc][2] \in {"add", "sub", "mul"}
        BY <1>2, <2>1 DEF OperandsFormed, Op
    <2>3. /\ regs.rax + regs.rdi \in Int /\ regs.rax - regs.rdi \in Int
          /\ Signed(regs.rax) * Signed(regs.rdi) \in Int
        <3>1. Signed(regs.rax) \in Int /\ Signed(regs.rdi) \in Int
            BY <1>2, SignedInt
        <3>2. \A x, y \in Int : x * y \in Int
            OBVIOUS
        <3> QED
            BY <1>2, <3>1, <3>2
    <2>4. /\ Wrap(regs.rax + regs.rdi) \in 0 .. Word - 1 /\ Wrap(regs.rax - regs.rdi) \in 0 .. Word - 1
          /\ Wrap(Signed(regs.rax) * Signed(regs.rdi)) \in 0 .. Word - 1
        BY <2>3, Wrapped
    <2> QED
        BY <1>2, <2>1, <2>2, <2>4
<1>7. CASE CqoStep
    <2>1. regs' = [regs EXCEPT !.rdx = IF Signed(regs.rax) < 0 THEN Word - 1 ELSE 0]
        BY <1>7 DEF CqoStep
    <2>2. Word - 1 \in 0 .. Word - 1 /\ 0 \in 0 .. Word - 1
        BY <1>2
    <2>3. CASE Signed(regs.rax) < 0
        BY <1>2, <2>1, <2>2, <2>3
    <2>4. CASE ~(Signed(regs.rax) < 0)
        BY <1>2, <2>1, <2>2, <2>4
    <2> QED
        BY <2>3, <2>4
<1>8. CASE SetStep
    <2>1. PICK c \in {0, 1} : regs' = [regs EXCEPT !.rax = (@ - (@ % Byte)) + c]
        BY <1>8 DEF SetStep
    <2>2. (regs.rax - (regs.rax % Byte)) + c \in 0 .. Word - 1
        BY <1>2, ByteSet
    <2> QED
        BY <1>2, <2>1, <2>2
<1>9. CASE MovzbStep
    <2>1. regs' = [regs EXCEPT !.rax = @ % Byte]
        BY <1>9 DEF MovzbStep
    <2>2. regs.rax % Byte \in 0 .. Word - 1
        <3>1. Byte \in Nat \ {0} /\ Byte <= Word
            BY WidthsOf, Places DEF Widths
        <3>2. regs.rax % Byte \in 0 .. Byte - 1
            BY <1>2, <3>1
        <3> QED
            BY <1>2, <3>1, <3>2
    <2> QED
        BY <1>2, <2>1, <2>2
<1> QED
    BY <1>3, <1>4, <1>5, <1>6, <1>7, <1>8, <1>9

(* No instruction takes the registers, the memory or the flags out of      *)
(* their types.                                                            *)
LEMMA CallTyped ==
    ASSUME NEW shape, WellStacked(shape), Live(shape), Typed, CallStep
    PROVE  Typed'
<1>1. /\ status = "running" /\ ~Faults /\ Op = "call" /\ flags' = flags
      /\ mem' = WriteTo(mem, regs.rsp - WordBytes, WordBytes, pc + 1)
      /\ regs' = [regs EXCEPT !.rsp = @ - WordBytes]
    BY DEF CallStep, Does, Executes
<1>2. DOMAIN mem \subseteq Nat /\ regs.rsp \in 0 .. Word - 1 /\ pc + 1 \in Nat
    BY <1>1, Here DEF Live, Typed, RegisterNames
<1>3. Addresses(regs.rsp - WordBytes, WordBytes) \subseteq DOMAIN mem
    BY <1>1 DEF Faults, Touched
<1>4. regs.rsp - WordBytes \in 0 .. Word - 1 /\ regs.rsp - WordBytes \in Int
    BY <1>2, <1>3, RoomForWord, Places
<1>5. regs' \in [RegisterNames -> 0 .. Word - 1]
    BY <1>1, <1>4 DEF Typed
<1>6. MemoryTyped'
    <2>1. WordBytes \in Widths /\ \A b \in DOMAIN mem : mem[b] \in 0 .. Byte - 1
        BY DEF Widths, WordBytes, Typed, MemoryTyped
    <2>2. DOMAIN mem' = DOMAIN mem
        BY <1>1, WriteDomain
    <2> QED
        BY <1>1, <1>2, <1>4, <2>1, <2>2, WriteTyped, Zenon DEF MemoryTyped
<1> QED
    BY <1>1, <1>5, <1>6 DEF Typed

LEMMA TypedStep ==
    ASSUME NEW shape, WellStacked(shape), Live(shape), TextFormed, Typed, Run
    PROVE  Typed'
<1>1. regs \in [RegisterNames -> 0 .. Word - 1] /\ {"rax", "rdi", "rsp"} \subseteq RegisterNames
    BY DEF Typed, RegisterNames
<1>2. CASE UNCHANGED <<regs, mem, flags>>
    BY <1>2 DEF Typed, MemoryTyped
<1>3. CASE PushStep \/ PushSymbolStep
    BY <1>3, PushTyped
<1>4. CASE PopStep
    BY <1>4, PopTyped
<1>5. CASE \/ MovStep \/ LeaStep \/ NegStep \/ AluStep \/ CqoStep \/ SetStep \/ MovzbStep
    <2>1. PICK r \in RegisterNames, v \in 0 .. Word - 1 : regs' = [regs EXCEPT ![r] = v]
        BY <1>5, ComputingTyped
    <2>2. mem' = mem /\ flags' = flags
        BY <1>5 DEF MovStep, LeaStep, NegStep, AluStep, CqoStep, SetStep, MovzbStep
    <2> QED
        BY <2>1, <2>2 DEF Typed, MemoryTyped
<1>6. CASE LoadStep \/ LoadSymbolStep
    <2>1. PICK v \in 0 .. Word - 1 : regs' = [regs EXCEPT !.rax = v]
        BY <1>6, LoadTyped
    <2>2. mem' = mem /\ flags' = flags
        BY <1>6 DEF LoadStep, LoadSymbolStep
    <2> QED
        BY <2>1, <2>2 DEF Typed, MemoryTyped
<1>7. CASE StoreStep \/ StoreSymbolStep
    BY <1>7, StoreTyped
<1>8. CASE SubStep
    <2>1. /\ status = "running" /\ Op = "sub_imm" /\ mem' = mem
          /\ regs' = [regs EXCEPT ![code[pc][2]] = Wrap(@ - code[pc][3])]
          /\ flags' = Compared(regs[code[pc][2]], code[pc][3])
        BY <1>8 DEF SubStep, Step, Does, Executes
    <2>2. code[pc][2] \in RegisterNames /\ code[pc][3] \in Int
        BY <2>1, Instructed DEF OperandsFormed, Op
    <2>3. regs[code[pc][2]] - code[pc][3] \in Int
        BY <1>1, <2>2, Places
    <2>4. Wrap(regs[code[pc][2]] - code[pc][3]) \in 0 .. Word - 1
        BY <2>3, Wrapped
    <2>5. regs' = [regs EXCEPT ![code[pc][2]] = Wrap(regs[code[pc][2]] - code[pc][3])]
        BY <2>1
    <2>6. regs' \in [RegisterNames -> 0 .. Word - 1]
        BY <1>1, <2>2, <2>4, <2>5
    <2> QED
        BY <2>1, <2>6, ComparedTyped DEF Typed, MemoryTyped
<1>9. CASE IdivStep
    <2>1. ~Faults /\ Op = "idiv" /\ mem' = mem /\ flags' = flags
        BY <1>9 DEF IdivStep, Step, Does, Executes
    <2>2. regs.rdi # 0
        BY <2>1 DEF Faults, DivisionFails
    <2>3. regs.rax \in 0 .. Word - 1 /\ regs.rdi \in 0 .. Word - 1
        BY <1>1
    <2>4. PICK q, m \in 0 .. Word - 1 : regs' = [regs EXCEPT !.rax = q, !.rdx = m]
        BY <1>9, <2>2, <2>3, Divided
    <2> QED
        BY <1>1, <2>1, <2>4 DEF Typed, MemoryTyped
<1>10. CASE CmpStep
    <2>1. regs' = regs /\ mem' = mem
        BY <1>10 DEF CmpStep
    <2>2. flags' \in [zf : BOOLEAN, lt : BOOLEAN]
        BY <1>10, ComparedTyped DEF CmpStep
    <2> QED
        BY <2>1, <2>2 DEF Typed, MemoryTyped
<1>11. CASE CallStep
    BY <1>11, CallTyped
<1>12. CASE RetStep
    <2>1. /\ status = "running" /\ Op = "ret" /\ mem' = mem /\ flags' = flags
          /\ regs' = [regs EXCEPT !.rsp = @ + WordBytes]
        BY <1>12 DEF RetStep, Does, Executes
    <2>2. regs.rsp + WordBytes \in 0 .. Word - 1
        BY <2>1, PopsBelowTop
    <2> QED
        BY <1>1, <2>1, <2>2 DEF Typed, MemoryTyped
<1> QED
    BY <1>2, <1>3, <1>4, <1>5, <1>6, <1>7, <1>8, <1>9, <1>10, <1>11, <1>12
       DEF Run, PassStep, JumpStep, Fault

LEMMA TypedAtStart ==
    ASSUME Started, Disciplined
    PROVE  Typed /\ pc \in 0 .. Len(code) + 1 /\ (status = "running" => TextFormed)
<1>1. CASE status # "running"
    <2>1. /\ code = <<>> /\ pc = 0 /\ mem = [b \in {} |-> 0]
          /\ regs = [r \in RegisterNames |-> 0] /\ flags = [zf |-> FALSE, lt |-> FALSE]
        BY <1>1 DEF Started, Boot, NotRun
    <2>2. regs \in [RegisterNames -> 0 .. Word - 1]
        <3>1. 0 \in 0 .. Word - 1
            BY Places
        <3> QED
            BY <2>1, <3>1
    <2>3. MemoryTyped /\ flags \in [zf : BOOLEAN, lt : BOOLEAN]
        BY <2>1 DEF MemoryTyped
    <2>4. pc \in 0 .. Len(code) + 1
        BY <2>1
    <2> QED
        BY <1>1, <2>2, <2>3, <2>4 DEF Typed
<1>2. CASE status = "running"
    <2>1. Boot(code, data)
        BY <1>2 DEF Started
    <2>2. pc = Target(Entry("main")) /\ Len(calls) = 1 /\ flags = [zf |-> FALSE, lt |-> FALSE]
        BY <2>1 DEF Boot
    <2>3. AtStart
        BY <1>2, <2>2 DEF AtStart
    <2>4. TextFormed /\ MemoryTyped /\ \E shape : WellStacked(shape)
        BY <2>3 DEF Disciplined
    <2>5. pc \in DOMAIN code /\ Len(code) \in Nat
        BY <2>2, <2>4 DEF WellStacked, LeadsTo
    <2>6. PICK g \in Fill :
             regs = [r \in RegisterNames |->
                        CASE r = "rsp" -> StartRsp
                          [] r = "rbp" -> Top
                          [] OTHER -> ReadFrom([k \in 1 .. WordBytes |-> g], 1, WordBytes)]
        BY <2>1 DEF Boot
    <2>7. StartRsp \in 0 .. Word - 1 /\ Top \in 0 .. Word - 1
        BY ProcessorAssumption, Places DEF StartRsp, Top, Bottom, WordBytes
    <2>8. ReadFrom([k \in 1 .. WordBytes |-> g], 1, WordBytes) \in 0 .. Word - 1
        <3> DEFINE m == [k \in 1 .. WordBytes |-> g]
        <3>1. \A b \in DOMAIN m : m[b] \in 0 .. Byte - 1
            BY ProcessorAssumption
        <3>2. Addresses(1, WordBytes) \subseteq DOMAIN m
            BY DEF Addresses, WordBytes
        <3>3. WordBytes \in Widths /\ Place[WordBytes + 1] = Word
            BY DEF Widths, WordBytes, Word
        <3> HIDE DEF m
        <3>4. ReadFrom(m, 1, WordBytes) \in 0 .. Word - 1
            BY <3>1, <3>2, <3>3, ReadTyped
        <3> QED
            BY <3>4 DEF m
    <2>9. regs \in [RegisterNames -> 0 .. Word - 1]
        BY <2>6, <2>7, <2>8
    <2> QED
        BY <2>2, <2>4, <2>5, <2>9 DEF Typed
<1> QED
    BY <1>1, <1>2

(* In every run of a disciplined program, the registers hold words, the    *)
(* memory holds bytes and pc stays in the text until main returns.         *)
THEOREM TypesKept == Runs /\ []Disciplined => []ProcessorTypeOK
<1> DEFINE Inv == Typed /\ pc \in 0 .. Len(code) + 1 /\ (status = "running" => TextFormed)
<1>1. Started /\ Disciplined => Inv
    BY TypedAtStart
<1>2. Inv /\ StandsWhileRunning /\ StandsWhileRunning' /\ [Run \/ Stopped]_vars => Inv'
    <2> SUFFICES ASSUME Inv, StandsWhileRunning, StandsWhileRunning', [Run \/ Stopped]_vars
                 PROVE  Inv'
        OBVIOUS
    <2>1. CASE UNCHANGED vars
        BY <2>1 DEF vars, loaded, Typed, MemoryTyped, TextFormed, OperandsFormed, SymbolAddress
    <2>2. CASE Run /\ status = "running"
        <3>1. PICK shape : WellStacked(shape) /\ Live(shape)
            BY <2>2 DEF StandsWhileRunning, Standing
        <3>2. Typed'
            BY <2>2, <3>1, TypedStep
        <3>3. code' = code /\ data' = data
            BY <2>2, Frozen DEF loaded
        <3>4. TextFormed'
            BY <2>2, <3>3 DEF TextFormed, OperandsFormed, SymbolAddress
        <3>5. Len(code) \in Nat /\ DOMAIN code = 1 .. Len(code)
            BY <2>2, <3>1, Here
        <3>6. CASE status' = "running"
            <4>1. pc' \in DOMAIN code
                BY <3>3, <3>6 DEF StandsWhileRunning, Standing, Live
            <4> QED
                BY <3>2, <3>3, <3>4, <3>5, <4>1
        <3>7. CASE status' # "running"
            <4>1. pc' = pc \/ pc' = 0
                BY <2>2, <3>7
                   DEF Run, PushStep, PopStep, MovStep, LeaStep, SubStep, LoadStep, StoreStep,
                       LoadSymbolStep, StoreSymbolStep, PushSymbolStep, NegStep, AluStep, CqoStep,
                       IdivStep, CmpStep, SetStep, MovzbStep, PassStep, JumpStep, CallStep, RetStep,
                       Fault, Step
            <4> QED
                BY <3>2, <3>3, <3>4, <3>5, <4>1
        <3> QED
            BY <3>6, <3>7
    <2> QED
        BY <2>1, <2>2, Frozen DEF Stopped
<1>3. Inv => ProcessorTypeOK
    BY DEF Typed, ProcessorTypeOK
<1> QED
    BY <1>1, <1>2, <1>3, StandsAlways, PTL DEF Runs

=============================================================================
