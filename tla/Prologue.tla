------------------------------ MODULE Prologue ------------------------------
(***************************************************************************)
(* The prologue that gen_func of codegen.c emits for each function, run on *)
(* the frame that Frame laid out: the stores of the argument registers     *)
(* into the slots of the parameters, byte by byte.  The whole file is      *)
(* parsed before the first function is generated.                          *)
(***************************************************************************)
EXTENDS Frame

CONSTANT ArgRegisters   \* how many arguments come in registers (6)

ASSUME RegistersAssumption == ArgRegisters \in Nat

VARIABLES
    stage,   \* "parse", then "gen"
    fn,      \* the function being generated, an index into code
    argn,    \* gen_func's args_count
    frame    \* distance below rbp -> the register byte stored there

pvars == <<stage, fn, argn, frame>>
allvars == <<vars, pvars>>

PInit == Init /\ stage = "parse" /\ fn = 0 /\ argn = 0 /\ frame = <<>>

Parse == stage = "parse" /\ Next /\ UNCHANGED pvars

(* push rbp; mov rbp, rsp; sub rsp, total_offset: a fresh frame.           *)
EnterFunction(k) ==
    /\ fn' = k /\ argn' = Len(code[k].args) /\ frame' = <<>>
    /\ UNCHANGED vars

BeginCodegen ==
    /\ stage = "parse" /\ phase = "toplevel" /\ code # <<>>
    /\ stage' = "gen"
    /\ EnterFunction(1)

(* The register of an int parameter is the 32-bit one, of any other type   *)
(* the 64-bit one.  An error: always the 64-bit one.                       *)
StoreWidthWide(n) == 8
StoreWidth(n) == IF n.ty.elem = "int" /\ ~n.ty.array THEN 4 ELSE 8

(* mov [rbp - offset], register: byte b of the register goes to            *)
(* rbp - offset + b.                                                       *)
Stored(n, k) ==
    LET hit == n.offset - StoreWidth(n) + 1 .. n.offset
    IN [d \in DOMAIN frame \cup hit |->
           IF d \in hit THEN <<k, n.offset - d>> ELSE frame[d]]

(* One round of gen_func's loop.  The parameter list is linked from the    *)
(* last parameter to the first, and args_count counts down with it; beyond *)
(* the sixth no case of the switch applies.                                *)
StoreParam ==
    /\ stage = "gen" /\ argn > 0
    /\ argn' = argn - 1
    /\ frame' = IF argn <= ArgRegisters
                THEN Stored(code[fn].args[argn], argn) ELSE frame
    /\ UNCHANGED <<vars, stage, fn>>

NextFunction ==
    /\ stage = "gen" /\ argn = 0 /\ fn < Len(code)
    /\ EnterFunction(fn + 1)
    /\ UNCHANGED stage

Done == stage = "gen" /\ argn = 0 /\ fn = Len(code) /\ UNCHANGED allvars

PNext == Parse \/ BeginCodegen \/ StoreParam \/ NextFunction \/ Done

PSpec == PInit /\ [][PNext]_allvars

-----------------------------------------------------------------------------
Params == code[fn].args

(* The parameters have names of their own, and none that of a global: such *)
(* a parameter is an ND_GVAR node, and the store of its argument goes to   *)
(* an offset that local_variable never set.                                *)
DistinctNames ==
    /\ \A k, l \in DOMAIN Params : Params[k].name = Params[l].name => k = l
    /\ \A k \in DOMAIN Params : Params[k].kind = "lvar"

(* When the prologue is over, every parameter that came in a register can  *)
(* be read back whole from its slot, also when a later store of another    *)
(* parameter was wider than that parameter.                                *)
ParamsArrive ==
    (stage = "gen" /\ argn = 0 /\ DistinctNames) =>
        \A k \in DOMAIN Params : k <= ArgRegisters =>
            LET n == Params[k] IN
            \A b \in 0 .. Size(n.ty) - 1 :
                /\ n.offset - b \in DOMAIN frame
                /\ frame[n.offset - b] = <<k, b>>

(* The prologue writes inside the frame only: it leaves the saved rbp and  *)
(* the return address above it alone, and what lies below rsp.             *)
StoresInFrame ==
    stage = "gen" /\ DistinctNames => DOMAIN frame \subseteq 1 .. code[fn].total_offset
=============================================================================
