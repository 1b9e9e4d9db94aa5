----------------------------- MODULE MCMachine -----------------------------
(***************************************************************************)
(* Programs for Machine.  Those that must have their meaning stay within   *)
(* limits: an even number of ints where a branch follows, no call of two   *)
(* arguments and no division in an argument, literal indices.  Then        *)
(* programs outside these limits, for each run that shows what happens     *)
(* there.                                                                  *)
(***************************************************************************)
EXTENDS Machine, SamplePrograms

Looping(k) == LoopingFrom(k, <<>>, New("n", Num(0)))
MCPrograms ==
    [k \in 1 .. 5 |-> Looping(k - 1)] \o ControlPrograms \o CallPrograms \o PointerPrograms
    \o DataPrograms \o <<GlobalPointer>> \o ExpressionPrograms

-----------------------------------------------------------------------------
(* An argument that holds a call of two arguments, or a division.          *)
MCNestedArguments ==
    <<<<Function("f", <<IntVar("a"), IntVar("b")>>, <<>>, Block(<<Return(Sub(a, b))>>)),
        MainReturns(Call("f", <<Call("f", <<Num(9), Num(2)>>), Num(4)>>))>>>>

(* One int is declared when an if is reached.                              *)
MCOddInts ==
    <<<<Main(<<IntVar("a")>>, <<New("a", Num(1)), If(Eq(a, Num(0)), Return(Num(5)), NoElse),
                             Return(Num(3))>>)>>>>
=============================================================================
