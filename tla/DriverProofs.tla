---------------------------- MODULE DriverProofs ----------------------------
(***************************************************************************)
(* Proofs about Driver, whatever the parser, the graph and the generator   *)
(* do: main goes through tokenize as Tokenizer says, its exit status tells *)
(* what has been printed, and each of its steps brings it nearer its end.  *)
(***************************************************************************)
EXTENDS Driver, TokenizerProofs

-----------------------------------------------------------------------------
(* Sequences of no matter what.                                            *)
IsSequence(s) == \E S : s \in Seq(S)

LEMMA EmptySequence == IsSequence(<<>>) /\ Len(<<>>) = 0
<1>1. <<>> \in Seq({})
    OBVIOUS
<1> QED
    BY <1>1 DEF IsSequence

LEMMA SequenceFacts ==
    ASSUME NEW s, IsSequence(s)
    PROVE  Len(s) \in Nat /\ DOMAIN s = 1 .. Len(s) /\ (Len(s) = 0 <=> s = <<>>)
<1>1. PICK S : s \in Seq(S)
    BY DEF IsSequence
<1> QED
    BY <1>1

LEMMA AppendSequence ==
    ASSUME NEW s, IsSequence(s), NEW x
    PROVE  /\ IsSequence(Append(s, x)) /\ Len(Append(s, x)) = Len(s) + 1
           /\ Append(s, x)[Len(s) + 1] = x
           /\ \A k \in 1 .. Len(s) : Append(s, x)[k] = s[k]
<1>1. PICK S : s \in Seq(S)
    BY DEF IsSequence
<1>2. PICK T : T = S \cup {x}
    OBVIOUS
<1>3. s \in Seq(T) /\ x \in T
    BY <1>1, <1>2
<1>4. Append(s, x) \in Seq(T)
    BY <1>3
<1> QED
    BY <1>3, <1>4 DEF IsSequence

LEMMA PrefixSequence ==
    ASSUME NEW s, IsSequence(s), NEW n \in 0 .. Len(s)
    PROVE  /\ IsSequence(SubSeq(s, 1, n)) /\ Len(SubSeq(s, 1, n)) = n
           /\ \A k \in 1 .. n : SubSeq(s, 1, n)[k] = s[k]
<1>1. PICK S : s \in Seq(S)
    BY DEF IsSequence
<1>2. SubSeq(s, 1, n) \in Seq(S)
    BY <1>1
<1> QED
    BY <1>1, <1>2 DEF IsSequence

-----------------------------------------------------------------------------
(* tokenize within main.                                                   *)
LEMMA InitTokenizes == DInit => Init
    BY DriverAssumption DEF DInit, Init

LEMMA NextTokenizes == [DNext]_dvars => [Next]_vars
    BY DEF DNext, dvars, driver, Work, Ended, Tokenizing, WriteToken, Toplevel, EndOfCode,
           WriteGraph, Header, Gen, Return, Next

(* main implements Tokenizer: each of its steps is one of tokenize or      *)
(* leaves the file, the pointer and the tokens as they are.                *)
THEOREM MainTokenizes == DSpec => Spec
    BY InitTokenizes, NextTokenizes, PTL DEF DSpec, Spec

(* So the tokens cover the file also while the later stages read them.     *)
THEOREM NothingIsLostInMain == DSpec => []NothingLost
    BY MainTokenizes, NothingIsLost, PTL

THEOREM MatchIsLongestInMain == DSpec => [](NamesLower => LongestMatch)
    BY MainTokenizes, MatchIsLongest, PTL

-----------------------------------------------------------------------------
(* What has been printed and what has arrived, at each stage.              *)
Failures == {"rejected", "crashed", "hangs", "aborted", "unplaced", "overrun"}

(* A list that tokenize may make of a file: the tokens follow each other   *)
(* to its end, or to behind a comment without one, and the last of them,   *)
(* and only that, is the one of the end.                                   *)
Tokenized(x, ts) ==
    /\ Sound(x, ts) /\ EndIn(ts, Len(ts)) \in {Len(x) + 1, Len(x) + 3}
    /\ ts # <<>> /\ \A n \in DOMAIN ts : ts[n].kind = "eof" <=> n = Len(ts)

(* On such a list the parser goes on or ends in a known way: it stays      *)
(* within R, a set of its states in which this is so.                      *)
ParserWithin(R) ==
    /\ \A x \in Inputs : \A ts : Tokenized(x, ts) => ReaderOf(x, ts) \in R
    /\ \A s \in R : ~AtEnd(s) =>
          /\ Parse(s).s.end \in Failures \cup {""}
          /\ Parse(s).s.end = "" => Parse(s).s \in R
ParserEnds == \E R : ParserWithin(R)

(* What is printed after the header are the first nodes of code.           *)
InStep ==
    /\ Len(printed) <= Len(code) + 1
    /\ \A k \in 1 .. Len(printed) - 1 : printed[k + 1].name = code[k].name

MainInv(R) ==
    /\ stage = "parse" => reader \in R
    /\ stage \in {"tokenize", "parse", "graph", "print", "done"} \cup Failures
    /\ IsSequence(code) /\ IsSequence(printed) /\ Len(code) <= MaxCode
    /\ stage # "tokenize" => status = "done"
    /\ files \subseteq {"token.txt", "graph.md"}
    /\ "graph.md" \in files =>
          stage \in {"print", "done", "crashed", "overrun"} /\ AtEnd(reader)
    /\ stage = "graph" => AtEnd(reader)
    /\ stage \in {"tokenize", "parse", "graph"} => printed = <<>>
    /\ stage \in {"print", "done"} => InStep
    /\ stage = "done" => out = printed /\ Len(printed) = Len(code) + 1
    /\ stage \notin {"done", "crashed"} => out = <<>>
    /\ stage = "crashed" =>
          \/ out = <<>>
          \/ \E n \in 1 .. Len(printed) : out = SubSeq(printed, 1, n) /\ n <= Len(code)

LEMMA InitMain ==
    ASSUME NEW R
    PROVE  DInit => MainInv(R)
    BY EmptySequence, DriverAssumption DEF DInit, MainInv, Start

LEMMA TokenizingInv ==
    ASSUME NEW R, MainInv(R), Tokenizing
    PROVE  MainInv(R)'
<1>1. status = "scanning"
    BY DEF Tokenizing, Round, SkipBlank, SkipLine, SkipBlock, Operator, Punctuator, String,
           Character, Keyword, Identifier, Number, Invalid, End, Scans
<1> QED
    BY <1>1 DEF MainInv, Tokenizing, driver, InStep

LEMMA WriteTokenInv ==
    ASSUME NEW R, ParserWithin(R), MainInv(R), ScanInv, EofIsLast, WriteToken
    PROVE  MainInv(R)'
<1>1. Tokenized(input, tokens) /\ input \in Inputs
    BY DEF WriteToken, ScanInv, EofIsLast, Tokenized
<1>2. reader' \in R
    BY <1>1 DEF WriteToken, ParserWithin
<1> QED
    BY <1>2 DEF MainInv, WriteToken, vars, InStep, Failures

LEMMA ToplevelInv ==
    ASSUME NEW R, ParserWithin(R), MainInv(R), Toplevel
    PROVE  MainInv(R)'
<1>1. /\ stage = "parse" /\ status = "done" /\ printed = <<>> /\ out = <<>>
      /\ "graph.md" \notin files
      /\ reader \in R /\ ~AtEnd(reader)
      /\ UNCHANGED <<status, files, printed, out>>
    BY DEF MainInv, Toplevel, vars, Failures
<1>2. PICK x : /\ x = Parse(reader) /\ reader' = x.s
               /\ IF x.s.end # "" THEN stage' = x.s.end /\ UNCHANGED code
                  ELSE IF Len(code) = MaxCode THEN stage' = "overrun" /\ UNCHANGED code
                  ELSE code' = Append(code, x.node) /\ UNCHANGED stage
    BY DEF Toplevel
<1>3. CASE stage' \in Failures /\ UNCHANGED code
    BY <1>1, <1>3, EmptySequence DEF MainInv, Failures
<1>4. CASE x.s.end # ""
    BY <1>1, <1>2, <1>3, <1>4 DEF ParserWithin
<1>5. CASE x.s.end = "" /\ Len(code) = MaxCode
    BY <1>2, <1>3, <1>5 DEF Failures
<1>6. CASE x.s.end = "" /\ Len(code) # MaxCode
    <2>1. code' = Append(code, x.node) /\ stage' = "parse"
        BY <1>1, <1>2, <1>6
    <2>2. IsSequence(code') /\ Len(code') = Len(code) + 1 /\ Len(code) \in Nat
        BY <2>1, AppendSequence, SequenceFacts DEF MainInv
    <2>3. Len(code) <= MaxCode /\ MaxCode \in Nat
        BY DriverAssumption DEF MainInv
    <2>4. PICK n \in Nat : n = Len(code)
        BY <2>2
    <2>5. n + 1 <= MaxCode
        <3>1. n <= MaxCode /\ MaxCode \in Nat
            BY <2>3, <2>4
        <3>2. n # MaxCode
            BY <1>6, <2>4, Zenon
        <3> QED
            BY <3>1, <3>2
    <2>6. Len(code') = n + 1
        BY <2>2, <2>4
    <2>7. reader' \in R
        BY <1>1, <1>2, <1>6 DEF ParserWithin
    <2> QED
        BY <1>1, <2>1, <2>2, <2>5, <2>6, <2>7 DEF MainInv, Failures
<1> QED
    BY <1>4, <1>5, <1>6

LEMMA EndOfCodeInv ==
    ASSUME NEW R, MainInv(R), EndOfCode
    PROVE  MainInv(R)'
<1>1. Len(code) \in Nat
    BY SequenceFacts DEF MainInv
<1> QED
    BY <1>1, DriverAssumption DEF MainInv, EndOfCode, vars, Failures

LEMMA WriteGraphInv ==
    ASSUME NEW R, MainInv(R), WriteGraph
    PROVE  MainInv(R)'
<1>1. Len(code) \in Nat
    BY SequenceFacts DEF MainInv
<1>2. printed = <<>> /\ Len(printed) = 0 /\ printed' = printed
    BY EmptySequence DEF MainInv, WriteGraph
<1>3. InStep /\ (code' = code => InStep')
    BY <1>1, <1>2 DEF InStep
<1> QED
    BY <1>3 DEF MainInv, WriteGraph, vars, Failures

LEMMA HeaderInv ==
    ASSUME NEW R, MainInv(R), Header
    PROVE  MainInv(R)'
<1>1. Len(code) \in Nat
    BY SequenceFacts DEF MainInv
<1>2. PICK h : printed' = <<h>>
    BY DEF Header
<1>3. IsSequence(printed') /\ Len(printed') = 1
    <2>1. <<h>> \in Seq({h}) /\ Len(<<h>>) = 1
        OBVIOUS
    <2> QED
        BY <1>2, <2>1 DEF IsSequence
<1>4. InStep'
    BY <1>1, <1>3 DEF InStep, Header
<1> QED
    BY <1>3, <1>4 DEF MainInv, Header, vars, Failures

LEMMA GenInv ==
    ASSUME NEW R, MainInv(R), Gen
    PROVE  MainInv(R)'
<1>1. /\ stage = "print" /\ Len(printed) - 1 < Len(code) /\ InStep /\ out = <<>>
      /\ UNCHANGED <<status, reader, code, files, graph>>
    BY DEF MainInv, Gen, Generated, vars, Failures
<1>2. /\ IsSequence(printed) /\ IsSequence(code) /\ Len(printed) \in Nat /\ Len(code) \in Nat
      /\ Len(printed) > 0
    BY SequenceFacts DEF MainInv, Gen
<1>3. PICK item : /\ item = code[Len(printed)]
                  /\ \/ /\ printed' = Append(printed, [kind |-> item.kind, name |-> item.name])
                        /\ UNCHANGED <<stage, out>>
                     \/ /\ stage' = "crashed" /\ UNCHANGED printed
                        /\ \E k \in 0 .. Len(printed) : out' = SubSeq(printed, 1, k)
    <2>1. Generated + 1 = Len(printed)
        BY <1>2 DEF Generated
    <2> QED
        BY <2>1 DEF Gen
<1>4. CASE printed' = Append(printed, [kind |-> item.kind, name |-> item.name])
           /\ UNCHANGED <<stage, out>>
    <2>1. /\ IsSequence(printed') /\ Len(printed') = Len(printed) + 1
          /\ printed'[Len(printed) + 1] = [kind |-> item.kind, name |-> item.name]
          /\ \A k \in 1 .. Len(printed) : printed'[k] = printed[k]
        BY <1>2, <1>4, AppendSequence
    <2>2. ASSUME NEW k \in 1 .. Len(printed') - 1
          PROVE  printed'[k + 1].name = code[k].name
        <3>1. CASE k = Len(printed)
            BY <1>3, <2>1, <3>1
        <3>2. CASE k # Len(printed)
            <4>1. k \in 1 .. Len(printed) - 1 /\ k + 1 \in 1 .. Len(printed)
                BY <1>2, <2>1, <3>2
            <4> QED
                BY <1>1, <2>1, <4>1 DEF InStep
        <3> QED
            BY <3>1, <3>2
    <2>3. InStep'
        BY <1>1, <1>2, <2>1, <2>2 DEF InStep
    <2> QED
        BY <1>1, <1>4, <2>1, <2>3 DEF MainInv, Failures
<1>5. CASE stage' = "crashed" /\ UNCHANGED printed
           /\ \E k \in 0 .. Len(printed) : out' = SubSeq(printed, 1, k)
    <2>1. PICK k \in 0 .. Len(printed) : out' = SubSeq(printed, 1, k)
        BY <1>5
    <2>2. k = 0 => out' = <<>>
        <3>1. k = 0 => IsSequence(out') /\ Len(out') = 0
            BY <1>2, <2>1, PrefixSequence
        <3> QED
            BY <3>1, SequenceFacts
    <2>3. k # 0 => k \in 1 .. Len(printed) /\ k <= Len(code)
        BY <1>1, <1>2
    <2>4. \/ out' = <<>>
          \/ \E n \in 1 .. Len(printed') : out' = SubSeq(printed', 1, n) /\ n <= Len(code')
        BY <1>1, <1>5, <2>1, <2>2, <2>3
    <2> QED
        BY <1>1, <1>5, <2>4 DEF MainInv, Failures
<1> QED
    BY <1>3, <1>4, <1>5

LEMMA ReturnInv ==
    ASSUME NEW R, MainInv(R), Return
    PROVE  MainInv(R)'
<1>1. Len(printed) \in Nat /\ Len(code) \in Nat /\ InStep
    BY SequenceFacts DEF MainInv, Return
<1>2. Len(printed) = Len(code) + 1
    BY <1>1 DEF InStep, Return, Generated
<1> QED
    BY <1>1, <1>2 DEF MainInv, Return, vars, InStep, Failures

LEMMA NextMain ==
    ASSUME NEW R, ParserWithin(R)
    PROVE  MainInv(R) /\ ScanInv /\ EofIsLast /\ [DNext]_dvars => MainInv(R)'
<1> SUFFICES ASSUME MainInv(R), ScanInv, EofIsLast, [DNext]_dvars PROVE MainInv(R)'
    OBVIOUS
<1>1. CASE UNCHANGED dvars
    BY <1>1 DEF dvars, vars, driver, MainInv, InStep
<1> QED
    BY <1>1, TokenizingInv, WriteTokenInv, ToplevelInv, EndOfCodeInv, WriteGraphInv,
       HeaderInv, GenInv, ReturnInv
    DEF DNext, Work, Ended

LEMMA SpecMain ==
    ASSUME NEW R, ParserWithin(R)
    PROVE  DSpec => []MainInv(R)
<1>1. DSpec => [](ScanInv /\ EofIsLast)
    BY MainTokenizes, SpecScan, SpecEof, PTL
<1> QED
    BY <1>1, InitMain, NextMain, PTL DEF DSpec

-----------------------------------------------------------------------------
(* As long as the parser ends as parsers can, the variables of main hold   *)
(* what they may, and what has arrived at stdout is the beginning of what  *)
(* was printed.                                                            *)
THEOREM MainTyped ==
    ASSUME ParserEnds
    PROVE  DSpec => []DTypeOK
<1> PICK R : ParserWithin(R)
    BY DEF ParserEnds
<1>1. MainInv(R) => out = SubSeq(printed, 1, Len(out))
    <2> SUFFICES ASSUME MainInv(R) PROVE out = SubSeq(printed, 1, Len(out))
        OBVIOUS
    <2>1. IsSequence(printed) /\ Len(printed) \in Nat
        BY SequenceFacts DEF MainInv
    <2>2. PICK S : printed \in Seq(S)
        BY <2>1 DEF IsSequence
    <2>3. CASE out = <<>>
        BY <2>2, <2>3
    <2>4. CASE out = printed
        BY <2>2, <2>4
    <2>5. CASE \E n \in 1 .. Len(printed) : out = SubSeq(printed, 1, n)
        BY <2>1, <2>5, PrefixSequence
    <2> QED
        BY <2>3, <2>4, <2>5 DEF MainInv
<1>2. TypeOK /\ MainInv(R) => DTypeOK
    BY <1>1 DEF DTypeOK, MainInv, Failures
<1>3. DSpec => []TypeOK
    BY MainTokenizes, TokensTyped, PTL
<1> QED
    BY <1>2, <1>3, SpecMain, PTL

(* A success status means that every node of code has been printed, in     *)
(* its place; another, that one is missing at least; and a graph.md, that  *)
(* all tokens were parsed.  It is said of all ends but those that the code *)
(* leaves open.                                                            *)
THEOREM StatusIsTrue ==
    ASSUME ParserEnds
    PROVE  DSpec => []StatusTells
<1> PICK R : ParserWithin(R)
    BY DEF ParserEnds
<1>1. MainInv(R) => StatusTells
    <2> SUFFICES ASSUME MainInv(R) PROVE StatusTells
        OBVIOUS
    <2>1. Len(printed) \in Nat /\ Len(code) \in Nat /\ DOMAIN code = 1 .. Len(code)
        BY SequenceFacts DEF MainInv
    <2>2. ASSUME stage = "done"
          PROVE  [k \in 1 .. Len(out) - 1 |-> out[k + 1].name]
                     = [k \in DOMAIN code |-> code[k].name]
        <3>1. out = printed /\ Len(out) - 1 = Len(code)
              /\ \A k \in 1 .. Len(code) : out[k + 1].name = code[k].name
            BY <2>1, <2>2 DEF MainInv, InStep
        <3> QED
            BY <2>1, <3>1
    <2>3. ASSUME Failed PROVE Len(out) <= Len(code)
        <3>1. stage # "done"
            BY <2>3 DEF Failed, MainInv
        <3>2. CASE out = <<>>
            BY <2>1, <3>2, EmptySequence
        <3>3. CASE \E n \in 1 .. Len(printed) : out = SubSeq(printed, 1, n) /\ n <= Len(code)
            BY <2>1, <3>3, PrefixSequence DEF MainInv
        <3> QED
            BY <3>1, <3>2, <3>3 DEF MainInv
    <2>4. ~Open => stage # "overrun"
        BY DEF Open
    <2> QED
        BY <2>2, <2>3, <2>4 DEF MainInv, StatusTells
<1> QED
    BY <1>1, SpecMain, PTL
-----------------------------------------------------------------------------
(* How much main still has to do: rounds of tokenize at most as the file   *)
(* has characters, rounds of program at most as code has elements, and as  *)
(* many rounds of the last loop.                                           *)
MainLeft ==
    CASE stage = "tokenize" ->
            2 * MaxCode + 6 + (IF status = "scanning" THEN Len(input) + 4 - p ELSE 0)
      [] stage = "parse" -> 2 * MaxCode + 5 - Len(code)
      [] stage = "graph" -> MaxCode + 4
      [] stage = "print" -> Len(code) + 2 - Len(printed)
      [] OTHER -> 0
StandsAtCapital == status = "scanning" /\ Char(p) \in Upper

LEMMA MainTypes ==
    ASSUME NEW R, MainInv(R), ScanInv
    PROVE  /\ MaxCode \in Nat /\ Len(code) \in 0 .. MaxCode /\ Len(printed) \in Nat
           /\ Len(input) \in Nat /\ p \in 1 .. Len(input) + 3
<1>1. Len(code) \in Nat /\ Len(printed) \in Nat /\ MaxCode \in Nat
    BY SequenceFacts, DriverAssumption DEF MainInv
<1>2. Len(input) \in Nat
    BY InputsAssumption DEF ScanInv
<1> QED
    BY <1>1, <1>2 DEF MainInv, ScanInv

LEMMA LeftIsNatural ==
    ASSUME NEW R, MainInv(R), ScanInv
    PROVE  MainLeft \in Nat
<1>1. stage = "print" => Len(printed) <= Len(code) + 1
    BY DEF MainInv, InStep
<1> QED
    BY <1>1, MainTypes DEF MainLeft

(* Every step of main leaves less to do.                                   *)
LEMMA WorkAdvances ==
    ASSUME NEW R, ParserWithin(R), MainInv(R), ScanInv, EofIsLast, Work, ~StandsAtCapital
    PROVE  MainLeft' < MainLeft
<1>1. /\ MaxCode \in Nat /\ Len(code) \in 0 .. MaxCode /\ Len(printed) \in Nat
      /\ Len(input) \in Nat /\ p \in 1 .. Len(input) + 3
    BY MainTypes
<1>2. stage = "print" => Len(printed) <= Len(code) + 1
    BY DEF MainInv, InStep
<1>3. CASE stage' \in Failures \cup {"done"} /\ stage \in {"parse", "graph", "print"}
    BY <1>1, <1>2, <1>3 DEF MainLeft, Failures
<1>4. CASE Tokenizing
    <2>1. status = "scanning" /\ input' = input
        BY <1>4 DEF Tokenizing, Round, SkipBlank, SkipLine, SkipBlock, Operator, Punctuator, String,
               Character, Keyword, Identifier, Number, Invalid, End, Scans, Add, Quoted, Reject
    <2>2. stage = "tokenize" /\ stage' = stage
        BY <1>4, <2>1 DEF MainInv, Tokenizing, driver
    <2>3. Advances
        BY <1>4, RoundAdvances DEF Tokenizing
    <2>4. p' > p \/ status' # "scanning"
        BY <2>1, <2>3 DEF Advances, StandsAtCapital
    <2>5. p' \in Nat
        <3>1. ScanInv'
            BY NextTokenizes, NextScan DEF DNext
        <3>2. Len(input) \in Nat /\ p' \in 1 .. Len(input) + 3
            BY <1>1, <2>1, <3>1 DEF ScanInv
        <3> QED
            BY <3>2
    <2> QED
        BY <1>1, <2>1, <2>2, <2>4, <2>5 DEF MainLeft
<1>5. CASE WriteToken
    BY <1>1, <1>5 DEF WriteToken, MainLeft
<1>6. CASE Toplevel
    <2>1. stage = "parse" /\ reader \in R /\ ~AtEnd(reader)
        BY <1>6 DEF Toplevel, MainInv
    <2>2. PICK x : /\ x = Parse(reader)
                   /\ IF x.s.end # "" THEN stage' = x.s.end /\ UNCHANGED code
                      ELSE IF Len(code) = MaxCode THEN stage' = "overrun" /\ UNCHANGED code
                      ELSE code' = Append(code, x.node) /\ UNCHANGED stage
        BY <1>6 DEF Toplevel
    <2>3. CASE x.s.end # "" \/ Len(code) = MaxCode
        BY <1>3, <2>1, <2>2, <2>3 DEF ParserWithin, Failures
    <2>4. CASE x.s.end = "" /\ Len(code) # MaxCode
        <3>1. code' = Append(code, x.node) /\ stage' = "parse"
            BY <2>1, <2>2, <2>4
        <3>2. Len(code') = Len(code) + 1
            BY <3>1, AppendSequence DEF MainInv
        <3> QED
            BY <1>1, <2>1, <3>1, <3>2 DEF MainLeft
    <2> QED
        BY <2>3, <2>4
<1>7. CASE EndOfCode
    <2>1. stage = "parse" /\ stage' \in {"overrun", "graph"}
        BY <1>7 DEF EndOfCode
    <2> QED
        BY <1>1, <2>1 DEF MainLeft
<1>8. CASE WriteGraph
    <2>1. stage = "graph" /\ stage' \in {"overrun", "print"} /\ code' = code /\ printed' = <<>>
        BY <1>8 DEF WriteGraph, MainInv
    <2>2. Len(printed') = 0
        BY <2>1, EmptySequence
    <2> QED
        BY <1>1, <2>1, <2>2 DEF MainLeft
<1>9. CASE Header
    <2>1. stage = "print" /\ stage' = "print" /\ code' = code /\ printed = <<>>
        BY <1>9 DEF Header
    <2>2. Len(printed) = 0 /\ Len(printed') = 1
        BY <1>9, <2>1, EmptySequence DEF Header
    <2> QED
        BY <1>1, <2>1, <2>2 DEF MainLeft
<1>10. CASE Gen
    <2>1. stage = "print" /\ code' = code
        BY <1>10 DEF Gen
    <2>2. CASE stage' = "crashed"
        BY <1>3, <2>1, <2>2 DEF Failures
    <2>3. CASE stage' # "crashed"
        <3>1. stage' = stage /\ \E x : printed' = Append(printed, x)
            BY <1>10, <2>3 DEF Gen
        <3>2. Len(printed') = Len(printed) + 1
            BY <3>1, AppendSequence DEF MainInv
        <3> QED
            BY <1>1, <2>1, <3>1, <3>2 DEF MainLeft
    <2> QED
        BY <2>2, <2>3
<1>11. CASE Return
    BY <1>3, <1>11 DEF Return
<1> QED
    BY <1>4, <1>5, <1>6, <1>7, <1>8, <1>9, <1>10, <1>11 DEF Work

(* main ends when what it calls does: what it has left to do is a natural  *)
(* number, and every step makes it smaller, but for the round of tokenize  *)
(* that stands at a capital letter, where p does not move.                 *)
THEOREM MainAdvances ==
    ASSUME ParserEnds
    PROVE  DSpec => /\ [](MainLeft \in Nat)
                    /\ [][Work /\ ~StandsAtCapital => MainLeft' < MainLeft]_dvars
<1> PICK R : ParserWithin(R)
    BY DEF ParserEnds
<1>1. MainInv(R) /\ ScanInv => MainLeft \in Nat
    BY LeftIsNatural
<1>2. MainInv(R) /\ ScanInv /\ EofIsLast /\ [DNext]_dvars
      => [Work /\ ~StandsAtCapital => MainLeft' < MainLeft]_dvars
    BY WorkAdvances
<1>3. DSpec => [](ScanInv /\ EofIsLast)
    BY MainTokenizes, SpecScan, SpecEof, PTL
<1> QED
    BY <1>1, <1>2, <1>3, SpecMain, PTL DEF DSpec
=============================================================================
