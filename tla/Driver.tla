------------------------------- MODULE Driver -------------------------------
(***************************************************************************)
(* main() of holycc.c: tokenize, write_token, program, write_graph, the    *)
(* header of the assembly and gen for each node of the array code.  A step *)
(* is one round of a loop of tokenize, of program or of main.  The parser, *)
(* the drawing of the graph and the generator are what main calls; module  *)
(* Compiler has them.                                                      *)
(***************************************************************************)
EXTENDS Tokenizer, SequencesExt

CONSTANTS
    Texts,             \* files, each with the nodes it was written for, or NoTree
    NoTree,
    MaxCode,           \* how many elements code has
    MaxGraph,          \* the largest number a name in graph.md has room for
    ReaderOf(_, _),    \* the parser's state before the first of the tokens of a file
    AtEnd(_),          \* at_eof() in a state of the parser
    Parse(_),          \* toplevel(): a node and the state after it
    GraphOf(_),        \* the edges drawn for the nodes, and the last number given
    Generates(_)       \* whether gen() gets through a node

ASSUME DriverAssumption ==
    /\ MaxCode \in Nat /\ MaxGraph \in Nat
    /\ Inputs = {t.file : t \in Texts}

VARIABLES
    meant,         \* the nodes that the file was written for
    stage,         \* what main is doing, or how the compiler ended
    reader,        \* the state of the parser
    code,          \* the nodes of the top level
    files,         \* the files that are written
    graph,         \* the edges in graph.md, as pairs of a parent and a node
    printed,       \* what has been printed
    out            \* what of it arrived

driver == <<meant, stage, reader, code, files, graph, printed, out>>
dvars == <<vars, driver>>

-----------------------------------------------------------------------------
DInit ==
    /\ \E t \in Texts : Start(t.file) /\ meant = t.code
    /\ stage = "tokenize" /\ reader = <<>> /\ code = <<>> /\ files = {} /\ graph = <<>>
    /\ printed = <<>> /\ out = <<>>

Tokenizing == Round /\ UNCHANGED driver

WriteToken ==
    /\ stage = "tokenize" /\ status = "done"
    /\ stage' = "parse" /\ files' = {"token.txt"} /\ reader' = ReaderOf(input, tokens)
    /\ UNCHANGED <<vars, meant, code, graph, printed, out>>

(* One round of program; code is not checked for its length, and a node    *)
(* more than it has elements for goes over what lies behind it.            *)
Toplevel ==
    /\ stage = "parse" /\ ~AtEnd(reader)
    /\ \E x \in {Parse(reader)} :
       /\ reader' = x.s
       /\ IF x.s.end # "" THEN stage' = x.s.end /\ UNCHANGED code
          ELSE IF Len(code) = MaxCode THEN stage' = "overrun" /\ UNCHANGED code
          ELSE code' = Append(code, x.node) /\ UNCHANGED stage
    /\ UNCHANGED <<vars, meant, files, graph, printed, out>>

(* The NULL at the end of code takes an element too.  When there is none   *)
(* left it goes over what lies behind code: the loops over code find it    *)
(* there as well, and whether anything else depends on it is open.         *)
CodeFull == Len(code) = MaxCode
EndOfCode ==
    /\ stage = "parse" /\ AtEnd(reader)
    /\ stage' \in IF CodeFull THEN {"graph", "overrun"} ELSE {"graph"}
    /\ UNCHANGED <<vars, meant, reader, code, files, graph, printed, out>>

(* The file is made first.  A number with a digit more than there is room  *)
(* for is written over what lies behind its name, which keeps the others   *)
(* only (no number has two digits too many).                               *)
Shown(n) == IF n > MaxGraph THEN n \div 10 ELSE n
WriteGraph ==
    /\ stage = "graph"
    /\ files' = files \cup {"graph.md"}
    /\ \E g \in {GraphOf(code)} :
          \/ /\ stage' = "print"
             /\ graph' = [k \in DOMAIN g.es |-> <<Shown(g.es[k][1]), Shown(g.es[k][2])>>]
          \/ g.c > MaxGraph /\ stage' = "overrun" /\ UNCHANGED graph
    /\ UNCHANGED <<vars, meant, reader, code, printed, out>>

(* The directives and the string literals.                                 *)
Header ==
    /\ stage = "print" /\ printed = <<>>
    /\ printed' = <<[kind |-> "header", strs |-> reader.strs]>>
    /\ UNCHANGED <<vars, meant, stage, reader, code, files, graph, out>>

(* One round of the last loop.  What has been printed waits in the buffer  *)
(* of stdout and is lost in a crash, as far as it has not been flushed.    *)
(* An error: the header is counted as one of the nodes.                    *)
GeneratedWithHeader == Len(printed)
Generated == Len(printed) - 1
Gen ==
    /\ stage = "print" /\ printed # <<>> /\ Generated < Len(code)
    /\ LET item == code[Generated + 1] IN
       IF Generates(item)
       THEN printed' = Append(printed, [kind |-> item.kind, name |-> item.name])
            /\ UNCHANGED <<stage, out>>
       ELSE stage' = "crashed" /\ (\E k \in 0 .. Len(printed) : out' = SubSeq(printed, 1, k))
            /\ UNCHANGED printed
    /\ UNCHANGED <<vars, meant, reader, code, files, graph>>

Return ==
    /\ stage = "print" /\ printed # <<>> /\ Generated >= Len(code)
    /\ stage' = "done" /\ out' = printed
    /\ UNCHANGED <<vars, meant, reader, code, files, graph, printed>>

(* How the compiler may have ended: with another exit status than 0, in a  *)
(* loop without end ("hangs"), with 0 ("done"), or in a state that the     *)
(* code does not determine, because memory was read or written that is not *)
(* what it was taken for.  Nothing is known from there on, the exit status *)
(* included.                                                               *)
Failed ==
    \/ status \in {"rejected", "exhausted"}
    \/ stage \in {"rejected", "crashed", "aborted", "unplaced"}
Open == status = "overrun" \/ stage = "overrun"
Running == ~Failed /\ ~Open /\ stage \notin {"hangs", "done"}
Ended == ~Running /\ UNCHANGED dvars

Work ==
    \/ Tokenizing \/ WriteToken \/ Toplevel \/ EndOfCode \/ WriteGraph \/ Header \/ Gen \/ Return

DNext == Work \/ Ended

DSpec == DInit /\ [][DNext]_dvars

(* main goes on once it is called.  This is WF_dvars(Work), with Running   *)
(* for ENABLED Work, which would read the file once more in every state.   *)
DFairSpec == DSpec /\ (<>[]~Running \/ []<><<Work>>_dvars)

-----------------------------------------------------------------------------
DTypeOK ==
    /\ TypeOK
    /\ stage \in {"tokenize", "parse", "graph", "print", "done", "rejected", "crashed",
                  "hangs", "aborted", "unplaced", "overrun"}
    /\ Len(code) <= MaxCode
    /\ files \subseteq {"token.txt", "graph.md"}
    /\ out = SubSeq(printed, 1, Len(out))

(* The exit status tells whether the assembly is whole: when it is 0, all  *)
(* nodes that were parsed have been printed after the header, in their     *)
(* order; when it is not, something is missing, whatever has reached       *)
(* stdout before; and no graph.md is there, not even a begun one, unless   *)
(* the whole list of tokens could be parsed.  Nothing is said of the ends  *)
(* that are Open.                                                          *)
StatusTells ==
    /\ stage = "done" =>
          [k \in 1 .. Len(out) - 1 |-> out[k + 1].name] = [k \in DOMAIN code |-> code[k].name]
    /\ Failed => Len(out) <= Len(code)
    /\ "graph.md" \in files /\ ~Open =>
          stage \in {"print", "done", "crashed"} /\ AtEnd(reader)
=============================================================================
