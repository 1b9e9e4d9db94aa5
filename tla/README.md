# A formal model of holycc

This directory is a TLA+ development of **holycc**, the small C compiler of this
repository (`src/*.c`): it reads one C file and prints x86-64 assembly in Intel
syntax. The program is sequential, keeps nothing on disk that it reads again,
and runs once per file. What is hard about it is therefore not concurrency but
*long sequences of legal steps*: a hash table that is probed, marked and rehashed, a frame
whose offsets are assigned while a function is read and turned round afterwards,
and a stack machine emitted instruction by instruction, which is only right if
thousands of pushes, pops, paddings and jumps agree **when the code runs**.

Checked with TLC: `tlc -config <Run>.cfg <Module>.tla`. Proved with TLAPS:
`tlapm <Module>.tla`
for the eight modules with proofs: `LeastNumber`, `HashMapProofs`, `HashMapRefinementProofs`,
`FrameProofs`, `ChibiccFrameProofs`, `TokenizerProofs`, `DriverProofs` and `DisciplineProofs`.

## 1. The system

```
          token.txt           graph.md
              ^                   ^
 main -> tokenize -> program -> write_graph -> gen -> assembly -> processor
         (tokenize.c) (parse.c)  (graphgen.c)  (codegen.c)
                         |  ^
                         v  | hashmap_put/get (lvar_map, str_literal_map)
                      hashmap.c
```

| component | state | operations | what makes it correct | model |
|---|---|---|---|---|
| **hash table** `hashmap.c` | `buckets`, `capacity`, `used`; inside a call `cap`, `nkeys`, two loop counters and the half-filled `map2` | `hashmap_put`, `hashmap_get`, `hashmap_delete`, `rehash` | probing ends; a key is never lost from its probe chain; `used` counts what is used; a put takes effect once; calls return | `HashMap`, `AbstractMap`, `HashMapRefinement`; `HashMapProofs`, `HashMapRefinementProofs` |
| **activation records** `parse.c` (`local_variable`, `func_args_definition`, `toplevel`), `utils.c` (`update_lvar_offset`) | `locals`, `globals`, `lvar_map`, `local_offset`, `args_offset_total`, the nodes of the function | declare a global, begin a function, parameter, begin the body, declare, use, end a function | variables inside the frame, disjoint, and the same at each occurrence | `Frame`, `FrameProofs` |
| **function prologue** `codegen.c` (`gen_func`) | the stack frame, `args_count` | enter a function, store one parameter | every argument is readable from its slot; nothing outside the frame is written | `Prologue`, `FrameProofs` |
| **code generator** `codegen.c` | `label_count`, `rsp_offset`, the text printed | `gen` for functions and globals, `gen_stmt`, `gen_expr` and what they call | the printed code computes what the program says | `Source`, `CodeGen` |
| **generated code** | registers, flags, stack, data section, instruction pointer | one action per kind of instruction | result, stack discipline, no variable damaged, termination | `Assembly`, `Processor`, `Discipline`, `Machine`; `DisciplineProofs` |
| **tokenizer** `tokenize.c` | input pointer, token list | `tokenize` | it ends; tokens cover the input, in order, and are as long as they can be | `Tokenizer`, `TokenizerProofs` |
| **parser** `parse.c`, the cursor of `tokenize.c` | token cursor, `locals`, `globals`, `str_literal_map`, `code[100]` | recursive descent, `consume*`, `expect*` | the right tree; look-ups end; a label for each literal | `Parser` (its trees: `Source`) |
| **driver** `holycc.c` | output files, buffer of stdout, exit status | `main`, `error_at`, `write_token`, `write_graph` | the exit status tells whether the output is whole | `Driver`, `Compiler`; `DriverProofs` |
| **graph output** `graphgen.c` | a node counter for the whole file | `gen_graph*` | the edges make a forest | `Compiler` |
| **chibicc-learn/** | `depth`, list of locals, list of globals | a second compiler typed after chibicc, which shares no code with holycc | results, refusals, stack depth, frame alignment, widths of accesses | `ChibiccParser`, `ChibiccFrame`, `ChibiccCodeGen`, `Chibicc`; `ChibiccFrameProofs` |
| **vector** `vector.c`, **walking helpers** `utils.c`, `strings.c` | a growing array | `vec_*`; `walk_nodes`; `format` | used by nothing, or for printing only | not modelled |
| **test/**, **sample/** | | C programs compiled and linked by the test scripts | | the families of `SamplePrograms` follow them |

Interactions: the parser calls the hash table (`lvar_map` per function) and so
inherits its capacity; `update_lvar_offset` reads sizes back from that map after
the whole function is parsed; code generation starts only after the whole file
is parsed and reads offsets, types and `is_declaration` flags from the nodes;
the code it prints is run long after, by a processor that knows none of this.

`main` ties them together: it writes `token.txt` and `graph.md` on the way and ends
with status 0 only after the last item is printed.

`PROJECT.json` lists the hazards, each at its line.

## 2. The modules

### HashMap, AbstractMap, HashMapRefinement
`HashMap` is `hashmap.c` with one action per loop iteration of `rehash`. `map`
is the client's map, `map2` the new one, `i` and `j` the outer and inner loop
counter, `nkeys` and `cap` the locals of `rehash`.
A put is `BeginPut` (which decides whether a
rehash is due) and `Insert`; between them `RehashCount`, `RehashGrow`,
`RehashCopy`, `RehashCheck` run in the nesting the code has: the counting loop
of line 27 encloses the rest. `get_entry` and the search of
`get_or_insert_entry` are one step each, described by the first probe at which
they stop (`StopsAt`). A failed assertion leads to `"aborted"`, `unreachable()`
to `"unreachable"`, a rehash inside a rehash to `"nested"`; the last two are
states to be shown unreachable. A key is a model value: `fnv_hash`, `strlen` and
`memcmp` are a constant function `Hash` from keys to naturals and equality.

`AbstractMap` is what a client that puts and gets may rely on: a bounded map
whose puts end the process once `Limit` keys are present. `HashMapRefinement` has the
refinement mapping (`Abs`): the contents are what the buckets hold, key by key.

### Frame, Prologue
`Frame` lets an arbitrary source program of globals, functions, parameters,
declarations and uses go by. Each action is the whole handler: `Declare` is
`ident_declaration` with `local_variable`'s lookups, its entry in `locals` and
`lvar_map`, and the node; `EndFunction` is the closing brace with
`update_lvar_offset` over every node and the reset of `local_offset`.
Offsets are counted from `rbp` downwards, so the variable at `rbp-offset`
occupies the distances `offset-size+1 .. offset` (`Bytes`). `local_offset`
is not reset when a function's parameters begin, only when the previous one
ends, as in the code. `MapLimit` stands for the hash table's limit (12 of 16),
with `phase = "aborted"` when it is reached; an undeclared name is
`"rejected"` (`error_at`).

A parameter or local whose name is that of a global becomes a node of the global
(`GNode`), with the offset 0 that `calloc` left; `OldVariable` is that case and that of a
name declared twice.

`Prologue` composes with `Frame`: when parsing is over (`stage = "gen"`) it
runs the stores that `gen_func` prints, one parameter per step in the order
of the linked list, into a frame of bytes `<<argument, byte of register>>`.

### Source, Reference, CodeGen, Assembly, Processor, Discipline, Machine
`Source` has the nodes that the parser builds (with the parser's constructors'
fields). `Reference` is a semantics of them, `Meaning`, written from C and not from the
compiler: it says what `main` returns, or that C leaves it undefined.
`CodeGen` translates `codegen.c` function by function: each operator returns the
instructions that the C function of its name prints. Of the generator's statics,
`label_count` only makes labels unique, and the path to the statement does that
here; `rsp_offset` changes what is printed, so the text carries marks where it
is changed or tested and `TextOf` reads them in the order of printing.

`Assembly` has the instructions that the two compilers print, and `Processor` executes
them: nine registers, the two flags that matter, a
byte-addressed stack, the data section, one action per kind of instruction, faults for a
memory operand outside memory, a failing `idiv`, and a program counter
outside the code. The ghost variable `calls` remembers what each active call
was promised: return address, `rsp`, `rbp`, and the room its frame and
padding took. `Machine` loads what `CodeGen` made of a tree and states what must hold.

`Discipline` says how the two compilers use the stack, as a property of a *text* alone. At each
place a frame has a shape: how far the function is (called at its label, `rbp` pushed, in the
body, giving the frame back) and, in the body, how many words are pushed onto the frame.
`WellStacked(shape)` says that each instruction is allowed where it stands (a `pop` needs
a pushed word, nothing but prologue and epilogue touches `rbp`, nothing adds to `rsp`) and
that every way to a place, by falling through, by a jump or by a call, leads there with
the same shape. `TextShapes` are the shapes that the text suggests by itself, with the height counted
once from the first line of a body to its last, as `depth` of chibicc-learn is; places where no
control gets are dead. `Disciplined` is that, that the prologue of each function makes room for
all its variables (`FramesGiven`, with `prog.frames` for how much they take), that each
`je` follows its comparison (`TestsStand`), that every instruction has operands the processor
knows, with symbols that lie in memory (`TextFormed`), and that the memory is loaded with bytes
(`MemoryTyped`), that control falls or jumps to no other function (`StaysInside`), that nothing is pushed
between statements (`StatementsBare`, but in functions where holycc declares an array); while the text runs,
that what it stores goes to variables of active calls or to globals (`StoresHitVariables`), and that frames
fit below `rsp` (both in `Careful`). `Tidy` is that there are no such functions besides, and that frames
are multiples of 16. The runs check it of the text of every program; `DisciplineProofs` says what follows
from it.

### Tokenizer
`Tokenizer` is `tokenize`: one action per branch of its loop, taken when its
test is the first that succeeds (`Scans`), since the order of the tests decides
what is found. A character is a string of length one, a token its kind, place and
length (`val` follows from them). Inner loops that walk to a mark are one step
(`Until`); `At` and `Begins` are reading a character and `memcmp` there. `error_at` leads to `"rejected"`; a list that
no longer fits in memory is `"exhausted"`. A block comment that is not closed moves `p` two
characters past the NUL, behind the memory of the file, and `tokenize` goes on there. The byte it finds is
mostly 0, which ends the list as the end of the file would; otherwise what follows is
open. `SkipBlock` has both outcomes, the second as `"overrun"`.

### Parser
`Parser` is the recursive descent of `parse.c`. Its C functions share the cursor and the
lists; each operator here takes the record `s` of all of them and returns the one it
leaves behind with its node and type. `s.end` says how the compiler ended: refused by
`error_at`, crashed at a NULL (`error_at(NULL, ...)` among others), aborted by the
assertion of `rehash` (the hash table enters only through its limit), lost in
a circular list, or in `error_at` at the end of the file, which looks for the end of the line behind it
(`"unplaced"`: it only reads there, and exits with 1 if it does not crash). `globals` is the linked list as it is
in memory, with the places of the next entries, because a second declaration of a
global links it in a circle (`LinkGlobal`, `WalkFrom`). The four levels of binary
operators, which the C code spells out four times, are one operator over a table. The
functions call each other round in circles; here each such call goes through
`Parsed`, which knows them by name (`ChibiccParser` does the same).

### Driver, Compiler
`Driver` extends `Tokenizer` and goes on with what `main` does then: `WriteToken`, one
`Toplevel` per round of `program`, `EndOfCode`, `WriteGraph`, `Header`, one `Gen` per
element of `code`, `Return`. What is printed is a list of items, not their text. What
`main` calls is a parameter: the parser (`ReaderOf`, `AtEnd`, `Parse`), the drawing of the graph
(`GraphOf`) and whether the generator gets through a node (`Generates`). `Failed` are the ends
with another exit status than 0; what had been printed before a crash is in the buffer of
stdout, and any part of it may have been written (`out`). `Open` are the places where memory that is not
what it was taken for has been read or written: there the code checks nothing and goes on, to whatever end, status 0
included, so that no property says anything of what follows. There are four: a byte that is not 0
behind an unclosed comment; a node for which `code` has no element; its NULL, for which there is none
(`EndOfCode`); and a node number in the graph with a digit too many (`WriteGraph`, which
has created `graph.md` by then). The last two overwrite few bytes and may do no harm, so that the
run may also go on: over the NULL that is found behind `code` as well, and with a
name cut to three digits (`Shown`).

`Compiler` is the whole program: it has the parser of `Parser`, the graph of `graphgen.c` (`Draw`)
and where the generator meets a node without a type, which is a crash (`GenGoesThrough`), and
the configuration puts them in the place of the parameters.

### SourceText, SamplePrograms
`SamplePrograms` has families of trees after the test files; `SourceText` prints a tree
as C with no more parentheses than needed. Both compilers are then given the text: holycc must
read it back (`ReadsBack`), and chibicc must make a program of it that returns what
`Reference` says.

### ChibiccParser, ChibiccFrame, ChibiccCodeGen, Chibicc
The compiler of `chibicc-learn`: the tokenizer, the parser with its types (`AddType`,
`NewAdd`, `NewSub`, `Declarator`), the layout of frames (`ChibiccFrame`, without recursive
operators, to be proved about) and the generator, again one operator per C function, from the characters of a text to the instructions. `Chibicc` loads these into
`Processor`. `error_tok` is `"rejected"`, the assertion on `depth` `"aborted"`.

## 3. The runs

| run | module | shows |
|---|---|---|
| `hashmap_delete` | MCHashMap | put, get and delete in every order on 4 colliding keys: type, `NeverUnreachable`, `NoNestedRehash`, `UsedCountsBuckets`, `ChainsUnbroken`, `NeverGrows`, and that calls end |
| `hashmap_put_get` | MCHashMap | without delete the table implements `AbstractMap` |
| `hashmap_assert` | MCHashMap | *violation*: `assert(map2.used == nkeys)` fails on the first put above the watermark |
| `hashmap_delete_gone` | MCHashMap | *violation*: a deleted key can come back |
| `frame_layout` | MCPrologue | int and pointer parameters, locals of all types, a global: `WithinFrame`, `LocalsDisjoint`, `OccurrencesAgree`; then the prologues: arguments arrive whole (`ParamsArrive`), stores stay inside the frame (`StoresInFrame`) |
| `prologue_chars` | MCPrologue | *violation*: a char parameter's 8-byte store covers its neighbour |
| `compiled_programs` | MCMachine | 569 programs: result, the types of the processor (`ProcessorTypeOK`), the discipline of the text (`Disciplined`) and what it is for (`ReturnsToCaller`, `NothingLeftButArrays`, `BranchesOnCondition`), nothing damaged (`PushesSpareLocals`, `StoresHitOneVariable`), termination |
| `nested_arguments` | MCMachine | *violation*: `f(f(9, 2), 4)` computes something else |
| `padded_branch` | MCMachine | *violation*: with an odd number of ints declared, `if` takes the wrong branch |
| `compiler_runs` | MCCompiler | 66443 files through the whole of `main`: tokens cover the file and none is split (`NothingLost`, `LongestMatch`), texts of known trees are read back (`ReadsBack`), and no declaration of any other is passed over (`ReadsBack` too), the exit status tells a whole output (`StatusTells`), literals and labels correspond (`LabelsDistinct`), `graph.md` is a forest (`GraphIsForest`), and the compiler ends unless a global is declared twice (`Ends`) |
| `uppercase_names` | MCTokenizer | *violation*: at a name with an upper-case letter it does not |
| `chibicc_programs` | MCChibicc | 382 texts compiled by the chibicc copy and run: results (`ResultCorrect`), refusals (`IllFormedRefused`), the discipline of the text (`Tidy`), the stack between statements (`NothingLeft`, `StackAligned`), the width and place of every access (`AccessesOneElement`), `PushesSpareLocals`, termination. That calls return is left to `Tidy` and the theorem `CallsReturn` |

### Bounds, and why they are enough
* **Hash table.** 4 buckets (5 for the refinement) instead of 16, with the real
  watermarks of 70 and 50 percent. With 4 buckets the table is full from 3
  entries on, with 5 from 4 on, as with 16 from 12 on: in each case one bucket at
  least is still NULL, which is what the arguments rest on
  (`SizeAssumption`). The four keys collide in pairs and wrap round the end.
  The theorems hold for every size that satisfies the assumptions.
* **Frame, Prologue.** Four names, three of which fit in `lvar_map` (`MapLimit` 3): two
  variables that overlap and a third beside them, and a fourth that makes the
  abort happen. Four occurrences of variables in the whole file (`MaxOccurrences`) and
  two functions (`MaxFunctions`) make what is left over from the first visible in the
  second. Names are interchangeable and symmetric. All types of the parser occur: int, char,
  pointer, int and char array. Two argument registers in place of six, so that a third
  parameter has none. The proofs do without any of these being small.
* **Compiler.** Three kinds of files. First, all that up to four of 16 fragments spell one after
  the other, with the newline that `read_file` puts at the end: each mark next to
  each other mark, inside and outside comments and literals, open and closed; every
  keyword alone, before and after a name, a digit, an underscore and itself; every blank of
  `isspace` between two words. Second, the texts
  of the sample programs with their trees. Third, some twenty texts of what else the
  language has and does not have, and each of these and of the middle-sized samples with any one
  character left out, which puts a mistake at every place. `MaxTokens` 150 is
  more than any of them needs. `MapLimit` 12 is the real one (12 of 16 buckets). `MaxCode` 6 stands for 100 and `MaxGraph` 36 for 999:
  files with 5 and 6 globals, and one with more nodes than that, are among them, so that
  both limits are met from both sides. `Shown` cuts one digit, which is right up to ten times `MaxGraph`. Upper-case names have the run of their own.
* **Machine.** A byte has 4 values instead of 256 (`Byte`): an int of 4 bytes
  then has 256 values and a register 65536, and everything that depends on
  *sizes* (1, 4 and 8 byte accesses, offsets, paddings) is as in reality while sums
  and addresses stay within TLC's integers. `StackSize` 192 bytes holds the deepest
  recursion of the programs; the data section lies behind it. `Fuel` 12 bounds the reference semantics only (a
  program that needs more has no meaning and nothing is required of it; of the
  569, 59 have none, among them divisions by zero, negative and overflowing
  results). `Fill` is what uninitialised memory and registers hold at the start.
* **Chibicc.** A byte has 8 values: a char then holds -4 to 3 and a register, which is an int of this compiler,
  numbers up to 2^23, enough for the results of `test.sh` that are kept and for negative ones.
  `StackSize` 512 and `Fuel` 14 as above.

### The program families
The programs that must have their meaning are 500 of the 3456 expressions of two
binary operators and three leaves (every seventh), loops and branches, factorial, Fibonacci (both
forms of the tests), calls of one to six arguments, pointers and arrays with reads
in four syntactic forms, globals side by side and across calls, chars between ints, and literals that are
compared. They keep to what the compiler supports; outside it the
code is wrong in ways that were met while modelling. Some are runs and findings
(see `PROJECT.json`); the others, not run here, are:

* the declaration of an array prints two pushes and its statement one pop: `prog.arrays` excepts
  such functions, in `Disciplined` as in `NothingLeftButArrays` (codegen.c:578-580);
* an int parameter makes the frame 4 bytes longer than a multiple of 8, which
  `adjust_rsp` does not see, so `je` and `jmp` can be reached with `rsp` not
  a multiple of 8, contrary to the comment at codegen.c:671 (no harm to the flags);
* a call is reached with whatever alignment the frame left, although README.md:29
  says it has to be 16;
* only literals are scaled next to a pointer, so `x[i]` with a variable `i` is
  off;
* `*p` loads eight bytes, so a comparison or division of it sees the neighbour;
* the value of an assignment is the address it stored to, so `a = b = 1` fails;
* `**p` is loaded once too seldom on the left of `=`;
* ints are loaded without their sign, so negative ints compare as large ones; the
  reference semantics therefore leaves negative values undefined;
* the seventh argument of a call and the seventh parameter are dropped silently;
* a parameter named like a global is stored at an offset nobody computed; in
  `int x; int f(int x) {...}` the frame has no byte and the store hits the saved `rbp`
  (so `ParamsArrive` and `StoresInFrame` speak of functions without such parameters);
* a global int read in an expression is taken for an address once more, and starts as 4;
* an index of a char array is scaled by 4;
* with an array parameter `args_offset_total` lies below its end and the body's first variable
  overlaps it (`int f(int x[3]) { int y; ...}`): the layout run and its theorems take scalar parameters;
* an argument that begins with `-`, `*`, `(` or a literal ends the list of arguments;
* a block comment that is not closed is no error: the file is mostly compiled as if it were
  closed at its end, with status 0 (the outcomes of `SkipBlock`);
* nothing reports the 101st item of the top level, nor the 1000th node of the graph: they overwrite what lies behind
  `code` and behind the name, and what follows is open (`Open`);
* a mistake at the end of the file makes `error_at` read behind it, and one of the messages
  with a NULL place crashes before it is printed;
* a function gets no epilogue but by `return`: the `main` of test/global_test.c:18
  runs on past its last instruction.

### Fairness
`HashMap`: weak fairness on `Step`, the actions inside a call that has begun:
the client may stop calling, but a C function that runs goes on running.
`Machine`, `Chibicc`: weak fairness on `Run`: the processor goes on. `Tokenizer`: weak
fairness on `Round`: `tokenize`, once called, goes on. `Driver`: weak fairness on `Work`:
`main` goes on until it ends; it is spelled out with `Running`, which holds exactly where
`Work` is enabled, because TLC would evaluate a step to find that out. Nothing else is
assumed, and no run needs fairness for a safety property.

## 4. The proofs

`HashMapProofs` proves of `HashMap`, for **every** set of keys, hash function,
initial size and watermarks under `KeysAssumption`, `SizeAssumption` (the table
counts as full while one bucket at least is NULL) and `OneKeyAssumption` (one key
is below the low watermark):

* `TypeCorrect`, `UnreachableUnreached`, `RehashNotNested`, `UsedCorrect`, `TableNeverGrows`,
  `ChainsKept`.

None of them is inductive. The strengthening `Inv` says that `used` is the
number of non-NULL buckets in both maps and smaller than `capacity`
(`Counted`), and, for a rehash in progress, how full `map2` can be
(`RehashInv`): at most one bucket has been counted in `nkeys` when the copying
starts, so `cap` is still the old capacity; the keys copied are at most the
buckets walked; and whenever `map2` takes a key it is below the high
watermark. A probe loop then ends because linear probing visits every bucket
(`ProbingVisits`) and one of them is NULL (`CountedStops`). That the table
never grows is the other side of the same fact: the loop that counts has counted
one key when the assertion compares.

`ChainsKept` needs `Chained` besides: every bucket between the home of a key and the
bucket it is in holds something, in `map` and in `map2`. A put walks to the first bucket that
can take the key, so it makes no gap (`StopsAt`); a delete leaves a tombstone; and the new
table is filled from nothing.

`HashMapRefinementProofs` proves that `HashMap` implements `AbstractMap`,

* `PutGetImplementsMap`: if `Deletable = {}`, then `Spec => ImplementsMap`.

With a delete it is false (`hashmap_delete_gone`), and the compiler never deletes. The
initial states map to initial states (`InitAbs`) and each step to one of `AbstractMap`'s or to a
stutter (`NextAbs`): `Insert` to the put taking effect, the assertion that fails to the put that
ends the process, all else inside a rehash to nothing. The invariant it needs,
`PutGetInv`, says that there are no tombstones (`Unmarked`), that a key is in one
bucket only (`Distinct`), and where a rehash stands: the assertion is reached with one
key counted, so with two or more present it fails, always. Then the number of
keys *is* `used` (`ContentsSize`), and "too full" in the table and "`Limit` keys present" in
the abstract map are the same moment (`LimitMeans`).

`FrameProofs` proves of `Frame`, for every set of names and types, any number
of functions and variables, **if parameters are scalars** (`ScalarParams`; with
array parameters it is false, see section 3):

* `TypeCorrect`, `FrameLargeEnough`, `SlotsDisjoint`, `OccurrencesSame`.

The invariant behind them speaks of the offsets *before* they are turned
round: `Placed` (variables occupy disjoint intervals below `local_offset`),
`MapAgrees` (`lvar_map` has the size of each local, which `update_lvar_offset`
relies on), `NodesCurrent` (every node is that of the current entry of its
name) and `Sound` (what is turned round already). The lemma `TurnedBytes`
connects the two: turning round maps the interval of a variable to its mirror
image in `1 .. total_offset`.

It proves of `Prologue`, for every program and any number of functions,
parameters and argument registers, **if parameters are ints or pointers** (`WordParams`; with
`char` parameters it is false, see `prologue_chars`), about functions whose
parameters have names of their own (`DistinctNames`):

* `ArgumentsArrive`, `StoresStayInFrame`.

`PInv` adds to `Inv` that the parameters are nodes of their function
with parameter types (`ArgsKnown`), and what the stores so far have left (`Written`): the
argument of each parameter from the last down to `argn + 1` lies whole in its slot
(`Arrived`), and nothing outside the slots of parameters is written. A store keeps it
because its width is the size of the slot (`WordWidth`) and `Sound` says that
the slots are disjoint and inside the frame (`ParamSlots`).

`ChibiccFrameProofs` proves the same of the other compiler, where nothing is turned round and a
parameter is a local like any other. For every list of locals, of any length, whose sizes are natural
numbers and whose `id`s differ (`Formed`; `NewLvar` makes no others: the `id` of a variable is the length of
the list before it, and a size is that of a type, whose array lengths are literals):

* `PlacesDisjoint`, `PlacesInFrame`, `ParametersFit`.

`Taken`, the offset that `assign_lvar_offsets` counts, is a recursive function over positions, and has a
value because a solution of its recursion is built step by step (`TakenExists`); it grows by the sizes
(`TakenSteps`, `TakenGrows`), so each variable has its interval between two values of it (`PlaceOf`).
`ParametersFit` asks that a parameter has one byte or at least eight, which are the sizes of `char`, of
`int` (8 here) and of pointers; a parameter that is an empty array,
or an array of two to seven `char`s, is outside it, and there the store hits the next variable.

`TokenizerProofs` proves of `Tokenizer`, for every set of texts that end with a newline and have
no NUL in them, and any `MaxTokens`:

* `TokensTyped`, `NothingIsLost`, `MatchIsLongest`.

The inductive invariant `ScanInv` holds the tokens to their places (`Fits`), says of each
gap between two tokens, *and of the one between the last token and `p`*, that it is
blanks and comments (`Between`), and what stands where the last token ends. A comment
that is not closed is one of them and takes two characters behind the file with it; a round that starts from
there finds nothing but the end (`Found`), so that only the token of the end lies behind the file. `Between` is
a recursive function over positions; that a further blank or comment extends it
(`BetweenMore`), by induction over the positions, is `SetInduction` of `LeastNumber`: a set of
naturals with 0 and all successors is `Nat`, which the provers can use where they cannot
instantiate the library's induction rule. Of a comment they need to know that the search
stops at the *first* closing mark (`UntilFound`, from `LeastElement`). `NothingIsLost` speaks
of every moment of every run, also of texts that are rejected later.
`MatchIsLongest` has the hypothesis `NamesLower`, that no identifier ends
before a capital: there the code is wrong (`uppercase_names`) and the property false.

Three liveness properties have a core that can be proved. `CallsAdvance` (in `HashMapProofs`) is that of
`CallsEnd`: `Remaining`, computed from the loop counters and from what is still to be done, is
a natural number and every step inside a call makes it smaller, so that a call has an end, whatever
the hash function. `RoundsAdvance` (in `TokenizerProofs`) is that of `Finishes`: a round of `tokenize` takes
`p` further, or is the last, or stands at a capital letter, and that is the one
exception, the finding `uppercase_names`. That "every step gets smaller" together with weak fairness
gives termination is left to TLC.

`TwelveKeys` and `AtMostLimit` (in `HashMapRefinementProofs`) connect the other models with the table: with the
constants of `hashmap.c` the bound is 12, and a table that is only put into never holds more. That
is the `MapLimit` of `Frame`, `Parser` and `Compiler`.

`DriverProofs` proves of `Driver`, for every set of files, every length of `code` and of the
graph's names:

* `MainTokenizes`: `DSpec => Spec`. Every step of `main` is a step of `tokenize` or leaves its
  variables alone, so that `NothingIsLostInMain` and `MatchIsLongestInMain` follow from the
  theorems of `TokenizerProofs`; the parser may rely on them while it reads the list.
* `MainTyped`, `StatusIsTrue`: `DTypeOK` and `StatusTells`, for **every**
  generator and graph and for every parser that satisfies `ParserEnds`. `StatusIsTrue` speaks of the
  ends with status 0 that `main` reaches by itself and of those with another status; of the
  `Open` ones, where the exit status is open too, it says nothing.
* `MainAdvances`: the core of `Ends`, under the same hypothesis: `MainLeft`, computed from the stage, the place in the
  file and what is still to be printed, is a natural number that every step of `main` makes smaller, but for
  the round of `tokenize` at a capital letter.

`ParserEnds` is a hypothesis and no theorem: there is a set of states that the parser does not leave and in
which it goes on or ends in one of the known ways, provided that it begins with a list as `tokenize` makes it
(`Tokenized`, which is proved of the lists it gets). `Parser` is recursive, and so what it does on
every list is out of reach; that it satisfies the hypothesis on the files of `compiler_runs` is what
`DTypeOK` checks there. The invariant `MainInv` says at each stage what has been
printed and what has arrived: while the loop over `code` runs, what has been printed after the header are
the first nodes of `code` (`InStep`); in a crash what has arrived is a beginning of that and lacks
the node that was not printed.

`DisciplineProofs` is about `Processor`, for every size of a byte (even) and of the
stack under `ProcessorAssumption`, and for **every text**:

* `CallsReturn`: `Runs /\ []Disciplined => []ReturnsToCaller`;
* `BranchesFollowTests`: `BranchesOnCondition`; `ControlStays`: while it runs, `pc` is in the text;
  `LocalsSpared`: `PushesSpareLocals`; each from the same hypotheses;
* `TypesKept`: `ProcessorTypeOK`, the type invariant that the runs check, from the same hypotheses;
* `LinksStaySpared`: no store writes over a return address or a saved `rbp`; `OnlyStoresChangeVariables`: no
  step but a store changes a byte of a variable (an action property); `ControlInFunction`: what runs
  is the function of the active call;
* `StatementsLeaveNothing`: `NothingLeftButArrays`; and from `Runs /\ []Tidy`, `NothingLeftAtAll` and
  `StackStaysAligned`: `NothingLeft` and `StackAligned`.

`Runs` is what `Machine` and `Chibicc` do: a text is loaded (`Boot`) and executed by `Run`, or does not run
at all. Most of `Disciplined` speaks of the text before its first instruction; the rest (`Careful`) is a condition
on the values that it computes, which no text can promise: that stores hit variables. It says nothing of
return addresses, saved registers or words that are pushed; that these are spared is proved. What it gives is about all the paths on which a text is executed,
where `depth` and `rsp_offset` are counted along the page: they agree, and this is why.

The invariant is `Live(shape)`. The running function is where the shape of `pc` says, and
`rsp` and `rbp` are where that shape puts them (`Framed`). The word at each call's `rsp` is the return
address that `calls` remembers, and below it the caller's `rbp` (`Linked`). A call
stands as many words below its caller's frame as the shape behind the `call` has (`Chained`), so that
the calls are apart from each other and from what is pushed (`Spaced`). Each class of instructions keeps this
(the lemmas `...Keeps`, and `LiveStep` for all of them). A push is below
every word that `Linked` speaks of; `ret` reads back what `call` wrote, and
that is arithmetic, not an assumption: memory is bytes, and that the eight bytes written are the word
read (`ReadBack`) is a lemma about `\div` and `%` for every base (`TwoDigits`, `Places`).
`ReadFrom` is written without recursion for this, for the widths 1, 4 and 8 that the compilers use.

With it goes `RoomsMade`: every active call has made as much room as
its variables take, but for the last one, which may still be in the four instructions of its
prologue. A prologue is left through its `sub rsp` only, and a call is never made from inside one.
The two are one induction (`RoomyAlways`): the variables lie in the rooms, so that a store to them misses the
words of `Linked` (`VariablesBesideLinks`, `LinksStaySpared`), which keeps `Live`; and `RoomsSpared` has
it that what is pushed lies below all rooms, which gives `LocalsSpared`.

`BareStanding` adds that `pc` and every return address are in the functions that `calls` names
(`InFunctions`), so that what a text promises of one function can be used where that function runs.

`TypesKept` needs that arithmetic once more: what is read from bytes fits in a word (`ReadTyped`),
what is written is bytes (`WriteTyped`), a quotient and a remainder by any divisor but 0 wrap into
words (`Divided`), a `set` changes only the low byte of a word (`ByteSet`). That `rsp` does not grow
past the largest word is the discipline again: a `pop` or a `ret` stands at or below the word at
which the first call began (`PopsBelowTop`).

That the *compilers'* texts are `Disciplined` or `Tidy` is no theorem: `CodeGen`
and `ChibiccCodeGen` are recursive. It is what the runs check, program by program, and where it
fails a program gets no promise: with a pop forgotten in a loop, or an array declared in one, the shapes around it do not agree.

**Model-checked only.** Every liveness property (out of the prover's reach), and everything about
`Parser`, `Compiler`, `CodeGen`, `Machine` and the `Chibicc`
modules other than `ChibiccFrame`, whose recursion over syntax trees and texts is written with
RECURSIVE operators, which the prover does not support: results (`ResultCorrect`), trees
(`ReadsBack`), labels and graphs (`LabelsDistinct`, `GraphIsForest`), refusals (`IllFormedRefused`), and which variable a
store hits (`StoresHitOneVariable`, `AccessesOneElement`), which depends on the addresses that a program computes.

## 5. Not modelled

* `vector.c` and `strings.c`: called by no other file. `walk_nodes` and `node_kind_name`
  of `utils.c` only print.
* In generated code of holycc: pointers to pointers, arrays of char, a character literal as an expression, the address of a
  global. The parser has them.
* `char` parameters in generated code: their prologue is a finding (`prologue_chars`).
* The reading of the file, the check of `argc`, the texts of messages and the formats of
  `token.txt`, `graph.md` and the assembly.
* The bytes of the heap: the buffers that a label of three characters, a node number above 999
  or a 101st top-level item overflow are modelled by where the overflow happens and by what it leaves open (`"overrun"`), the first not at all.

## 6. Plan

1. Character literals and `char` arrays in `CodeGen`.
2. `MapLimit` in `ParserEnds`: which of the parser's ends are possible for which files.

The number of runs is kept small on purpose: new modules take over the runs of
findings that are settled.
